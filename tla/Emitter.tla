------------------------------- MODULE Emitter -------------------------------
(***************************************************************************)
(* The event emitter of an observer, tool/observers/core/emitter.py.       *)
(*                                                                         *)
(* Two threads share the buffer: the caller (the watcher's thread, which   *)
(* emits and at the end runs stop()) and the background flush thread.  A   *)
(* step of the model is what one thread does between two points where the  *)
(* other can interfere: a section under _lock, one autocommitted INSERT,   *)
(* one read of the stop event.                                             *)
(*                                                                         *)
(* An event is the number of its emit() call.                              *)
(***************************************************************************)
EXTENDS Naturals, Sequences, FiniteSets, Functions

CONSTANTS
    BatchSize,     \* batch_size: emit() flushes when the buffer is this long
    MaxEvents,     \* bound: emit() calls
    MaxFailures    \* bound: flushes that raise

ASSUME EmitterAssumption ==
    /\ BatchSize \in Nat \ {0}
    /\ MaxEvents \in Nat
    /\ MaxFailures \in Nat

VARIABLES
    connected,  \* timescale_connstring is not empty
    emitted,    \* emit() calls so far
    buffer,     \* _buffer
    batch,      \* per thread: `events`, the copy its flush() is writing
    written,    \* per thread: how many of that copy have been inserted
    pc,         \* per thread: where it is
    stopping,   \* _stop_event
    rows,       \* the rows of observer_events, in insertion order
    failures,   \* how many flushes have raised
    unclean     \* stop() gave up on the flush thread, its own flush raised,
                \* or the process was killed

vars == <<connected, emitted, buffer, batch, written, pc, stopping, rows,
          failures, unclean>>

Threads == {"caller", "flusher"}

CallerPc  == {"idle", "check", "flush", "insert", "join",
              "finalFlush", "finalInsert", "stopped", "exited", "killed"}
FlusherPc == {"loop", "wait", "flush", "insert", "done"}

Goto(t, to) == pc' = [pc EXCEPT ![t] = to]

\* A daemon thread runs until its process exits.
Running == pc["caller"] \notin {"exited", "killed"}

FlushesAt   == {"flush", "finalFlush"}
InsertsAt   == {"insert", "finalInsert"}

\* Mistake: the flush thread goes back to where the caller goes.
ResumeAsCaller(t) == IF pc[t] \in {"finalFlush", "finalInsert"} THEN "stopped" ELSE "idle"

\* Where flush() returns to.
Resume(t) ==
    IF t = "flusher" THEN "loop"
    ELSE IF pc[t] \in {"finalFlush", "finalInsert"} THEN "stopped" ELSE "idle"

-----------------------------------------------------------------------------
Init ==
    /\ connected \in BOOLEAN
    /\ emitted = 0
    /\ buffer = <<>>
    /\ batch = [t \in Threads |-> <<>>]
    /\ written = [t \in Threads |-> 0]
    /\ pc = [t \in Threads |-> IF t = "caller" THEN "idle" ELSE "loop"]
    /\ stopping = FALSE
    /\ rows = <<>>
    /\ failures = 0
    /\ unclean = FALSE

\* emit(), its first section under the lock.
Emit ==
    /\ pc["caller"] = "idle"
    /\ emitted < MaxEvents
    /\ emitted' = emitted + 1
    /\ buffer' = Append(buffer, emitted + 1)
    /\ Goto("caller", "check")
    /\ UNCHANGED <<connected, batch, written, stopping, rows, failures, unclean>>

\* emit(), its second section: the flush thread may have run in between.
ShouldFlush == Len(buffer) >= BatchSize

CheckBatch ==
    /\ pc["caller"] = "check"
    /\ Goto("caller", IF ShouldFlush THEN "flush" ELSE "idle")
    /\ UNCHANGED <<connected, emitted, buffer, batch, written, stopping, rows, failures, unclean>>

-----------------------------------------------------------------------------
(* flush(), by either thread. *)

\* Nothing buffered: return at once.
FlushEmpty(t) ==
    /\ Running
    /\ pc[t] \in FlushesAt
    /\ buffer = <<>>
    /\ Goto(t, Resume(t))
    /\ UNCHANGED <<connected, emitted, buffer, batch, written, stopping, rows, failures, unclean>>

\* No database configured: the copied events are dropped.
FlushDiscard(t) ==
    /\ Running
    /\ pc[t] \in FlushesAt
    /\ buffer # <<>>
    /\ ~connected
    /\ buffer' = <<>>
    /\ Goto(t, Resume(t))
    /\ UNCHANGED <<connected, emitted, batch, written, stopping, rows, failures, unclean>>

\* Mistake: the buffer is copied and not cleared.
FlushTakeCopies(t) ==
    /\ Running
    /\ pc[t] \in FlushesAt
    /\ buffer # <<>>
    /\ connected
    /\ batch' = [batch EXCEPT ![t] = buffer]
    /\ Goto(t, IF pc[t] = "flush" THEN "insert" ELSE "finalInsert")
    /\ UNCHANGED <<connected, emitted, buffer, written, stopping, rows, failures, unclean>>

\* The buffer moves to the thread, which goes on without the lock.
FlushTake(t) ==
    /\ Running
    /\ pc[t] \in FlushesAt
    /\ buffer # <<>>
    /\ connected
    /\ batch' = [batch EXCEPT ![t] = buffer]
    /\ buffer' = <<>>
    /\ Goto(t, IF pc[t] = "flush" THEN "insert" ELSE "finalInsert")
    /\ UNCHANGED <<connected, emitted, written, stopping, rows, failures, unclean>>

\* One execute() on the autocommit connection: a row of its own transaction.
InsertRow(t) ==
    /\ Running
    /\ pc[t] \in InsertsAt
    /\ written[t] < Len(batch[t])
    /\ rows' = Append(rows, batch[t][written[t] + 1])
    /\ written' = [written EXCEPT ![t] = @ + 1]
    /\ UNCHANGED <<connected, emitted, buffer, batch, pc, stopping, failures, unclean>>

FlushDone(t) ==
    /\ Running
    /\ pc[t] \in InsertsAt
    /\ written[t] = Len(batch[t])
    /\ batch' = [batch EXCEPT ![t] = <<>>]
    /\ written' = [written EXCEPT ![t] = 0]
    /\ Goto(t, Resume(t))
    /\ UNCHANGED <<connected, emitted, buffer, stopping, rows, failures, unclean>>

\* Mistakes: the batch replaces what was emitted meanwhile; it is dropped.
PutBackOverwrites(t) == batch[t]
PutBackForgets(t) == buffer

\* connect() or an execute() raised: the whole copy goes back in front of
\* what was emitted meanwhile.  The statement that raised may have been
\* committed by the server before the connection broke.
PutBack(t) == batch[t] \o buffer

FlushFail(t) ==
    /\ Running
    /\ pc[t] \in InsertsAt
    /\ failures < MaxFailures
    /\ written[t] < Len(batch[t])
    /\ \/ rows' = rows
       \/ rows' = Append(rows, batch[t][written[t] + 1])
    /\ buffer' = PutBack(t)
    /\ batch' = [batch EXCEPT ![t] = <<>>]
    /\ written' = [written EXCEPT ![t] = 0]
    /\ failures' = failures + 1
    /\ unclean' = (unclean \/ pc[t] = "finalInsert")
    /\ Goto(t, Resume(t))
    /\ UNCHANGED <<connected, emitted, stopping>>

-----------------------------------------------------------------------------
(* _flush_loop(), by the background thread. *)

LoopTest ==
    /\ Running
    /\ pc["flusher"] = "loop"
    /\ Goto("flusher", IF stopping THEN "done" ELSE "wait")
    /\ UNCHANGED <<connected, emitted, buffer, batch, written, stopping, rows, failures, unclean>>

\* Mistake: the loop waits and does not flush.
WaitOverNoFlush ==
    /\ Running
    /\ pc["flusher"] = "wait"
    /\ Goto("flusher", "loop")
    /\ UNCHANGED <<connected, emitted, buffer, batch, written, stopping, rows, failures, unclean>>

\* wait(1.0) returns when the second is over or the event is set.
WaitOver ==
    /\ Running
    /\ pc["flusher"] = "wait"
    /\ Goto("flusher", "flush")
    /\ UNCHANGED <<connected, emitted, buffer, batch, written, stopping, rows, failures, unclean>>

-----------------------------------------------------------------------------
(* stop(), by the caller once its watcher has returned. *)

\* Mistake: stop() does not join the flush thread.
StopWithoutJoin ==
    /\ pc["caller"] = "idle"
    /\ stopping' = TRUE
    /\ Goto("caller", "finalFlush")
    /\ UNCHANGED <<connected, emitted, buffer, batch, written, rows, failures, unclean>>

Stop ==
    /\ pc["caller"] = "idle"
    /\ stopping' = TRUE
    /\ Goto("caller", "join")
    /\ UNCHANGED <<connected, emitted, buffer, batch, written, rows, failures, unclean>>

Joined ==
    /\ pc["caller"] = "join"
    /\ pc["flusher"] = "done"
    /\ Goto("caller", "finalFlush")
    /\ UNCHANGED <<connected, emitted, buffer, batch, written, stopping, rows, failures, unclean>>

\* Mistake: join() without a timeout.
JoinNeverTimesOut == FALSE

\* join(timeout=5) gives up: a connect() or an execute() may take longer.
JoinTimeout ==
    /\ pc["caller"] = "join"
    /\ pc["flusher"] # "done"
    /\ unclean' = TRUE
    /\ Goto("caller", "finalFlush")
    /\ UNCHANGED <<connected, emitted, buffer, batch, written, stopping, rows, failures>>

\* The agent returns after stop(); until then the flush thread may go on.
Exit ==
    /\ pc["caller"] = "stopped"
    /\ Goto("caller", "exited")
    /\ UNCHANGED <<connected, emitted, buffer, batch, written, stopping, rows, failures, unclean>>

\* SIGKILL (docker stop after its grace period): no finally block runs.
Kill ==
    /\ Running
    /\ Goto("caller", "killed")
    /\ unclean' = TRUE
    /\ UNCHANGED <<connected, emitted, buffer, batch, written, stopping, rows, failures>>

-----------------------------------------------------------------------------
Flush(t) == FlushEmpty(t) \/ FlushDiscard(t) \/ FlushTake(t) \/ InsertRow(t) \/ FlushDone(t)

CallerStep  == CheckBatch \/ Joined \/ JoinTimeout \/ Exit \/ Flush("caller")
FlusherStep == LoopTest \/ WaitOver \/ Flush("flusher")

Next ==
    \/ Emit
    \/ Stop
    \/ Kill
    \/ CallerStep
    \/ FlusherStep
    \/ \E t \in Threads : FlushFail(t)

Spec == Init /\ [][Next]_vars

\* What the caller does without waiting for the database.
CallerOwn ==
    \/ CheckBatch \/ Joined \/ JoinTimeout \/ Exit
    \/ FlushEmpty("caller") \/ FlushDiscard("caller") \/ FlushTake("caller")

\* What it waits for: connect() and execute() have no timeout.
CallerDatabase == InsertRow("caller") \/ FlushDone("caller")

\* The caller's own steps are never put off for ever; any flush, of either
\* thread, may hang once it talks to the database.
CallerFairSpec == Spec /\ WF_vars(CallerOwn)

\* Premises: the database answers the caller; the flush thread is scheduled
\* and the database answers it.
CallerAnswered == WF_vars(CallerDatabase)
FlusherFair    == WF_vars(FlusherStep)

-----------------------------------------------------------------------------
(* Properties *)

Events == 1..emitted
InMemory == Range(buffer) \cup Range(batch["caller"]) \cup Range(batch["flusher"])

TypeOK ==
    /\ connected \in BOOLEAN
    /\ emitted \in Nat
    /\ buffer \in Seq(Nat)
    /\ batch \in [Threads -> Seq(Nat)]
    /\ written \in [Threads -> Nat]
    /\ pc \in [Threads -> CallerPc \cup FlusherPc]
    /\ pc["caller"] \in CallerPc
    /\ pc["flusher"] \in FlusherPc
    /\ stopping \in BOOLEAN
    /\ rows \in Seq(Nat)
    /\ failures \in Nat
    /\ unclean \in BOOLEAN

\* With a database configured, an emitted event is at every moment a row, in
\* the buffer, or in the copy some thread is writing: no interleaving of the
\* two flushes, and no failure of either, drops it (emitter.py flush()).
NothingDropped == connected => Events \subseteq Range(rows) \cup InMemory

\* An event has at most one copy in memory: the two threads never hold the
\* same event, and putting a batch back does not double it (emitter.py
\* flush(): copy and clear are one section under the lock).
OneCopyInMemory ==
    /\ \A i, j \in DOMAIN buffer : buffer[i] = buffer[j] => i = j
    /\ \A t \in Threads :
          /\ \A i, j \in DOMAIN batch[t] : batch[t][i] = batch[t][j] => i = j
          /\ Range(batch[t]) \cap Range(buffer) = {}
    /\ Range(batch["caller"]) \cap Range(batch["flusher"]) = {}

\* When stop() has returned, the flush thread was joined and the final flush
\* did not raise, every event emitted is a row (emitter.py stop()).
StopDrains ==
    connected /\ pc["caller"] \in {"stopped", "exited"} /\ ~unclean
        => Events \subseteq Range(rows)

(* The strengthening that makes NothingDropped and StopDrains inductive. *)

OnlyEmitted == Range(rows) \cup InMemory \subseteq Events

MayHold == InsertsAt \cup {"killed"}

HeldBy(t) ==
    /\ pc[t] \notin MayHold => batch[t] = <<>> /\ written[t] = 0
    /\ \A i \in 1..Len(batch[t]) : i <= written[t] => batch[t][i] \in Range(rows)

BatchHeld == \A t \in Threads : HeldBy(t)

ShutdownOrder ==
    ~unclean =>
        /\ pc["caller"] \in {"finalFlush", "finalInsert", "stopped", "exited"}
              => pc["flusher"] = "done"
        /\ pc["caller"] \in {"finalInsert", "stopped", "exited"} => buffer = <<>>
        /\ pc["caller"] # "killed"

IInv ==
    /\ TypeOK
    /\ OnlyEmitted
    /\ NothingDropped
    /\ BatchHeld
    /\ ShutdownOrder

\* The emitter is an at-least-once log (module EventLog).
Log == INSTANCE EventLog WITH
          durable  <- connected,
          accepted <- emitted,
          stored   <- Range(rows),
          unclean  <- unclean,
          open     <- Running
ImplementsLog == Log!Spec

\* As long as the process lives, failures end and the database answers both
\* threads, every event becomes a row without waiting for further events
\* (emitter.py:43, "low-volume watchers").
EventuallyStored ==
    FlusherFair /\ CallerAnswered /\ connected => \A e \in 1..MaxEvents :
        (e \in Events) ~> (e \in Range(rows) \/ ~Running)

\* A flush thread that hangs in the database does not hold up stop(): its join
\* is bounded (emitter.py:163), so stop() reaches its own flush whatever that
\* thread does, and returns if the database answers this last flush, which has
\* no bound of its own (emitter.py:164).
StopReturns ==
    /\ stopping ~> pc["caller"] \in {"finalInsert", "stopped", "exited", "killed"}
    /\ CallerAnswered =>
          (stopping ~> pc["caller"] \in {"stopped", "exited", "killed"})
=============================================================================
