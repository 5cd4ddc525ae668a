------------------------------ MODULE Heartbeat ------------------------------
(***************************************************************************)
(* The failover client, tool/clients/failover/heartbeat.py: one thread     *)
(* that attempts a query every interval, detects failovers from the        *)
(* outcomes, registers a test run for each, and stores its results in      *)
(* batches.  Around it: the signal that stops it, the TimescaleDB that may *)
(* refuse any statement, and the observers whose events it tags.           *)
(*                                                                         *)
(* Attempts are numbered; the number stands for wall_ts too, so that an    *)
(* observer event with stamp `at` happened after attempt `at` began and    *)
(* before attempt at + 1 did.  Failovers are numbered in the order they    *)
(* are detected; run 0 is the id the client was started with.              *)
(***************************************************************************)
EXTENDS Naturals, Sequences, FiniteSets, Functions

CONSTANTS
    BatchSize,          \* batch_size (50)
    RecoveryStreak,     \* consecutive successes that end a failover (3)
    AttemptsPerSecond,  \* resolution of a test_run_id: attempts in a second
    MaxAttempts,        \* bound: query attempts
    MaxDbFailures,      \* bound: TimescaleDB statements that raise
    MaxObserved         \* bound: observer events

ASSUME HeartbeatAssumption ==
    /\ BatchSize \in Nat \ {0}
    /\ RecoveryStreak \in Nat \ {0}
    /\ AttemptsPerSecond \in Nat \ {0}
    /\ {MaxAttempts, MaxDbFailures, MaxObserved} \subseteq Nat

VARIABLES
    auto,          \* _auto_test_run: started without a TEST_RUN_ID
    connected,     \* timescale_connstring is not empty
    running,       \* running
    pc,            \* what the loop does next
    sequence,      \* sequence: attempts begun
    outcomes,      \* the outcome of every attempt that ended
    results,       \* results: attempts waiting to be stored
    written,       \* how many of them the current flush has inserted
    inFailover,    \* _in_failover
    streak,        \* _consecutive_successes
    opened,        \* opened[k]: the failed attempt that opened failover k
    run,           \* test_run_id: the failover whose id it is
    clientRows,    \* client_events, in insertion order
    testRuns,      \* test_runs: the ids registered
    observed,      \* observer events, and their rows once stored
    unregistered,  \* failovers whose test_runs insert raised
    summary,       \* per recovery: the failed queries it logged, 0 for no line
    dbFailures     \* statements that have raised

vars == <<auto, connected, running, pc, sequence, outcomes, results, written,
          inFailover, streak, opened, run, clientRows, testRuns, observed,
          unregistered, summary, dbFailures>>

detection == <<inFailover, streak, opened, run>>
database  == <<clientRows, testRuns, observed>>
config    == <<auto, connected>>

Pcs == {"attempt", "query", "register", "tag", "summary", "check",
        "flush", "finalFlush", "done"}

\* The id of failover k is its combination and second: strftime drops the rest.
RunId(k) == opened[k] \div AttemptsPerSecond

Init ==
    /\ auto \in BOOLEAN
    /\ connected \in BOOLEAN
    /\ running = TRUE
    /\ pc = "attempt"
    /\ sequence = 0
    /\ outcomes = <<>>
    /\ results = <<>>
    /\ written = 0
    /\ inFailover = FALSE
    /\ streak = 0
    /\ opened = <<>>
    /\ run = 0
    /\ clientRows = <<>>
    /\ testRuns = {}
    /\ observed = <<>>
    /\ unregistered = {}
    /\ summary = <<>>
    /\ dbFailures = 0

-----------------------------------------------------------------------------
(* The loop of run(). *)

\* The loop condition holds: _attempt_query() takes its sequence and wall_ts.
BeginAttempt ==
    /\ pc = "attempt"
    /\ running
    /\ sequence < MaxAttempts
    /\ sequence' = sequence + 1
    /\ pc' = "query"
    /\ UNCHANGED <<config, running, outcomes, results, written, detection,
                   database, unregistered, summary, dbFailures>>

EndLoop ==
    /\ pc = "attempt"
    /\ ~running
    /\ pc' = "finalFlush"
    /\ UNCHANGED <<config, running, sequence, outcomes, results, written,
                   detection, database, unregistered, summary, dbFailures>>

\* _handle_auto_test_run(): what a success and a failure do to the detection.
Recovers == inFailover /\ streak + 1 >= RecoveryStreak

OnSuccess ==
    /\ streak' = streak + 1
    /\ inFailover' = (inFailover /\ ~Recovers)
    /\ UNCHANGED <<opened, run>>
    /\ pc' = IF Recovers THEN "tag" ELSE "check"

\* Mistake: a failure does not break the streak of successes.
OnFailureKeepsStreak ==
    /\ UNCHANGED streak
    /\ inFailover' = TRUE
    /\ IF inFailover
       THEN UNCHANGED <<opened, run>> /\ pc' = "check"
       ELSE /\ opened' = Append(opened, sequence)
            /\ run' = Len(opened) + 1
            /\ pc' = "register"

OnFailure ==
    /\ streak' = 0
    /\ inFailover' = TRUE
    /\ IF inFailover
       THEN UNCHANGED <<opened, run>> /\ pc' = "check"
       ELSE /\ opened' = Append(opened, sequence)
            /\ run' = Len(opened) + 1
            /\ pc' = "register"

EndAttempt ==
    /\ pc = "query"
    /\ \E ok \in BOOLEAN :
          /\ outcomes' = Append(outcomes, ok)
          /\ results' = Append(results, sequence)
          /\ IF ~auto THEN pc' = "check" /\ UNCHANGED detection
             ELSE IF ok THEN OnSuccess ELSE OnFailure
    /\ UNCHANGED <<config, running, sequence, written, database, unregistered,
                   summary, dbFailures>>

-----------------------------------------------------------------------------
(* The statements of _handle_auto_test_run(), each of which may raise. *)

DbFails ==
    /\ connected => dbFailures < MaxDbFailures
    /\ dbFailures' = IF connected THEN dbFailures + 1 ELSE dbFailures

\* INSERT INTO test_runs: the id is the primary key.
Register ==
    /\ pc = "register"
    /\ connected
    /\ RunId(run) \notin testRuns
    /\ testRuns' = testRuns \cup {RunId(run)}
    /\ pc' = "check"
    /\ UNCHANGED <<config, running, sequence, outcomes, results, written, detection,
                   clientRows, observed, unregistered, summary, dbFailures>>

\* The id is taken, or the statement raised, possibly after it was committed.
RegisterFail ==
    /\ pc = "register"
    /\ \/ connected /\ RunId(run) \in testRuns /\ UNCHANGED <<testRuns, dbFailures>>
       \/ DbFails /\ UNCHANGED testRuns
       \/ DbFails /\ connected /\ testRuns' = testRuns \cup {RunId(run)}
    /\ unregistered' = unregistered \cup {run}
    /\ pc' = "check"
    /\ UNCHANGED <<config, running, sequence, outcomes, results, written, detection,
                   clientRows, observed, summary>>

\* Mistake: the window has no beginning.
InWindowNoStart(e) == e.at < sequence

\* UPDATE observer_events: the rows of the window that have no run yet.
InWindow(e) == opened[run] <= e.at /\ e.at < sequence

Tagged(e) == IF e.stored /\ InWindow(e) /\ e.run = 0 THEN [e EXCEPT !.run = run] ELSE e

TagAll == observed' = [i \in DOMAIN observed |-> Tagged(observed[i])]

Tag ==
    /\ pc = "tag"
    /\ connected
    /\ TagAll
    /\ pc' = "summary"
    /\ UNCHANGED <<config, running, sequence, outcomes, results, written, detection,
                   clientRows, testRuns, unregistered, summary, dbFailures>>

\* It raised, possibly after it was committed.
TagFail ==
    /\ pc = "tag"
    /\ DbFails
    /\ UNCHANGED observed \/ (connected /\ TagAll)
    /\ pc' = "summary"
    /\ UNCHANGED <<config, running, sequence, outcomes, results, written, detection,
                   clientRows, testRuns, unregistered, summary>>

\* SELECT FROM failover_window: total_failures of the rows stored so far.
\* Without a later success the view has no downtime, and formatting it raises.
RunRows(k) ==
    {i \in DOMAIN clientRows :
        clientRows[i].run > 0 /\ RunId(clientRows[i].run) = RunId(k)}

FailureRows(k) == {i \in RunRows(k) : ~outcomes[clientRows[i].seq]}

HasDowntime(k) ==
    \E i \in FailureRows(k), j \in RunRows(k) \ FailureRows(k) :
        clientRows[i].seq < clientRows[j].seq

LoggedFailures(k) == IF HasDowntime(k) THEN Cardinality(FailureRows(k)) ELSE 0

Summarise ==
    /\ pc = "summary"
    /\ connected
    /\ summary' = Append(summary, [run |-> run, failures |-> LoggedFailures(run)])
    /\ pc' = "check"
    /\ UNCHANGED <<config, running, sequence, outcomes, results, written, detection,
                   database, unregistered, dbFailures>>

SummariseFail ==
    /\ pc = "summary"
    /\ DbFails
    /\ pc' = "check"
    /\ UNCHANGED <<config, running, sequence, outcomes, results, written, detection,
                   database, unregistered, summary>>

-----------------------------------------------------------------------------
(* _flush_results(). *)

BatchFull == Len(results) >= BatchSize

CheckBatch ==
    /\ pc = "check"
    /\ pc' = IF BatchFull THEN "flush" ELSE "attempt"
    /\ UNCHANGED <<config, running, sequence, outcomes, results, written, detection,
                   database, unregistered, summary, dbFailures>>

Flushing == pc \in {"flush", "finalFlush"}

AfterFlush == IF pc = "flush" THEN "attempt" ELSE "done"

\* Mistake: the count of inserted results is not reset.
FlushDoneKeepsCount ==
    /\ Flushing
    /\ ~connected \/ written = Len(results)
    /\ results' = <<>>
    /\ pc' = AfterFlush
    /\ UNCHANGED <<config, running, sequence, outcomes, detection, database,
                   unregistered, summary, dbFailures, written>>

\* No results, no database, or every result inserted: the list is cleared.
FlushDone ==
    /\ Flushing
    /\ ~connected \/ written = Len(results)
    /\ results' = <<>>
    /\ written' = 0
    /\ pc' = AfterFlush
    /\ UNCHANGED <<config, running, sequence, outcomes, detection, database,
                   unregistered, summary, dbFailures>>

\* Mistake: the row carries the id the client was started with.
RowOfStart(s) == [seq |-> s, run |-> 0]

\* The row carries the test_run_id of the moment it is inserted.
RowOf(s) == [seq |-> s, run |-> run]

InsertRow ==
    /\ Flushing
    /\ connected
    /\ written < Len(results)
    /\ clientRows' = Append(clientRows, RowOf(results[written + 1]))
    /\ written' = written + 1
    /\ UNCHANGED <<config, running, pc, sequence, outcomes, results, detection,
                   testRuns, observed, unregistered, summary, dbFailures>>

\* Mistake: the results are cleared whether or not they were stored.
FlushFailClears ==
    /\ Flushing
    /\ connected
    /\ DbFails
    /\ written < Len(results)
    /\ results' = <<>>
    /\ written' = 0
    /\ pc' = AfterFlush
    /\ UNCHANGED <<config, running, sequence, outcomes, detection, clientRows,
                   testRuns, observed, unregistered, summary>>

\* connect() or an execute() raised, possibly after its row was committed:
\* the results are kept, and the next flush starts over.
FlushFail ==
    /\ Flushing
    /\ connected
    /\ DbFails
    /\ written < Len(results)
    /\ \/ clientRows' = clientRows
       \/ clientRows' = Append(clientRows, RowOf(results[written + 1]))
    /\ written' = 0
    /\ pc' = AfterFlush
    /\ UNCHANGED <<config, running, sequence, outcomes, results, detection,
                   testRuns, observed, unregistered, summary>>

-----------------------------------------------------------------------------
(* The surroundings. *)

\* SIGINT or SIGTERM.
Shutdown ==
    /\ running
    /\ running' = FALSE
    /\ UNCHANGED <<config, pc, sequence, outcomes, results, written, detection,
                   database, unregistered, summary, dbFailures>>

\* A watcher detects a change; its emitter keeps the event for a while.
ObserverEvent ==
    /\ pc # "done"
    /\ Len(observed) < MaxObserved
    /\ observed' = Append(observed, [at |-> sequence, stored |-> FALSE, run |-> 0])
    /\ UNCHANGED <<config, running, pc, sequence, outcomes, results, written,
                   detection, clientRows, testRuns, unregistered, summary, dbFailures>>

ObserverStore ==
    /\ \E i \in DOMAIN observed :
          /\ ~observed[i].stored
          /\ observed' = [observed EXCEPT ![i].stored = TRUE]
    /\ UNCHANGED <<config, running, pc, sequence, outcomes, results, written,
                   detection, clientRows, testRuns, unregistered, summary, dbFailures>>

-----------------------------------------------------------------------------
ClientStep ==
    \/ BeginAttempt \/ EndAttempt \/ EndLoop
    \/ Register \/ RegisterFail
    \/ Tag \/ TagFail
    \/ Summarise \/ SummariseFail
    \/ CheckBatch \/ FlushDone \/ InsertRow \/ FlushFail

Next == ClientStep \/ Shutdown \/ ObserverEvent \/ ObserverStore

Spec == Init /\ [][Next]_vars

-----------------------------------------------------------------------------
(* Properties *)

TypeOK ==
    /\ {auto, connected, running, inFailover} \subseteq BOOLEAN
    /\ pc \in Pcs
    /\ sequence \in 0..MaxAttempts
    /\ outcomes \in Seq(BOOLEAN) /\ Len(outcomes) \in {sequence - 1, sequence}
    /\ results \in Seq(1..sequence)
    /\ written \in 0..Len(results)
    /\ streak \in 0..MaxAttempts
    /\ opened \in Seq(1..MaxAttempts)
    /\ run \in 0..Len(opened)
    /\ clientRows \in Seq([seq : 1..sequence, run : 0..Len(opened)])
    /\ testRuns \subseteq 0..MaxAttempts
    /\ observed \in Seq([at : 0..sequence, stored : BOOLEAN, run : 0..Len(opened)])
    /\ unregistered \subseteq 1..Len(opened)
    /\ summary \in Seq([run : 1..Len(opened), failures : Nat])
    /\ dbFailures \in 0..MaxDbFailures

Attempts == DOMAIN outcomes
Failed(s) == ~outcomes[s]
RowsOf(s) == {i \in DOMAIN clientRows : clientRows[i].seq = s}

\* The failover an attempt belongs to: the last one opened by then.
FailoverOf(s) == Cardinality({k \in DOMAIN opened : opened[k] <= s})

Unstored  == {s \in Attempts : RowsOf(s) = {}}

\* The process has ended with a list that its last flush could not store.
FinalFlushRaised == pc = "done" /\ results # <<>>

\* What the client may lose, with a database configured: while it runs, nothing,
\* every attempt that ended is a row or waits for a flush; when it has ended, what
\* a final flush that raised left behind (heartbeat.py:286 calls it once and
\* drops the list with the process).  Whichever statements raised, what is not
\* stored is the end of the run and never a hole in it, and an attempt has a
\* second row only when a statement raised (the retry of _flush_results inserts
\* again what the failed flush had committed).
LostOnlyAtTheEnd ==
    connected =>
        /\ pc # "done" => Unstored \subseteq Range(results)
        /\ pc = "done" /\ Unstored # {} => FinalFlushRaised /\ dbFailures > 0
        /\ \A s \in Unstored, r \in Attempts : s < r => r \in Unstored
        /\ \A s \in Attempts : Cardinality(RowsOf(s)) <= 1 + dbFailures

\* RecoveryStreak successes in a row that end at attempt s.
RecoversAt(s) ==
    /\ s >= RecoveryStreak
    /\ \A i \in (s - RecoveryStreak + 1)..s : outcomes[i]

\* The incremental detection agrees with the whole history: the client is in
\* a failover exactly when some failure has had no streak of successes since,
\* and a failover was opened by each failure that found no failover open
\* (heartbeat.py _handle_auto_test_run).
OpenAfter(n) == \E f \in 1..n : Failed(f) /\ \A s \in (f + RecoveryStreak)..n : ~RecoversAt(s)

DetectionMatchesHistory ==
    auto =>
        /\ inFailover = OpenAfter(Len(outcomes))
        /\ Range(opened) = {f \in Attempts : Failed(f) /\ ~OpenAfter(f - 1)}

\* A row is never filed under a failover older than its attempt's own, and
\* while no statement raises fewer than BatchSize attempts that preceded a
\* failover are filed under it: the label is read at the flush, which one
\* batch can hold back (heartbeat.py:158).  The run it names is registered unless
\* that raised: combination_comparison drops rows of other runs.
EarlyRows(k) == {i \in DOMAIN clientRows : clientRows[i].run = k /\ clientRows[i].seq < opened[k]}

LabelledForward ==
    /\ auto => \A i \in DOMAIN clientRows :
                  clientRows[i].run >= FailoverOf(clientRows[i].seq)
    /\ dbFailures = 0 => \A k \in DOMAIN opened : Cardinality(EarlyRows(k)) < BatchSize
    /\ \A k \in {clientRows[i].run : i \in DOMAIN clientRows} \ {0} :
          RunId(k) \in testRuns \/ k \in unregistered

\* The first streak of successes after failover k was opened ends it.
EndedAt(k, s) ==
    /\ RecoversAt(s) /\ s >= opened[k] + RecoveryStreak
    /\ \A r \in (opened[k] + RecoveryStreak)..(s - 1) : ~RecoversAt(r)

\* An observer event tagged with a run happened between the opening of that
\* failover and the success that ended it (heartbeat.py:184-189), and while no
\* statement raises the failed queries that a recovery logs, selected before the
\* rows it is about are written, are no more than there were (heartbeat.py:198).
RecoveryIsItsOwn ==
    /\ \A i \in DOMAIN observed :
          LET e == observed[i]
          IN  e.run > 0 => /\ opened[e.run] <= e.at
                           /\ \E s \in Attempts : EndedAt(e.run, s) /\ e.at < s
    /\ dbFailures = 0 => \A i \in DOMAIN summary :
          summary[i].failures <= Cardinality({s \in Attempts : Failed(s)})

-----------------------------------------------------------------------------
(* What the documents say. *)

\* tool/README.md:71, "each one is tracked separately": a failed query is
\* filed under the failover it was part of.
TrackedSeparately ==
    auto => \A i \in DOMAIN clientRows :
        LET r == clientRows[i] IN Failed(r.seq) => r.run = FailoverOf(r.seq)
=============================================================================
