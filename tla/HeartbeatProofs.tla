--------------------------- MODULE HeartbeatProofs ---------------------------
(***************************************************************************)
(* Theorems about module Heartbeat, for any batch size, streak, resolution *)
(* of a run's id and number of attempts, failures and observed events.     *)
(***************************************************************************)
EXTENDS Heartbeat, DataFacts

-----------------------------------------------------------------------------
(* The inductive invariant. *)

Ended == Len(outcomes)

Typed ==
    /\ auto \in BOOLEAN /\ connected \in BOOLEAN
    /\ running \in BOOLEAN /\ inFailover \in BOOLEAN
    /\ pc \in Pcs
    /\ sequence \in Nat /\ sequence <= MaxAttempts
    /\ outcomes \in Seq(BOOLEAN)
    /\ sequence = IF pc = "query" THEN Ended + 1 ELSE Ended
    /\ dbFailures \in Nat /\ dbFailures <= MaxDbFailures

\* What waits and what is stored are attempts; none waits twice.
Queued ==
    /\ results \in Seq(Nat)
    /\ \A j \in DOMAIN results : results[j] \in Attempts
    /\ \A i, j \in DOMAIN results : i < j => results[i] < results[j]
    /\ written \in Nat /\ written <= Len(results)
    /\ ~Flushing => written = 0
    /\ clientRows \in Seq([seq : Nat, run : Nat])
    /\ \A i \in DOMAIN clientRows :
          clientRows[i].seq \in Attempts /\ clientRows[i].run <= Len(opened)

\* A failover is opened by a failure, and the last one is current.
Opened ==
    /\ opened \in Seq(Nat)
    /\ \A k \in DOMAIN opened : opened[k] \in Attempts /\ Failed(opened[k])
    /\ run = Len(opened)
    /\ streak \in Nat /\ streak <= Ended
    /\ inFailover \/ pc \in {"register", "tag", "summary"} => auto /\ run >= 1

\* With a database, an attempt that ended is stored or in the list.
Kept ==
    connected => \A s \in Attempts :
        /\ s \in Range(results) \/ RowsOf(s) # {}
        /\ Cardinality(RowsOf(s)) <= 1 + dbFailures

\* What a row may have cost: one insertion, and one for each statement raised.
\* The first `written` of the waiting attempts are stored, the others have only
\* the rows that failed flushes left.
Stored ==
    connected =>
        /\ Kept
        /\ \A j \in DOMAIN results :
              IF j <= written THEN RowsOf(results[j]) # {}
              ELSE Cardinality(RowsOf(results[j])) <= dbFailures

\* Rows appear in the order of the attempts, and an ended client has a list left
\* only if its final flush raised.
PrefixStored ==
    connected =>
        /\ \A r, s \in Attempts : s < r /\ RowsOf(r) # {} => RowsOf(s) # {}
        /\ FinalFlushRaised => dbFailures > 0

\* Until its run has been registered, no row is filed under a failover.
Registered ==
    /\ \A k \in DOMAIN opened :
          RunId(k) \in testRuns \/ k \in unregistered \/ (pc = "register" /\ k = run)
    /\ pc = "register" => \A i \in DOMAIN clientRows : clientRows[i].run # run

Forward == auto => \A i \in DOMAIN clientRows :
    clientRows[i].run >= FailoverOf(clientRows[i].seq)

\* The attempts before failover k that wait, and will be filed under it.
EarlyWaiting(k) == {j \in DOMAIN results : j > written /\ results[j] < opened[k]}

OneBatch ==
    dbFailures = 0 =>
        /\ Len(results) <= BatchSize
        /\ pc \in {"attempt", "query"} => Len(results) < BatchSize
        /\ \A k \in DOMAIN opened : Cardinality(EarlyRows(k)) < BatchSize
        /\ run >= 1 => Cardinality(EarlyRows(run)) + Cardinality(EarlyWaiting(run)) < BatchSize

\* The streak is that of the history.
Counted ==
    auto => /\ \A i \in 1..Ended : i > Ended - streak => outcomes[i]
            /\ streak < Ended => Failed(Ended - streak)
            /\ inFailover => streak < RecoveryStreak

Unrecovered ==
    /\ inFailover => \A r \in (opened[run] + RecoveryStreak)..Ended : ~RecoversAt(r)
    /\ pc = "tag" => EndedAt(run, Ended)

Observed ==
    /\ observed \in Seq([at : Nat, stored : BOOLEAN, run : Nat])
    /\ \A i \in DOMAIN observed :
          /\ observed[i].at <= sequence /\ observed[i].run <= Len(opened)
          /\ observed[i].run > 0 => /\ opened[observed[i].run] <= observed[i].at
                                    /\ \E s \in Attempts : EndedAt(observed[i].run, s)
                                                          /\ observed[i].at < s

Logged ==
    /\ testRuns \subseteq 0..MaxAttempts
    /\ unregistered \subseteq 1..Len(opened)
    /\ summary \in Seq([run : Nat, failures : Nat])
    /\ \A i \in DOMAIN summary : summary[i].run \in 1..Len(opened)
    /\ dbFailures = 0 => \A i \in DOMAIN summary :
          summary[i].failures <= Cardinality({s \in Attempts : Failed(s)})

IInv ==
    /\ Typed /\ Queued /\ Opened /\ Stored /\ PrefixStored /\ Registered /\ Forward /\ OneBatch
    /\ Counted /\ DetectionMatchesHistory /\ Unrecovered /\ Observed /\ Logged

-----------------------------------------------------------------------------
(* What a step changes. *)

\* Only the end of an attempt touches the outcomes and the detection.
LEMMA DetectionFrame ==
    ASSUME [Next]_vars, ~EndAttempt
    PROVE  /\ auto' = auto /\ connected' = connected
           /\ outcomes' = outcomes /\ inFailover' = inFailover /\ streak' = streak
           /\ opened' = opened /\ run' = run
  BY DEF Next, ClientStep, vars, detection, config, BeginAttempt, EndLoop, Register, RegisterFail,
     Tag, TagFail, Summarise, SummariseFail, CheckBatch, FlushDone, InsertRow, FlushFail,
     Shutdown, ObserverEvent, ObserverStore

\* Only a flush touches what waits and the rows of the client.
LEMMA QueueFrame ==
    ASSUME [Next]_vars, ~EndAttempt, ~FlushDone, ~InsertRow, ~FlushFail
    PROVE  results' = results /\ written' = written /\ clientRows' = clientRows
  BY DEF Next, ClientStep, vars, database, BeginAttempt, EndLoop, Register, RegisterFail,
     Tag, TagFail, Summarise, SummariseFail, CheckBatch,
     Shutdown, ObserverEvent, ObserverStore

\* Where the loop goes from where it is.
LEMMA LoopFrame ==
    ASSUME Typed, [Next]_vars
    PROVE  \/ pc' = pc /\ sequence' = sequence
           \/ pc = "attempt" /\ pc' = "query" /\ sequence' = sequence + 1 /\ sequence' <= MaxAttempts
           \/ pc = "attempt" /\ pc' = "finalFlush" /\ sequence' = sequence
           \/ EndAttempt /\ pc = "query" /\ pc' \in {"register", "tag", "check"} /\ sequence' = sequence
           \/ pc = "register" /\ pc' = "check" /\ sequence' = sequence
           \/ pc = "tag" /\ pc' = "summary" /\ sequence' = sequence
           \/ pc = "summary" /\ pc' = "check" /\ sequence' = sequence
           \/ /\ pc = "check" /\ sequence' = sequence /\ results' = results
              /\ pc' = IF BatchFull THEN "flush" ELSE "attempt"
           \/ pc = "flush" /\ pc' = "attempt" /\ sequence' = sequence
           \/ pc = "finalFlush" /\ pc' = "done" /\ sequence' = sequence
<1>1. CASE BeginAttempt
  BY <1>1, HeartbeatAssumption DEF BeginAttempt, Typed
<1>2. CASE EndLoop
  BY <1>2 DEF EndLoop
<1>3. CASE EndAttempt
  BY <1>3 DEF EndAttempt, OnSuccess, OnFailure
<1>4. CASE Register \/ RegisterFail
  BY <1>4 DEF Register, RegisterFail
<1>5. CASE Tag \/ TagFail
  BY <1>5 DEF Tag, TagFail
<1>6. CASE Summarise \/ SummariseFail
  BY <1>6 DEF Summarise, SummariseFail
<1>7. CASE CheckBatch
  BY <1>7 DEF CheckBatch
<1>8. CASE FlushDone \/ FlushFail
  BY <1>8 DEF FlushDone, FlushFail, Flushing, AfterFlush
<1>9. CASE InsertRow \/ Shutdown \/ ObserverEvent \/ ObserverStore \/ UNCHANGED vars
  BY <1>9 DEF InsertRow, Shutdown, ObserverEvent, ObserverStore, vars
<1>. QED BY <1>1, <1>2, <1>3, <1>4, <1>5, <1>6, <1>7, <1>8, <1>9 DEF Next, ClientStep

\* The end of an attempt: its outcome, and what the detection makes of it.
LEMMA AttemptEnds ==
    ASSUME Typed, EndAttempt
    PROVE  /\ auto' = auto /\ connected' = connected
           /\ written' = written /\ clientRows' = clientRows /\ dbFailures' = dbFailures
           /\ testRuns' = testRuns /\ observed' = observed
           /\ unregistered' = unregistered /\ summary' = summary
           /\ pc = "query" /\ sequence = Ended + 1 /\ sequence' = sequence
           /\ results' = Append(results, Ended + 1)
           /\ outcomes' \in Seq(BOOLEAN) /\ Ended \in Nat /\ Ended' = Ended + 1
           /\ Attempts = 1..Ended /\ Attempts' = 1..(Ended + 1)
           /\ \A i \in 1..Ended : outcomes'[i] = outcomes[i]
           /\ \/ /\ ~auto /\ pc' = "check"
                 /\ UNCHANGED <<inFailover, streak, opened, run>>
              \/ /\ auto /\ outcomes'[Ended + 1]
                 /\ streak' = streak + 1 /\ inFailover' = (inFailover /\ ~Recovers)
                 /\ UNCHANGED <<opened, run>>
                 /\ pc' = IF Recovers THEN "tag" ELSE "check"
              \/ /\ auto /\ ~outcomes'[Ended + 1]
                 /\ streak' = 0 /\ inFailover' = TRUE /\ inFailover
                 /\ UNCHANGED <<opened, run>> /\ pc' = "check"
              \/ /\ auto /\ ~outcomes'[Ended + 1]
                 /\ streak' = 0 /\ inFailover' = TRUE /\ ~inFailover
                 /\ opened' = Append(opened, Ended + 1)
                 /\ run' = Len(opened) + 1 /\ pc' = "register"
<1>1. /\ auto' = auto /\ connected' = connected
      /\ written' = written /\ clientRows' = clientRows /\ dbFailures' = dbFailures
      /\ testRuns' = testRuns /\ observed' = observed
      /\ unregistered' = unregistered /\ summary' = summary
      /\ pc = "query" /\ sequence' = sequence
  BY DEF EndAttempt, config, database
<1>2. PICK ok \in BOOLEAN :
         /\ outcomes' = Append(outcomes, ok)
         /\ results' = Append(results, sequence)
         /\ IF ~auto THEN pc' = "check" /\ UNCHANGED detection
            ELSE IF ok THEN OnSuccess ELSE OnFailure
  BY DEF EndAttempt
<1>3. sequence = Ended + 1 /\ Ended \in Nat
  BY <1>1 DEF Typed, Ended
<1>4. /\ outcomes' \in Seq(BOOLEAN) /\ Ended' = Ended + 1
      /\ Attempts = 1..Ended /\ Attempts' = 1..(Ended + 1)
      /\ \A i \in 1..Ended : outcomes'[i] = outcomes[i]
      /\ outcomes'[Ended + 1] = ok
  BY <1>2 DEF Typed, Ended, Attempts
<1>5. CASE ~auto
  BY <1>1, <1>2, <1>3, <1>4, <1>5 DEF detection
<1>6. CASE auto /\ ok
  <2>1. OnSuccess /\ outcomes'[Ended + 1]
    BY <1>2, <1>4, <1>6
  <2>2. /\ streak' = streak + 1 /\ inFailover' = (inFailover /\ ~Recovers)
        /\ UNCHANGED <<opened, run>> /\ pc' = IF Recovers THEN "tag" ELSE "check"
    BY <2>1 DEF OnSuccess
  <2>. QED BY <1>1, <1>2, <1>3, <1>4, <1>6, <2>1, <2>2
<1>7. CASE auto /\ ~ok
  <2>1. OnFailure /\ ~outcomes'[Ended + 1]
    BY <1>2, <1>4, <1>7
  <2>2. streak' = 0 /\ inFailover' = TRUE
    BY <2>1 DEF OnFailure
  <2>3. \/ inFailover /\ UNCHANGED <<opened, run>> /\ pc' = "check"
        \/ /\ ~inFailover /\ opened' = Append(opened, Ended + 1)
           /\ run' = Len(opened) + 1 /\ pc' = "register"
    BY <1>3, <2>1 DEF OnFailure
  <2>. QED BY <1>1, <1>2, <1>3, <1>4, <1>7, <2>1, <2>2, <2>3
<1>. QED BY <1>5, <1>6, <1>7

\* Outside the flush nothing is being written.
LEMMA FlushFrame ==
    ASSUME [Next]_vars, ~FlushDone, ~InsertRow, ~FlushFail
    PROVE  pc' = pc \/ ~Flushing
  BY DEF Next, ClientStep, vars, Flushing, BeginAttempt, EndAttempt, EndLoop, Register, RegisterFail,
     Tag, TagFail, Summarise, SummariseFail, CheckBatch, Shutdown, ObserverEvent, ObserverStore

\* What a flush does to the queue and the rows.
LEMMA FlushSteps ==
    ASSUME Typed, Queued, Opened, FlushDone \/ InsertRow \/ FlushFail
    PROVE  /\ ~EndAttempt /\ Flushing /\ written \in Nat /\ written <= Len(results)
           /\ Len(results) \in Nat /\ sequence' = sequence
           /\ testRuns' = testRuns /\ observed' = observed
           /\ unregistered' = unregistered /\ summary' = summary
           /\ \/ /\ FlushDone /\ pc' \in {"attempt", "done"} /\ (connected => written = Len(results))
                 /\ results' = <<>> /\ written' = 0 /\ UNCHANGED <<clientRows, dbFailures>>
              \/ /\ InsertRow /\ pc' = pc /\ connected /\ written < Len(results)
                 /\ results[written + 1] \in Attempts /\ written + 1 \in DOMAIN results
                 /\ clientRows' = Append(clientRows, RowOf(results[written + 1]))
                 /\ written' = written + 1 /\ UNCHANGED <<results, dbFailures>>
              \/ /\ FlushFail /\ pc' \in {"attempt", "done"} /\ connected /\ written < Len(results)
                 /\ results[written + 1] \in Attempts /\ written + 1 \in DOMAIN results
                 /\ \/ clientRows' = clientRows
                    \/ clientRows' = Append(clientRows, RowOf(results[written + 1]))
                 /\ written' = 0 /\ UNCHANGED results /\ dbFailures' = dbFailures + 1
<1>1. /\ Flushing /\ written \in Nat /\ written <= Len(results) /\ Len(results) \in Nat
      /\ \A j \in 1..Len(results) : j \in DOMAIN results /\ results[j] \in Attempts
  BY DEF Queued, FlushDone, InsertRow, FlushFail
<1>2. ~EndAttempt
  BY <1>1 DEF EndAttempt, Flushing
<1>3. CASE FlushDone
  BY <1>1, <1>2, <1>3 DEF FlushDone, AfterFlush, database
<1>4. CASE InsertRow
  BY <1>1, <1>2, <1>4 DEF InsertRow
<1>5. CASE FlushFail
  BY <1>1, <1>2, <1>5 DEF FlushFail, AfterFlush, DbFails
<1>. QED BY <1>3, <1>4, <1>5

-----------------------------------------------------------------------------
(* The steps. *)

\* The loop counts an attempt when it begins and knows its outcome when it ends.
LEMMA TypedStep ==
    ASSUME IInv, [Next]_vars
    PROVE  Typed'
<1>1. Typed
  BY DEF IInv
<1>2. /\ auto' \in BOOLEAN /\ connected' \in BOOLEAN
      /\ running' \in BOOLEAN /\ inFailover' \in BOOLEAN
  <2>1. auto' = auto /\ connected' = connected
    BY <1>1, DetectionFrame, AttemptEnds
  <2>2. running' = running \/ running' = FALSE
    BY Zenon DEF Next, ClientStep, vars, BeginAttempt, EndAttempt, EndLoop, Register, RegisterFail,
     Tag, TagFail, Summarise, SummariseFail, CheckBatch, FlushDone, InsertRow, FlushFail,
     Shutdown, ObserverEvent, ObserverStore
  <2>3. inFailover' \in BOOLEAN
    <3>1. CASE EndAttempt
      BY <1>1, <3>1, AttemptEnds DEF Typed
    <3>2. CASE ~EndAttempt
      BY <1>1, <3>2, DetectionFrame DEF Typed
    <3>. QED BY <3>1, <3>2
  <2>4. running' \in BOOLEAN
    BY <1>1, <2>2, Zenon DEF Typed
  <2>. QED BY <1>1, <2>1, <2>3, <2>4 DEF Typed
<1>3. outcomes' \in Seq(BOOLEAN)
  <2>1. CASE EndAttempt
    BY <1>1, <2>1, AttemptEnds
  <2>2. CASE ~EndAttempt
    BY <1>1, <2>2, DetectionFrame DEF Typed
  <2>. QED BY <2>1, <2>2
<1>4. pc' \in Pcs
  BY <1>1, LoopFrame DEF Typed, Pcs
<1>5. sequence' \in Nat /\ sequence' <= MaxAttempts
  BY <1>1, LoopFrame DEF Typed
<1>6. sequence' = IF pc' = "query" THEN Ended' + 1 ELSE Ended'
  <2>1. CASE EndAttempt
    BY <1>1, <2>1, AttemptEnds
  <2>2. CASE ~EndAttempt
    <3>1. Ended' = Ended /\ Ended \in Nat
      BY <1>1, <2>2, DetectionFrame DEF Ended, Typed
    <3>. QED BY <1>1, <2>2, <3>1, LoopFrame DEF Typed
  <2>. QED BY <2>1, <2>2
<1>7. dbFailures' \in Nat /\ dbFailures' <= MaxDbFailures
  <2>1. MaxDbFailures \in Nat
    BY HeartbeatAssumption
  <2>2. dbFailures' = dbFailures \/ DbFails
    BY DEF Next, ClientStep, vars, BeginAttempt, EndAttempt, EndLoop, Register, RegisterFail,
     Tag, TagFail, Summarise, SummariseFail, CheckBatch, FlushDone, InsertRow, FlushFail,
     Shutdown, ObserverEvent, ObserverStore
  <2>. QED BY <1>1, <2>1, <2>2 DEF Typed, DbFails
<1>. QED BY <1>2, <1>3, <1>4, <1>5, <1>6, <1>7 DEF Typed, Ended

\* The queue holds attempts in order, and a row is one of an attempt.
LEMMA QueuedStep ==
    ASSUME IInv, [Next]_vars
    PROVE  Queued'
<1>1. Typed /\ Queued /\ Opened
  BY DEF IInv
<1> DEFINE RowType == [seq : Nat, run : Nat]
<1>2. CASE EndAttempt
  <2>1. /\ results' = Append(results, Ended + 1) /\ written' = written /\ clientRows' = clientRows
        /\ Attempts = 1..Ended /\ Attempts' = 1..(Ended + 1) /\ Ended \in Nat /\ pc = "query"
    BY <1>1, <1>2, AttemptEnds
  <2>1a. Len(opened') >= Len(opened) /\ Len(opened) \in Nat /\ Len(opened') \in Nat
    <3>1. opened' = opened \/ opened' = Append(opened, Ended + 1)
      BY <1>1, <1>2, AttemptEnds
    <3>2. opened \in Seq(Nat) /\ Ended + 1 \in Nat
      BY <1>1, <2>1 DEF Opened
    <3>3. Len(opened) \in Nat /\ Len(Append(opened, Ended + 1)) = Len(opened) + 1
      BY <3>2
    <3>. QED BY <3>1, <3>3
  <2>2. /\ results' \in Seq(Nat) /\ Len(results') = Len(results) + 1
        /\ results'[Len(results) + 1] = Ended + 1
        /\ \A j \in DOMAIN results : j \in DOMAIN results' /\ results'[j] = results[j]
        /\ \A j \in DOMAIN results' : j \in DOMAIN results \/ j = Len(results) + 1
        /\ Len(results) \in Nat /\ DOMAIN results = 1..Len(results)
    <3>1. Ended + 1 \in Nat /\ results \in Seq(Nat)
      BY <1>1, <2>1 DEF Queued
    <3>2. Len(results) \in Nat /\ DOMAIN results = 1..Len(results)
      BY <3>1
    <3>. QED BY <2>1, <3>1, <3>2, AppendShape
  <2>3. \A j \in DOMAIN results' : results'[j] \in Attempts'
    BY <1>1, <2>1, <2>2 DEF Queued
  <2>4. ASSUME NEW i \in DOMAIN results', NEW j \in DOMAIN results', i < j
        PROVE  results'[i] < results'[j]
    <3>1. i \in DOMAIN results /\ results'[i] = results[i] /\ results[i] \in 1..Ended
      BY <1>1, <2>1, <2>2, <2>4 DEF Queued
    <3>2. CASE j \in DOMAIN results
      BY <1>1, <2>2, <2>4, <3>1, <3>2 DEF Queued
    <3>3. CASE j = Len(results) + 1
      BY <2>1, <2>2, <3>1, <3>3
    <3>. QED BY <2>2, <3>2, <3>3
  <2>5. written' = 0 /\ written' <= Len(results')
    BY <1>1, <2>1, <2>2 DEF Queued, Flushing
  <2>6. /\ clientRows' \in Seq(RowType)
        /\ \A i \in DOMAIN clientRows' :
              clientRows'[i].seq \in Attempts' /\ clientRows'[i].run <= Len(opened')
    <3>1. clientRows \in Seq(RowType)
      BY <1>1 DEF Queued
    <3>2. ASSUME NEW i \in DOMAIN clientRows
          PROVE  clientRows[i].seq \in Attempts' /\ clientRows[i].run <= Len(opened')
      <4>1. clientRows[i].run \in Nat
        <5> HIDE DEF RowType
        <5>1. clientRows[i] \in RowType
          BY <3>1
        <5>. QED BY <5>1 DEF RowType
      <4>2. clientRows[i].seq \in Attempts /\ clientRows[i].run <= Len(opened)
        BY <1>1 DEF Queued
      <4>. QED BY <2>1, <2>1a, <4>1, <4>2
    <3>. QED BY <2>1, <3>1, <3>2
  <2>. QED BY <2>2, <2>3, <2>4, <2>5, <2>6 DEF Queued
<1>3. CASE ~EndAttempt
  <2>1. Attempts' = Attempts /\ opened' = opened /\ run' = run
    BY <1>3, DetectionFrame DEF Attempts
  <2>2. ASSUME NEW j \in DOMAIN results, clientRows' = Append(clientRows, RowOf(results[j]))
        PROVE  /\ clientRows' \in Seq(RowType)
               /\ \A i \in DOMAIN clientRows' :
                     clientRows'[i].seq \in Attempts /\ clientRows'[i].run <= Len(opened)
    <3> DEFINE row == RowOf(results[j])
    <3>1. row \in RowType /\ row.seq \in Attempts /\ row.run <= Len(opened)
      BY <1>1 DEF RowOf, Queued, Opened
    <3> HIDE DEF row
    <3>2. clientRows \in Seq(RowType) /\ clientRows' = Append(clientRows, row)
      BY <1>1, <2>2 DEF Queued, row
    <3>3. /\ clientRows' \in Seq(RowType)
          /\ clientRows'[Len(clientRows) + 1] = row
          /\ \A i \in DOMAIN clientRows : clientRows'[i] = clientRows[i]
          /\ \A i \in DOMAIN clientRows' : i \in DOMAIN clientRows \/ i = Len(clientRows) + 1
      BY <3>1, <3>2, AppendShape
    <3>. QED BY <1>1, <3>1, <3>3 DEF Queued
  <2>3. CASE FlushDone
    <3>1. results' = <<>> /\ written' = 0 /\ clientRows' = clientRows
      BY <1>1, <2>3 DEF FlushDone, database
    <3>. QED BY <1>1, <2>1, <3>1 DEF Queued
  <2>4. CASE InsertRow
    <3>1. /\ results' = results /\ written' = written + 1 /\ written + 1 \in DOMAIN results
          /\ clientRows' = Append(clientRows, RowOf(results[written + 1]))
          /\ pc' = pc /\ Flushing /\ written < Len(results)
      BY <1>1, <2>4, FlushSteps DEF InsertRow
    <3>2. /\ clientRows' \in Seq(RowType)
          /\ \A i \in DOMAIN clientRows' :
                clientRows'[i].seq \in Attempts /\ clientRows'[i].run <= Len(opened)
      BY <2>2, <3>1
    <3>3. Flushing' /\ written' \in Nat /\ written' <= Len(results)
      BY <1>1, <3>1 DEF Flushing, Queued
    <3>. QED BY <1>1, <2>1, <3>1, <3>2, <3>3 DEF Queued
  <2>5. CASE FlushFail
    <3>1. /\ results' = results /\ written' = 0 /\ written + 1 \in DOMAIN results
          /\ \/ clientRows' = clientRows
             \/ clientRows' = Append(clientRows, RowOf(results[written + 1]))
      BY <1>1, <2>5, FlushSteps DEF FlushFail
    <3>2. /\ clientRows' \in Seq(RowType)
          /\ \A i \in DOMAIN clientRows' :
                clientRows'[i].seq \in Attempts /\ clientRows'[i].run <= Len(opened)
      BY <1>1, <2>2, <3>1 DEF Queued
    <3>3. written' \in Nat /\ written' <= Len(results)
      BY <1>1, <3>1 DEF Queued
    <3>. QED BY <1>1, <2>1, <3>1, <3>2, <3>3 DEF Queued
  <2>6. CASE ~FlushDone /\ ~InsertRow /\ ~FlushFail
    <3>1. results' = results /\ written' = written /\ clientRows' = clientRows
      BY <1>3, <2>6, QueueFrame
    <3>2. pc' = pc \/ ~Flushing
      BY <2>6, FlushFrame
    <3>3. ~Flushing' => written' = 0
      BY <1>1, <3>1, <3>2 DEF Queued, Flushing
    <3>. QED BY <1>1, <2>1, <3>1, <3>3 DEF Queued
  <2>. QED BY <2>3, <2>4, <2>5, <2>6
<1>. QED BY <1>2, <1>3

\* The last failover opened is current, and was opened by a failure.
LEMMA OpenedStep ==
    ASSUME IInv, [Next]_vars
    PROVE  Opened'
<1>1. Typed /\ Opened
  BY DEF IInv
<1>2. CASE EndAttempt
  <2>1. /\ Attempts = 1..Ended /\ Attempts' = 1..(Ended + 1) /\ Ended \in Nat /\ Ended' = Ended + 1
        /\ \A i \in 1..Ended : outcomes'[i] = outcomes[i]
    BY <1>1, <1>2, AttemptEnds
  <2>2. ASSUME UNCHANGED opened
        PROVE  /\ opened' \in Seq(Nat)
               /\ \A k \in DOMAIN opened' : opened'[k] \in Attempts' /\ ~outcomes'[opened'[k]]
    BY <1>1, <2>1, <2>2 DEF Opened, Failed
  <2>3. ASSUME opened' = Append(opened, Ended + 1), ~outcomes'[Ended + 1]
        PROVE  /\ opened' \in Seq(Nat) /\ Len(opened') = Len(opened) + 1
               /\ \A k \in DOMAIN opened' : opened'[k] \in Attempts' /\ ~outcomes'[opened'[k]]
    <3>1. Ended + 1 \in Nat /\ opened \in Seq(Nat)
      BY <1>1, <2>1 DEF Opened
    <3>2. /\ opened' \in Seq(Nat) /\ Len(opened') = Len(opened) + 1
          /\ opened'[Len(opened) + 1] = Ended + 1
          /\ \A k \in DOMAIN opened : opened'[k] = opened[k]
          /\ \A k \in DOMAIN opened' : k \in DOMAIN opened \/ k = Len(opened) + 1
      BY <2>3, <3>1, AppendShape
    <3>3. ASSUME NEW k \in DOMAIN opened' PROVE opened'[k] \in Attempts' /\ ~outcomes'[opened'[k]]
      <4>1. CASE k \in DOMAIN opened
        <5>1. opened'[k] = opened[k] /\ opened[k] \in Attempts /\ ~outcomes[opened[k]]
          BY <1>1, <3>2, <4>1 DEF Opened, Failed
        <5>2. opened[k] \in 1..Ended
          BY <2>1, <5>1
        <5>. QED BY <2>1, <5>1, <5>2
      <4>2. CASE k = Len(opened) + 1
        <5>1. opened'[k] = Ended + 1
          BY <3>2, <4>2
        <5>2. Ended + 1 \in Attempts'
          BY <2>1
        <5>. QED BY <2>3, <5>1, <5>2
      <4>. QED BY <3>2, <4>1, <4>2
    <3>. QED BY <3>2, <3>3
  <2>4. /\ opened' \in Seq(Nat) /\ run' = Len(opened')
        /\ \A k \in DOMAIN opened' : opened'[k] \in Attempts' /\ ~outcomes'[opened'[k]]
    BY <1>1, <1>2, <2>2, <2>3, AttemptEnds DEF Opened
  <2>5. streak' \in Nat /\ streak' <= Ended'
    <3>1. streak' = streak \/ streak' = streak + 1 \/ streak' = 0
      BY <1>1, <1>2, AttemptEnds
    <3>. QED BY <1>1, <2>1, <3>1 DEF Opened
  <2>6. inFailover' \/ pc' \in {"register", "tag", "summary"} => auto' /\ run' >= 1
    <3>1. run \in Nat /\ run = Len(opened) /\ (inFailover => auto /\ run >= 1)
      BY <1>1 DEF Opened
    <3>2. \/ UNCHANGED <<inFailover, run>> /\ pc' = "check"
          \/ run' = run /\ auto /\ (inFailover' => inFailover) /\ (pc' # "check" => inFailover)
          \/ run' = run /\ auto /\ inFailover /\ pc' = "check"
          \/ run' = Len(opened) + 1 /\ auto
      <4>1. /\ streak' = streak + 1 /\ inFailover' = (inFailover /\ ~Recovers)
            /\ pc' = IF Recovers THEN "tag" ELSE "check"
            => (inFailover' => inFailover) /\ (pc' # "check" => inFailover)
        BY Zenon DEF Recovers
      <4>. QED BY <1>1, <1>2, <4>1, AttemptEnds
    <3>3. auto' = auto
      BY <1>1, <1>2, AttemptEnds
    <3>. QED BY <3>1, <3>2, <3>3
  <2>. QED BY <2>4, <2>5, <2>6 DEF Opened, Failed
<1>3. CASE ~EndAttempt
  <2>1. /\ auto' = auto /\ outcomes' = outcomes /\ inFailover' = inFailover /\ streak' = streak
        /\ opened' = opened /\ run' = run
    BY <1>3, DetectionFrame
  <2>2. pc' \in {"register", "tag", "summary"} => pc \in {"register", "tag", "summary"}
    BY <1>1, <1>3, LoopFrame
  <2>. QED BY <1>1, <2>1, <2>2 DEF Opened, Attempts, Failed, Ended
<1>. QED BY <1>2, <1>3

-----------------------------------------------------------------------------
(* The rows of an attempt. *)

\* They are finitely many.
LEMMA RowsOfType ==
    ASSUME Queued, NEW s
    PROVE  /\ IsFiniteSet(RowsOf(s)) /\ Cardinality(RowsOf(s)) \in Nat
           /\ IsFiniteSet(DOMAIN clientRows) /\ DOMAIN clientRows = 1..Len(clientRows)
           /\ Len(clientRows) \in Nat
<1>1. DOMAIN clientRows = 1..Len(clientRows) /\ Len(clientRows) \in Nat
  BY DEF Queued
<1>2. IsFiniteSet(DOMAIN clientRows)
  BY <1>1, FS_Interval
<1>3. IsFiniteSet(RowsOf(s))
  BY <1>2, FS_Subset DEF RowsOf
<1>. QED BY <1>1, <1>2, <1>3, FS_CardinalityType

\* The rows of an attempt after a step.
NextRowsOf(s) == {i \in DOMAIN clientRows' : clientRows'[i].seq = s}

\* One row more is one of its own attempt.
LEMMA RowInserted ==
    ASSUME Queued, Opened, NEW j \in DOMAIN results,
           clientRows' = Append(clientRows, RowOf(results[j]))
    PROVE  /\ NextRowsOf(results[j]) # {}
           /\ Cardinality(NextRowsOf(results[j])) = Cardinality(RowsOf(results[j])) + 1
           /\ \A s : s # results[j] => NextRowsOf(s) = RowsOf(s)
<1> DEFINE row == RowOf(results[j])
           RowType == [seq : Nat, run : Nat]
           n == Len(clientRows)
<1>1. row \in RowType /\ row.seq = results[j]
  BY DEF RowOf, Queued, Opened
<1> HIDE DEF row
<1>2. clientRows \in Seq(RowType) /\ clientRows' = Append(clientRows, row)
  BY DEF Queued, row
<1>3. /\ clientRows'[n + 1] = row /\ n + 1 \in DOMAIN clientRows'
      /\ \A i \in DOMAIN clientRows : i \in DOMAIN clientRows' /\ clientRows'[i] = clientRows[i]
      /\ \A i \in DOMAIN clientRows' : i \in DOMAIN clientRows \/ i = n + 1
  BY <1>1, <1>2, AppendShape
<1>4. n \in Nat /\ DOMAIN clientRows = 1..n
  BY RowsOfType
<1> HIDE DEF n
<1>5. n + 1 \notin DOMAIN clientRows
  BY <1>4
<1>6. NextRowsOf(results[j]) = RowsOf(results[j]) \cup {n + 1}
  BY <1>1, <1>3 DEF NextRowsOf, RowsOf
<1>7. ASSUME NEW s, s # results[j] PROVE NextRowsOf(s) = RowsOf(s)
  BY <1>1, <1>3, <1>7 DEF NextRowsOf, RowsOf
<1>8. n + 1 \notin RowsOf(results[j])
  BY <1>5 DEF RowsOf
<1>9. Cardinality(NextRowsOf(results[j])) = Cardinality(RowsOf(results[j])) + 1
  BY <1>6, <1>8, RowsOfType, FS_AddElement
<1>. QED BY <1>6, <1>7, <1>9

\* No attempt is lost, and rows multiply only when a statement raises.
LEMMA StoredStep ==
    ASSUME IInv, [Next]_vars
    PROVE  Stored'
<1>1. Typed /\ Queued /\ Opened /\ Stored
  BY DEF IInv
<1>2. connected' = connected
  BY <1>1, DetectionFrame, AttemptEnds
<1> SUFFICES ASSUME connected
             PROVE  /\ \A s \in Attempts' : s \in Range(results') \/ NextRowsOf(s) # {}
                    /\ \A s \in Attempts' : Cardinality(NextRowsOf(s)) <= 1 + dbFailures'
                    /\ \A j \in DOMAIN results' :
                          IF j <= written' THEN NextRowsOf(results'[j]) # {}
                          ELSE Cardinality(NextRowsOf(results'[j])) <= dbFailures'
  BY <1>2 DEF Stored, Kept, RowsOf, NextRowsOf
<1>3. /\ \A s \in Attempts : s \in Range(results) \/ RowsOf(s) # {}
      /\ \A s \in Attempts : Cardinality(RowsOf(s)) <= 1 + dbFailures
      /\ \A j \in DOMAIN results :
            IF j <= written THEN RowsOf(results[j]) # {}
            ELSE Cardinality(RowsOf(results[j])) <= dbFailures
  BY <1>1 DEF Stored, Kept
<1>4. dbFailures \in Nat /\ \A s : Cardinality(RowsOf(s)) \in Nat
  BY <1>1, RowsOfType DEF Typed
<1>5. /\ DOMAIN results = 1..Len(results) /\ Len(results) \in Nat /\ written \in Nat
      /\ \A j \in DOMAIN results : results[j] \in Attempts
      /\ \A i, j \in DOMAIN results : i < j => results[i] < results[j]
      /\ results \in Seq(Nat)
  BY <1>1 DEF Queued
<1>6. \A s : s \in Range(results) <=> \E j \in DOMAIN results : s = results[j]
  BY DEF Range
<1>7. \A i, j \in DOMAIN results : i # j => results[i] # results[j]
  <2>1. ASSUME NEW i \in DOMAIN results, NEW j \in DOMAIN results, i < j
        PROVE  results[i] # results[j]
    <3>1. results[i] < results[j] /\ results[i] \in Nat
      BY <1>5, <2>1
    <3>. QED BY <3>1
  <2>2. \A i, j \in DOMAIN results : i # j => i < j \/ j < i
    BY <1>5
  <2>. QED BY <2>1, <2>2
<1>8. ASSUME EndAttempt
      PROVE  /\ \A s \in Attempts' : s \in Range(results') \/ NextRowsOf(s) # {}
             /\ \A s \in Attempts' : Cardinality(NextRowsOf(s)) <= 1 + dbFailures'
             /\ \A j \in DOMAIN results' :
                   IF j <= written' THEN NextRowsOf(results'[j]) # {}
                   ELSE Cardinality(NextRowsOf(results'[j])) <= dbFailures'
  <2>1. /\ results' = Append(results, Ended + 1) /\ written' = written /\ dbFailures' = dbFailures
        /\ Attempts = 1..Ended /\ Attempts' = 1..(Ended + 1) /\ Ended \in Nat /\ pc = "query"
        /\ clientRows' = clientRows
    BY <1>1, <1>8, AttemptEnds
  <2>2. \A s : NextRowsOf(s) = RowsOf(s)
    BY <2>1 DEF NextRowsOf, RowsOf
  <2>3. written = 0
    BY <1>1, <2>1 DEF Queued, Flushing
  <2>4. RowsOf(Ended + 1) = {}
    <3>1. \A i \in DOMAIN clientRows : clientRows[i].seq \in 1..Ended
      BY <1>1, <2>1 DEF Queued
    <3>2. Ended + 1 \notin 1..Ended
      BY <2>1
    <3>. QED BY <3>1, <3>2 DEF RowsOf
  <2>5. Cardinality(RowsOf(Ended + 1)) = 0
    BY <2>4, FS_EmptySet
  <2>6. /\ Len(results) + 1 \in DOMAIN results' /\ results'[Len(results) + 1] = Ended + 1
        /\ \A j \in DOMAIN results : j \in DOMAIN results' /\ results'[j] = results[j]
        /\ \A j \in DOMAIN results' : j \in DOMAIN results \/ j = Len(results) + 1
    <3>1. Ended + 1 \in Nat
      BY <2>1
    <3>. QED BY <1>5, <2>1, <3>1, AppendShape
  <2>7. \A s \in Attempts' : s \in Attempts \/ s = Ended + 1
    BY <2>1
  <2>8. \A s : s \in Range(results') <=> \E j \in DOMAIN results' : s = results'[j]
    BY DEF Range
  <2>9. ASSUME NEW s \in Attempts' PROVE s \in Range(results') \/ NextRowsOf(s) # {}
    BY <1>3, <1>6, <2>2, <2>6, <2>7, <2>8
  <2>10. ASSUME NEW s \in Attempts' PROVE Cardinality(NextRowsOf(s)) <= 1 + dbFailures'
    BY <1>3, <1>4, <2>1, <2>2, <2>5, <2>7
  <2>11. ASSUME NEW j \in DOMAIN results'
         PROVE  ~(j <= written') /\ Cardinality(NextRowsOf(results'[j])) <= dbFailures'
    <3>1. CASE j \in DOMAIN results
      BY <1>3, <1>4, <1>5, <2>1, <2>2, <2>3, <2>6, <3>1
    <3>2. CASE j = Len(results) + 1
      BY <1>4, <1>5, <2>1, <2>2, <2>3, <2>5, <2>6, <3>2
    <3>. QED BY <2>6, <3>1, <3>2
  <2>. QED BY <2>9, <2>10, <2>11
<1>9. ASSUME ~EndAttempt PROVE Attempts' = Attempts
  BY <1>9, DetectionFrame DEF Attempts
<1>10. ASSUME FlushDone \/ InsertRow \/ FlushFail
       PROVE  /\ \A s \in Attempts' : s \in Range(results') \/ NextRowsOf(s) # {}
              /\ \A s \in Attempts' : Cardinality(NextRowsOf(s)) <= 1 + dbFailures'
              /\ \A j \in DOMAIN results' :
                    IF j <= written' THEN NextRowsOf(results'[j]) # {}
                    ELSE Cardinality(NextRowsOf(results'[j])) <= dbFailures'
  <2>1. Attempts' = Attempts
    BY <1>1, <1>9, <1>10, FlushSteps
  <2>2. ASSUME written = Len(results), results' = <<>>, UNCHANGED <<clientRows, dbFailures>>
        PROVE  /\ \A s \in Attempts : NextRowsOf(s) # {}
               /\ \A s \in Attempts : Cardinality(NextRowsOf(s)) <= 1 + dbFailures'
               /\ DOMAIN results' = {}
    <3>1. \A s : NextRowsOf(s) = RowsOf(s)
      BY <2>2 DEF NextRowsOf, RowsOf
    <3>2. \A j \in DOMAIN results : RowsOf(results[j]) # {}
      BY <1>3, <1>5, <2>2
    <3>3. DOMAIN results' = {}
      BY <2>2
    <3>. QED BY <1>3, <1>6, <2>2, <3>1, <3>2, <3>3
  <2>3. ASSUME written + 1 \in DOMAIN results, clientRows' = Append(clientRows, RowOf(results[written + 1])),
               results' = results
        PROVE  /\ \A s \in Attempts : s \in Range(results) \/ NextRowsOf(s) # {}
               /\ \A s \in Attempts : Cardinality(NextRowsOf(s)) <= 1 + dbFailures
               /\ \A j \in DOMAIN results :
                     /\ j <= written + 1 => NextRowsOf(results[j]) # {}
                     /\ j > written + 1 => Cardinality(NextRowsOf(results[j])) <= dbFailures
    <3> DEFINE s0 == results[written + 1]
    <3>1. /\ NextRowsOf(s0) # {}
          /\ Cardinality(NextRowsOf(s0)) = Cardinality(RowsOf(s0)) + 1
          /\ \A s : s # s0 => NextRowsOf(s) = RowsOf(s)
      BY <1>1, <2>3, RowInserted
    <3>2. Cardinality(RowsOf(s0)) <= dbFailures
      <4>1. ~(written + 1 <= written)
        BY <1>5
      <4>. QED BY <1>3, <2>3, <4>1
    <3> HIDE DEF s0
    <3>3. \A s \in Attempts : s \in Range(results) \/ NextRowsOf(s) # {}
      BY <1>3, <3>1
    <3>4. \A s \in Attempts : Cardinality(NextRowsOf(s)) <= 1 + dbFailures
      BY <1>3, <1>4, <3>1, <3>2
    <3>5. ASSUME NEW j \in DOMAIN results, j <= written + 1 PROVE NextRowsOf(results[j]) # {}
      <4>1. CASE j <= written
        BY <1>3, <3>1, <4>1
      <4>2. CASE j = written + 1
        BY <3>1, <4>2 DEF s0
      <4>. QED BY <1>5, <3>5, <4>1, <4>2
    <3>6. ASSUME NEW j \in DOMAIN results, j > written + 1
          PROVE  Cardinality(NextRowsOf(results[j])) <= dbFailures
      <4>1. results[j] # s0
        BY <1>5, <1>7, <2>3, <3>6 DEF s0
      <4>2. ~(j <= written)
        BY <1>5, <3>6
      <4>. QED BY <1>3, <3>1, <4>1, <4>2
    <3>. QED BY <3>3, <3>4, <3>5, <3>6
  <2>4. CASE FlushDone
    <3>1. written = Len(results) /\ results' = <<>> /\ UNCHANGED <<clientRows, dbFailures>>
      BY <2>4 DEF FlushDone, database
    <3>. QED BY <2>1, <2>2, <3>1
  <2>5. CASE InsertRow
    <3>1. /\ written + 1 \in DOMAIN results /\ clientRows' = Append(clientRows, RowOf(results[written + 1]))
          /\ results' = results /\ written' = written + 1 /\ dbFailures' = dbFailures
      BY <1>5, <2>5 DEF InsertRow
    <3>2. \A j \in DOMAIN results : ~(j <= written + 1) => j > written + 1
      BY <1>5
    <3>. QED BY <2>1, <2>3, <3>1, <3>2
  <2>6. CASE FlushFail
    <3>1. /\ written + 1 \in DOMAIN results
          /\ \/ clientRows' = clientRows
             \/ clientRows' = Append(clientRows, RowOf(results[written + 1]))
          /\ results' = results /\ written' = 0 /\ dbFailures' = dbFailures + 1
      BY <1>5, <2>6 DEF FlushFail, DbFails
    <3>2. /\ \A s \in Attempts : s \in Range(results) \/ NextRowsOf(s) # {}
          /\ \A s \in Attempts : Cardinality(NextRowsOf(s)) <= 1 + dbFailures
          /\ \A s : Cardinality(NextRowsOf(s)) \in Nat
      <4>1. CASE clientRows' = clientRows
        <5>1. \A s : NextRowsOf(s) = RowsOf(s)
          BY <4>1 DEF NextRowsOf, RowsOf
        <5>. QED BY <1>3, <1>4, <5>1
      <4>2. CASE clientRows' = Append(clientRows, RowOf(results[written + 1]))
        <5>1. \A s : Cardinality(NextRowsOf(s)) \in Nat
          BY <1>1, <1>4, <3>1, <4>2, RowInserted
        <5>. QED BY <2>3, <3>1, <4>2, <5>1
      <4>. QED BY <3>1, <4>1, <4>2
    <3>3. ASSUME NEW j \in DOMAIN results
          PROVE  ~(j <= 0) /\ Cardinality(NextRowsOf(results[j])) <= dbFailures + 1
      <4>1. results[j] \in Attempts /\ ~(j <= 0)
        BY <1>5
      <4>. QED BY <1>4, <3>2, <4>1
    <3>4. ASSUME NEW s \in Attempts PROVE Cardinality(NextRowsOf(s)) <= 1 + (dbFailures + 1)
      BY <1>4, <3>2
    <3>. QED BY <2>1, <3>1, <3>2, <3>3, <3>4
  <2>. QED BY <1>10, <2>4, <2>5, <2>6
<1>11. ASSUME ~EndAttempt, ~FlushDone, ~InsertRow, ~FlushFail
       PROVE  /\ \A s \in Attempts' : s \in Range(results') \/ NextRowsOf(s) # {}
              /\ \A s \in Attempts' : Cardinality(NextRowsOf(s)) <= 1 + dbFailures'
              /\ \A j \in DOMAIN results' :
                    IF j <= written' THEN NextRowsOf(results'[j]) # {}
                    ELSE Cardinality(NextRowsOf(results'[j])) <= dbFailures'
  <2>1. results' = results /\ written' = written /\ clientRows' = clientRows
    BY <1>11, QueueFrame
  <2>2. dbFailures' >= dbFailures /\ dbFailures' \in Nat
    <3>1. dbFailures' = dbFailures \/ DbFails
      BY <1>11 DEF Next, ClientStep, vars, BeginAttempt, EndLoop, Register, RegisterFail,
       Tag, TagFail, Summarise, SummariseFail, CheckBatch, Shutdown, ObserverEvent, ObserverStore
    <3>. QED BY <1>4, <3>1 DEF DbFails
  <2>3. \A s : NextRowsOf(s) = RowsOf(s)
    BY <2>1 DEF NextRowsOf, RowsOf
  <2>4. \A s : Cardinality(RowsOf(s)) <= dbFailures => Cardinality(RowsOf(s)) <= dbFailures'
    BY <1>4, <2>2
  <2>5. \A s : Cardinality(RowsOf(s)) <= 1 + dbFailures => Cardinality(RowsOf(s)) <= 1 + dbFailures'
    BY <1>4, <2>2
  <2>. QED BY <1>3, <1>9, <1>11, <2>1, <2>3, <2>4, <2>5
<1>. QED BY <1>8, <1>10, <1>11

\* A flush writes the list in order, and what is not in the list is stored: rows
\* leave no hole.  The list outlives only a flush that raised.
LEMMA TailStep ==
    ASSUME IInv, [Next]_vars
    PROVE  PrefixStored'
<1>1. Typed /\ Queued /\ Opened /\ Stored /\ PrefixStored
  BY DEF IInv
<1>2. connected' = connected
  BY <1>1, DetectionFrame, AttemptEnds
<1> SUFFICES ASSUME connected
             PROVE  /\ \A r, s \in Attempts' : s < r /\ NextRowsOf(r) # {} => NextRowsOf(s) # {}
                    /\ FinalFlushRaised' => dbFailures' > 0
  BY <1>2 DEF PrefixStored, RowsOf, NextRowsOf
<1>3. /\ \A r, s \in Attempts : s < r /\ RowsOf(r) # {} => RowsOf(s) # {}
      /\ FinalFlushRaised => dbFailures > 0
  BY <1>1 DEF PrefixStored
<1>4. dbFailures \in Nat
  BY <1>1 DEF Typed
<1>5. /\ DOMAIN results = 1..Len(results) /\ Len(results) \in Nat /\ written \in Nat
      /\ \A i, j \in DOMAIN results : i < j => results[i] < results[j]
      /\ \A j \in DOMAIN results : results[j] \in Nat
  BY <1>1 DEF Queued
<1>6. CASE EndAttempt
  <2>1. /\ Attempts = 1..Ended /\ Attempts' = 1..(Ended + 1) /\ Ended \in Nat
        /\ clientRows' = clientRows /\ pc' # "done"
    BY <1>1, <1>6, AttemptEnds
  <2>2. \A s : NextRowsOf(s) = RowsOf(s)
    BY <2>1 DEF NextRowsOf, RowsOf
  <2>3. RowsOf(Ended + 1) = {}
    <3>1. \A i \in DOMAIN clientRows : clientRows[i].seq \in 1..Ended
      BY <1>1, <2>1 DEF Queued
    <3>2. Ended + 1 \notin 1..Ended
      BY <2>1
    <3>. QED BY <3>1, <3>2 DEF RowsOf
  <2>4. ASSUME NEW r \in Attempts', NEW s \in Attempts', s < r, NextRowsOf(r) # {}
        PROVE  NextRowsOf(s) # {}
    <3>1. r \in Attempts /\ s \in Attempts
      BY <2>1, <2>2, <2>3, <2>4
    <3>. QED BY <1>3, <2>2, <2>4, <3>1
  <2>5. ~FinalFlushRaised'
    BY <2>1 DEF FinalFlushRaised
  <2>. QED BY <2>4, <2>5
<1>7. ASSUME ~EndAttempt PROVE Attempts' = Attempts
  BY <1>7, DetectionFrame DEF Attempts
<1>8. CASE FlushDone \/ InsertRow \/ FlushFail
  <2>1. Attempts' = Attempts
    BY <1>1, <1>7, <1>8, FlushSteps
  <2>2. CASE clientRows' = clientRows
    <3>1. \A s : NextRowsOf(s) = RowsOf(s)
      BY <2>2 DEF NextRowsOf, RowsOf
    <3>. QED BY <1>3, <2>1, <3>1, <1>1, <1>4, <1>8, FlushSteps DEF FinalFlushRaised, Flushing
  <2>3. CASE /\ clientRows' = Append(clientRows, RowOf(results[written + 1]))
             /\ written + 1 \in DOMAIN results
    <3> DEFINE s0 == results[written + 1]
    <3>1. /\ NextRowsOf(s0) # {}
          /\ \A s : s # s0 => NextRowsOf(s) = RowsOf(s)
      BY <1>1, <2>3, RowInserted
    <3>2. ASSUME NEW s \in Attempts, s < s0 PROVE RowsOf(s) # {}
      <4>1. CASE s \in Range(results)
        <5>1. PICK j \in DOMAIN results : results[j] = s
          BY <4>1 DEF Range
        <5>2. j <= written
          <6>1. ~(written + 1 < j) /\ j # written + 1
            BY <1>5, <2>3, <3>2, <5>1
          <6>. QED BY <1>5, <6>1
        <5>. QED BY <1>1, <5>1, <5>2 DEF Stored
      <4>2. CASE s \notin Range(results)
        BY <1>1, <4>2 DEF Stored, Kept
      <4>. QED BY <4>1, <4>2
    <3> HIDE DEF s0
    <3>3. \A r, s \in Attempts : s < r /\ NextRowsOf(r) # {} => NextRowsOf(s) # {}
      BY <1>3, <3>1, <3>2
    <3>4. FinalFlushRaised' => dbFailures' > 0
      BY <1>1, <1>4, <1>8, FlushSteps DEF FinalFlushRaised, Flushing
    <3>. QED BY <2>1, <3>3, <3>4
  <2>. QED BY <1>1, <1>8, <2>2, <2>3, FlushSteps
<1>9. CASE ~EndAttempt /\ ~FlushDone /\ ~InsertRow /\ ~FlushFail
  <2>1. results' = results /\ clientRows' = clientRows
    BY <1>9, QueueFrame
  <2>2. \A s : NextRowsOf(s) = RowsOf(s)
    BY <2>1 DEF NextRowsOf, RowsOf
  <2>3. pc' = "done" => pc = "done"
    <3>1. pc' = pc \/ ~Flushing
      BY <1>9, FlushFrame
    <3>. QED BY <1>1, <3>1, LoopFrame DEF Flushing
  <2>4. dbFailures' >= dbFailures /\ dbFailures' \in Nat
    <3>1. dbFailures' = dbFailures \/ DbFails
      BY <1>9 DEF Next, ClientStep, vars, BeginAttempt, EndLoop, Register, RegisterFail,
       Tag, TagFail, Summarise, SummariseFail, CheckBatch, Shutdown, ObserverEvent, ObserverStore
    <3>. QED BY <1>4, <3>1 DEF DbFails
  <2>. QED BY <1>3, <1>4, <1>7, <1>9, <2>1, <2>2, <2>3, <2>4 DEF FinalFlushRaised
<1>. QED BY <1>6, <1>8, <1>9

\* Every failover opened has its run registered, or the insert raised, or is next.
LEMMA RegisteredStep ==
    ASSUME IInv, [Next]_vars
    PROVE  Registered'
<1>1. Typed /\ Queued /\ Opened /\ Registered
  BY DEF IInv
<1>2. CASE EndAttempt
  <2>1. /\ testRuns' = testRuns /\ unregistered' = unregistered /\ pc = "query" /\ Ended \in Nat
        /\ \/ opened' = opened
           \/ opened' = Append(opened, Ended + 1) /\ run' = Len(opened) + 1 /\ pc' = "register"
    BY <1>1, <1>2, AttemptEnds
  <2>2. \A k \in DOMAIN opened : opened[k] \div AttemptsPerSecond \in testRuns \/ k \in unregistered
    BY <1>1, <2>1 DEF Registered, RunId
  <2>3. CASE opened' = opened
    <3>1. pc' # "register"
      <4>1. \/ pc' \in {"check", "tag"}
            \/ opened' = Append(opened, Ended + 1)
        BY <1>1, <1>2, AttemptEnds
      <4>2. opened \in Seq(Nat) /\ Ended + 1 \in Nat
        BY <1>1, <2>1 DEF Opened
      <4>3. Len(Append(opened, Ended + 1)) # Len(opened)
        BY <4>2
      <4>. QED BY <2>3, <4>1, <4>3
    <3>. QED BY <2>1, <2>2, <2>3, <3>1 DEF Registered, RunId
  <2>4. CASE opened' = Append(opened, Ended + 1) /\ run' = Len(opened) + 1 /\ pc' = "register"
    <3>1. Ended + 1 \in Nat /\ opened \in Seq(Nat)
      BY <1>1, <2>1 DEF Opened
    <3>2. /\ \A k \in DOMAIN opened : opened'[k] = opened[k]
          /\ \A k \in DOMAIN opened' : k \in DOMAIN opened \/ k = Len(opened) + 1
      BY <2>4, <3>1, AppendShape
    <3>3. \A i \in DOMAIN clientRows' : clientRows'[i].run # run'
      <4>1. clientRows' = clientRows
        BY <1>1, <1>2, AttemptEnds
      <4>2. \A i \in DOMAIN clientRows : clientRows[i].run <= Len(opened)
        BY <1>1 DEF Queued
      <4>3. Len(opened) \in Nat /\ ~(Len(opened) + 1 <= Len(opened))
        BY <3>1
      <4>. QED BY <2>4, <4>1, <4>2, <4>3
    <3>. QED BY <2>1, <2>2, <2>4, <3>2, <3>3 DEF Registered, RunId
  <2>. QED BY <2>1, <2>3, <2>4
<1>3. CASE ~EndAttempt
  <2>1. opened' = opened /\ run' = run
    BY <1>3, DetectionFrame
  <2>2. testRuns \subseteq testRuns' /\ unregistered \subseteq unregistered'
    BY <1>3 DEF Next, ClientStep, vars, database, BeginAttempt, EndLoop, Register, RegisterFail,
     Tag, TagFail, Summarise, SummariseFail, CheckBatch, FlushDone, InsertRow, FlushFail,
     Shutdown, ObserverEvent, ObserverStore
  <2>3. pc = "register" => pc' = pc \/ Register \/ RegisterFail
    BY <1>3 DEF Next, ClientStep, vars, BeginAttempt, EndLoop,
     Tag, TagFail, Summarise, SummariseFail, CheckBatch, FlushDone, InsertRow, FlushFail, Flushing,
     Shutdown, ObserverEvent, ObserverStore
  <2>4. Register => RunId(run) \in testRuns'
    BY DEF Register
  <2>5. RegisterFail => run \in unregistered'
    BY DEF RegisterFail
  <2>6. ASSUME pc' = "register" PROVE pc = "register" /\ clientRows' = clientRows
    <3>1. pc = "register"
      BY <1>1, <1>3, <2>6, LoopFrame
    <3>2. ~FlushDone /\ ~InsertRow /\ ~FlushFail
      BY <3>1 DEF FlushDone, InsertRow, FlushFail, Flushing
    <3>. QED BY <1>3, <3>1, <3>2, QueueFrame
  <2>7. \A k \in DOMAIN opened' :
            RunId(k)' \in testRuns' \/ k \in unregistered' \/ (pc' = "register" /\ k = run')
    BY <1>1, <2>1, <2>2, <2>3, <2>4, <2>5 DEF Registered, RunId
  <2>8. pc' = "register" => \A i \in DOMAIN clientRows' : clientRows'[i].run # run'
    BY <1>1, <2>1, <2>6 DEF Registered
  <2>. QED BY <2>7, <2>8 DEF Registered
<1>. QED BY <1>2, <1>3

\* No attempt is filed under a failover older than the last one it follows.
LEMMA ForwardStep ==
    ASSUME IInv, [Next]_vars
    PROVE  Forward'
<1>1. Typed /\ Queued /\ Opened /\ Forward
  BY DEF IInv
<1> DEFINE Until(s) == {k \in DOMAIN opened : opened[k] <= s}
           NextUntil(s) == {k \in DOMAIN opened' : opened'[k] <= s}
<1>2. auto' = auto
  BY <1>1, DetectionFrame, AttemptEnds
<1> SUFFICES ASSUME auto, NEW i \in DOMAIN clientRows'
             PROVE  clientRows'[i].run >= Cardinality(NextUntil(clientRows'[i].seq))
  BY <1>2 DEF Forward, FailoverOf
<1>3. \A j \in DOMAIN clientRows : clientRows[j].run >= Cardinality(Until(clientRows[j].seq))
  BY <1>1 DEF Forward, FailoverOf
<1>4. /\ DOMAIN opened = 1..Len(opened) /\ Len(opened) \in Nat /\ opened \in Seq(Nat)
      /\ run = Len(opened)
  BY <1>1 DEF Opened
<1>5. CASE EndAttempt
  <2>1. /\ clientRows' = clientRows /\ Ended \in Nat /\ Attempts = 1..Ended
        /\ opened' = opened \/ opened' = Append(opened, Ended + 1)
    BY <1>1, <1>5, AttemptEnds
  <2>2. clientRows[i].seq \in 1..Ended
    BY <1>1, <2>1 DEF Queued
  <2>3. ASSUME NEW s \in 1..Ended PROVE NextUntil(s) = Until(s)
    <3>1. CASE opened' = opened
      BY <3>1
    <3>2. CASE opened' = Append(opened, Ended + 1)
      <4>1. Ended + 1 \in Nat
        BY <2>1
      <4>2. /\ \A k \in DOMAIN opened : k \in DOMAIN opened' /\ opened'[k] = opened[k]
            /\ \A k \in DOMAIN opened' : k \in DOMAIN opened \/ k = Len(opened) + 1
            /\ opened'[Len(opened) + 1] = Ended + 1
        BY <1>4, <3>2, <4>1, AppendShape
      <4>3. ~(Ended + 1 <= s)
        BY <2>1
      <4>. QED BY <4>2, <4>3
    <3>. QED BY <2>1, <3>1, <3>2
  <2> HIDE DEF Until, NextUntil
  <2>. QED BY <1>3, <2>1, <2>2, <2>3
<1>6. CASE ~EndAttempt
  <2>1. opened' = opened
    BY <1>6, DetectionFrame
  <2>2. \A s : NextUntil(s) = Until(s)
    BY <2>1
  <2>3. \A s : Cardinality(Until(s)) <= Len(opened)
    <3>1. IsFiniteSet(DOMAIN opened) /\ Cardinality(DOMAIN opened) = Len(opened)
      BY <1>4, UpToSize
    <3>2. \A s : Until(s) \subseteq DOMAIN opened
      OBVIOUS
    <3> HIDE DEF Until
    <3>. QED BY <3>1, <3>2, FS_Subset
  <2>4. ASSUME NEW j \in DOMAIN results, clientRows' = Append(clientRows, RowOf(results[j]))
        PROVE  clientRows'[i].run >= Cardinality(Until(clientRows'[i].seq))
    <3> DEFINE row == RowOf(results[j])
               RowType == [seq : Nat, run : Nat]
    <3>1. row \in RowType /\ row.run = Len(opened)
      BY <1>1, <1>4 DEF RowOf, Queued
    <3> HIDE DEF row
    <3>2. clientRows \in Seq(RowType) /\ clientRows' = Append(clientRows, row)
      BY <1>1, <2>4 DEF Queued, row
    <3>3. /\ clientRows'[Len(clientRows) + 1] = row
          /\ \A k \in DOMAIN clientRows : clientRows'[k] = clientRows[k]
          /\ i \in DOMAIN clientRows \/ i = Len(clientRows) + 1
      BY <3>1, <3>2, AppendShape
    <3>4. Len(opened) >= Cardinality(Until(row.seq))
      <4>1. Cardinality(Until(row.seq)) \in Nat
        <5>1. IsFiniteSet(DOMAIN opened)
          BY <1>4, FS_Interval
        <5>. QED BY <5>1, FS_Subset, FS_CardinalityType
      <4> HIDE DEF Until
      <4>. QED BY <1>4, <2>3, <4>1
    <3> HIDE DEF Until
    <3>. QED BY <1>3, <3>1, <3>3, <3>4
  <2>5. CASE FlushDone \/ InsertRow \/ FlushFail
    <3>1. \/ clientRows' = clientRows
          \/ /\ written + 1 \in DOMAIN results
             /\ clientRows' = Append(clientRows, RowOf(results[written + 1]))
      BY <1>1, <2>5, FlushSteps
    <3> HIDE DEF Until, NextUntil
    <3>. QED BY <1>3, <2>2, <2>4, <3>1
  <2>6. CASE ~FlushDone /\ ~InsertRow /\ ~FlushFail
    <3>1. clientRows' = clientRows
      BY <1>6, <2>6, QueueFrame
    <3> HIDE DEF Until, NextUntil
    <3>. QED BY <1>3, <2>2, <3>1
  <2>. QED BY <2>5, <2>6
<1>. QED BY <1>5, <1>6

-----------------------------------------------------------------------------
(* Streaks and recoveries, after an attempt as before it. *)

NextFailed(s) == ~outcomes'[s]
NextRecoversAt(s) ==
    /\ s >= RecoveryStreak
    /\ \A i \in (s - RecoveryStreak + 1)..s : outcomes'[i]
NextOpenAfter(n) ==
    \E f \in 1..n : NextFailed(f) /\ \A s \in (f + RecoveryStreak)..n : ~NextRecoversAt(s)

\* An attempt does not change what came before it.
LEMMA HistoryStands ==
    ASSUME Typed, EndAttempt
    PROVE  /\ \A s \in 1..Ended : NextFailed(s) <=> Failed(s)
           /\ \A s \in 1..Ended : NextRecoversAt(s) <=> RecoversAt(s)
           /\ \A n \in 0..Ended : NextOpenAfter(n) <=> OpenAfter(n)
<1>1. Ended \in Nat /\ \A i \in 1..Ended : outcomes'[i] = outcomes[i]
  BY AttemptEnds
<1>2. RecoveryStreak \in Nat /\ RecoveryStreak >= 1
  BY HeartbeatAssumption
<1>3. \A s \in 1..Ended : NextFailed(s) <=> Failed(s)
  BY <1>1 DEF NextFailed, Failed
<1>4. ASSUME NEW s \in 1..Ended PROVE NextRecoversAt(s) <=> RecoversAt(s)
  <2>1. s >= RecoveryStreak => \A i \in (s - RecoveryStreak + 1)..s : i \in 1..Ended
    BY <1>1, <1>2
  <2>. QED BY <1>1, <2>1 DEF NextRecoversAt, RecoversAt
<1>5. ASSUME NEW n \in 0..Ended PROVE NextOpenAfter(n) <=> OpenAfter(n)
  <2>1. \A f \in 1..n : f \in 1..Ended /\ \A s \in (f + RecoveryStreak)..n : s \in 1..Ended
    BY <1>1, <1>2
  <2>. QED BY <1>3, <1>4, <2>1 DEF NextOpenAfter, OpenAfter
<1>. QED BY <1>3, <1>4, <1>5

\* The streak counts the successes since the last failure.
LEMMA CountedStep ==
    ASSUME IInv, [Next]_vars
    PROVE  Counted'
<1>1. Typed /\ Opened /\ Counted
  BY DEF IInv
<1>2. CASE EndAttempt
  <2>1. /\ auto' = auto /\ Ended \in Nat /\ Ended' = Ended + 1
        /\ \A i \in 1..Ended : outcomes'[i] = outcomes[i]
    BY <1>1, <1>2, AttemptEnds
  <2> HIDE DEF Ended
  <2>2. streak \in Nat /\ streak <= Ended /\ RecoveryStreak \in Nat /\ RecoveryStreak >= 1
    BY <1>1, HeartbeatAssumption DEF Opened
  <2> SUFFICES ASSUME auto'
               PROVE  /\ \A i \in 1..Ended' : i > Ended' - streak' => outcomes'[i]
                      /\ streak' < Ended' => ~outcomes'[Ended' - streak']
                      /\ inFailover' => streak' < RecoveryStreak
    BY DEF Counted, Failed
  <2>3. /\ \A i \in 1..Ended : i > Ended - streak => outcomes[i]
        /\ streak < Ended => Failed(Ended - streak)
        /\ inFailover => streak < RecoveryStreak
    BY <1>1, <2>1 DEF Counted
  <2>4. CASE outcomes'[Ended + 1] /\ streak' = streak + 1 /\ inFailover' = (inFailover /\ ~Recovers)
    <3>1. ASSUME NEW i \in 1..Ended', i > Ended' - streak' PROVE outcomes'[i]
      <4>1. CASE i = Ended + 1
        BY <2>4, <4>1
      <4>2. CASE i # Ended + 1
        <5>1. i \in 1..Ended /\ i > Ended - streak
          BY <2>1, <2>2, <2>4, <3>1, <4>2
        <5>. QED BY <2>1, <2>3, <5>1
      <4>. QED BY <4>1, <4>2
    <3>2. ASSUME streak' < Ended' PROVE ~outcomes'[Ended' - streak']
      <4>1. streak < Ended /\ Ended - streak \in 1..Ended /\ Ended' - streak' = Ended - streak
        BY <2>1, <2>2, <2>4, <3>2
      <4>2. ~outcomes[Ended - streak]
        BY <2>3, <4>1 DEF Failed
      <4>. QED BY <2>1, <4>1, <4>2
    <3>3. inFailover' => streak' < RecoveryStreak
      <4>1. inFailover' => ~(streak + 1 >= RecoveryStreak)
        BY <2>4 DEF Recovers
      <4>. QED BY <2>2, <2>4, <4>1
    <3>. QED BY <3>1, <3>2, <3>3
  <2>5. CASE ~outcomes'[Ended + 1] /\ streak' = 0
    <3>1. Ended' - streak' = Ended + 1 /\ \A i \in 1..Ended' : ~(i > Ended' - streak')
      BY <2>1, <2>5
    <3>. QED BY <2>2, <2>5, <3>1
  <2>. QED BY <1>1, <1>2, <2>4, <2>5, AttemptEnds
<1>3. CASE ~EndAttempt
  <2>1. /\ auto' = auto /\ outcomes' = outcomes /\ inFailover' = inFailover /\ streak' = streak
    BY <1>3, DetectionFrame
  <2>. QED BY <1>1, <2>1 DEF Counted, Failed, Ended
<1>. QED BY <1>2, <1>3

\* A streak is as long as the detection counts it: the attempt ends a streak
\* of RecoveryStreak successes exactly when the count has reached it.
LEMMA StreakIsCounted ==
    ASSUME IInv, EndAttempt, auto
    PROVE  /\ NextRecoversAt(Ended + 1) <=> streak' >= RecoveryStreak
           /\ \A f \in 1..Ended : Failed(f) => f <= Ended - streak
<1>1. Typed /\ Opened /\ Counted
  BY DEF IInv
<1>2. auto' = auto /\ Ended \in Nat /\ Ended' = Ended + 1
  BY <1>1, AttemptEnds
<1>3. streak \in Nat /\ streak <= Ended /\ RecoveryStreak \in Nat /\ RecoveryStreak >= 1
  BY <1>1, HeartbeatAssumption DEF Opened
<1>4. Counted'
  BY CountedStep, <1>1 DEF Next, ClientStep
<1>5. streak' \in Nat /\ streak' <= Ended + 1
  <2>1. streak' = streak \/ streak' = streak + 1 \/ streak' = 0
    BY <1>1, AttemptEnds
  <2>. QED BY <1>2, <1>3, <2>1
<1>6. /\ \A i \in 1..(Ended + 1) : i > Ended + 1 - streak' => outcomes'[i]
      /\ streak' < Ended + 1 => NextFailed(Ended + 1 - streak')
  <2>1. auto' => /\ \A i \in 1..Ended' : i > Ended' - streak' => outcomes'[i]
                 /\ streak' < Ended' => ~outcomes'[Ended' - streak']
    BY <1>4 DEF Counted, Failed
  <2>2. /\ \A i \in 1..Ended' : i > Ended' - streak' => outcomes'[i]
        /\ streak' < Ended' => ~outcomes'[Ended' - streak']
    BY <1>2, <2>1
  <2>3. Ended' = Ended + 1
    BY <1>2
  <2>4. ASSUME NEW i \in 1..(Ended + 1), i > Ended + 1 - streak' PROVE outcomes'[i]
    <3>1. i \in 1..Ended' /\ i > Ended' - streak'
      <4>1. i \in 1..Ended'
        BY <2>3
      <4>2. Ended + 1 - streak' = Ended' - streak'
        BY <1>2, <1>5
      <4>. QED BY <2>4, <4>1, <4>2
    <3>. QED BY <2>2, <3>1
  <2>5. streak' < Ended + 1 => ~outcomes'[Ended + 1 - streak']
    BY <1>2, <1>5, <2>2, <2>3
  <2>. QED BY <2>4, <2>5 DEF NextFailed
<1> DEFINE n == Ended
           c == streak'
           r == RecoveryStreak
<1>7. n \in Nat /\ c \in Nat /\ c <= n + 1 /\ r \in Nat /\ r >= 1
  BY <1>2, <1>3, <1>5
<1>8. ASSUME c >= r PROVE NextRecoversAt(n + 1)
  <2>1. n + 1 >= r /\ \A i \in (n + 1 - r + 1)..(n + 1) : i \in 1..(n + 1) /\ i > n + 1 - c
    <3> HIDE DEF n, c, r
    <3>. QED BY <1>7, <1>8
  <2> SUFFICES ASSUME NEW i \in (n + 1 - r + 1)..(n + 1) PROVE outcomes'[i]
    BY <1>7, <2>1 DEF NextRecoversAt
  <2>. QED BY <1>6, <2>1
<1>9. ASSUME c < r, NextRecoversAt(n + 1) PROVE FALSE
  <2>1. n + 1 >= r
    BY <1>9 DEF NextRecoversAt
  <2>2. c < n + 1 /\ n + 1 - c \in (n + 1 - r + 1)..(n + 1)
    <3> HIDE DEF n, c, r
    <3>. QED BY <1>7, <1>9, <2>1
  <2>3. NextFailed(n + 1 - c)
    BY <1>6, <2>2
  <2>. QED BY <1>7, <1>9, <2>2, <2>3 DEF NextRecoversAt, NextFailed
<1>10. ASSUME NEW f \in 1..Ended, Failed(f) PROVE f <= Ended - streak
  <2>1. ~(f > Ended - streak)
    BY <1>1, <1>10 DEF Counted, Failed
  <2>. QED BY <1>2, <1>3, <2>1
<1>11. NextRecoversAt(Ended + 1) <=> streak' >= RecoveryStreak
  <2>1. ~(c >= r) => c < r
    <3> HIDE DEF c, r
    <3>. QED BY <1>7
  <2>. QED BY <1>8, <1>9, <2>1
<1>. QED BY <1>10, <1>11

\* The detection keeps pace with the history.
LEMMA DetectionStep ==
    ASSUME IInv, [Next]_vars
    PROVE  DetectionMatchesHistory'
<1>1. Typed /\ Opened /\ Counted /\ DetectionMatchesHistory
  BY DEF IInv
<1>2. CASE EndAttempt
  <2>1. /\ auto' = auto /\ Ended \in Nat /\ Ended' = Ended + 1
        /\ Attempts = 1..Ended /\ Attempts' = 1..(Ended + 1)
    BY <1>1, <1>2, AttemptEnds
  <2> SUFFICES ASSUME auto
               PROVE  /\ inFailover' = NextOpenAfter(Ended + 1)
                      /\ Range(opened') = {f \in 1..(Ended + 1) : NextFailed(f) /\ ~NextOpenAfter(f - 1)}
    <3>1. Len(outcomes') = Ended + 1
      BY <2>1 DEF Ended
    <3>. QED BY <2>1, <3>1 DEF DetectionMatchesHistory, OpenAfter, Failed, RecoversAt,
                NextOpenAfter, NextFailed, NextRecoversAt
  <2>2. /\ inFailover = OpenAfter(Ended)
        /\ Range(opened) = {f \in 1..Ended : Failed(f) /\ ~OpenAfter(f - 1)}
    BY <1>1, <2>1 DEF DetectionMatchesHistory, Ended
  <2>3. /\ \A s \in 1..Ended : NextFailed(s) <=> Failed(s)
        /\ \A s \in 1..Ended : NextRecoversAt(s) <=> RecoversAt(s)
        /\ \A n \in 0..Ended : NextOpenAfter(n) <=> OpenAfter(n)
    BY <1>1, <1>2, HistoryStands
  <2>4. /\ NextRecoversAt(Ended + 1) <=> streak' >= RecoveryStreak
        /\ \A f \in 1..Ended : Failed(f) => f <= Ended - streak
    BY <1>2, StreakIsCounted
  <2>5. /\ streak \in Nat /\ streak <= Ended /\ RecoveryStreak \in Nat /\ RecoveryStreak >= 1
        /\ inFailover \in BOOLEAN
    BY <1>1, HeartbeatAssumption DEF Opened, Typed
  <2>6. inFailover <=> NextOpenAfter(Ended)
    <3>1. Ended \in 0..Ended
      BY <2>1
    <3>. QED BY <2>2, <2>3, <3>1
  <2>7. Range(opened) = {f \in 1..Ended : NextFailed(f) /\ ~NextOpenAfter(f - 1)}
    <3>1. \A f \in 1..Ended : f - 1 \in 0..Ended
      BY <2>1
    <3>. QED BY <2>2, <2>3, <3>1
  <2>8. ASSUME ~NextRecoversAt(Ended + 1), NextOpenAfter(Ended)
        PROVE  NextOpenAfter(Ended + 1)
    <3>1. PICK f \in 1..Ended : NextFailed(f) /\ \A s \in (f + RecoveryStreak)..Ended : ~NextRecoversAt(s)
      BY <2>8 DEF NextOpenAfter
    <3>2. \A s \in (f + RecoveryStreak)..(Ended + 1) : s \in (f + RecoveryStreak)..Ended \/ s = Ended + 1
      BY <2>1, <2>5
    <3>3. f \in 1..(Ended + 1)
      BY <2>1
    <3>. QED BY <2>8, <3>1, <3>2, <3>3 DEF NextOpenAfter
  <2>9. ASSUME NextOpenAfter(Ended + 1), ~NextFailed(Ended + 1)
        PROVE  NextOpenAfter(Ended)
    <3>1. PICK f \in 1..(Ended + 1) :
             NextFailed(f) /\ \A s \in (f + RecoveryStreak)..(Ended + 1) : ~NextRecoversAt(s)
      BY <2>9 DEF NextOpenAfter
    <3>2. f # Ended + 1
      BY <2>9, <3>1
    <3>3. f \in 1..Ended /\ \A s \in (f + RecoveryStreak)..Ended : s \in (f + RecoveryStreak)..(Ended + 1)
      BY <2>1, <2>5, <3>2
    <3>. QED BY <3>1, <3>3 DEF NextOpenAfter
  <2>10. CASE /\ ~NextFailed(Ended + 1) /\ streak' = streak + 1
              /\ inFailover' = (inFailover /\ ~Recovers) /\ opened' = opened
    <3>1. NextOpenAfter(Ended + 1) => ~NextRecoversAt(Ended + 1)
      <4> SUFFICES ASSUME NextOpenAfter(Ended + 1), streak + 1 >= RecoveryStreak
                   PROVE  ~NextRecoversAt(Ended + 1)
        BY <2>4, <2>10
      <4>1. PICK f \in 1..(Ended + 1) :
               NextFailed(f) /\ \A s \in (f + RecoveryStreak)..(Ended + 1) : ~NextRecoversAt(s)
        BY DEF NextOpenAfter
      <4>2. f # Ended + 1
        BY <2>10, <4>1
      <4>3. f \in 1..Ended
        BY <2>1, <4>2
      <4>4. f <= Ended - streak
        BY <2>3, <2>4, <4>1, <4>3
      <4>5. Ended + 1 \in (f + RecoveryStreak)..(Ended + 1)
        BY <2>1, <2>5, <4>3, <4>4
      <4>. QED BY <4>1, <4>5
    <3>2. Recovers <=> inFailover /\ NextRecoversAt(Ended + 1)
      BY <2>4, <2>10 DEF Recovers
    <3>3. inFailover' <=> NextOpenAfter(Ended + 1)
      BY <2>6, <2>8, <2>9, <2>10, <3>1, <3>2
    <3>4. inFailover' \in BOOLEAN /\ NextOpenAfter(Ended + 1) \in BOOLEAN
      BY <2>10 DEF NextOpenAfter
    <3>5. \A f \in 1..(Ended + 1) : NextFailed(f) => f \in 1..Ended
      BY <2>1, <2>10
    <3>6. \A f \in 1..Ended : f \in 1..(Ended + 1)
      BY <2>1
    <3>7. Range(opened') = {f \in 1..(Ended + 1) : NextFailed(f) /\ ~NextOpenAfter(f - 1)}
      BY <2>7, <2>10, <3>5, <3>6
    <3>. QED BY <3>3, <3>4, <3>7
  <2>11. ASSUME NextFailed(Ended + 1) PROVE NextOpenAfter(Ended + 1)
    <3>1. Ended + 1 \in 1..(Ended + 1) /\ \A s \in (Ended + 1 + RecoveryStreak)..(Ended + 1) : FALSE
      BY <2>1, <2>5
    <3>. QED BY <2>11, <3>1 DEF NextOpenAfter
  <2>12. (Ended + 1) - 1 = Ended
    BY <2>1
  <2>13. \A f : f \in 1..(Ended + 1) <=> f \in 1..Ended \/ f = Ended + 1
    BY <2>1
  <2>14. CASE /\ NextFailed(Ended + 1) /\ inFailover' = TRUE /\ inFailover /\ opened' = opened
    <3>1. Range(opened') = {f \in 1..(Ended + 1) : NextFailed(f) /\ ~NextOpenAfter(f - 1)}
      <4> DEFINE Opens(f) == NextFailed(f) /\ ~NextOpenAfter(f - 1)
      <4>1. ~Opens(Ended + 1)
        BY <2>6, <2>12, <2>14
      <4> HIDE DEF Opens
      <4>2. {f \in 1..(Ended + 1) : Opens(f)} = {f \in 1..Ended : Opens(f)}
        BY <2>13, <4>1
      <4>. QED BY <2>7, <2>14, <4>2 DEF Opens
    <3>2. NextOpenAfter(Ended + 1) \in BOOLEAN
      BY DEF NextOpenAfter
    <3>. QED BY <2>11, <2>14, <3>1, <3>2
  <2>15. CASE /\ NextFailed(Ended + 1) /\ inFailover' = TRUE /\ ~inFailover
              /\ opened' = Append(opened, Ended + 1)
    <3>1. Ended + 1 \in Nat /\ opened \in Seq(Nat)
      BY <1>1, <2>1 DEF Opened
    <3>2. /\ \A k \in DOMAIN opened : k \in DOMAIN opened' /\ opened'[k] = opened[k]
          /\ \A k \in DOMAIN opened' : k \in DOMAIN opened \/ k = Len(opened) + 1
          /\ Len(opened) + 1 \in DOMAIN opened' /\ opened'[Len(opened) + 1] = Ended + 1
      BY <2>15, <3>1, AppendShape
    <3>3. \A f : f \in Range(opened') <=> f \in Range(opened) \/ f = Ended + 1
      BY <3>2 DEF Range
    <3>4. ~NextOpenAfter((Ended + 1) - 1)
      BY <2>6, <2>12, <2>15
    <3>5. Range(opened') = {f \in 1..(Ended + 1) : NextFailed(f) /\ ~NextOpenAfter(f - 1)}
      <4> DEFINE Opens(f) == NextFailed(f) /\ ~NextOpenAfter(f - 1)
      <4>1. Opens(Ended + 1)
        BY <2>15, <3>4
      <4> HIDE DEF Opens
      <4>2. {f \in 1..(Ended + 1) : Opens(f)} = {f \in 1..Ended : Opens(f)} \cup {Ended + 1}
        BY <2>13, <4>1
      <4>3. Range(opened') = Range(opened) \cup {Ended + 1}
        BY <3>3
      <4>. QED BY <2>7, <4>2, <4>3 DEF Opens
    <3>6. NextOpenAfter(Ended + 1) \in BOOLEAN
      BY DEF NextOpenAfter
    <3>. QED BY <2>11, <2>15, <3>5, <3>6
  <2>. QED BY <1>1, <1>2, <2>10, <2>14, <2>15, AttemptEnds DEF NextFailed
<1>3. CASE ~EndAttempt
  <2>1. auto' = auto /\ outcomes' = outcomes /\ inFailover' = inFailover /\ opened' = opened
    BY <1>3, DetectionFrame
  <2>. QED BY <1>1, <2>1 DEF DetectionMatchesHistory, OpenAfter, Failed, RecoversAt, Attempts
<1>. QED BY <1>2, <1>3

NextEndedAt(k, s) ==
    /\ NextRecoversAt(s) /\ s >= opened'[k] + RecoveryStreak
    /\ \A r \in (opened'[k] + RecoveryStreak)..(s - 1) : ~NextRecoversAt(r)

\* The failovers already opened stay as they are.
LEMMA OpenedFrame ==
    ASSUME Typed, Opened, [Next]_vars
    PROVE  /\ \A k \in DOMAIN opened : k \in DOMAIN opened' /\ opened'[k] = opened[k]
           /\ Len(opened) \in Nat /\ Len(opened') \in Nat /\ Len(opened) <= Len(opened')
           /\ DOMAIN opened = 1..Len(opened)
           /\ \A k \in DOMAIN opened' : k \in DOMAIN opened \/ (EndAttempt /\ k = Len(opened) + 1)
<1>1. opened \in Seq(Nat) /\ Len(opened) \in Nat /\ DOMAIN opened = 1..Len(opened)
  BY DEF Opened
<1>2. CASE EndAttempt
  <2>1. Ended + 1 \in Nat /\ (opened' = opened \/ opened' = Append(opened, Ended + 1))
    <3>1. Ended \in Nat
      BY <1>2, AttemptEnds
    <3>2. opened' = opened \/ opened' = Append(opened, Ended + 1)
      BY <1>2, AttemptEnds
    <3>. QED BY <3>1, <3>2
  <2>2. CASE opened' = opened
    BY <1>1, <2>2
  <2>3. CASE opened' = Append(opened, Ended + 1)
    BY <1>1, <1>2, <2>1, <2>3, AppendShape
  <2>. QED BY <2>1, <2>2, <2>3
<1>3. CASE ~EndAttempt
  BY <1>1, <1>3, DetectionFrame
<1>. QED BY <1>2, <1>3

\* What ended a failover ends it for good.
LEMMA EndingStands ==
    ASSUME Typed, Opened, [Next]_vars, NEW k \in DOMAIN opened, NEW s \in Attempts, EndedAt(k, s)
    PROVE  NextEndedAt(k, s) /\ s \in Attempts'
<1>1. /\ opened'[k] = opened[k] /\ opened[k] \in Nat
      /\ RecoveryStreak \in Nat /\ RecoveryStreak >= 1
  BY OpenedFrame, HeartbeatAssumption DEF Opened
<1>2. CASE EndAttempt
  <2>1. /\ Ended \in Nat /\ Attempts = 1..Ended /\ Attempts' = 1..(Ended + 1)
        /\ \A r \in 1..Ended : NextRecoversAt(r) <=> RecoversAt(r)
    BY <1>2, AttemptEnds, HistoryStands
  <2>2. s \in 1..Ended /\ s \in Attempts'
    BY <2>1
  <2>3. \A r \in (opened[k] + RecoveryStreak)..(s - 1) : r \in 1..Ended
    BY <1>1, <2>1, <2>2
  <2>. QED BY <1>1, <2>1, <2>2, <2>3 DEF NextEndedAt, EndedAt
<1>3. CASE ~EndAttempt
  <2>1. outcomes' = outcomes
    BY <1>3, DetectionFrame
  <2>2. Attempts' = Attempts /\ \A r : NextRecoversAt(r) <=> RecoversAt(r)
    BY <2>1 DEF Attempts, NextRecoversAt, RecoversAt
  <2>. QED BY <1>1, <2>2 DEF NextEndedAt, EndedAt
<1>. QED BY <1>2, <1>3

\* A failover stays open until its first streak of successes, and at once ends.
LEMMA UnrecoveredStep ==
    ASSUME IInv, [Next]_vars
    PROVE  Unrecovered'
<1>1. Typed /\ Opened /\ Counted /\ Unrecovered
  BY DEF IInv
<1>2. CASE EndAttempt
  <2>1. /\ Ended \in Nat /\ Ended' = Ended + 1 /\ Attempts = 1..Ended
        /\ RecoveryStreak \in Nat /\ RecoveryStreak >= 1
    BY <1>1, <1>2, AttemptEnds, HeartbeatAssumption
  <2> SUFFICES
        /\ inFailover' => \A r \in (opened'[run'] + RecoveryStreak)..(Ended + 1) : ~NextRecoversAt(r)
        /\ pc' = "tag" => NextEndedAt(run', Ended + 1)
    BY <2>1 DEF Unrecovered, EndedAt, RecoversAt, NextEndedAt, NextRecoversAt
  <2>2. \A s \in 1..Ended : NextRecoversAt(s) <=> RecoversAt(s)
    BY <1>1, <1>2, HistoryStands
  <2>3. auto => /\ NextRecoversAt(Ended + 1) <=> streak' >= RecoveryStreak
                /\ \A f \in 1..Ended : Failed(f) => f <= Ended - streak
    BY <1>2, StreakIsCounted
  <2>4. /\ streak \in Nat /\ streak <= Ended
        /\ inFailover => auto /\ run \in DOMAIN opened
    BY <1>1 DEF Opened
  <2>5. inFailover => /\ opened[run] \in 1..Ended /\ Failed(opened[run])
                      /\ opened[run] <= Ended - streak
                      /\ \A r \in (opened[run] + RecoveryStreak)..Ended : ~RecoversAt(r)
    BY <1>1, <2>1, <2>3, <2>4 DEF Opened, Unrecovered
  <2>6. inFailover => \A r \in (opened[run] + RecoveryStreak)..Ended : ~NextRecoversAt(r)
    <3>1. inFailover => \A r \in (opened[run] + RecoveryStreak)..Ended : r \in 1..Ended
      BY <2>1, <2>5
    <3>. QED BY <2>2, <2>5, <3>1
  <2>7. ASSUME inFailover, ~NextRecoversAt(Ended + 1)
        PROVE  \A r \in (opened[run] + RecoveryStreak)..(Ended + 1) : ~NextRecoversAt(r)
    <3>1. \A r \in (opened[run] + RecoveryStreak)..(Ended + 1) :
              r \in (opened[run] + RecoveryStreak)..Ended \/ r = Ended + 1
      BY <2>1, <2>5, <2>7
    <3>. QED BY <2>6, <2>7, <3>1
  <2>8. CASE ~auto /\ pc' = "check" /\ inFailover' = inFailover
    BY <2>4, <2>8
  <2>9. CASE /\ auto /\ streak' = streak + 1 /\ inFailover' = (inFailover /\ ~Recovers)
             /\ opened' = opened /\ run' = run /\ pc' = IF Recovers THEN "tag" ELSE "check"
    <3>1. Recovers <=> inFailover /\ NextRecoversAt(Ended + 1)
      BY <2>3, <2>9 DEF Recovers
    <3>2. ASSUME Recovers PROVE NextEndedAt(run, Ended + 1)
      <4>1. Ended + 1 >= opened[run] + RecoveryStreak
        <5>1. streak + 1 >= RecoveryStreak
          BY <3>2 DEF Recovers
        <5>. QED BY <2>1, <2>4, <2>5, <3>1, <3>2, <5>1
      <4>2. (Ended + 1) - 1 = Ended
        BY <2>1
      <4>. QED BY <2>6, <2>9, <3>1, <3>2, <4>1, <4>2 DEF NextEndedAt
    <3>3. pc' = "tag" => Recovers
      BY <2>9
    <3>4. inFailover' => inFailover /\ ~NextRecoversAt(Ended + 1)
      BY <2>9, <3>1
    <3>. QED BY <2>7, <2>9, <3>2, <3>3, <3>4
  <2>10. CASE /\ auto /\ ~outcomes'[Ended + 1] /\ inFailover
              /\ opened' = opened /\ run' = run /\ pc' = "check"
    <3>1. ~NextRecoversAt(Ended + 1)
      <4>1. Ended + 1 \in ((Ended + 1) - RecoveryStreak + 1)..(Ended + 1)
        BY <2>1
      <4>. QED BY <2>10, <4>1 DEF NextRecoversAt
    <3>. QED BY <2>7, <2>10, <3>1
  <2>11. CASE /\ auto /\ opened' = Append(opened, Ended + 1)
              /\ run' = Len(opened) + 1 /\ pc' = "register"
    <3>1. opened \in Seq(Nat) /\ Ended + 1 \in Nat
      BY <1>1, <2>1 DEF Opened
    <3>2. opened'[run'] = Ended + 1
      BY <2>11, <3>1, AppendShape
    <3>3. \A r \in (Ended + 1 + RecoveryStreak)..(Ended + 1) : FALSE
      BY <2>1
    <3>. QED BY <2>11, <3>2, <3>3
  <2>. QED BY <1>1, <1>2, <2>8, <2>9, <2>10, <2>11, AttemptEnds
<1>3. CASE ~EndAttempt
  <2>1. /\ outcomes' = outcomes /\ inFailover' = inFailover /\ opened' = opened /\ run' = run
    BY <1>3, DetectionFrame
  <2>2. pc' = "tag" => pc = "tag"
    BY <1>1, <1>3, LoopFrame
  <2>. QED BY <1>1, <2>1, <2>2 DEF Unrecovered, EndedAt, RecoversAt, Ended
<1>. QED BY <1>2, <1>3

ObservedType == [at : Nat, stored : BOOLEAN, run : Nat]

\* What is said of an observer event: it falls in the window of its run.
InItsWindow(e) ==
    e.run > 0 => /\ opened[e.run] <= e.at
                 /\ \E s \in Attempts : EndedAt(e.run, s) /\ e.at < s

\* A failover that is being tagged has just ended.
LEMMA TaggedIsInWindow ==
    ASSUME Typed, Opened, Unrecovered, pc = "tag", NEW e \in ObservedType, InItsWindow(e)
    PROVE  /\ Tagged(e) \in ObservedType /\ Tagged(e).at = e.at
           /\ Tagged(e).run \in {e.run, run} /\ InItsWindow(Tagged(e))
<1>1. CASE e.stored /\ InWindow(e) /\ e.run = 0
  <2> DEFINE f == [e EXCEPT !.run = run]
  <2>1. Tagged(e) = f
    BY <1>1 DEF Tagged
  <2>2. run \in Nat
    BY DEF Opened
  <2>3. f \in ObservedType /\ f.at = e.at /\ f.run = run
    BY <2>2 DEF ObservedType
  <2>4. InItsWindow(f)
    <3>1. opened[run] <= e.at /\ e.at < sequence /\ sequence = Ended
      BY <1>1 DEF InWindow, Typed
    <3>2. EndedAt(run, Ended)
      BY DEF Unrecovered
    <3>3. Ended \in Attempts
      <4>1. run \in DOMAIN opened /\ opened[run] \in Attempts
        BY DEF Opened
      <4>2. Attempts = 1..Ended /\ Ended \in Nat
        BY DEF Attempts, Ended, Typed
      <4>. QED BY <4>1, <4>2
    <3> HIDE DEF f
    <3>. QED BY <2>3, <3>1, <3>2, <3>3 DEF InItsWindow
  <2> HIDE DEF f
  <2>. QED BY <2>1, <2>3, <2>4
<1>2. CASE ~(e.stored /\ InWindow(e) /\ e.run = 0)
  BY <1>2 DEF Tagged
<1>. QED BY <1>1, <1>2

\* Only the tagging of a recovery and the observers touch the events.
LEMMA ObservedFrame ==
    ASSUME [Next]_vars
    PROVE  \/ observed' = observed
           \/ pc = "tag" /\ observed' = [i \in DOMAIN observed |-> Tagged(observed[i])]
           \/ observed' = Append(observed, [at |-> sequence, stored |-> FALSE, run |-> 0])
           \/ \E i \in DOMAIN observed : observed' = [observed EXCEPT ![i].stored = TRUE]
  BY DEF Next, ClientStep, vars, database, BeginAttempt, EndAttempt, EndLoop, Register,
     RegisterFail, TagAll, Tag, TagFail, Summarise, SummariseFail, CheckBatch, FlushDone, InsertRow,
     FlushFail, Shutdown, ObserverEvent, ObserverStore

\* An event carries the run of a failover it happened in.
LEMMA ObservedStep ==
    ASSUME IInv, [Next]_vars
    PROVE  Observed'
<1>1. Typed /\ Opened /\ Unrecovered /\ Observed
  BY DEF IInv
<1>2. /\ observed \in Seq(ObservedType)
      /\ \A i \in DOMAIN observed :
            observed[i].at <= sequence /\ observed[i].run <= Len(opened) /\ InItsWindow(observed[i])
  BY <1>1 DEF Observed, ObservedType, InItsWindow
<1>3. /\ sequence \in Nat /\ sequence' \in Nat /\ sequence <= sequence'
      /\ Len(opened) \in Nat /\ Len(opened') \in Nat /\ Len(opened) <= Len(opened')
      /\ run \in Nat /\ run <= Len(opened)
  <2>1. sequence' = sequence \/ sequence' = sequence + 1
    BY <1>1, LoopFrame
  <2>. QED BY <1>1, <2>1, OpenedFrame DEF Typed, Opened
<1> DEFINE Fits(e) == /\ e \in ObservedType
                      /\ e.at <= sequence /\ e.run <= Len(opened) /\ InItsWindow(e)
<1>4. ASSUME NEW e, Fits(e)
      PROVE  /\ e.at <= sequence' /\ e.run <= Len(opened')
             /\ e.run > 0 => /\ opened'[e.run] <= e.at
                             /\ \E s \in Attempts' : NextEndedAt(e.run, s) /\ e.at < s
  <2>1. e.at \in Nat /\ e.run \in Nat
    BY <1>4 DEF ObservedType
  <2>2. e.at <= sequence' /\ e.run <= Len(opened')
    BY <1>3, <1>4, <2>1
  <2>3. ASSUME e.run > 0
        PROVE  /\ opened'[e.run] <= e.at
               /\ \E s \in Attempts' : NextEndedAt(e.run, s) /\ e.at < s
    <3>1. e.run \in DOMAIN opened /\ opened'[e.run] = opened[e.run]
      BY <1>1, <1>3, <1>4, <2>1, <2>3, OpenedFrame
    <3>2. PICK s \in Attempts : EndedAt(e.run, s) /\ e.at < s
      BY <1>4, <2>3 DEF InItsWindow
    <3>3. NextEndedAt(e.run, s) /\ s \in Attempts'
      BY <1>1, <3>1, <3>2, EndingStands
    <3>4. opened[e.run] <= e.at
      BY <1>4, <2>3 DEF InItsWindow
    <3>. QED BY <3>1, <3>2, <3>3, <3>4
  <2>. QED BY <2>2, <2>3
<1>5. ASSUME observed' \in Seq(ObservedType), \A i \in DOMAIN observed' : Fits(observed'[i])
      PROVE  Observed'
  <2>1. \A i \in DOMAIN observed' :
           LET e == observed'[i]
           IN /\ e.at <= sequence' /\ e.run <= Len(opened')
              /\ e.run > 0 => /\ opened'[e.run] <= e.at
                              /\ \E s \in Attempts' : NextEndedAt(e.run, s) /\ e.at < s
    BY <1>4, <1>5
  <2>. QED BY <1>5, <2>1 DEF Observed, ObservedType, EndedAt, NextEndedAt, RecoversAt, NextRecoversAt
<1>6. \A i \in DOMAIN observed : Fits(observed[i])
  BY <1>2
<1>7. CASE observed' = observed
  BY <1>2, <1>5, <1>6, <1>7
<1>8. CASE pc = "tag" /\ observed' = [i \in DOMAIN observed |-> Tagged(observed[i])]
  <2>1. ASSUME NEW i \in DOMAIN observed PROVE Fits(Tagged(observed[i]))
    <3>1. observed[i] \in ObservedType /\ InItsWindow(observed[i])
      BY <1>6
    <3>2. /\ Tagged(observed[i]) \in ObservedType /\ Tagged(observed[i]).at = observed[i].at
          /\ Tagged(observed[i]).run \in {observed[i].run, run} /\ InItsWindow(Tagged(observed[i]))
      BY <1>1, <1>8, <3>1, TaggedIsInWindow
    <3>. QED BY <1>2, <1>3, <3>2
  <2>2. DOMAIN observed' = 1..Len(observed) /\ Len(observed) \in Nat /\ DOMAIN observed = 1..Len(observed)
    BY <1>2, <1>8
  <2>3. \A i \in DOMAIN observed' : observed'[i] = Tagged(observed[i]) /\ Fits(observed'[i])
    BY <1>8, <2>1, <2>2
  <2>4. observed' \in Seq(ObservedType)
    <3> HIDE DEF Fits
    <3>1. \A i \in 1..Len(observed) : Tagged(observed[i]) \in ObservedType
      BY <2>1, <2>2 DEF Fits
    <3>2. observed' = [i \in 1..Len(observed) |-> Tagged(observed[i])]
      BY <1>8, <2>2
    <3>. QED BY <2>2, <3>1, <3>2
  <2>. QED BY <1>5, <2>3, <2>4
<1>9. CASE observed' = Append(observed, [at |-> sequence, stored |-> FALSE, run |-> 0])
  <2> DEFINE e == [at |-> sequence, stored |-> FALSE, run |-> 0]
  <2>1. e \in ObservedType /\ e.at = sequence /\ e.run = 0
    BY <1>3 DEF ObservedType
  <2>2. Fits(e)
    BY <1>3, <2>1 DEF InItsWindow
  <2> HIDE DEF e, Fits
  <2>3. /\ observed' \in Seq(ObservedType) /\ observed'[Len(observed) + 1] = e
        /\ \A i \in DOMAIN observed : observed'[i] = observed[i]
        /\ \A i \in DOMAIN observed' : i \in DOMAIN observed \/ i = Len(observed) + 1
    <3>1. observed' = Append(observed, e)
      BY <1>9 DEF e
    <3>. QED BY <1>2, <2>1, <3>1, AppendShape
  <2>. QED BY <1>5, <1>6, <2>2, <2>3
<1>10. CASE \E i \in DOMAIN observed : observed' = [observed EXCEPT ![i].stored = TRUE]
  <2>1. PICK i \in DOMAIN observed : observed' = [observed EXCEPT ![i].stored = TRUE]
    BY <1>10
  <2> DEFINE e == [observed[i] EXCEPT !.stored = TRUE]
  <2>2. observed[i] \in ObservedType
    BY <1>6
  <2>3. e \in ObservedType /\ e.at = observed[i].at /\ e.run = observed[i].run
    BY <2>2 DEF ObservedType
  <2>4. Fits(e)
    BY <1>6, <2>3 DEF InItsWindow
  <2>5. observed' = [observed EXCEPT ![i] = e]
    BY <2>1
  <2> HIDE DEF e, Fits
  <2>6. observed' \in Seq(ObservedType) /\ \A j \in DOMAIN observed' : Fits(observed'[j])
    BY <1>2, <1>6, <2>3, <2>4, <2>5
  <2>. QED BY <1>5, <2>6
<1>. QED BY <1>7, <1>8, <1>9, <1>10, ObservedFrame

-----------------------------------------------------------------------------
(* What a recovery logs. *)

FailedAttempts == {s \in Attempts : Failed(s)}

\* There are finitely many failed attempts.
LEMMA FailedAttemptsFinite ==
    ASSUME Typed
    PROVE  IsFiniteSet(FailedAttempts) /\ Cardinality(FailedAttempts) \in Nat
<1>1. Attempts = 1..Ended /\ Ended \in Nat
  BY DEF Typed, Attempts, Ended
<1>2. IsFiniteSet(Attempts)
  BY <1>1, FS_Interval
<1>. QED BY <1>2, FS_Subset, FS_CardinalityType DEF FailedAttempts

\* While no statement raises, the rows a recovery selects are of as many failed
\* attempts.
LEMMA LoggedRowsAreFailures ==
    ASSUME Typed, Queued, Opened, Stored, connected, NEW k \in DOMAIN opened
    PROVE  /\ LoggedFailures(k) \in Nat
           /\ dbFailures = 0 => LoggedFailures(k) <= Cardinality(FailedAttempts)
<1>1. IsFiniteSet(FailureRows(k)) /\ Cardinality(FailureRows(k)) \in Nat
  <2>1. FailureRows(k) \subseteq DOMAIN clientRows /\ IsFiniteSet(DOMAIN clientRows)
    BY RowsOfType DEF FailureRows, RunRows
  <2>. QED BY <2>1, FS_Subset, FS_CardinalityType
<1>2. ASSUME dbFailures = 0 PROVE Cardinality(FailureRows(k)) <= Cardinality(FailedAttempts)
  <2> DEFINE f == [i \in FailureRows(k) |-> clientRows[i].seq]
  <2>1. \A i \in FailureRows(k) : i \in DOMAIN clientRows /\ clientRows[i].seq \in FailedAttempts
    BY DEF FailureRows, RunRows, FailedAttempts, Failed, Queued
  <2>2. ASSUME NEW i \in FailureRows(k), NEW j \in FailureRows(k), f[i] = f[j], i # j
        PROVE  FALSE
    <3> DEFINE s == clientRows[i].seq
    <3>1. i \in RowsOf(s) /\ j \in RowsOf(s) /\ s \in Attempts
      BY <2>1, <2>2 DEF RowsOf, FailedAttempts
    <3>2. Cardinality(RowsOf(s)) <= 1
      <4>1. Cardinality(RowsOf(s)) <= 1 + dbFailures
        BY <3>1 DEF Stored, Kept
      <4>. QED BY <1>2, <4>1
    <3>3. IsFiniteSet(RowsOf(s)) /\ Cardinality(RowsOf(s)) \in Nat
      BY RowsOfType
    <3> HIDE DEF s
    <3>4. Cardinality({i} \cup {j}) = 2
      <4>1. IsFiniteSet({i}) /\ Cardinality({i}) = 1
        BY FS_Singleton
      <4>2. j \notin {i}
        BY <2>2
      <4>3. Cardinality({i} \cup {j}) = Cardinality({i}) + 1
        BY <4>1, <4>2, FS_AddElement
      <4>. QED BY <4>1, <4>3
    <3>5. Cardinality({i} \cup {j}) <= Cardinality(RowsOf(s))
      <4>1. {i} \cup {j} \subseteq RowsOf(s)
        BY <3>1
      <4>. QED BY <3>3, <4>1, FS_Subset
    <3>. QED BY <3>2, <3>3, <3>4, <3>5
  <2>3. f \in Injection(FailureRows(k), FailedAttempts)
    <3>1. f \in [FailureRows(k) -> FailedAttempts]
      BY <2>1
    <3>2. \A i, j \in FailureRows(k) : f[i] = f[j] => i = j
      BY <2>2
    <3> HIDE DEF f
    <3>. QED BY <3>1, <3>2 DEF Injection, IsInjective
  <2>. QED BY <2>3, FailedAttemptsFinite, FS_Injection
<1>. QED BY <1>1, <1>2, FailedAttemptsFinite DEF LoggedFailures

NextFailedAttempts == {s \in Attempts' : NextFailed(s)}

\* A failed attempt remains one.
LEMMA FailedAttemptsGrow ==
    ASSUME Typed, Typed', [Next]_vars
    PROVE  /\ Cardinality(FailedAttempts) \in Nat /\ Cardinality(NextFailedAttempts) \in Nat
           /\ Cardinality(FailedAttempts) <= Cardinality(NextFailedAttempts)
<1>1. FailedAttempts \subseteq NextFailedAttempts
  <2>1. CASE EndAttempt
    <3>1. /\ Attempts = 1..Ended /\ Attempts' = 1..(Ended + 1) /\ Ended \in Nat
          /\ \A s \in 1..Ended : NextFailed(s) <=> Failed(s)
      BY <2>1, AttemptEnds, HistoryStands
    <3>2. 1..Ended \subseteq 1..(Ended + 1)
      BY <3>1
    <3>. QED BY <3>1, <3>2 DEF FailedAttempts, NextFailedAttempts
  <2>2. CASE ~EndAttempt
    <3>1. outcomes' = outcomes
      BY <2>2, DetectionFrame
    <3>. QED BY <3>1 DEF FailedAttempts, NextFailedAttempts, Attempts, Failed, NextFailed
  <2>. QED BY <2>1, <2>2
<1>2. IsFiniteSet(NextFailedAttempts)
  <2>1. Attempts' = 1..Ended' /\ Ended' \in Nat
    BY DEF Typed, Attempts, Ended
  <2>2. IsFiniteSet(Attempts')
    BY <2>1, FS_Interval
  <2>3. NextFailedAttempts \subseteq Attempts'
    BY DEF NextFailedAttempts
  <2>. QED BY <2>2, <2>3, FS_Subset
<1>. QED BY <1>1, <1>2, FS_Subset, FS_CardinalityType

\* What a step does to the registry, the log and the failures.
LEMMA LogFrame ==
    ASSUME [Next]_vars
    PROVE  /\ testRuns' = testRuns \/ (pc = "register" /\ testRuns' = testRuns \cup {RunId(run)})
           /\ \/ unregistered' = unregistered
              \/ pc = "register" /\ unregistered' = unregistered \cup {run}
           /\ \/ summary' = summary
              \/ /\ pc = "summary" /\ connected /\ dbFailures' = dbFailures
                 /\ summary' = Append(summary, [run |-> run, failures |-> LoggedFailures(run)])
           /\ dbFailures' = dbFailures \/ DbFails
  BY DEF Next, ClientStep, vars, database, BeginAttempt, EndAttempt, EndLoop, Register,
     RegisterFail, TagAll, Tag, TagFail, Summarise, SummariseFail, CheckBatch, FlushDone, InsertRow,
     FlushFail, Shutdown, ObserverEvent, ObserverStore

\* The registry names runs, and no recovery logs more failures than there were.
LEMMA LoggedStep ==
    ASSUME IInv, [Next]_vars
    PROVE  Logged'
<1>1. Typed /\ Queued /\ Opened /\ Stored /\ Logged
  BY DEF IInv
<1>2. Typed'
  BY TypedStep
<1>3. /\ Len(opened) \in Nat /\ Len(opened') \in Nat /\ Len(opened) <= Len(opened')
      /\ run \in Nat /\ run = Len(opened)
      /\ pc \in {"register", "summary"} => run >= 1 /\ run \in DOMAIN opened
  BY <1>1, OpenedFrame DEF Opened
<1>4. testRuns' \subseteq 0..MaxAttempts
  <2>1. ASSUME pc = "register" PROVE RunId(run) \in 0..MaxAttempts
    <3>1. opened[run] \in Nat /\ opened[run] <= MaxAttempts /\ MaxAttempts \in Nat
      <4>1. opened[run] \in Attempts
        BY <1>1, <1>3, <2>1 DEF Opened
      <4>2. Attempts = 1..Ended /\ Ended \in Nat /\ Ended <= sequence /\ sequence \in Nat /\ sequence <= MaxAttempts
        BY <1>1 DEF Typed, Attempts, Ended
      <4>. QED BY <4>1, <4>2, HeartbeatAssumption
    <3>2. RunId(run) \in Nat /\ RunId(run) <= opened[run]
      BY <3>1, QuotientBound, HeartbeatAssumption DEF RunId
    <3>. QED BY <3>1, <3>2
  <2>. QED BY <1>1, <2>1, LogFrame DEF Logged
<1>5. unregistered' \subseteq 1..Len(opened')
  <2>1. unregistered \subseteq 1..Len(opened)
    BY <1>1 DEF Logged
  <2>2. \A k \in 1..Len(opened) : k \in 1..Len(opened')
    BY <1>3
  <2>3. pc = "register" => run \in 1..Len(opened)
    BY <1>3
  <2>4. unregistered' = unregistered \/ (pc = "register" /\ unregistered' = unregistered \cup {run})
    BY LogFrame
  <2>5. unregistered' \subseteq 1..Len(opened)
    BY <2>1, <2>3, <2>4
  <2>. QED BY <2>2, <2>5
<1> DEFINE LineType == [run : Nat, failures : Nat]
           Fits(line) == /\ line \in LineType /\ line.run \in 1..Len(opened)
                         /\ dbFailures = 0 => line.failures <= Cardinality(FailedAttempts)
<1>6. summary \in Seq(LineType) /\ \A i \in DOMAIN summary : Fits(summary[i])
  <2>1. summary \in Seq(LineType)
    BY <1>1 DEF Logged
  <2>2. ASSUME NEW i \in DOMAIN summary PROVE Fits(summary[i])
    <3>1. summary[i] \in LineType
      <4> HIDE DEF LineType
      <4>. QED BY <2>1
    <3>2. summary[i].run \in 1..Len(opened)
      BY <1>1 DEF Logged
    <3>3. dbFailures = 0 => summary[i].failures <= Cardinality(FailedAttempts)
      BY <1>1 DEF Logged, FailedAttempts
    <3>. QED BY <3>1, <3>2, <3>3
  <2>. QED BY <2>1, <2>2
<1>7. ASSUME NEW line, Fits(line)
      PROVE  /\ line.run \in 1..Len(opened')
             /\ dbFailures' = 0 => line.failures <= Cardinality(NextFailedAttempts)
  <2>1. dbFailures' = 0 => dbFailures = 0
    BY <1>1, LogFrame DEF Typed, DbFails
  <2>2. line.failures \in Nat /\ line.run \in 1..Len(opened')
    BY <1>3, <1>7
  <2> HIDE DEF LineType
  <2>. QED BY <1>1, <1>2, <1>7, <2>1, <2>2, FailedAttemptsGrow
<1>8. ASSUME summary' \in Seq(LineType), \A i \in DOMAIN summary' : Fits(summary'[i])
      PROVE  Logged'
  <2>1. \A i \in DOMAIN summary' :
           /\ summary'[i].run \in 1..Len(opened')
           /\ dbFailures' = 0 => summary'[i].failures <= Cardinality(NextFailedAttempts)
    BY <1>7, <1>8
  <2>. QED BY <1>4, <1>5, <1>8, <2>1 DEF Logged, NextFailedAttempts, Failed, NextFailed
<1>9. CASE summary' = summary
  BY <1>6, <1>8, <1>9
<1>10. CASE /\ pc = "summary" /\ connected
            /\ summary' = Append(summary, [run |-> run, failures |-> LoggedFailures(run)])
  <2> DEFINE line == [run |-> run, failures |-> LoggedFailures(run)]
  <2>1. /\ LoggedFailures(run) \in Nat
        /\ dbFailures = 0 => LoggedFailures(run) <= Cardinality(FailedAttempts)
    BY <1>1, <1>3, <1>10, LoggedRowsAreFailures
  <2>2. Fits(line)
    BY <1>3, <1>10, <2>1
  <2>3. line \in LineType
    BY <2>2
  <2> HIDE DEF line, LineType, Fits
  <2>4. /\ summary' \in Seq(LineType) /\ summary'[Len(summary) + 1] = line
        /\ \A i \in DOMAIN summary : summary'[i] = summary[i]
        /\ \A i \in DOMAIN summary' : i \in DOMAIN summary \/ i = Len(summary) + 1
    <3>1. summary' = Append(summary, line)
      BY <1>10 DEF line
    <3>. QED BY <1>6, <2>3, <3>1, AppendShape
  <2>. QED BY <1>6, <1>8, <2>2, <2>4
<1>. QED BY <1>9, <1>10, LogFrame

-----------------------------------------------------------------------------
(* The rows filed under a failover they preceded. *)

NextEarlyRows(k) ==
    {i \in DOMAIN clientRows' : clientRows'[i].run = k /\ clientRows'[i].seq < opened'[k]}
NextEarlyWaiting(k) == {j \in DOMAIN results' : j > written' /\ results'[j] < opened'[k]}

\* There are finitely many of them, stored and waiting.
LEMMA EarlyFinite ==
    ASSUME Queued, NEW k
    PROVE  /\ IsFiniteSet(EarlyRows(k)) /\ Cardinality(EarlyRows(k)) \in Nat
           /\ IsFiniteSet(EarlyWaiting(k)) /\ Cardinality(EarlyWaiting(k)) \in Nat
<1>1. DOMAIN results = 1..Len(results) /\ Len(results) \in Nat /\ IsFiniteSet(DOMAIN clientRows)
  <2>1. DOMAIN results = 1..Len(results) /\ Len(results) \in Nat
    BY DEF Queued
  <2>. QED BY <2>1, RowsOfType
<1>2. IsFiniteSet(DOMAIN results)
  BY <1>1, FS_Interval
<1>3. EarlyRows(k) \subseteq DOMAIN clientRows /\ EarlyWaiting(k) \subseteq DOMAIN results
  BY DEF EarlyRows, EarlyWaiting
<1>. QED BY <1>1, <1>2, <1>3, FS_Subset, FS_CardinalityType

\* A flush turns a waiting attempt into a row of the same run.
LEMMA EarlyRowInserted ==
    ASSUME Queued, Opened, written + 1 \in DOMAIN results, written' = written + 1,
           results' = results, opened' = opened,
           clientRows' = Append(clientRows, RowOf(results[written + 1]))
    PROVE  /\ \A k \in DOMAIN opened : k # run => NextEarlyRows(k) = EarlyRows(k)
           /\ Cardinality(NextEarlyRows(run)) + Cardinality(NextEarlyWaiting(run))
              = Cardinality(EarlyRows(run)) + Cardinality(EarlyWaiting(run))
           /\ Cardinality(NextEarlyRows(run)) \in Nat /\ Cardinality(NextEarlyWaiting(run)) \in Nat
<1> DEFINE j == written + 1
           n == Len(clientRows)
           row == RowOf(results[j])
           RowType == [seq : Nat, run : Nat]
<1>1. /\ row \in RowType /\ row.seq = results[j] /\ row.run = run
      /\ clientRows \in Seq(RowType)
  BY DEF RowOf, Queued, Opened
<1>2. clientRows' = Append(clientRows, row)
  OBVIOUS
<1>3. written \in Nat /\ DOMAIN results = 1..Len(results) /\ Len(results) \in Nat
  BY DEF Queued
<1>4. n \in Nat /\ DOMAIN clientRows = 1..n
  BY RowsOfType
<1>5. /\ j \in DOMAIN results /\ j > written
      /\ \A i \in DOMAIN results : i > j <=> i > written /\ i # j
  BY <1>3
<1> HIDE DEF row
<1>6. /\ clientRows'[n + 1] = row /\ n + 1 \in DOMAIN clientRows'
      /\ \A i \in DOMAIN clientRows : i \in DOMAIN clientRows' /\ clientRows'[i] = clientRows[i]
      /\ \A i \in DOMAIN clientRows' : i \in DOMAIN clientRows \/ i = n + 1
  BY <1>1, <1>2, AppendShape
<1>7. n + 1 \notin DOMAIN clientRows
  BY <1>4
<1>8. NextEarlyWaiting(run) = EarlyWaiting(run) \ {j}
  <2>1. written' = j
    OBVIOUS
  <2> HIDE DEF j
  <2>. QED BY <1>5, <2>1 DEF NextEarlyWaiting, EarlyWaiting
<1> HIDE DEF j, n
<1>9. ASSUME NEW k \in DOMAIN opened, k # run PROVE NextEarlyRows(k) = EarlyRows(k)
  BY <1>1, <1>6, <1>9 DEF NextEarlyRows, EarlyRows
<1>10. /\ IsFiniteSet(EarlyRows(run)) /\ Cardinality(EarlyRows(run)) \in Nat
       /\ IsFiniteSet(EarlyWaiting(run)) /\ Cardinality(EarlyWaiting(run)) \in Nat
  BY EarlyFinite
<1>11. CASE results[j] < opened[run]
  <2>1. NextEarlyRows(run) = EarlyRows(run) \cup {n + 1}
    BY <1>1, <1>6, <1>11 DEF NextEarlyRows, EarlyRows
  <2>2. n + 1 \notin EarlyRows(run)
    BY <1>7 DEF EarlyRows
  <2>3. j \in EarlyWaiting(run)
    BY <1>5, <1>11 DEF EarlyWaiting
  <2>4. Cardinality(NextEarlyRows(run)) = Cardinality(EarlyRows(run)) + 1
    BY <1>10, <2>1, <2>2, FS_AddElement
  <2>5. Cardinality(NextEarlyWaiting(run)) = Cardinality(EarlyWaiting(run)) - 1
    BY <1>8, <1>10, <2>3, FS_RemoveElement
  <2>6. Cardinality(NextEarlyWaiting(run)) \in Nat
    BY <1>8, <1>10, FS_RemoveElement, FS_CardinalityType
  <2>. QED BY <1>9, <1>10, <2>4, <2>5, <2>6
<1>12. CASE ~(results[j] < opened[run])
  <2>1. NextEarlyRows(run) = EarlyRows(run)
    BY <1>1, <1>6, <1>12 DEF NextEarlyRows, EarlyRows
  <2>2. j \notin EarlyWaiting(run)
    BY <1>12 DEF EarlyWaiting
  <2>3. NextEarlyWaiting(run) = EarlyWaiting(run)
    BY <1>8, <2>2
  <2>. QED BY <1>9, <1>10, <2>1, <2>3
<1>. QED BY <1>11, <1>12

\* While no statement raises, one batch bounds what a failover can be charged with.
LEMMA OneBatchStep ==
    ASSUME IInv, [Next]_vars
    PROVE  OneBatch'
<1>1. Typed /\ Queued /\ Opened /\ OneBatch /\ Queued' /\ Typed'
  BY QueuedStep, TypedStep DEF IInv
<1>2. dbFailures' = 0 => dbFailures = 0
  BY <1>1, LogFrame DEF Typed, DbFails
<1> SUFFICES ASSUME dbFailures' = 0
             PROVE  /\ Len(results') <= BatchSize
                    /\ pc' \in {"attempt", "query"} => Len(results') < BatchSize
                    /\ \A k \in DOMAIN opened' : Cardinality(NextEarlyRows(k)) < BatchSize
                    /\ run' >= 1 => Cardinality(NextEarlyRows(run')) + Cardinality(NextEarlyWaiting(run')) < BatchSize
  BY DEF OneBatch, EarlyRows, EarlyWaiting, NextEarlyRows, NextEarlyWaiting
<1>3. /\ Len(results) <= BatchSize
      /\ pc \in {"attempt", "query"} => Len(results) < BatchSize
      /\ \A k \in DOMAIN opened : Cardinality(EarlyRows(k)) < BatchSize
      /\ run >= 1 => Cardinality(EarlyRows(run)) + Cardinality(EarlyWaiting(run)) < BatchSize
  BY <1>1, <1>2 DEF OneBatch
<1>4. /\ results \in Seq(Nat) /\ Len(results) \in Nat /\ DOMAIN results = 1..Len(results)
      /\ \A j \in DOMAIN results : results[j] \in Attempts
      /\ \A i \in DOMAIN clientRows : clientRows[i].run \in Nat /\ clientRows[i].run <= Len(opened)
      /\ opened \in Seq(Nat) /\ Len(opened) \in Nat /\ DOMAIN opened = 1..Len(opened) /\ run = Len(opened)
      /\ BatchSize \in Nat /\ BatchSize >= 1 /\ written \in Nat
  <2> DEFINE RowType == [seq : Nat, run : Nat]
  <2>1. clientRows \in Seq(RowType)
    BY <1>1 DEF Queued
  <2>2. \A i \in DOMAIN clientRows : clientRows[i] \in RowType
    <3> HIDE DEF RowType
    <3>. QED BY <2>1
  <2>3. \A i \in DOMAIN clientRows : clientRows[i].run \in Nat /\ clientRows[i].run <= Len(opened)
    BY <1>1, <2>2 DEF Queued
  <2>4. results \in Seq(Nat) /\ written \in Nat /\ \A j \in DOMAIN results : results[j] \in Attempts
    BY <1>1 DEF Queued
  <2>5. opened \in Seq(Nat) /\ run = Len(opened)
    BY <1>1 DEF Opened
  <2>. QED BY <2>3, <2>4, <2>5, HeartbeatAssumption
<1>5. CASE EndAttempt
  <2>1. /\ clientRows' = clientRows /\ results' = Append(results, Ended + 1) /\ written' = written
        /\ Ended \in Nat /\ Attempts = 1..Ended /\ pc = "query" /\ pc' \notin {"attempt", "query"}
        /\ \/ opened' = opened /\ run' = run
           \/ opened' = Append(opened, Ended + 1) /\ run' = Len(opened) + 1
    <3>1. pc' \in {"register", "tag", "check"}
      BY <1>1, <1>5, AttemptEnds
    <3>. QED BY <1>1, <1>5, <3>1, AttemptEnds
  <2>2. written = 0
    BY <1>1, <2>1 DEF Queued, Flushing
  <2>3. /\ Len(results') = Len(results) + 1 /\ results'[Len(results) + 1] = Ended + 1
        /\ \A j \in DOMAIN results : j \in DOMAIN results' /\ results'[j] = results[j]
        /\ \A j \in DOMAIN results' : j \in DOMAIN results \/ j = Len(results) + 1
    BY <1>4, <2>1, AppendShape
  <2>4. Len(results') <= BatchSize /\ Len(results) < BatchSize
    BY <1>3, <1>4, <2>1, <2>3
  <2>5. ASSUME NEW k \in DOMAIN opened, k \in DOMAIN opened', opened'[k] = opened[k]
        PROVE  NextEarlyRows(k) = EarlyRows(k) /\ NextEarlyWaiting(k) = EarlyWaiting(k)
    <3>1. NextEarlyRows(k) = EarlyRows(k)
      BY <2>1, <2>5 DEF NextEarlyRows, EarlyRows
    <3>2. ~(Ended + 1 < opened[k])
      <4>1. opened[k] \in Attempts
        BY <1>1 DEF Opened
      <4>. QED BY <2>1, <4>1
    <3>3. Len(results) + 1 \notin DOMAIN results
      BY <1>4
    <3>4. NextEarlyWaiting(k) = EarlyWaiting(k)
      BY <2>1, <2>3, <2>5, <3>2, <3>3 DEF NextEarlyWaiting, EarlyWaiting
    <3>. QED BY <3>1, <3>4
  <2>6. CASE opened' = opened /\ run' = run
    <3>1. run >= 1 => run \in DOMAIN opened
      BY <1>4
    <3>. QED BY <1>3, <2>1, <2>4, <2>5, <2>6, <3>1
  <2>7. CASE opened' = Append(opened, Ended + 1) /\ run' = Len(opened) + 1
    <3> DEFINE m == Len(opened) + 1
    <3>1. Ended + 1 \in Nat
      BY <2>1
    <3>2. /\ opened'[m] = Ended + 1
          /\ \A k \in DOMAIN opened : k \in DOMAIN opened' /\ opened'[k] = opened[k]
          /\ \A k \in DOMAIN opened' : k \in DOMAIN opened \/ k = m
      BY <1>4, <2>7, <3>1, AppendShape
    <3>3. NextEarlyRows(m) = {}
      <4>1. \A i \in DOMAIN clientRows : clientRows[i].run # m
        BY <1>4
      <4>. QED BY <2>1, <4>1 DEF NextEarlyRows
    <3>4. NextEarlyWaiting(m) = DOMAIN results
      <4>1. \A j \in DOMAIN results : j > written' /\ results[j] < Ended + 1
        BY <1>4, <2>1, <2>2
      <4>2. ~(Ended + 1 < Ended + 1)
        BY <2>1
      <4> HIDE DEF m
      <4>. QED BY <2>3, <3>2, <4>1, <4>2 DEF NextEarlyWaiting
    <3>5. Cardinality(NextEarlyRows(m)) = 0 /\ Cardinality(NextEarlyWaiting(m)) = Len(results)
      BY <1>4, <3>3, <3>4, FS_EmptySet, UpToSize
    <3>6. \A k \in DOMAIN opened' : Cardinality(NextEarlyRows(k)) < BatchSize
      <4> HIDE DEF m
      <4>1. 0 < BatchSize
        BY <1>4
      <4>. QED BY <1>3, <2>5, <3>2, <3>5, <4>1
    <3>7. Cardinality(NextEarlyRows(run')) + Cardinality(NextEarlyWaiting(run')) < BatchSize
      <4>1. run' = m
        BY <2>7
      <4> HIDE DEF m
      <4>. QED BY <1>4, <2>4, <3>5, <4>1
    <3>. QED BY <2>1, <2>4, <3>6, <3>7
  <2>. QED BY <2>1, <2>6, <2>7
<1>6. ASSUME ~EndAttempt PROVE opened' = opened /\ run' = run
  BY <1>6, DetectionFrame
<1>7. CASE FlushDone
  <2>1. /\ opened' = opened /\ run' = run /\ results' = <<>> /\ written' = 0 /\ clientRows' = clientRows
    <3>1. ~EndAttempt
      BY <1>1, <1>7, FlushSteps
    <3>. QED BY <1>6, <1>7, <3>1 DEF FlushDone, database
  <2>2. Len(results') = 0 /\ DOMAIN results' = {}
    BY <2>1
  <2>3. \A k : NextEarlyRows(k) = EarlyRows(k) /\ NextEarlyWaiting(k) = {}
    BY <2>1, <2>2 DEF NextEarlyRows, EarlyRows, NextEarlyWaiting
  <2>4. \A k : Cardinality(EarlyRows(k)) \in Nat
    BY <1>1, EarlyFinite
  <2>5. \A k : Cardinality(NextEarlyWaiting(k)) = 0
    BY <2>3, FS_EmptySet
  <2>6. run >= 1 => run \in DOMAIN opened
    BY <1>4
  <2>. QED BY <1>3, <1>4, <2>1, <2>2, <2>3, <2>4, <2>5, <2>6
<1>8. CASE InsertRow
  <2>1. /\ opened' = opened /\ run' = run /\ results' = results /\ written' = written + 1
        /\ written + 1 \in DOMAIN results /\ pc' = pc
        /\ clientRows' = Append(clientRows, RowOf(results[written + 1]))
    <3>1. ~EndAttempt
      BY <1>1, <1>8, FlushSteps
    <3>. QED BY <1>4, <1>6, <1>8, <3>1 DEF InsertRow
  <2>2. /\ \A k \in DOMAIN opened : k # run => NextEarlyRows(k) = EarlyRows(k)
        /\ Cardinality(NextEarlyRows(run)) + Cardinality(NextEarlyWaiting(run))
           = Cardinality(EarlyRows(run)) + Cardinality(EarlyWaiting(run))
        /\ Cardinality(NextEarlyRows(run)) \in Nat /\ Cardinality(NextEarlyWaiting(run)) \in Nat
    BY <1>1, <2>1, EarlyRowInserted
  <2>3. run >= 1 => Cardinality(NextEarlyRows(run)) < BatchSize
    BY <1>3, <1>4, <2>2
  <2>4. \A k \in DOMAIN opened : Cardinality(NextEarlyRows(k)) < BatchSize
    <3>1. run \in DOMAIN opened => run >= 1
      BY <1>4
    <3>. QED BY <1>3, <2>2, <2>3, <3>1
  <2>. QED BY <1>3, <2>1, <2>2, <2>4
<1>9. CASE FlushFail
  <2>1. dbFailures' = dbFailures + 1 /\ dbFailures \in Nat
    BY <1>1, <1>9 DEF Typed, FlushFail, DbFails
  <2>. QED BY <2>1
<1>10. CASE ~EndAttempt /\ ~FlushDone /\ ~InsertRow /\ ~FlushFail
  <2>1. /\ opened' = opened /\ run' = run
        /\ results' = results /\ written' = written /\ clientRows' = clientRows
    BY <1>6, <1>10, QueueFrame
  <2>2. \A k : NextEarlyRows(k) = EarlyRows(k) /\ NextEarlyWaiting(k) = EarlyWaiting(k)
    BY <2>1 DEF NextEarlyRows, EarlyRows, NextEarlyWaiting, EarlyWaiting
  <2>3. ASSUME pc' \in {"attempt", "query"} PROVE Len(results) < BatchSize
    <3>1. pc \in {"attempt", "query"} \/ (pc = "check" /\ ~BatchFull)
      <4>1. pc' = pc \/ ~Flushing
        BY <1>10, FlushFrame
      <4>2. pc' = pc \/ pc \notin {"flush", "finalFlush"}
        BY <4>1 DEF Flushing
      <4>3. pc = "check" => pc' = pc \/ pc' = IF BatchFull THEN "flush" ELSE "attempt"
        BY <1>1, <1>10, LoopFrame
      <4>. QED BY <1>1, <1>10, <2>3, <4>2, <4>3, LoopFrame
    <3>2. ~BatchFull => Len(results) < BatchSize
      BY <1>4 DEF BatchFull
    <3>. QED BY <1>3, <3>1, <3>2
  <2>. QED BY <1>3, <2>1, <2>2, <2>3
<1>. QED BY <1>5, <1>7, <1>8, <1>9, <1>10

-----------------------------------------------------------------------------
(* The theorems. *)

\* The client starts with nothing attempted, queued, stored or opened.
LEMMA InitInv ==
    ASSUME Init
    PROVE  IInv
<1>1. Typed
  <2>1. auto \in BOOLEAN /\ connected \in BOOLEAN
    BY Zenon DEF Init
  <2>2. running \in BOOLEAN /\ inFailover \in BOOLEAN /\ pc \in Pcs
    BY Zenon DEF Init, Pcs
  <2>3. /\ sequence = 0 /\ outcomes = <<>> /\ dbFailures = 0 /\ pc = "attempt"
        /\ MaxAttempts \in Nat /\ MaxDbFailures \in Nat
    BY HeartbeatAssumption DEF Init
  <2>4. outcomes \in Seq(BOOLEAN) /\ Ended = 0
    BY <2>3 DEF Ended
  <2>. QED BY <2>1, <2>2, <2>3, <2>4 DEF Typed
<1>2. Queued /\ Opened
  BY DEF Init, Queued, Opened, Attempts, Flushing, Ended
<1>3. /\ DOMAIN outcomes = {} /\ DOMAIN results = {} /\ DOMAIN clientRows = {}
      /\ DOMAIN opened = {} /\ DOMAIN observed = {} /\ DOMAIN summary = {}
      /\ Len(outcomes) = 0 /\ Len(opened) = 0 /\ Len(results) = 0
  BY DEF Init
<1>4. Stored /\ Registered /\ Forward
  BY <1>3 DEF Stored, Kept, Attempts, Registered, Forward
<1>11. PrefixStored
  BY <1>3 DEF Init, PrefixStored, Attempts, FinalFlushRaised
<1>5. OneBatch
  BY <1>3, HeartbeatAssumption DEF Init, OneBatch
<1>6. Counted
  BY <1>3 DEF Init, Counted, Ended
<1>7. DetectionMatchesHistory
  <2>1. ~OpenAfter(0)
    BY DEF OpenAfter
  <2>2. OpenAfter(0) \in BOOLEAN
    BY DEF OpenAfter
  <2>3. Range(opened) = {}
    BY <1>3 DEF Range
  <2>4. inFailover = OpenAfter(0)
    BY <2>1, <2>2 DEF Init
  <2>. QED BY <1>3, <2>3, <2>4 DEF DetectionMatchesHistory, Attempts
<1>8. Unrecovered
  BY DEF Init, Unrecovered
<1>9. Observed
  BY <1>3 DEF Init, Observed
<1>10. Logged
  BY <1>3, HeartbeatAssumption DEF Init, Logged
<1>. QED BY <1>1, <1>2, <1>4, <1>5, <1>6, <1>7, <1>8, <1>9, <1>10, <1>11 DEF IInv

\* Every reachable state satisfies the inductive invariant.
THEOREM Invariance == Spec => []IInv
<1>1. Init => IInv
  BY InitInv
<1>2. IInv /\ [Next]_vars => IInv'
  BY TypedStep, QueuedStep, OpenedStep, StoredStep, TailStep, RegisteredStep, ForwardStep, OneBatchStep,
     CountedStep, DetectionStep, UnrecoveredStep, ObservedStep, LoggedStep DEF IInv
<1>. QED BY <1>1, <1>2, PTL DEF Spec

\* Every variable stays in its range: outcomes trail the sequence by at most the
\* query that is out, and rows, events and log name attempts and failovers there are.
THEOREM TypeCorrect == Spec => []TypeOK
<1>1. IInv => TypeOK
  <2> SUFFICES ASSUME IInv PROVE TypeOK
    OBVIOUS
  <2>1. Typed /\ Queued /\ Opened /\ Observed /\ Logged
    BY DEF IInv
  <2>2. /\ sequence \in Nat /\ Ended \in Nat /\ Ended <= sequence /\ sequence <= MaxAttempts
        /\ Attempts = 1..Ended /\ MaxAttempts \in Nat /\ Len(outcomes) \in {sequence - 1, sequence}
    BY <2>1, HeartbeatAssumption DEF Typed, Attempts, Ended
  <2>3. \A s \in Attempts : s \in 1..sequence /\ s \in 1..MaxAttempts
    BY <2>2
  <2>4. /\ {auto, connected, running, inFailover} \subseteq BOOLEAN /\ pc \in Pcs
        /\ outcomes \in Seq(BOOLEAN)
    BY <2>1, Zenon DEF Typed
  <2>5. results \in Seq(1..sequence) /\ written \in 0..Len(results)
    <3>1. results \in Seq(Nat) /\ \A j \in DOMAIN results : results[j] \in 1..sequence
      BY <2>1, <2>3 DEF Queued
    <3>2. written \in 0..Len(results)
      BY <2>1 DEF Queued
    <3> DEFINE T == 1..sequence
    <3>3. results \in Seq(T)
      <4> HIDE DEF T
      <4>1. \A j \in DOMAIN results : results[j] \in T
        BY <3>1 DEF T
      <4>. QED BY <3>1, <4>1
    <3>. QED BY <3>2, <3>3
  <2>6. /\ opened \in Seq(1..MaxAttempts) /\ run \in 0..Len(opened)
        /\ Len(opened) \in Nat /\ streak \in 0..MaxAttempts
    <3>1. opened \in Seq(Nat) /\ \A k \in DOMAIN opened : opened[k] \in 1..MaxAttempts
      BY <2>1, <2>3 DEF Opened
    <3>2. Len(opened) \in Nat /\ run = Len(opened)
      BY <2>1 DEF Opened
    <3>3. streak \in 0..MaxAttempts
      BY <2>1, <2>2 DEF Opened
    <3> DEFINE T == 1..MaxAttempts
    <3>4. opened \in Seq(T)
      <4> HIDE DEF T
      <4>1. \A k \in DOMAIN opened : opened[k] \in T
        BY <3>1 DEF T
      <4>. QED BY <3>1, <4>1
    <3>5. run \in 0..Len(opened)
      BY <3>2
    <3>. QED BY <3>2, <3>3, <3>4, <3>5
  <2>7. clientRows \in Seq([seq : 1..sequence, run : 0..Len(opened)])
    <3> DEFINE Wide == [seq : Nat, run : Nat]
               Narrow == [seq : 1..sequence, run : 0..Len(opened)]
    <3>1. clientRows \in Seq(Wide)
      BY <2>1 DEF Queued
    <3>2. ASSUME NEW i \in DOMAIN clientRows PROVE clientRows[i] \in Narrow
      <4>1. clientRows[i] \in Wide
        <5> HIDE DEF Wide
        <5>. QED BY <3>1
      <4>2. clientRows[i].seq \in 1..sequence /\ clientRows[i].run <= Len(opened)
        BY <2>1, <2>3 DEF Queued
      <4>. QED BY <2>6, <4>1, <4>2
    <3> HIDE DEF Wide, Narrow
    <3>3. clientRows \in Seq(Narrow)
      BY <3>1, <3>2
    <3>. QED BY <3>3 DEF Narrow
  <2>8. observed \in Seq([at : 0..sequence, stored : BOOLEAN, run : 0..Len(opened)])
    <3> DEFINE Narrow == [at : 0..sequence, stored : BOOLEAN, run : 0..Len(opened)]
    <3>1. observed \in Seq(ObservedType)
      BY <2>1 DEF Observed, ObservedType
    <3>2. ASSUME NEW i \in DOMAIN observed PROVE observed[i] \in Narrow
      <4>1. observed[i] \in ObservedType
        BY <3>1
      <4>2. observed[i].at <= sequence /\ observed[i].run <= Len(opened)
        BY <2>1 DEF Observed
      <4>. QED BY <2>2, <2>6, <4>1, <4>2 DEF ObservedType
    <3> HIDE DEF Narrow
    <3>3. observed \in Seq(Narrow)
      BY <3>1, <3>2
    <3>. QED BY <3>3 DEF Narrow
  <2>9. summary \in Seq([run : 1..Len(opened), failures : Nat])
    <3> DEFINE Wide == [run : Nat, failures : Nat]
               Narrow == [run : 1..Len(opened), failures : Nat]
    <3>1. summary \in Seq(Wide)
      BY <2>1 DEF Logged
    <3>2. ASSUME NEW i \in DOMAIN summary PROVE summary[i] \in Narrow
      <4>1. summary[i] \in Wide
        <5> HIDE DEF Wide
        <5>. QED BY <3>1
      <4>2. summary[i].run \in 1..Len(opened)
        BY <2>1 DEF Logged
      <4>. QED BY <4>1, <4>2
    <3> HIDE DEF Wide, Narrow
    <3>3. summary \in Seq(Narrow)
      BY <3>1, <3>2
    <3>. QED BY <3>3 DEF Narrow
  <2>10. testRuns \subseteq 0..MaxAttempts /\ unregistered \subseteq 1..Len(opened)
    BY <2>1 DEF Logged
  <2>11. dbFailures \in 0..MaxDbFailures /\ sequence \in 0..MaxAttempts
    BY <2>1, <2>2, HeartbeatAssumption DEF Typed
  <2>. QED BY <2>2, <2>4, <2>5, <2>6, <2>7, <2>8, <2>9, <2>10, <2>11 DEF TypeOK
<1>. QED BY <1>1, Invariance, PTL

\* With a database configured a running client loses no attempt, whichever
\* statements raise; one that has ended has lost at most what its final flush,
\* which raised, had left; what is not stored is the end of the run, and a second
\* row is the price of a statement that raised (_flush_results keeps the whole
\* batch and starts over).
THEOREM LossesAreTheTail == Spec => []LostOnlyAtTheEnd
<1>1. IInv => LostOnlyAtTheEnd
  <2> SUFFICES ASSUME IInv, connected
               PROVE  /\ Unstored \subseteq Range(results)
                      /\ FinalFlushRaised => dbFailures > 0
                      /\ pc = "done" /\ Unstored # {} => FinalFlushRaised
                      /\ \A s \in Unstored, r \in Attempts : s < r => r \in Unstored
                      /\ \A s \in Attempts : Cardinality(RowsOf(s)) <= 1 + dbFailures
    BY DEF LostOnlyAtTheEnd
  <2>1. Kept /\ PrefixStored
    BY DEF IInv, Stored
  <2>2. Unstored \subseteq Range(results)
    BY <2>1 DEF Kept, Unstored
  <2>3. results = <<>> => Range(results) = {}
    BY DEF Range
  <2>. QED BY <2>1, <2>2, <2>3 DEF Kept, PrefixStored, Unstored, FinalFlushRaised
<1>. QED BY <1>1, Invariance, PTL

\* The flags of _handle_auto_test_run agree with the whole history of outcomes,
\* and a failover is opened by every failure that found none open, and no other.
THEOREM DetectionIsExact == Spec => []DetectionMatchesHistory
<1>1. IInv => DetectionMatchesHistory
  BY DEF IInv
<1>. QED BY <1>1, Invariance, PTL

\* A row is filed under no failover older than its attempt's own, and while no
\* statement raises fewer than a batch of earlier attempts are filed under one; the
\* run a row names is registered unless that raised.
THEOREM LabelsLookForward == Spec => []LabelledForward
<1>1. IInv => LabelledForward
  <2> SUFFICES ASSUME IInv PROVE LabelledForward
    OBVIOUS
  <2>1. Queued /\ Opened /\ Registered /\ Forward /\ OneBatch
    BY DEF IInv
  <2>2. auto => \A i \in DOMAIN clientRows : clientRows[i].run >= FailoverOf(clientRows[i].seq)
    BY <2>1 DEF Forward
  <2>3. dbFailures = 0 => \A k \in DOMAIN opened : Cardinality(EarlyRows(k)) < BatchSize
    BY <2>1 DEF OneBatch
  <2>4. \A i \in DOMAIN clientRows :
            clientRows[i].run # 0 => /\ clientRows[i].run \in DOMAIN opened
                                     /\ pc = "register" => clientRows[i].run # run
    <3> DEFINE RowType == [seq : Nat, run : Nat]
    <3>1. clientRows \in Seq(RowType)
      BY <2>1 DEF Queued
    <3>2. \A i \in DOMAIN clientRows : clientRows[i] \in RowType
      <4> HIDE DEF RowType
      <4>. QED BY <3>1
    <3>3. \A i \in DOMAIN clientRows : clientRows[i].run \in Nat /\ clientRows[i].run <= Len(opened)
      BY <2>1, <3>2 DEF Queued
    <3>4. DOMAIN opened = 1..Len(opened) /\ Len(opened) \in Nat
      BY <2>1 DEF Opened
    <3>. QED BY <2>1, <3>3, <3>4 DEF Registered
  <2>5. \A k \in {clientRows[i].run : i \in DOMAIN clientRows} \ {0} :
            RunId(k) \in testRuns \/ k \in unregistered
    BY <2>1, <2>4 DEF Registered
  <2>. QED BY <2>2, <2>3, <2>5 DEF LabelledForward
<1>. QED BY <1>1, Invariance, PTL

\* An event is tagged with a failover it happened in, between its opening and the
\* success that ended it; and while no statement raises a recovery logs no more
\* failed queries than there were.
THEOREM RecoveriesAreOwn == Spec => []RecoveryIsItsOwn
<1>1. IInv => RecoveryIsItsOwn
  <2> SUFFICES ASSUME IInv PROVE RecoveryIsItsOwn
    OBVIOUS
  <2>1. Observed /\ Logged
    BY DEF IInv
  <2>. QED BY <2>1 DEF Observed, Logged, RecoveryIsItsOwn
<1>. QED BY <1>1, Invariance, PTL
=============================================================================
