---------------------------- MODULE RunnerProofs ----------------------------
(***************************************************************************)
(* Theorems about module Runner, for every number of iterations, every     *)
(* batch size, every threshold of the recovery and every number of queries. *)
(***************************************************************************)
EXTENDS Runner, FiniteSetTheorems, TLAPS

-----------------------------------------------------------------------------
(* The inductive invariant, in five parts. *)

Row    == [ok : BOOLEAN, row : {"pending", "lost", "stored"}, run : Int]
Result == [status : Statuses, downtime : SUBSET Nat]

Typed ==
    /\ options \in [fresh : BOOLEAN, skipClient : BOOLEAN, scenario : Scenarios]
    /\ pc \in Pcs
    /\ iter \in Nat /\ iter <= Total
    /\ results \in Seq(Result)
    /\ status \in Statuses
    /\ exitCode \in {0, 1}
    /\ reported \in BOOLEAN /\ gone \in BOOLEAN /\ clientUp \in BOOLEAN
    /\ out \in Int
    /\ window \in [client : Nat, start : Nat, kill : Nat]
    /\ attempts \in Seq(Row)

\* Where an iteration is before its node is taken out, before its rows are
\* tagged, and before its result is recorded.
BeforeInjection == {"fresh", "health", "leader", "client", "register", "inject"}
BeforeTag       == BeforeInjection \cup {"poll", "stopClient", "tag"}
BeforeResult    == BeforeTag \cup {"measure"}

\* The downtimes of the table.
Measured(downtime) == downtime \subseteq 1..Now /\ Cardinality(downtime) <= 1

\* Each iteration that is over has one result.
Numbered ==
    /\ pc \in {"start", "recover", "summary", "report"} => Len(results) = iter
    /\ pc \in BeforeResult => Len(results) = iter - 1
    /\ pc \in BeforeResult \cup {"recover"} => iter >= 1
    /\ Len(results) \in {iter - 1, iter}
    /\ \A i \in DOMAIN results :
          results[i].downtime \subseteq 1..Now /\ Cardinality(results[i].downtime) <= 1

\* The nodes that are out are known at every place of an iteration.
NodesAccounted ==
    /\ out \in {0, 1}
    /\ pc \in BeforeInjection \ {"fresh", "health"} => out = 0
    /\ pc \in {"poll", "stopClient", "tag", "measure", "recover"} =>
          out = IF Scenario = "switchover" THEN 0 ELSE 1

\* The stamps of an iteration are taken in order.
WindowOrdered ==
    /\ window.client <= Now /\ window.start <= Now /\ window.kill <= Now
    /\ pc \in {"inject", "poll", "stopClient", "tag"} => window.client <= window.start
    /\ pc \in {"poll", "stopClient", "tag", "measure"} => window.client <= window.kill

\* The rows of the client that runs, or ran last, are stored in the order of
\* its attempts; what is lost of them is lost at its end.
StoredInOrder ==
    /\ \A i \in 1..Now : attempts[i].row = "pending" =>
          attempts[i].run = NoRun /\ window.client < i /\ clientUp
    /\ \A i \in 1..Now : attempts[i].row = "lost" /\ window.client < i => ~clientUp
    /\ \A i, j \in 1..Now : window.client < i /\ i < j /\ Stored(j) => Stored(i)

\* A failed query is never stored without a label, and the label of an
\* iteration is new until it tags its rows.
Labelled ==
    /\ \A i \in 1..Now : Stored(i) /\ ~attempts[i].ok => attempts[i].run # NoRun
    /\ \A i \in 1..Now : attempts[i].run \in {NoRun, OwnRun} \cup 1..iter
    /\ pc \in BeforeTag => \A i \in 1..Now : attempts[i].run # iter
    /\ TagsOwnClient

IInv == Typed /\ Numbered /\ NodesAccounted /\ WindowOrdered /\ StoredInOrder /\ Labelled

-----------------------------------------------------------------------------
(* What the operators on attempts do. *)

\* Every attempt of a typed history has its three fields.
LEMMA AttemptFields ==
    ASSUME Typed
    PROVE  /\ Now \in Nat /\ DOMAIN attempts = 1..Now
           /\ \A i \in 1..Now : attempts[i] \in Row
  BY DEF Typed, Now

\* One more attempt: the others keep their place and their row.
LEMMA AppendAttempt ==
    ASSUME Typed, NEW ok \in BOOLEAN,
           attempts' = Append(attempts, [ok |-> ok, row |-> "pending", run |-> NoRun])
    PROVE  /\ attempts' \in Seq(Row)
           /\ Now' = Now + 1
           /\ \A i \in 1..Now : attempts'[i] = attempts[i]
           /\ attempts'[Now + 1] = [ok |-> ok, row |-> "pending", run |-> NoRun]
<1>1. [ok |-> ok, row |-> "pending", run |-> NoRun] \in Row
  BY DEF Row, NoRun
<1>. QED  BY <1>1 DEF Typed, Now

\* Settle() moves the pending rows, and gives those the client's label.
LEMMA SettleAttempts ==
    ASSUME Typed, NEW row \in {"stored", "lost"}, attempts' = Settle(row)
    PROVE  /\ attempts' \in Seq(Row)
           /\ Now' = Now
           /\ \A i \in 1..Now :
                 /\ attempts'[i].ok = attempts[i].ok
                 /\ attempts[i].row = "pending" =>
                       attempts'[i].row = row /\ attempts'[i].run = RunNow
                 /\ attempts[i].row # "pending" => attempts'[i] = attempts[i]
<1> USE AttemptFields
<1>1. RunNow \in Int
  BY DEF RunNow, NoRun, OwnRun
<1>2. ASSUME NEW i \in 1..Now, attempts[i].row = "pending"
      PROVE  /\ attempts'[i] = [attempts[i] EXCEPT !.row = row, !.run = RunNow]
             /\ attempts'[i] \in Row
             /\ attempts'[i].ok = attempts[i].ok
             /\ attempts'[i].row = row /\ attempts'[i].run = RunNow
  <2>1. i \in Pending
    BY <1>2 DEF Pending
  <2>2. attempts'[i] = [attempts[i] EXCEPT !.row = row, !.run = RunNow]
    BY <2>1 DEF Settle
  <2>. QED  BY <1>1, <2>2 DEF Row
<1>3. ASSUME NEW i \in 1..Now, attempts[i].row # "pending"
      PROVE  attempts'[i] = attempts[i]
  BY <1>3 DEF Settle, Pending
<1>4. attempts' = [i \in 1..Now |-> attempts'[i]] /\ \A i \in 1..Now : attempts'[i] \in Row
  <2>1. DOMAIN attempts' = 1..Now /\ attempts' = [i \in DOMAIN attempts' |-> attempts'[i]]
    BY DEF Settle
  <2>. QED  BY <1>2, <1>3, <2>1
<1>5. attempts' \in Seq(Row) /\ Len(attempts') = Now
  BY <1>4
<1>. QED  BY <1>2, <1>3, <1>5 DEF Now

\* Tag gives the iteration's label to the rows it selects.
LEMMA TagAttempts ==
    ASSUME Typed, Tag
    PROVE  /\ attempts' \in Seq(Row)
           /\ Now' = Now
           /\ \A i \in 1..Now :
                 /\ attempts'[i].ok = attempts[i].ok
                 /\ attempts'[i].row = attempts[i].row
                 /\ Tagged(i) => attempts'[i].run = iter
                 /\ ~Tagged(i) => attempts'[i] = attempts[i]
<1> USE AttemptFields
<1>1. /\ DOMAIN attempts' = 1..Now
      /\ attempts' = [i \in DOMAIN attempts' |-> attempts'[i]]
      /\ \A i \in 1..Now : attempts'[i] =
            IF Tagged(i) THEN [attempts[i] EXCEPT !.run = iter] ELSE attempts[i]
  BY DEF Tag
<1>2. iter \in Int
  BY DEF Typed
<1>3. ASSUME NEW i \in 1..Now
      PROVE  /\ attempts'[i] \in Row
             /\ attempts'[i].ok = attempts[i].ok
             /\ attempts'[i].row = attempts[i].row
             /\ Tagged(i) => attempts'[i].run = iter
             /\ ~Tagged(i) => attempts'[i] = attempts[i]
  <2>1. CASE Tagged(i)
    <3>1. attempts'[i] = [attempts[i] EXCEPT !.run = iter]
      BY <1>1, <2>1
    <3>. QED  BY <1>2, <2>1, <3>1 DEF Row
  <2>2. CASE ~Tagged(i)
    BY <1>1, <2>2
  <2>. QED  BY <2>1, <2>2
<1>4. attempts' \in Seq(Row) /\ Len(attempts') = Now
  BY <1>1, <1>3
<1>. QED  BY <1>3, <1>4 DEF Now

\* A step of the client process: an attempt, a flush, or its end.
LEMMA ClientEndsSettles == ClientEnds => \E row \in {"stored", "lost"} : attempts' = Settle(row)
  BY DEF ClientEnds

-----------------------------------------------------------------------------
(* What measure_downtime() reads. *)

\* The first of a set of times, and the difference of two times, are unique.
LEMMA FirstUnique ==
    ASSUME NEW S \in SUBSET Nat, NEW a \in View!First(S), NEW b \in View!First(S)
    PROVE  a = b
  BY DEF View!First

\* A difference of two sets of times is one of two of their elements.
LEMMA SpanEnds ==
    ASSUME NEW A, NEW B, NEW d \in View!Span(A, B)
    PROVE  \E u \in A, v \in B : d = v - u
  BY DEF View!Span

\* A measured downtime runs from the first stored failure after kill_ts to the
\* first stored success after the last one.
LEMMA MeasuredEnds ==
    ASSUME Typed, NEW d \in View!MeasuredDowntime
    PROVE  \E f, l, s \in 1..Now :
              /\ d = s - f /\ f <= l /\ l < s
              /\ window.kill < f
              /\ Stored(f) /\ ~attempts[f].ok
              /\ Stored(s) /\ attempts[s].ok
              /\ \A i \in 1..Now : window.kill < i /\ Stored(i) /\ ~attempts[i].ok
                                      => f <= i /\ i <= l
<1> USE AttemptFields
<1> DEFINE failed    == View!After(View!Failures, {window.kill})
           succeeded == View!After(View!Successes, {window.kill})
<1>1. DOMAIN Timeline = 1..Now
  BY DEF Timeline
<1>2. \A i \in 1..Now : /\ i \in View!Failures <=> Stored(i) /\ ~attempts[i].ok
                        /\ i \in View!Successes <=> Stored(i) /\ attempts[i].ok
  BY <1>1 DEF View!Failures, View!Successes, View!Rows, Timeline
<1>3. View!Failures \subseteq 1..Now /\ View!Successes \subseteq 1..Now
  BY <1>1 DEF View!Failures, View!Successes, View!Rows
<1>4. PICK f \in View!First(failed),
           s \in View!First(View!After(succeeded, View!Last(failed))) : d = s - f
  <2> DEFINE starts == View!First(failed)
             ends   == View!First(View!After(succeeded, View!Last(failed)))
  <2>1. d \in View!Span(starts, ends)
    BY DEF View!MeasuredDowntime
  <2> HIDE DEF starts, ends
  <2>2. \E f \in starts, s \in ends : d = s - f
    BY <2>1, SpanEnds
  <2>. QED  BY <2>2 DEF starts, ends
<1>5. s \in succeeded /\ \E l \in View!Last(failed) : s > l
  BY <1>4 DEF View!First, View!After
<1>6. PICK l \in View!Last(failed) : s > l
  BY <1>5
<1>7. f \in failed /\ l \in failed /\ \A i \in failed : f <= i /\ i <= l
  BY <1>4, <1>6 DEF View!First, View!Last
<1>8. /\ f \in 1..Now /\ l \in 1..Now /\ s \in 1..Now
      /\ f \in View!Failures /\ s \in View!Successes /\ f > window.kill
  BY <1>3, <1>5, <1>7 DEF View!After
<1>9. \A i \in 1..Now : window.kill < i /\ Stored(i) /\ ~attempts[i].ok => i \in failed
  BY <1>2 DEF View!After, Typed
<1>10. window.kill < f
  BY <1>8 DEF Typed
<1>. QED  BY <1>2, <1>4, <1>6, <1>7, <1>8, <1>9, <1>10

\* Sets of naturals without two different elements.
LEMMA AtMostOne ==
    ASSUME NEW S, \A a, b \in S : a = b
    PROVE  Cardinality(S) <= 1
<1>1. CASE S = {}
  BY <1>1, FS_EmptySet
<1>2. CASE S # {}
  <2>1. PICK a : a \in S
    BY <1>2
  <2>2. S = {a}
    BY <2>1
  <2>. QED  BY <2>2, FS_Singleton
<1>. QED  BY <1>1, <1>2

\* measure_downtime() returns one number at most, and no more than there were
\* attempts.
LEMMA MeasuredOnce ==
    ASSUME Typed
    PROVE  View!MeasuredDowntime \in SUBSET Nat /\ Measured(View!MeasuredDowntime)
<1> USE AttemptFields
<1>1. ASSUME NEW d \in View!MeasuredDowntime PROVE d \in 1..Now
  BY <1>1, MeasuredEnds
<1>2. ASSUME NEW d \in View!MeasuredDowntime, NEW e \in View!MeasuredDowntime PROVE d = e
  <2> DEFINE failed    == View!After(View!Failures, {window.kill})
             succeeded == View!After(View!Successes, {window.kill})
             answered  == View!After(succeeded, View!Last(failed))
             starts    == View!First(failed)
             ends      == View!First(answered)
  <2>1. failed \in SUBSET Nat /\ answered \in SUBSET Nat
    BY DEF View!After, View!Failures, View!Successes, View!Rows, Timeline
  <2>2. View!MeasuredDowntime = View!Span(starts, ends)
    BY DEF View!MeasuredDowntime
  <2>3. /\ \A f, g \in starts : f = g
        /\ \A s, t \in ends : s = t
    BY <2>1, FirstUnique
  <2> HIDE DEF starts, ends
  <2>4. PICK f \in starts, s \in ends : d = s - f
    BY <2>2, SpanEnds
  <2>5. PICK g \in starts, t \in ends : e = t - g
    BY <2>2, SpanEnds
  <2>. QED  BY <2>3, <2>4, <2>5
<1>3. Cardinality(View!MeasuredDowntime) <= 1
  BY <1>2, AtMostOne
<1>. QED  BY <1>1, <1>3 DEF Measured

\* Record() appends one result.
LEMMA RecordResult ==
    ASSUME Typed, NEW st \in Statuses, NEW d \in SUBSET Nat, Record(st, d)
    PROVE  /\ results' \in Seq(Result)
           /\ Len(results') = Len(results) + 1
           /\ \A i \in 1..Len(results) : results'[i] = results[i]
           /\ results'[Len(results) + 1] = [status |-> st, downtime |-> d]
<1>1. [status |-> st, downtime |-> d] \in Result
  BY DEF Result
<1>. QED  BY <1>1 DEF Typed, Record

-----------------------------------------------------------------------------
(* Types. *)

\* The initial state is well typed.
LEMMA TypedInit == Init => Typed
<1> SUFFICES ASSUME Init PROVE Typed
  OBVIOUS
<1>1. Total \in Nat /\ 0 <= Total
  BY RunnerAssumption DEF Total, AllScenarios
<1>2. results \in Seq(Result) /\ attempts \in Seq(Row)
  BY DEF Init
<1>3. /\ options \in [fresh : BOOLEAN, skipClient : BOOLEAN, scenario : Scenarios]
      /\ window \in [client : Nat, start : Nat, kill : Nat]
  BY DEF Init, NoWindow
<1>4. pc \in Pcs /\ iter = 0 /\ status \in Statuses /\ exitCode = 0 /\ out = 0
  BY DEF Init, Pcs, Statuses
<1>5. reported \in BOOLEAN /\ gone \in BOOLEAN /\ clientUp \in BOOLEAN
  BY DEF Init
<1>. QED  BY <1>1, <1>2, <1>3, <1>4, <1>5 DEF Typed

\* Every step keeps the types.
LEMMA TypedStep ==
    ASSUME Typed, [Next]_vars
    PROVE  Typed'
<1> USE AttemptFields DEF driver, cluster, client, Goto, Pcs
<1>0. Total \in Nat /\ (options' = options => Total' = Total)
  BY RunnerAssumption DEF Total, AllScenarios
<1> USE <1>0
<1>a. ASSUME NEW st \in {"CLUSTER_UNHEALTHY", "ERROR", "SKIPPED"}, GiveUp(st)
      PROVE  results' \in Seq(Result) /\ pc' = "start"
  BY <1>a, RecordResult DEF GiveUp, Statuses
<1>b. ClientEnds => attempts' \in Seq(Row)
  BY ClientEndsSettles, SettleAttempts
<1>1. CASE StartIteration  BY <1>1 DEF StartIteration, Typed
<1>2. CASE EndLoop  BY <1>2 DEF EndLoop, Typed
<1>3. CASE FreshCluster
  <2>1. attempts' \in Seq(Row) /\ window' \in [client : Nat, start : Nat, kill : Nat]
    BY <1>3, <1>b DEF FreshCluster, Typed
  <2>2. /\ UNCHANGED <<options, iter, results, status, exitCode, reported>>
        /\ pc' = "health" /\ gone' = FALSE /\ clientUp' = TRUE /\ out' = 0
    BY <1>3 DEF FreshCluster
  <2>3. gone' \in BOOLEAN /\ clientUp' \in BOOLEAN
    BY <2>2, Zenon
  <2>4. out' \in Int /\ pc' \in Pcs /\ iter' \in Nat /\ iter' <= Total'
    BY <2>2 DEF Typed
  <2>. QED  BY <2>1, <2>2, <2>3, <2>4 DEF Typed
<1>4. CASE FreshClusterFails
  <2>1. attempts' \in Seq(Row)
    BY <1>4, <1>b DEF FreshClusterFails, Typed
  <2>2. gone' \in BOOLEAN /\ clientUp' \in BOOLEAN /\ out' \in Int
    <3>1. CASE UNCHANGED <<cluster, client>>
      BY <3>1 DEF Typed
    <3>2. CASE clientUp' = FALSE /\ gone' = TRUE /\ out' = 0
      <4>1. gone' \in BOOLEAN /\ clientUp' \in BOOLEAN
        BY <3>2, Zenon
      <4>. QED  BY <3>2, <4>1
    <3>. QED  BY <1>4, <3>1, <3>2 DEF FreshClusterFails
  <2>3. results' \in Seq(Result) /\ pc' = "start"
    BY <1>4, <1>a DEF FreshClusterFails
  <2>4. UNCHANGED <<options, iter, status, exitCode, reported, window>>
    BY <1>4 DEF FreshClusterFails
  <2>. QED  BY <2>1, <2>2, <2>3, <2>4 DEF Typed
<1>5. CASE ClusterHealthy  BY <1>5 DEF ClusterHealthy, Typed
<1>6. CASE ClusterUnhealthy  BY <1>6, <1>a DEF ClusterUnhealthy, Typed
<1>7. CASE FindLeader  BY <1>7 DEF FindLeader, Typed
<1>8. CASE NoLeader  BY <1>8, <1>a DEF NoLeader, Typed
<1>9. CASE RestartClient  BY <1>9, <1>b DEF RestartClient, Typed
<1>10. CASE RestartClientFails  BY <1>10, <1>b DEF RestartClientFails, Typed
<1>11. CASE Register  BY <1>11 DEF Register, Typed
<1>12. CASE Inject
  <2>1. PICK t \in KillTimes : window' = [window EXCEPT !.kill = t]
    BY <1>12 DEF Inject
  <2>2. t \in Nat
    BY <2>1 DEF KillTimes, Typed
  <2>3. window' \in [client : Nat, start : Nat, kill : Nat]
    BY <2>1, <2>2 DEF Typed
  <2>4. out' \in Int /\ gone' \in BOOLEAN /\ clientUp' \in BOOLEAN
    BY <1>12 DEF Inject, TakenOut, Typed
  <2>5. pc' \in Pcs /\ status' \in Statuses
    BY <1>12 DEF Inject, Typed, Statuses
  <2>6. UNCHANGED <<options, iter, results, exitCode, reported, attempts>>
    BY <1>12 DEF Inject
  <2>. QED  BY <2>3, <2>4, <2>5, <2>6 DEF Typed
<1>13. CASE InjectFails
  <2>1. PICK t \in KillTimes : window' = [window EXCEPT !.kill = t]
    BY <1>13 DEF InjectFails
  <2>2. t \in Nat
    BY <2>1 DEF KillTimes, Typed
  <2>3. window' \in [client : Nat, start : Nat, kill : Nat]
    BY <2>1, <2>2 DEF Typed
  <2>4. results' \in Seq(Result) /\ pc' \in Pcs
    BY <1>13, <1>a DEF InjectFails
  <2>5. out' \in Int
    BY <1>13 DEF InjectFails, TakenOut, Typed
  <2>6. UNCHANGED <<options, iter, status, exitCode, reported, gone, clientUp, attempts>>
    BY <1>13 DEF InjectFails
  <2>. QED  BY <2>3, <2>4, <2>5, <2>6 DEF Typed
<1>14. CASE RecoveryConfirmed  BY <1>14 DEF RecoveryConfirmed, AfterPoll, Typed, Statuses
<1>15. CASE RecoveryTimeout  BY <1>15 DEF RecoveryTimeout, AfterPoll, Typed
<1>16. CASE StopClient  BY <1>16, <1>b DEF StopClient, Typed
<1>17. CASE Tag
  <2>1. attempts' \in Seq(Row)
    BY <1>17, TagAttempts
  <2>. QED  BY <1>17, <2>1 DEF Tag, Typed
<1>18. CASE TagFails  BY <1>18 DEF TagFails, Typed
<1>19. CASE Measure
  <2>1. results' \in Seq(Result)
    <3>1. status \in Statuses
      BY DEF Typed
    <3>. QED  BY <1>19, <3>1, RecordResult, MeasuredOnce DEF Measure
  <2>. QED  BY <1>19, <2>1 DEF Measure, Typed
<1>20. CASE Recover  BY <1>20 DEF Recover, BackIn, Typed
<1>21. CASE Summarise  BY <1>21 DEF Summarise, Typed
<1>22. CASE Report  BY <1>22 DEF Report, Typed
<1>23. CASE Attempt
  <2>1. attempts' \in Seq(Row)
    BY <1>23, AppendAttempt DEF Attempt
  <2>. QED  BY <1>23, <2>1 DEF Attempt, Typed
<1>24. CASE Flush
  <2>1. attempts' \in Seq(Row)
    BY <1>24, SettleAttempts DEF Flush
  <2>. QED  BY <1>24, <2>1 DEF Flush, Typed
<1>25. CASE UNCHANGED vars  BY <1>25 DEF vars, Typed
<1>26. CASE SameClientGoesOn  BY <1>26 DEF SameClientGoesOn, ClientGoesOn, Typed
<1>27. CASE RestartClientRefused  BY <1>27 DEF RestartClientRefused, ClientGoesOn, Typed
<1>28. CASE StopClientFails  BY <1>28 DEF StopClientFails, ClientGoesOn, Typed
<1>. QED  BY <1>1, <1>2, <1>3, <1>4, <1>5, <1>6, <1>7, <1>8, <1>9, <1>10, <1>11, <1>12, <1>13,
             <1>14, <1>15, <1>16, <1>17, <1>18, <1>19, <1>20, <1>21, <1>22, <1>23, <1>24, <1>25,
             <1>26, <1>27, <1>28
          DEF Next, RunnerStep

\* No step forgets an attempt, and none but those of the client, its end and
\* the tagging changes one.
LEMMA AttemptsGrow ==
    ASSUME Typed, [Next]_vars
    PROVE  Now' \in Nat /\ Now <= Now'
<1> USE AttemptFields DEF client
<1>a. ClientEnds => Now' = Now
  BY ClientEndsSettles, SettleAttempts
<1>b. attempts' = attempts => Now' = Now
  BY DEF Now
<1>1. CASE FreshCluster \/ FreshClusterFails \/ RestartClient \/ RestartClientFails \/ StopClient
  BY <1>1, <1>a, <1>b DEF FreshCluster, FreshClusterFails, RestartClient, RestartClientFails, StopClient
<1>2. CASE Attempt
  BY <1>2, AppendAttempt DEF Attempt
<1>3. CASE Flush
  BY <1>3, SettleAttempts DEF Flush
<1>4. CASE Tag
  BY <1>4, TagAttempts
<1>5. CASE attempts' = attempts
  BY <1>5, <1>b
<1>6. \/ FreshCluster \/ FreshClusterFails \/ RestartClient \/ RestartClientFails \/ StopClient
      \/ Attempt \/ Flush \/ Tag
      \/ attempts' = attempts
  BY DEF Next, RunnerStep, vars, StartIteration, EndLoop, ClusterHealthy, ClusterUnhealthy,
         SameClientGoesOn, RestartClientRefused, StopClientFails, ClientGoesOn, FindLeader, NoLeader, Register, Inject, InjectFails, RecoveryConfirmed, RecoveryTimeout,
         TagFails, Measure, Recover, Summarise, Report
<1>. QED  BY <1>1, <1>2, <1>3, <1>4, <1>5, <1>6

-----------------------------------------------------------------------------
(* One result for each iteration. *)

\* A step adds no result, or adds one whose downtime was measured by now.
LEMMA ResultsGrow ==
    ASSUME Typed, [Next]_vars
    PROVE  \/ results' = results
           \/ /\ \/ pc = "measure" /\ pc' = "recover"
                 \/ pc \in BeforeInjection /\ pc' = "start"
              /\ iter' = iter
              /\ \E st \in Statuses, d \in SUBSET Nat : Record(st, d) /\ Measured(d)
<1> USE DEF driver, Goto, BeforeInjection, Statuses
<1>1. Measured({})
  BY FS_EmptySet DEF Measured
<1>2. ASSUME NEW st \in Statuses, GiveUp(st)
      PROVE  pc' = "start" /\ \E st1 \in Statuses, d \in SUBSET Nat : Record(st1, d) /\ Measured(d)
  BY <1>1, <1>2 DEF GiveUp
<1>3. CASE FreshClusterFails
  BY <1>2, <1>3 DEF FreshClusterFails
<1>4. CASE ClusterUnhealthy
  BY <1>2, <1>4 DEF ClusterUnhealthy
<1>5. CASE NoLeader
  BY <1>2, <1>5 DEF NoLeader
<1>6. CASE InjectFails
  BY <1>2, <1>6 DEF InjectFails
<1>7. CASE Measure
  <2>1. status \in Statuses
    BY DEF Typed
  <2>2. \E d \in SUBSET Nat : Record(status, d) /\ Measured(d)
    BY <1>1, <1>7, MeasuredOnce DEF Measure
  <2>. QED  BY <1>7, <2>1, <2>2 DEF Measure
<1>8. FreshClusterFails \/ ClusterUnhealthy \/ NoLeader \/ InjectFails \/ Measure \/ results' = results
  BY DEF Next, RunnerStep, vars, StartIteration, EndLoop, FreshCluster, ClusterHealthy,
         SameClientGoesOn, RestartClientRefused, StopClientFails, ClientGoesOn,
         FindLeader, RestartClient, RestartClientFails, Register, Inject, RecoveryConfirmed,
         RecoveryTimeout, StopClient, Tag, TagFails, Recover, Summarise, Report, Attempt, Flush
<1>. QED  BY <1>3, <1>4, <1>5, <1>6, <1>7, <1>8

\* A step that ends an iteration records its result, and no other step records one.
LEMMA NumberedStep ==
    ASSUME Typed, Numbered, [Next]_vars
    PROVE  Numbered'
<1> USE AttemptFields DEF driver, Goto, BeforeInjection, BeforeTag, BeforeResult, Pcs
<1>0. /\ iter \in Nat /\ results \in Seq(Result) /\ Len(results) \in Nat
      /\ DOMAIN results = 1..Len(results)
  BY DEF Typed
<1>1. 1..Now \subseteq 1..Now'
  BY AttemptsGrow
<1>2. CASE results' = results
  <2>1. \A i \in DOMAIN results' :
           results'[i].downtime \subseteq 1..Now' /\ Cardinality(results'[i].downtime) <= 1
    BY <1>1, <1>2 DEF Numbered
  <2>2. Len(results') = Len(results)
    BY <1>2
  <2>3. /\ pc' \in {"start", "recover", "summary", "report"} => Len(results') = iter'
        /\ pc' \in BeforeResult => Len(results') = iter' - 1
        /\ pc' \in BeforeResult \cup {"recover"} => iter' >= 1
        /\ Len(results') \in {iter' - 1, iter'}
    <3>1. CASE StartIteration  BY <1>0, <2>2, <3>1 DEF StartIteration, Numbered, Typed
    <3>2. CASE EndLoop  BY <1>0, <2>2, <3>2 DEF EndLoop, Numbered
    <3>3. CASE FreshCluster  BY <1>0, <2>2, <3>3 DEF FreshCluster, Numbered
    <3>4. CASE ClusterHealthy  BY <1>0, <2>2, <3>4 DEF ClusterHealthy, Numbered
    <3>5. CASE FindLeader  BY <1>0, <2>2, <3>5 DEF FindLeader, Numbered
    <3>6. CASE RestartClient  BY <1>0, <2>2, <3>6 DEF RestartClient, Numbered
    <3>7. CASE RestartClientFails  BY <1>0, <2>2, <3>7 DEF RestartClientFails, Numbered
    <3>8. CASE Register  BY <1>0, <2>2, <3>8 DEF Register, Numbered
    <3>9. CASE Inject  BY <1>0, <2>2, <3>9 DEF Inject, Numbered
    <3>10. CASE RecoveryConfirmed
      BY <1>0, <2>2, <3>10 DEF RecoveryConfirmed, AfterPoll, Numbered
    <3>11. CASE RecoveryTimeout
      BY <1>0, <2>2, <3>11 DEF RecoveryTimeout, AfterPoll, Numbered
    <3>12. CASE StopClient  BY <1>0, <2>2, <3>12 DEF StopClient, Numbered
    <3>13. CASE Tag  BY <1>0, <2>2, <3>13 DEF Tag, Numbered
    <3>14. CASE TagFails  BY <1>0, <2>2, <3>14 DEF TagFails, Numbered
    <3>15. CASE Recover  BY <1>0, <2>2, <3>15 DEF Recover, Numbered
    <3>16. CASE Summarise  BY <1>0, <2>2, <3>16 DEF Summarise, Numbered
    <3>17. CASE Report  BY <1>0, <2>2, <3>17 DEF Report, Numbered
    <3>18. CASE Attempt  BY <1>0, <2>2, <3>18 DEF Attempt, Numbered
    <3>19. CASE Flush  BY <1>0, <2>2, <3>19 DEF Flush, Numbered
    <3>20. CASE UNCHANGED vars  BY <1>0, <2>2, <3>20 DEF vars, Numbered
    <3>22. CASE SameClientGoesOn  BY <1>0, <2>2, <3>22 DEF SameClientGoesOn, Numbered
    <3>23. CASE RestartClientRefused  BY <1>0, <2>2, <3>23 DEF RestartClientRefused, Numbered
    <3>24. CASE StopClientFails  BY <1>0, <2>2, <3>24 DEF StopClientFails, Numbered
    <3>21. ~ (FreshClusterFails \/ ClusterUnhealthy \/ NoLeader \/ InjectFails \/ Measure)
      <4>1. ASSUME NEW st \in Statuses, NEW d \in SUBSET Nat, Record(st, d) PROVE FALSE
        <5>1. Len(results') = Len(results) + 1
          BY <4>1, RecordResult
        <5>. QED  BY <1>0, <2>2, <5>1
      <4>2. ASSUME NEW st \in Statuses, GiveUp(st) PROVE FALSE
        BY <4>1, <4>2 DEF GiveUp
      <4>3. ~Measure
        <5>1. status \in Statuses
          BY DEF Typed
        <5>. QED  BY <4>1, <5>1, MeasuredOnce DEF Measure
      <4>. QED  BY <4>2, <4>3 DEF FreshClusterFails, ClusterUnhealthy, NoLeader, InjectFails,
                                  Statuses
    <3>. QED  BY <3>1, <3>2, <3>3, <3>4, <3>5, <3>6, <3>7, <3>8, <3>9, <3>10, <3>11, <3>12,
                 <3>13, <3>14, <3>15, <3>16, <3>17, <3>18, <3>19, <3>20, <3>21,
                 <3>22, <3>23, <3>24
              DEF Next, RunnerStep
  <2>. QED  BY <2>1, <2>3 DEF Numbered
<1>3. ASSUME NEW st \in Statuses, NEW d \in SUBSET Nat, Record(st, d), Measured(d),
             pc \in BeforeResult, pc' \in {"start", "recover"}, iter' = iter
      PROVE  Numbered'
  <2>1. /\ results' \in Seq(Result)
        /\ Len(results') = Len(results) + 1
        /\ \A i \in 1..Len(results) : results'[i] = results[i]
        /\ results'[Len(results) + 1] = [status |-> st, downtime |-> d]
    BY <1>3, RecordResult
  <2>2. Len(results) = iter - 1 /\ iter >= 1
    BY <1>3 DEF Numbered
  <2>3. ASSUME NEW i \in DOMAIN results'
        PROVE  results'[i].downtime \subseteq 1..Now' /\ Cardinality(results'[i].downtime) <= 1
    <3>1. i \in 1..Len(results) \/ i = Len(results) + 1
      BY <1>0, <2>1
    <3>2. CASE i \in 1..Len(results)
      <4>1. /\ results'[i].downtime = results[i].downtime
            /\ results[i].downtime \subseteq 1..Now /\ Cardinality(results[i].downtime) <= 1
        BY <1>0, <2>1, <3>2 DEF Numbered
      <4>. QED  BY <1>1, <4>1
    <3>3. CASE i = Len(results) + 1
      <4>1. results'[i].downtime = d
        BY <2>1, <3>3
      <4>. QED  BY <1>1, <1>3, <4>1 DEF Measured
    <3>. QED  BY <3>1, <3>2, <3>3
  <2>4. Len(results') = iter'
    BY <1>0, <1>3, <2>1, <2>2
  <2>. QED  BY <1>0, <1>3, <2>2, <2>3, <2>4 DEF Numbered
<1>. QED  BY <1>2, <1>3, ResultsGrow

-----------------------------------------------------------------------------
(* The nodes. *)

\* A step keeps the number of nodes that are out known: the health check lets
\* only a whole cluster through to an injection.
LEMMA NodesStep ==
    ASSUME Typed, NodesAccounted, [Next]_vars
    PROVE  NodesAccounted'
<1> USE DEF driver, cluster, client, Goto, GiveUp, BeforeInjection
<1>0. out \in Int /\ (iter' = iter /\ options' = options => Scenario' = Scenario)
  BY DEF Typed, Scenario
<1>1. CASE StartIteration  BY <1>0, <1>1 DEF StartIteration, NodesAccounted
<1>2. CASE EndLoop  BY <1>0, <1>2 DEF EndLoop, NodesAccounted
<1>3. CASE FreshCluster  BY <1>0, <1>3 DEF FreshCluster, NodesAccounted
<1>4. CASE FreshClusterFails  BY <1>0, <1>4 DEF FreshClusterFails, NodesAccounted
<1>5. CASE ClusterHealthy  BY <1>0, <1>5 DEF ClusterHealthy, Healthy, NodesAccounted
<1>6. CASE ClusterUnhealthy  BY <1>0, <1>6 DEF ClusterUnhealthy, NodesAccounted
<1>7. CASE FindLeader  BY <1>0, <1>7 DEF FindLeader, NodesAccounted
<1>8. CASE NoLeader  BY <1>0, <1>8 DEF NoLeader, NodesAccounted
<1>9. CASE RestartClient  BY <1>0, <1>9 DEF RestartClient, NodesAccounted
<1>10. CASE RestartClientFails  BY <1>0, <1>10 DEF RestartClientFails, NodesAccounted
<1>11. CASE Register  BY <1>0, <1>11 DEF Register, NodesAccounted
<1>12. CASE Inject  BY <1>0, <1>12 DEF Inject, TakenOut, NodesAccounted
<1>13. CASE InjectFails  BY <1>0, <1>13 DEF InjectFails, TakenOut, NodesAccounted
<1>14. CASE RecoveryConfirmed  BY <1>0, <1>14 DEF RecoveryConfirmed, AfterPoll, NodesAccounted
<1>15. CASE RecoveryTimeout  BY <1>0, <1>15 DEF RecoveryTimeout, AfterPoll, NodesAccounted
<1>16. CASE StopClient  BY <1>0, <1>16 DEF StopClient, NodesAccounted
<1>17. CASE Tag  BY <1>0, <1>17 DEF Tag, NodesAccounted
<1>18. CASE TagFails  BY <1>0, <1>18 DEF TagFails, NodesAccounted
<1>19. CASE Measure  BY <1>0, <1>19 DEF Measure, NodesAccounted
<1>20. CASE Recover  BY <1>0, <1>20 DEF Recover, BackIn, NodesAccounted
<1>21. CASE Summarise  BY <1>0, <1>21 DEF Summarise, NodesAccounted
<1>22. CASE Report  BY <1>0, <1>22 DEF Report, NodesAccounted
<1>23. CASE Attempt  BY <1>0, <1>23 DEF Attempt, NodesAccounted
<1>24. CASE Flush  BY <1>0, <1>24 DEF Flush, NodesAccounted
<1>25. CASE UNCHANGED vars  BY <1>0, <1>25 DEF vars, NodesAccounted
<1>26. CASE SameClientGoesOn  BY <1>0, <1>26 DEF SameClientGoesOn, ClientGoesOn, NodesAccounted
<1>27. CASE RestartClientRefused  BY <1>0, <1>27 DEF RestartClientRefused, ClientGoesOn, NodesAccounted
<1>28. CASE StopClientFails  BY <1>0, <1>28 DEF StopClientFails, ClientGoesOn, NodesAccounted
<1>. QED  BY <1>1, <1>2, <1>3, <1>4, <1>5, <1>6, <1>7, <1>8, <1>9, <1>10, <1>11, <1>12, <1>13,
             <1>14, <1>15, <1>16, <1>17, <1>18, <1>19, <1>20, <1>21, <1>22, <1>23, <1>24, <1>25,
             <1>26, <1>27, <1>28
          DEF Next, RunnerStep

-----------------------------------------------------------------------------
(* The stamps. *)

\* A step keeps the client's start, START_TS and kill_ts in order.
LEMMA WindowStep ==
    ASSUME Typed, WindowOrdered, [Next]_vars
    PROVE  WindowOrdered'
<1> USE DEF driver, cluster, client, Goto, GiveUp
<1>0. /\ Now \in Nat /\ Now' \in Nat /\ Now <= Now'
      /\ window \in [client : Nat, start : Nat, kill : Nat]
  BY AttemptFields, AttemptsGrow DEF Typed
<1>1. CASE StartIteration  BY <1>0, <1>1 DEF StartIteration, WindowOrdered
<1>2. CASE EndLoop  BY <1>0, <1>2 DEF EndLoop, WindowOrdered
<1>3. CASE FreshCluster  BY <1>0, <1>3 DEF FreshCluster, WindowOrdered
<1>4. CASE FreshClusterFails  BY <1>0, <1>4 DEF FreshClusterFails, WindowOrdered
<1>5. CASE ClusterHealthy  BY <1>0, <1>5 DEF ClusterHealthy, WindowOrdered
<1>6. CASE ClusterUnhealthy  BY <1>0, <1>6 DEF ClusterUnhealthy, WindowOrdered
<1>7. CASE FindLeader  BY <1>0, <1>7 DEF FindLeader, WindowOrdered
<1>8. CASE NoLeader  BY <1>0, <1>8 DEF NoLeader, WindowOrdered
<1>9. CASE RestartClient  BY <1>0, <1>9 DEF RestartClient, WindowOrdered
<1>10. CASE RestartClientFails  BY <1>0, <1>10 DEF RestartClientFails, WindowOrdered
<1>11. CASE Register  BY <1>0, <1>11 DEF Register, WindowOrdered
<1>12. CASE Inject  BY <1>0, <1>12 DEF Inject, KillTimes, WindowOrdered
<1>13. CASE InjectFails  BY <1>0, <1>13 DEF InjectFails, KillTimes, WindowOrdered
<1>14. CASE RecoveryConfirmed  BY <1>0, <1>14 DEF RecoveryConfirmed, AfterPoll, WindowOrdered
<1>15. CASE RecoveryTimeout  BY <1>0, <1>15 DEF RecoveryTimeout, AfterPoll, WindowOrdered
<1>16. CASE StopClient  BY <1>0, <1>16 DEF StopClient, WindowOrdered
<1>17. CASE Tag  BY <1>0, <1>17 DEF Tag, WindowOrdered
<1>18. CASE TagFails  BY <1>0, <1>18 DEF TagFails, WindowOrdered
<1>19. CASE Measure  BY <1>0, <1>19 DEF Measure, WindowOrdered
<1>20. CASE Recover  BY <1>0, <1>20 DEF Recover, WindowOrdered
<1>21. CASE Summarise  BY <1>0, <1>21 DEF Summarise, WindowOrdered
<1>22. CASE Report  BY <1>0, <1>22 DEF Report, WindowOrdered
<1>23. CASE Attempt  BY <1>0, <1>23 DEF Attempt, WindowOrdered
<1>24. CASE Flush  BY <1>0, <1>24 DEF Flush, WindowOrdered
<1>25. CASE UNCHANGED vars  BY <1>0, <1>25 DEF vars, WindowOrdered
<1>26. CASE SameClientGoesOn  BY <1>0, <1>26 DEF SameClientGoesOn, ClientGoesOn, WindowOrdered
<1>27. CASE RestartClientRefused  BY <1>0, <1>27 DEF RestartClientRefused, ClientGoesOn, WindowOrdered
<1>28. CASE StopClientFails  BY <1>0, <1>28 DEF StopClientFails, ClientGoesOn, WindowOrdered
<1>. QED  BY <1>1, <1>2, <1>3, <1>4, <1>5, <1>6, <1>7, <1>8, <1>9, <1>10, <1>11, <1>12, <1>13,
             <1>14, <1>15, <1>16, <1>17, <1>18, <1>19, <1>20, <1>21, <1>22, <1>23, <1>24, <1>25,
             <1>26, <1>27, <1>28
          DEF Next, RunnerStep

-----------------------------------------------------------------------------
(* The order in which rows are stored. *)

\* While the same client runs on, attempts that change at most from pending to
\* stored all at once keep the order.
LEMMA OrderSettled ==
    ASSUME Typed, WindowOrdered, StoredInOrder, NEW row \in {"stored", "lost"},
           attempts' = Settle(row),
           \/ row = "stored" /\ window'.client = window.client /\ clientUp' = clientUp
           \/ window'.client = window.client /\ clientUp' = FALSE
           \/ window'.client = Now
    PROVE  StoredInOrder'
<1> USE AttemptFields, SettleAttempts
<1>1. window.client \in Nat /\ Now' = Now
  BY DEF Typed
<1>2. \A i \in 1..Now : attempts'[i].row # "pending"
  OBVIOUS
<1>3. CASE window'.client = Now
  BY <1>1, <1>2, <1>3 DEF StoredInOrder, Stored
<1>4. CASE window'.client = window.client /\ (clientUp' = FALSE \/ (row = "stored" /\ clientUp' = clientUp))
  <2>1. ASSUME NEW i \in 1..Now, attempts'[i].row = "lost", window.client < i
        PROVE  ~clientUp'
    BY <1>4, <2>1 DEF StoredInOrder
  <2>2. ASSUME NEW i \in 1..Now, NEW j \in 1..Now,
               window.client < i, i < j, attempts'[j].row = "stored"
        PROVE  attempts'[i].row = "stored"
    <3>1. CASE attempts[j].row = "stored"
      BY <2>2, <3>1 DEF StoredInOrder, Stored
    <3>2. CASE attempts[j].row = "pending"
      <4>1. clientUp /\ row = "stored"
        BY <2>2, <3>2 DEF StoredInOrder
      <4>2. attempts[i].row # "lost"
        BY <2>2, <4>1 DEF StoredInOrder
      <4>3. attempts[i].row = "stored" \/ attempts[i].row = "pending"
        BY <4>2 DEF Row
      <4>. QED  BY <4>1, <4>3
    <3>. QED  BY <2>2, <3>1, <3>2 DEF Row
  <2>. QED
    <3>1. window'.client = window.client
      BY <1>4
    <3>2. \A i \in 1..Now' : attempts'[i].row # "pending"
      BY <1>1, <1>2
    <3>3. \A i \in 1..Now' : attempts'[i].row = "lost" /\ window'.client < i => ~clientUp'
      BY <1>1, <2>1, <3>1
    <3>4. \A i, j \in 1..Now' :
             window'.client < i /\ i < j /\ attempts'[j].row = "stored" => attempts'[i].row = "stored"
      BY <1>1, <2>2, <3>1
    <3>. QED  BY <3>2, <3>3, <3>4 DEF StoredInOrder, Stored
<1>. QED  BY <1>3, <1>4

\* The other steps: nothing changes, or one attempt is added, or rows get
\* another label.
LEMMA OrderKept ==
    ASSUME Typed, StoredInOrder, window'.client = window.client, clientUp' = clientUp,
           Now' = Now,
           \A i \in 1..Now : /\ attempts'[i].row = attempts[i].row
                             /\ attempts[i].row = "pending" => attempts'[i].run = attempts[i].run
    PROVE  StoredInOrder'
  BY AttemptFields DEF StoredInOrder, Stored

\* Every step keeps the order.
LEMMA OrderStep ==
    ASSUME Typed, WindowOrdered, StoredInOrder, [Next]_vars
    PROVE  StoredInOrder'
<1> USE AttemptFields DEF driver, cluster, client, Goto
<1>0. window \in [client : Nat, start : Nat, kill : Nat]
  BY DEF Typed
<1>1. CASE FreshCluster \/ RestartClient
  <2>1. ClientEnds /\ window'.client = Now
    BY <1>0, <1>1 DEF FreshCluster, RestartClient
  <2>. QED  BY <2>1, OrderSettled DEF ClientEnds
<1>2. CASE RestartClientFails \/ StopClient
  <2>1. ClientEnds /\ window'.client = window.client /\ clientUp' = FALSE
    BY <1>2 DEF RestartClientFails, StopClient
  <2>. QED  BY <2>1, OrderSettled DEF ClientEnds
<1>3. CASE FreshClusterFails
  <2>1. CASE UNCHANGED <<cluster, client>>
    <3>1. attempts' = attempts /\ clientUp' = clientUp /\ window' = window
      BY <1>3, <2>1 DEF FreshClusterFails
    <3>. QED  BY <3>1, OrderKept DEF Now
  <2>2. CASE ClientEnds /\ clientUp' = FALSE
    <3>1. window'.client = window.client
      BY <1>3 DEF FreshClusterFails
    <3>. QED  BY <2>2, <3>1, OrderSettled DEF ClientEnds
  <2>. QED  BY <1>3, <2>1, <2>2 DEF FreshClusterFails
<1>4. CASE Attempt
  <2>1. PICK ok \in BOOLEAN :
           attempts' = Append(attempts, [ok |-> ok, row |-> "pending", run |-> NoRun])
    BY <1>4 DEF Attempt
  <2>2. /\ Now' = Now + 1
        /\ \A i \in 1..Now : attempts'[i] = attempts[i]
        /\ attempts'[Now + 1].row = "pending" /\ attempts'[Now + 1].run = NoRun
    BY <2>1, AppendAttempt
  <2>3. /\ clientUp /\ clientUp' = clientUp /\ window' = window /\ window.client <= Now
        /\ window.client \in Nat
    BY <1>0, <1>4 DEF Attempt, Observed, WindowOrdered
  <2>4. \A i \in 1..Now' : i \in 1..Now \/ i = Now + 1
    BY <2>2
  <2>. QED  BY <2>2, <2>3, <2>4 DEF StoredInOrder, Stored
<1>5. CASE Flush
  <2>1. attempts' = Settle("stored") /\ clientUp' = clientUp /\ window' = window
    BY <1>5 DEF Flush
  <2>. QED  BY <2>1, OrderSettled
<1>6. CASE Tag
  <2>1. /\ Now' = Now
        /\ \A i \in 1..Now :
              /\ attempts'[i].row = attempts[i].row
              /\ ~Tagged(i) => attempts'[i] = attempts[i]
    BY <1>6, TagAttempts
  <2>2. \A i \in 1..Now : attempts[i].row = "pending" => ~Tagged(i)
    BY DEF Tagged, Stored
  <2>3. clientUp' = clientUp /\ window' = window
    BY <1>6 DEF Tag
  <2>. QED  BY <2>1, <2>2, <2>3, OrderKept
<1>7. CASE attempts' = attempts /\ window'.client = window.client /\ clientUp' = clientUp
  BY <1>7, OrderKept DEF Now
<1>8. \/ FreshCluster \/ RestartClient \/ RestartClientFails \/ StopClient \/ FreshClusterFails
      \/ Attempt \/ Flush \/ Tag
      \/ attempts' = attempts /\ window'.client = window.client /\ clientUp' = clientUp
  BY <1>0 DEF Next, RunnerStep, vars, StartIteration, EndLoop, ClusterHealthy, ClusterUnhealthy,
         SameClientGoesOn, RestartClientRefused, StopClientFails, ClientGoesOn,
         FindLeader, NoLeader, Register, Inject, InjectFails, RecoveryConfirmed, RecoveryTimeout,
         TagFails, Measure, Recover, Summarise, Report
<1>. QED  BY <1>1, <1>2, <1>3, <1>4, <1>5, <1>6, <1>7, <1>8

-----------------------------------------------------------------------------
(* The labels. *)

\* What the client stores carries its label as soon as it holds a failure.
LEMMA LabelsSettled ==
    ASSUME Typed, Numbered, StoredInOrder, Labelled, NEW row \in {"stored", "lost"},
           attempts' = Settle(row), iter' = iter,
           pc' \in BeforeTag => pc \in BeforeTag,
           window'.client = window.client \/ pc \in BeforeTag
    PROVE  Labelled'
<1> USE AttemptFields, SettleAttempts
<1>1. Now' = Now /\ iter \in Nat /\ (pc \in BeforeTag => iter >= 1)
  BY DEF Typed, Numbered, BeforeResult
<1>2. RunNow \in {NoRun, OwnRun}
  BY DEF RunNow
<1>3. ASSUME NEW i \in 1..Now, attempts[i].row = "pending", ~attempts[i].ok
      PROVE  RunNow = OwnRun
  <2>1. window.client < i /\ window.client \in Nat
    BY <1>3 DEF StoredInOrder, Typed
  <2>2. i \in (window.client + 1)..Now
    BY <2>1
  <2>. QED  BY <1>3, <2>2 DEF RunNow
<1>4. ASSUME NEW i \in 1..Now, attempts'[i].row = "stored", ~attempts'[i].ok
      PROVE  attempts'[i].run # NoRun
  <2>1. CASE attempts[i].row = "pending"
    BY <1>3, <1>4, <2>1 DEF NoRun, OwnRun
  <2>2. CASE attempts[i].row # "pending"
    BY <1>4, <2>2 DEF Labelled, Stored
  <2>. QED  BY <2>1, <2>2
<1>5. ASSUME NEW i \in 1..Now
      PROVE  attempts'[i].run \in {NoRun, OwnRun} \cup 1..iter
  BY <1>2 DEF Labelled
<1>6. ASSUME NEW i \in 1..Now, iter > 0, attempts'[i].run = iter
      PROVE  attempts[i].run = iter /\ attempts'[i].ok = attempts[i].ok
  BY <1>1, <1>2, <1>6 DEF NoRun, OwnRun
<1>7. ASSUME NEW i \in 1..Now, pc \in BeforeTag
      PROVE  attempts'[i].run # iter
  BY <1>1, <1>6, <1>7 DEF Labelled
<1>8. ASSUME NEW i \in 1..Now, iter > 0, attempts'[i].run = iter
      PROVE  window'.client < i /\ attempts'[i].ok
  BY <1>6, <1>7, <1>8 DEF Labelled, TagsOwnClient
<1> HIDE AttemptFields, SettleAttempts
<1>. QED  BY <1>1, <1>4, <1>5, <1>7, <1>8 DEF Labelled, TagsOwnClient, Stored

\* Steps that leave the rows alone.
LEMMA LabelsKept ==
    ASSUME Labelled, attempts' = attempts, iter' = iter, window'.client = window.client,
           pc' \in BeforeTag => pc \in BeforeTag
    PROVE  Labelled'
  BY DEF Labelled, TagsOwnClient, Stored, Now

\* Every step keeps the labels in order.
LEMMA LabelStep ==
    ASSUME Typed, Numbered, WindowOrdered, StoredInOrder, Labelled, [Next]_vars
    PROVE  Labelled'
<1> USE AttemptFields DEF driver, cluster, client, Goto, GiveUp, BeforeInjection, BeforeTag
<1>0. /\ window \in [client : Nat, start : Nat, kill : Nat]
      /\ iter \in Nat /\ (pc \in BeforeTag => iter >= 1)
  BY DEF Typed, Numbered, BeforeResult
<1>1. CASE StartIteration
  <2>1. attempts' = attempts /\ iter' = iter + 1 /\ Now' = Now
    BY <1>1 DEF StartIteration, Now
  <2>2. \A i \in 1..Now : attempts[i].run \in {NoRun, OwnRun} \cup 1..iter
    BY DEF Labelled
  <2>3. \A i \in 1..Now : attempts[i].run # iter + 1 /\ attempts[i].run \in {NoRun, OwnRun} \cup 1..(iter + 1)
    BY <1>0, <2>2 DEF NoRun, OwnRun
  <2>. QED  BY <2>1, <2>3 DEF Labelled, TagsOwnClient, Stored
<1>2. CASE FreshCluster \/ RestartClient \/ RestartClientFails \/ StopClient \/ (FreshClusterFails /\ ClientEnds)
  <2>1. /\ ClientEnds /\ iter' = iter /\ pc \in BeforeTag
    BY <1>2 DEF FreshCluster, RestartClient, RestartClientFails, StopClient, FreshClusterFails
  <2>. QED  BY <2>1, LabelsSettled DEF ClientEnds
<1>3. CASE Attempt
  <2>1. PICK ok \in BOOLEAN :
           attempts' = Append(attempts, [ok |-> ok, row |-> "pending", run |-> NoRun])
    BY <1>3 DEF Attempt
  <2>2. /\ Now' = Now + 1
        /\ \A i \in 1..Now : attempts'[i] = attempts[i]
        /\ attempts'[Now + 1].row = "pending" /\ attempts'[Now + 1].run = NoRun
    BY <2>1, AppendAttempt
  <2>3. pc' = pc /\ iter' = iter /\ window' = window
    BY <1>3 DEF Attempt
  <2>4. \A i \in 1..Now' : i \in 1..Now \/ i = Now + 1
    BY <2>2
  <2>. QED  BY <1>0, <2>2, <2>3, <2>4, SMTT(30) DEF Labelled, TagsOwnClient, Stored, NoRun, OwnRun
<1>4. CASE Flush
  <2>1. attempts' = Settle("stored") /\ iter' = iter /\ pc' = pc /\ window' = window
    BY <1>4 DEF Flush
  <2>. QED  BY <2>1, LabelsSettled
<1>5. CASE Tag
  <2>1. /\ Now' = Now
        /\ \A i \in 1..Now :
              /\ attempts'[i].ok = attempts[i].ok
              /\ attempts'[i].row = attempts[i].row
              /\ Tagged(i) => attempts'[i].run = iter
              /\ ~Tagged(i) => attempts'[i] = attempts[i]
    BY <1>5, TagAttempts
  <2>2. /\ pc = "tag" /\ pc' = "measure" /\ iter' = iter /\ window' = window /\ iter >= 1
        /\ window.client <= window.start
    BY <1>0, <1>5 DEF Tag, WindowOrdered
  <2>3. ASSUME NEW i \in 1..Now, Tagged(i) PROVE window.client < i /\ attempts[i].ok
    BY <1>0, <2>2, <2>3 DEF Tagged, Labelled
  <2>4. ASSUME NEW i \in 1..Now, attempts'[i].run = iter PROVE window.client < i /\ attempts'[i].ok
    BY <2>1, <2>2, <2>3, <2>4 DEF Labelled
  <2>5. ASSUME NEW i \in 1..Now PROVE attempts'[i].run \in {NoRun, OwnRun} \cup 1..iter
    BY <1>0, <2>1, <2>2 DEF Labelled
  <2>6. ASSUME NEW i \in 1..Now, attempts'[i].row = "stored", ~attempts'[i].ok
        PROVE  attempts'[i].run # NoRun
    BY <1>0, <2>1, <2>2, <2>6 DEF Labelled, Stored, NoRun
  <2>. QED  BY <2>1, <2>2, <2>4, <2>5, <2>6 DEF Labelled, TagsOwnClient, Stored
<1>6. CASE /\ attempts' = attempts /\ iter' = iter /\ window'.client = window.client
           /\ pc' \in BeforeTag => pc \in BeforeTag
  BY <1>6, LabelsKept
<1>7. CASE FreshClusterFails /\ UNCHANGED <<cluster, client>>
  BY <1>6, <1>7 DEF FreshClusterFails
<1>8. \/ StartIteration \/ FreshCluster \/ RestartClient \/ RestartClientFails \/ StopClient
      \/ FreshClusterFails \/ Attempt \/ Flush \/ Tag
      \/ /\ attempts' = attempts /\ iter' = iter /\ window'.client = window.client
         /\ pc' \in BeforeTag => pc \in BeforeTag
  BY <1>0 DEF Next, RunnerStep, vars, EndLoop, ClusterHealthy, ClusterUnhealthy,
         SameClientGoesOn, RestartClientRefused, StopClientFails, ClientGoesOn,
         FindLeader, NoLeader, Register, Inject, InjectFails, RecoveryConfirmed, RecoveryTimeout,
         AfterPoll, TagFails, Measure, Recover, Summarise, Report
<1>9. FreshClusterFails => ClientEnds \/ UNCHANGED <<cluster, client>>
  BY DEF FreshClusterFails
<1>. QED  BY <1>1, <1>2, <1>3, <1>4, <1>5, <1>6, <1>7, <1>8, <1>9

-----------------------------------------------------------------------------
(* The theorems. *)

\* The invariant holds when the driver is started.
LEMMA IInvInit == Init => IInv
<1> SUFFICES ASSUME Init PROVE IInv
  OBVIOUS
<1>1. Typed
  BY TypedInit
<1>2. /\ pc = "start" /\ iter = 0 /\ out = 0 /\ window = NoWindow
      /\ results = <<>> /\ attempts = <<>> /\ Now = 0 /\ Len(results) = 0
  BY DEF Init, Now
<1>3. Numbered /\ NodesAccounted /\ WindowOrdered
  BY <1>2 DEF Numbered, NodesAccounted, WindowOrdered, NoWindow, BeforeInjection, BeforeTag, BeforeResult
<1>4. StoredInOrder /\ Labelled
  BY <1>2 DEF StoredInOrder, Labelled, TagsOwnClient, BeforeInjection, BeforeTag
<1>. QED  BY <1>1, <1>3, <1>4 DEF IInv

\* The invariant is inductive.
THEOREM Invariance == Spec => []IInv
<1>1. IInv /\ [Next]_vars => IInv'
  BY TypedStep, NumberedStep, NodesStep, WindowStep, OrderStep, LabelStep DEF IInv
<1>. QED  BY IInvInit, <1>1, PTL DEF Spec

\* The type invariant of the driver: every iteration that is over has a result,
\* and every downtime in the table is at most one number.
THEOREM TypeCorrect == Spec => []TypeOK
<1>1. IInv => TypeOK
  <2> SUFFICES ASSUME IInv PROVE TypeOK
    OBVIOUS
  <2> USE AttemptFields DEF IInv
  <2>1. /\ options \in [fresh : BOOLEAN, skipClient : BOOLEAN, scenario : Scenarios]
        /\ pc \in Pcs /\ status \in Statuses /\ exitCode \in {0, 1}
        /\ {reported, gone, clientUp} \subseteq BOOLEAN
    BY DEF Typed
  <2>2. iter \in 0..Total /\ out \in Nat
    <3>1. Total \in Nat
      BY RunnerAssumption DEF Total, AllScenarios
    <3>. QED  BY <3>1 DEF Typed, NodesAccounted
  <2>3. /\ Len(results) \in {iter - 1, iter}
        /\ pc \in {"start", "recover", "summary", "report"} => Len(results) = iter
    BY DEF Numbered
  <2>4. \A i \in DOMAIN results :
           /\ results[i].status \in Statuses
           /\ results[i].downtime \subseteq 1..Now /\ Cardinality(results[i].downtime) <= 1
    <3>1. \A i \in DOMAIN results : results[i].status \in Statuses
      <4>1. \A i \in DOMAIN results : results[i] \in Result
        BY DEF Typed
      <4>. QED  BY <4>1 DEF Result
    <3>. QED  BY <3>1 DEF Numbered
  <2>5. IsWindow(window)
    BY DEF IsWindow, Typed, WindowOrdered
  <2>6. \A i \in 1..Now :
           /\ attempts[i].ok \in BOOLEAN
           /\ attempts[i].row \in {"pending", "lost", "stored"}
           /\ attempts[i].run \in {NoRun, OwnRun} \cup 1..iter
    BY DEF Row, Labelled
  <2>. QED  BY <2>1, <2>2, <2>3, <2>4, <2>5, <2>6 DEF TypeOK
<1>. QED  BY <1>1, Invariance, PTL

\* The driver takes a node out only when every node it took out before is back.
THEOREM OneNodeOut == Spec => []AtMostOneNodeOut
<1>1. IInv => AtMostOneNodeOut
  BY DEF IInv, NodesAccounted, AtMostOneNodeOut
<1>. QED  BY <1>1, Invariance, PTL

\* What the driver tags, the client of that iteration attempted, and it succeeded.
THEOREM TagsAreOwn == Spec => []TagsOwnClient
<1>1. IInv => TagsOwnClient
  BY DEF IInv, Labelled
<1>. QED  BY <1>1, Invariance, PTL

\* No flush of the client and no tagging by the driver replaces a label.
THEOREM LabelsNeverChange == Spec => LabelsSettle
<1> DEFINE Keeps == \A i \in 1..Now :
                       attempts[i].run # NoRun => attempts'[i].run = attempts[i].run
<1>1. ASSUME IInv, [Next]_vars PROVE Keeps
  <2> USE AttemptFields DEF IInv, driver, cluster, client
  <2>1. ASSUME NEW row \in {"stored", "lost"}, attempts' = Settle(row) PROVE Keeps
    BY <1>1, <2>1, SettleAttempts DEF StoredInOrder
  <2>2. CASE FreshCluster \/ RestartClient \/ RestartClientFails \/ StopClient \/ (FreshClusterFails /\ ClientEnds)
    <3>1. ClientEnds
      BY <2>2 DEF FreshCluster, RestartClient, RestartClientFails, StopClient
    <3>. QED  BY <2>1, <3>1 DEF ClientEnds
  <2>3. CASE Attempt
    BY <1>1, <2>3, AppendAttempt DEF Attempt
  <2>4. CASE Flush
    BY <2>1, <2>4 DEF Flush
  <2>5. CASE Tag
    BY <1>1, <2>5, TagAttempts DEF Tagged
  <2>6. CASE attempts' = attempts
    BY <2>6
  <2>7. \/ FreshCluster \/ RestartClient \/ RestartClientFails \/ StopClient
        \/ (FreshClusterFails /\ ClientEnds) \/ Attempt \/ Flush \/ Tag
        \/ attempts' = attempts
    BY <1>1 DEF Next, RunnerStep, vars, StartIteration, EndLoop, FreshClusterFails, ClusterHealthy,
           SameClientGoesOn, RestartClientRefused, StopClientFails, ClientGoesOn,
           ClusterUnhealthy, FindLeader, NoLeader, Register, Inject, InjectFails, RecoveryConfirmed,
           RecoveryTimeout, TagFails, Measure, Recover, Summarise, Report
  <2>. QED  BY <2>2, <2>3, <2>4, <2>5, <2>6, <2>7
<1>. QED  BY <1>1, Invariance, PTL DEF Spec, LabelsSettle

\* A downtime in the table runs from the first failed query of the client of
\* its own iteration after kill_ts to a successful one.
THEOREM MeasurementIsAnOutage == Spec => MeasuredIsAnOutage
<1> DEFINE Outage(d) == \E f \in (window.client + 1)..(Now - d) :
                           /\ f > window.kill
                           /\ ~attempts[f].ok /\ attempts[f + d].ok
                           /\ \A i \in (window.kill + 1)..(f - 1) : attempts[i].ok
                           /\ \A i \in (f + d)..Now : Stored(i) => attempts[i].ok
<1>1. ASSUME IInv, pc = "measure", NEW d \in View!MeasuredDowntime PROVE Outage(d)
  <2>1. /\ Now \in Nat /\ window.client \in Nat /\ window.kill \in Nat
        /\ window.client <= window.kill
    BY <1>1, AttemptFields DEF IInv, Typed, WindowOrdered
  <2>2. PICK f \in 1..Now, l \in 1..Now, s \in 1..Now :
              /\ d = s - f /\ f <= l /\ l < s
              /\ window.kill < f
              /\ Stored(f) /\ ~attempts[f].ok
              /\ Stored(s) /\ attempts[s].ok
              /\ \A i \in 1..Now : window.kill < i /\ Stored(i) /\ ~attempts[i].ok
                                      => f <= i /\ i <= l
    BY <1>1, MeasuredEnds DEF IInv
  <2>3. f \in (window.client + 1)..(Now - d) /\ f + d = s
    BY <2>1, <2>2
  <2>4. ASSUME NEW i \in (window.kill + 1)..(f - 1) PROVE attempts[i].ok
    <3>1. i \in 1..Now /\ window.client < i /\ i < f /\ window.kill < i
      BY <2>1, <2>2
    <3>2. Stored(i)
      BY <1>1, <2>2, <3>1 DEF IInv, StoredInOrder
    <3>. QED  BY <2>2, <3>1, <3>2
  <2>5. ASSUME NEW i \in (f + d)..Now, Stored(i) PROVE attempts[i].ok
    <3>1. i \in 1..Now /\ window.kill < i /\ l < i
      BY <2>1, <2>2, <2>3
    <3>. QED  BY <2>2, <2>5, <3>1
  <2>. QED  BY <2>1, <2>2, <2>3, <2>4, <2>5
<1>2. ASSUME IInv, [Next]_vars, pc = "measure", pc' = "recover",
             NEW d \in results'[iter].downtime
      PROVE  Outage(d)
  <2>1. Measure
    BY <1>2 DEF Next, RunnerStep, vars, Goto, GiveUp, StartIteration, EndLoop, FreshCluster,
           FreshClusterFails, ClusterHealthy, ClusterUnhealthy, FindLeader, NoLeader, RestartClient,
           RestartClientFails, Register, Inject, InjectFails, RecoveryConfirmed, RecoveryTimeout,
           SameClientGoesOn, RestartClientRefused, StopClientFails, ClientGoesOn,
           StopClient, Tag, TagFails, Recover, Summarise, Report, Attempt, Flush
  <2>2. Typed /\ Len(results) = iter - 1 /\ iter \in Nat /\ status \in Statuses
    BY <1>2 DEF IInv, Typed, Numbered, BeforeResult
  <2>3. \/ Record(status, View!MeasuredDowntime)
        \/ Record(status, {})
    BY <2>1 DEF Measure
  <2>4. d \in View!MeasuredDowntime
    <3>1. ASSUME NEW e \in SUBSET Nat, Record(status, e) PROVE d \in e
      <4>1. results'[Len(results) + 1] = [status |-> status, downtime |-> e]
        BY <2>2, <3>1, RecordResult
      <4>. QED  BY <1>2, <2>2, <4>1
    <3>. QED  BY <2>2, <2>3, <3>1, MeasuredOnce
  <2>. QED  BY <1>1, <1>2, <2>4
<1>3. IInv /\ [Next]_vars => [pc = "measure" /\ pc' = "recover"
                                 => \A d \in results'[iter].downtime : Outage(d)]_vars
  BY <1>2
<1>. QED  BY <1>3, Invariance, PTL DEF Spec, MeasuredIsAnOutage
=============================================================================
