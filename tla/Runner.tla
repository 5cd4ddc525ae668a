-------------------------------- MODULE Runner --------------------------------
(***************************************************************************)
(* The failover test driver, runner/run_failover_test.sh, together with    *)
(* what it drives: the client container, whose results reach the database  *)
(* in batches and carry the client's own label from the first failed query *)
(* on (module Heartbeat), and the cluster, in which the driver takes nodes *)
(* out and brings them back.                                               *)
(*                                                                         *)
(* Query attempts of all client processes are numbered; a number stands    *)
(* for a timestamp, and "now" is the number of attempts made.  The driver  *)
(* measures with the query of module Downtime over the rows stored by then. *)
(***************************************************************************)
EXTENDS Integers, Sequences, FiniteSets

CONSTANTS
    Scenarios,       \* the values of --scenario that occur
    Iterations,      \* --iterations of a single scenario
    GenerateReport,  \* --generate-report
    Batch,           \* batch_size of the client (50)
    Enough,          \* successes the driver waits to exceed (5)
    Truncation,      \* attempts that fit into the second kill_ts is cut to
    MaxAttempts      \* bound: query attempts of the whole run

ASSUME RunnerAssumption ==
    /\ Scenarios \subseteq {"takeOut", "switchover", "all"}
    /\ {Iterations, Batch} \subseteq Nat \ {0}
    /\ GenerateReport \in BOOLEAN
    /\ {Enough, Truncation, MaxAttempts} \subseteq Nat

VARIABLES
    options,   \* the command line
    pc,        \* what the driver does next
    iter,      \* iter_num
    results,   \* RES_STATUS and RES_DOWN
    status,    \* iter_status
    exitCode,  \* of the script
    reported,  \* the report container was run
    gone,      \* the combination stack is down
    out,       \* nodes the driver has taken out that are not back
    clientUp,  \* the client container runs
    window,    \* client start, START_TS and kill_ts of the iteration
    attempts   \* every query attempt: its outcome and its row

vars == <<options, pc, iter, results, status, exitCode, reported, gone, out,
          clientUp, window, attempts>>

driver  == <<results, status, exitCode, reported>>
cluster == <<gone, out>>
client  == <<clientUp, attempts>>

Pcs == {"start", "fresh", "health", "leader", "client", "register", "inject", "poll",
        "stopClient", "tag", "measure", "recover", "summary", "report", "done"}

Statuses == {"SUCCESS", "TIMEOUT", "SKIPPED", "CLUSTER_UNHEALTHY", "ERROR"}

\* A scenario either takes the leader out (hard_stop, hard_kill, pause,
\* network_partition, postgres_crash) or moves the leadership.
\* The three of ALL_SCENARIOS are scaled to one of each kind.
AllScenarios == <<"takeOut", "switchover">>

Total == IF options.scenario = "all" THEN Len(AllScenarios) ELSE Iterations

Scenario == IF options.scenario = "all" THEN AllScenarios[iter] ELSE options.scenario

Goto(p) == pc' = p
Now == Len(attempts)

-----------------------------------------------------------------------------
(* The client's rows: pending in its buffer, lost, or stored.  The run of a *)
(* row is an iteration, none, or one the client named itself: who gave the   *)
(* label, not how it reads (module Batch has the names that coincide).       *)

NoRun  == 0
OwnRun == -1

Stored(i) == attempts[i].row = "stored"
Pending == {i \in 1..Now : attempts[i].row = "pending"}

\* The client names its run at the first failure it sees.
RunNow ==
    IF \E i \in (window.client + 1)..Now : ~attempts[i].ok THEN OwnRun ELSE NoRun

\* What becomes of the buffer.
Settle(row) ==
    [i \in 1..Now |-> IF i \in Pending
                      THEN [attempts[i] EXCEPT !.row = row, !.run = RunNow]
                      ELSE attempts[i]]

\* The client process ends: its last flush stores the buffer, or raises or is
\* cut off by the grace period of docker stop.
ClientEnds == \E row \in {"stored", "lost"} : attempts' = Settle(row)

\* docker could not stop or restart the container: the same process goes on.
ClientGoesOn == UNCHANGED <<client, window>>

\* Bound: attempts before the first iteration and after the last measure are
\* left out; no query of the driver that follows them can see them.
Observed ==
    /\ clientUp
    /\ pc \notin {"summary", "report", "done"}
    /\ pc \in {"start", "recover"} => 0 < iter /\ iter < Total

Attempt ==
    /\ Observed
    /\ Now < MaxAttempts
    /\ \E ok \in BOOLEAN : attempts' = Append(attempts, [ok |-> ok, row |-> "pending", run |-> NoRun])
    /\ UNCHANGED <<options, pc, iter, driver, cluster, clientUp, window>>

\* A full batch is stored; while the insert raises the buffer grows instead.
Flush ==
    /\ Observed
    /\ Cardinality(Pending) >= Batch
    /\ attempts' = Settle("stored")
    /\ UNCHANGED <<options, pc, iter, driver, cluster, clientUp, window>>

-----------------------------------------------------------------------------
NoWindow == [client |-> 0, start |-> 0, kill |-> 0]

Init ==
    /\ options \in [fresh : BOOLEAN, skipClient : BOOLEAN,
                    scenario : Scenarios]
    /\ pc = "start"
    /\ iter = 0
    /\ results = <<>>
    /\ status = "TIMEOUT"
    /\ exitCode = 0
    /\ reported = FALSE
    /\ gone = FALSE
    /\ out = 0
    /\ clientUp = TRUE
    /\ window = NoWindow
    /\ attempts = <<>>

Record(st, downtime) == results' = Append(results, [status |-> st, downtime |-> downtime])

\* An iteration that ends before the failure was injected measures nothing.
GiveUp(st) ==
    /\ Record(st, {})
    /\ Goto("start")

-----------------------------------------------------------------------------
(* One iteration of the main loop. *)

StartIteration ==
    /\ pc = "start"
    /\ iter < Total
    /\ iter' = iter + 1
    /\ Goto(IF options.fresh THEN "fresh" ELSE "health")
    /\ UNCHANGED <<options, driver, cluster, client, window>>

EndLoop ==
    /\ pc = "start"
    /\ iter = Total
    /\ Goto("summary")
    /\ UNCHANGED <<options, iter, driver, cluster, client, window>>

\* fresh_cluster_cycle(): down -v, then up -d, which starts a new client too.
FreshCluster ==
    /\ pc = "fresh"
    /\ ClientEnds
    /\ clientUp' = TRUE
    /\ window' = [window EXCEPT !.client = Now]
    /\ gone' = FALSE
    /\ out' = 0
    /\ Goto("health")
    /\ UNCHANGED <<options, iter, driver>>

\* No compose file: nothing was touched.  up -d failed: nothing is left.
FreshClusterFails ==
    /\ pc = "fresh"
    /\ GiveUp("CLUSTER_UNHEALTHY")
    /\ \/ UNCHANGED <<cluster, client>>
       \/ /\ ClientEnds
          /\ clientUp' = FALSE
          /\ gone' = TRUE
          /\ out' = 0
    /\ UNCHANGED <<options, iter, status, exitCode, reported, window>>

\* Mistake: one leader is enough.
HealthyWithoutReplicas == ~gone

\* wait_for_cluster_healthy(): one leader and two streaming replicas.
Healthy == ~gone /\ out = 0

ClusterHealthy ==
    /\ pc = "health"
    /\ Healthy
    /\ Goto("leader")
    /\ UNCHANGED <<options, iter, driver, cluster, client, window>>

\* 180 seconds are over; replicas may take longer than that to stream.
ClusterUnhealthy ==
    /\ pc = "health"
    /\ GiveUp("CLUSTER_UNHEALTHY")
    /\ UNCHANGED <<options, iter, status, exitCode, reported, cluster, client, window>>

FindLeader ==
    /\ pc = "leader"
    /\ Goto("client")
    /\ UNCHANGED <<options, iter, driver, cluster, client, window>>

NoLeader ==
    /\ pc = "leader"
    /\ GiveUp("ERROR")
    /\ UNCHANGED <<options, iter, status, exitCode, reported, cluster, client, window>>

\* docker stop and start, or docker restart; the steady state is waited for
\* but not required.
RestartClient ==
    /\ pc = "client"
    /\ ClientEnds
    /\ clientUp' = TRUE
    /\ window' = [window EXCEPT !.client = Now]
    /\ Goto("register")
    /\ UNCHANGED <<options, iter, driver, cluster>>

\* docker stop failed (|| true), and docker start finds the container running.
SameClientGoesOn ==
    /\ pc = "client"
    /\ ~options.skipClient
    /\ clientUp
    /\ ClientGoesOn
    /\ Goto("register")
    /\ UNCHANGED <<options, iter, driver, cluster>>

\* docker start or restart failed, after the client was stopped or before: set -e
\* ends the script.
RestartClientFails ==
    /\ pc = "client"
    /\ ClientEnds
    /\ clientUp' = FALSE
    /\ exitCode' = 1
    /\ Goto("done")
    /\ UNCHANGED <<options, iter, results, status, reported, cluster, window>>

RestartClientRefused ==
    /\ pc = "client"
    /\ ClientGoesOn
    /\ exitCode' = 1
    /\ Goto("done")
    /\ UNCHANGED <<options, iter, results, status, reported, cluster>>

Register ==
    /\ pc = "register"
    /\ window' = [window EXCEPT !.start = Now]
    /\ Goto("inject")
    /\ UNCHANGED <<options, iter, driver, cluster, client>>

\* Mistake: kill_ts is the one of the iteration before.
KillTimesStale == {window.kill}

\* kill_ts, cut to the second; the client has run for longer than that.
KillTimes == {t \in window.client..Now : Now - t <= Truncation}

TakenOut == IF Scenario = "switchover" THEN out ELSE out + 1

Inject ==
    /\ pc = "inject"
    /\ \E t \in KillTimes : window' = [window EXCEPT !.kill = t]
    /\ out' = TakenOut
    /\ status' = "TIMEOUT"
    /\ Goto("poll")
    /\ UNCHANGED <<options, iter, results, exitCode, reported, gone, client>>

\* docker returned an error, or no candidate streams: there is nothing to wait
\* for and nothing is undone, although the command may have done its work.
InjectFails ==
    /\ pc = "inject"
    /\ \E t \in KillTimes : window' = [window EXCEPT !.kill = t]
    /\ GiveUp("SKIPPED")
    /\ out' \in {out, TakenOut}
    /\ UNCHANGED <<options, iter, status, exitCode, reported, gone, client>>

-----------------------------------------------------------------------------
(* Waiting, tagging, measuring. *)

After(t) == {i \in (t + 1)..Now : Stored(i)}

\* The count of wait_for_recovery(): successes stored after the last stored
\* failure, both after kill_ts.
Recovered ==
    {s \in After(window.kill) :
        /\ attempts[s].ok
        /\ \A f \in After(window.kill) : ~attempts[f].ok => f < s}

AfterPoll == IF options.skipClient THEN "tag" ELSE "stopClient"

RecoveryConfirmed ==
    /\ pc = "poll"
    /\ Cardinality(Recovered) > Enough
    /\ status' = "SUCCESS"
    /\ Goto(AfterPoll)
    /\ UNCHANGED <<options, iter, results, exitCode, reported, cluster, client, window>>

\* Mistake: the loop has no deadline.
RecoveryNeverTimesOut == FALSE

RecoveryTimeout ==
    /\ pc = "poll"
    /\ Goto(AfterPoll)
    /\ UNCHANGED <<options, iter, driver, cluster, client, window>>

StopClient ==
    /\ pc = "stopClient"
    /\ ClientEnds
    /\ clientUp' = FALSE
    /\ Goto("tag")
    /\ UNCHANGED <<options, iter, driver, cluster, window>>

\* docker stop failed (|| true).
StopClientFails ==
    /\ pc = "stopClient"
    /\ ClientGoesOn
    /\ Goto("tag")
    /\ UNCHANGED <<options, iter, driver, cluster>>

\* Mistakes: the labels the rows have, or START_TS, are not looked at.
TaggedAnyLabel(i) == Stored(i) /\ window.start < i
TaggedAnyTime(i)  == Stored(i) /\ attempts[i].run = NoRun

\* UPDATE client_events: unlabelled rows between START_TS and END_TS.
Tagged(i) ==
    /\ Stored(i)
    /\ window.start < i
    /\ attempts[i].run = NoRun

Tag ==
    /\ pc = "tag"
    /\ attempts' = [i \in 1..Now |->
                       IF Tagged(i) THEN [attempts[i] EXCEPT !.run = iter] ELSE attempts[i]]
    /\ Goto("measure")
    /\ UNCHANGED <<options, iter, driver, cluster, clientUp, window>>

\* psql failed: || true.
TagFails ==
    /\ pc = "tag"
    /\ Goto("measure")
    /\ UNCHANGED <<options, iter, driver, cluster, client, window>>

\* The rows as module Downtime reads them; an attempt that is not stored is no
\* row of either kind.
Timeline ==
    [i \in 1..Now |-> IF ~Stored(i) THEN "none" ELSE IF attempts[i].ok THEN "ok" ELSE "fail"]

View == INSTANCE Downtime WITH
           timeline <- Timeline, killTs <- window.kill, read <- {},
           Kinds <- {"ok", "fail"}, WindowBefore <- 0, WindowAfter <- 0, WindowShort <- 0,
           SpanLimit <- 0, RowLimit <- 0, TimelinePad <- 0, TimelineCap <- 0,
           KillTimes <- {}, MaxRows <- MaxAttempts

\* measure_downtime(), which yields nothing when psql fails.
Measure ==
    /\ pc = "measure"
    /\ \/ Record(status, View!MeasuredDowntime)
       \/ Record(status, {})
    /\ Goto("recover")
    /\ UNCHANGED <<options, iter, status, exitCode, reported, cluster, client, window>>

\* Mistake: a switchover is undone too.
BackInAlways == out - 1

BackIn == IF Scenario = "switchover" THEN out ELSE out - 1

\* recover_node(): the node is brought back, or the command fails and the
\* script goes on; the health checks at its end decide nothing.
Recover ==
    /\ pc = "recover"
    /\ out' \in {BackIn, out}
    /\ Goto("start")
    /\ UNCHANGED <<options, iter, driver, gone, client, window>>

-----------------------------------------------------------------------------
(* After the loop. *)

\* Under set -e the first (( n++ )) with n = 0 ends the script: that of
\* success_count, or of s_total in the breakdown by scenario.
SummaryExits ==
    \/ \E i \in DOMAIN results : results[i].status = "SUCCESS"
    \/ options.scenario = "all"

Summarise ==
    /\ pc = "summary"
    /\ exitCode' = IF SummaryExits THEN 1 ELSE 0
    /\ Goto(IF GenerateReport /\ ~SummaryExits THEN "report" ELSE "done")
    /\ UNCHANGED <<options, iter, results, status, reported, cluster, client, window>>

Report ==
    /\ pc = "report"
    /\ reported' = TRUE
    /\ Goto("done")
    /\ UNCHANGED <<options, iter, results, status, exitCode, cluster, client, window>>

-----------------------------------------------------------------------------
RunnerStep ==
    \/ StartIteration \/ EndLoop
    \/ FreshCluster \/ FreshClusterFails
    \/ ClusterHealthy \/ ClusterUnhealthy
    \/ FindLeader \/ NoLeader
    \/ RestartClient \/ SameClientGoesOn \/ RestartClientFails \/ RestartClientRefused
    \/ Register \/ Inject \/ InjectFails
    \/ RecoveryConfirmed \/ RecoveryTimeout
    \/ StopClient \/ StopClientFails
    \/ Tag \/ TagFails \/ Measure \/ Recover
    \/ Summarise \/ Report

Next == RunnerStep \/ Attempt \/ Flush

Spec == Init /\ [][Next]_vars

\* Every command of the driver returns, which docker and psql do when what they
\* talk to answers or refuses; a database that accepts a query and never answers
\* it is outside of this specification (wait_for_recovery looks at its deadline
\* between queries only).  The client may do nothing at all.
FairSpec == Spec /\ WF_vars(RunnerStep)

-----------------------------------------------------------------------------
(* Properties *)

IsWindow(w) == w \in [client : 0..Now, start : 0..Now, kill : 0..Now]

TypeOK ==
    /\ options \in [fresh : BOOLEAN, skipClient : BOOLEAN,
                    scenario : Scenarios]
    /\ pc \in Pcs
    /\ iter \in 0..Total
    /\ Len(results) \in {iter - 1, iter}
    /\ pc \in {"start", "recover", "summary", "report"} => Len(results) = iter
    /\ \A i \in DOMAIN results :
          /\ results[i].status \in Statuses
          /\ results[i].downtime \subseteq 1..Now /\ Cardinality(results[i].downtime) <= 1
    /\ status \in Statuses
    /\ exitCode \in {0, 1}
    /\ {reported, gone, clientUp} \subseteq BOOLEAN
    /\ out \in Nat
    /\ IsWindow(window)
    /\ \A i \in 1..Now :
          /\ attempts[i].ok \in BOOLEAN
          /\ attempts[i].row \in {"pending", "lost", "stored"}
          /\ attempts[i].run \in {NoRun, OwnRun} \cup 1..iter

\* The driver never takes a node out while another one it took out is still
\* missing, whatever commands failed in the iterations before
\* (run_failover_test.sh:474 guards the injection at line 538).
AtMostOneNodeOut == out <= 1

\* A downtime in the table is an outage of the client of its own iteration:
\* it runs from the first failed query after kill_ts to a successful one, and
\* no failure stored by then came later.
MeasuredIsAnOutage ==
    [][pc = "measure" /\ pc' = "recover" =>
          \A d \in results'[iter].downtime :
              \E f \in (window.client + 1)..(Now - d) :
                  /\ f > window.kill
                  /\ ~attempts[f].ok /\ attempts[f + d].ok
                  /\ \A i \in (window.kill + 1)..(f - 1) : attempts[i].ok
                  /\ \A i \in (f + d)..Now : Stored(i) => attempts[i].ok]_vars

\* A row the driver tags with an iteration was attempted by the client process
\* of that iteration, even when earlier iterations failed to tag theirs, and is
\* a success: what failed, the client labelled before the driver came
\* (run_failover_test.sh:580-584, heartbeat.py:208-222).
TagsOwnClient ==
    iter > 0 => \A i \in 1..Now :
        attempts[i].run = iter => window.client < i /\ attempts[i].ok

\* A label is never replaced: neither the client's by the driver's nor one
\* iteration's by another's (line 583).
LabelsSettle ==
    [][\A i \in 1..Now :
          attempts[i].run # NoRun => attempts'[i].run = attempts[i].run]_vars

\* When its commands return the script ends: every wait for a cluster or for a
\* recovery has a deadline, whatever they answer and whatever the client stores
\* (run_failover_test.sh:149-163, 200-213).
RunnerEnds == <>(pc = "done")

-----------------------------------------------------------------------------
(* What the documents say *)

\* runner/README.md:113, SUCCESS is "Recovery within RECOVERY_TIMEOUT": when
\* it is decided, every query that failed after the injection has been
\* followed by one that succeeded.
SuccessMeansRecovered ==
    [][pc = "poll" /\ status' = "SUCCESS" /\ pc' # "poll"
          => \A f \in (window.kill + 1)..Now :
                ~attempts[f].ok => \E s \in f..Now : attempts[s].ok]_vars

\* runner/README.md:88, "tag events with test_run_id": once the rows of an
\* iteration are tagged, its stored failed queries carry its test_run_id.
RunHasItsFailures ==
    [][pc = "tag" /\ (\E i \in 1..Now : attempts'[i].run = iter)
          => \A i \in (window.start + 1)..Now :
                Stored(i) /\ ~attempts[i].ok => attempts'[i].run = iter]_vars

\* run_failover_test.sh:28, --generate-report: "After all iterations, generate
\* a self-contained HTML report".
ReportGenerated ==
    GenerateReport /\ pc = "done" /\ Len(results) = Total => reported
=============================================================================
