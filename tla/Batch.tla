-------------------------------- MODULE Batch --------------------------------
(***************************************************************************)
(* The batch runner, runner/run_batch.sh, which runs the failover test     *)
(* (module Runner) on one combination after another.  What its reports make *)
(* of the CSV and the database is module Reports.                          *)
(*                                                                         *)
(* The combinations share the docker host, the results directory and the   *)
(* database; earlier batches may have left something in each of them.      *)
(***************************************************************************)
EXTENDS Integers, Sequences, FiniteSets, SequencesExt

CONSTANTS
    Registry,       \* COMBO_DIRS, each with its number
    Filters,        \* the sets of numbers given with --combos, {} for none
    Skips,          \* the sets of numbers given with --skip
    ScenarioLists,  \* what one test run goes through: SCENARIO_LIST
    Outcomes,       \* bound: the outcomes of an iteration that occur
    MaxStrays       \* bound: runs that clients register outside of iterations

\* What an iteration leaves: the driver's test run, if its INSERT was not
\* refused, and client rows labelled with it; SUCCESS in the table, a downtime,
\* a folder of charts; and the runs the client registered of its own before the
\* driver's and after it, each with or without rows.
\* Driver and client name a run after the combination and the second
\* (run_failover_test.sh:521, heartbeat.py:218): when both do in one second, the
\* second INSERT is refused and the rows of both are under the name.
AllOutcomes == [registered : BOOLEAN, rows : BOOLEAN, ok : BOOLEAN, measured : BOOLEAN,
                charted : BOOLEAN, before : Seq(BOOLEAN), after : Seq(BOOLEAN)]

\* The driver refuses a scenario that is not one of VALID_SCENARIOS or `all`
\* (run_failover_test.sh:80-89), so none is called as the client calls its own.
ASSUME BatchAssumption ==
    /\ Registry \in Seq([dir : STRING, num : STRING])
    /\ \A i, j \in DOMAIN Registry : Registry[i].dir = Registry[j].dir => i = j
    /\ \A l \in ScenarioLists : l \in Seq(STRING) /\ \A i \in DOMAIN l : l[i] # "unknown"
    /\ Outcomes \subseteq AllOutcomes
    /\ MaxStrays \in Nat

VARIABLES
    options,   \* the command line
    stale,     \* combinations an earlier batch left a stack, a session and runs of
    pc,        \* what the script does next
    at,        \* position in RUN_DIRS
    output,    \* the summary table the last test run printed
    statuses,  \* BATCH_STATUS
    sessions,  \* BATCH_SESSIONS
    csv,       \* results.csv
    stacks,    \* combinations with containers up
    broken,    \* combinations whose last compose command failed
    folders,   \* session folders of each combination, as the position that made them
    charts,    \* the folders in them that hold charts of an iteration
    runs,      \* test_runs, in order of started_at
    tsdb,      \* prb-timescaledb runs
    exitCode

vars == <<options, stale, pc, at, output, statuses, sessions, csv, stacks, broken,
          folders, charts, runs, tsdb, exitCode>>

config == <<options, stale>>
outcome == <<statuses, sessions, csv, exitCode>>
docker == <<stacks, broken, tsdb>>
disk   == <<folders, charts, runs>>

Dirs == {Registry[i].dir : i \in DOMAIN Registry}
Statuses == {"PASSED", "FAILED", "SKIPPED", "START_FAILED", "BOOTSTRAP_TIMEOUT"}

\* should_run(): --combos, then --skip.
ShouldRun(c) ==
    /\ options.filter # {} => c.num \in options.filter
    /\ c.num \notin options.skip

\* The positions in the registry of what is run, and the k-th of them.
Chosen == {i \in DOMAIN Registry : ShouldRun(Registry[i])}

Kth(k) == CHOOSE i \in Chosen : Cardinality({j \in Chosen : j <= i}) = k

RunDirs == [k \in 1..Cardinality(Chosen) |-> Registry[Kth(k)].dir]

Total   == Cardinality(Chosen)
Current == RunDirs[at]

Goto(p) == pc' = p

\* An older session and its runs are numbered 0.
Earlier == 0

Init ==
    /\ options \in [filter : Filters, skip : Skips, scenarios : ScenarioLists]
    /\ stale \in SUBSET Dirs
    /\ pc = "preflight"
    /\ at = 0
    /\ output = <<>>
    /\ statuses = <<>>
    /\ sessions = <<>>
    /\ csv = <<>>
    /\ stacks = stale
    /\ broken = {}
    /\ folders = [c \in Dirs |-> IF c \in stale THEN {Earlier} ELSE {}]
    /\ charts = {}
    /\ runs = SetToSeq({[dir |-> c, scenario |-> options.scenarios[1], session |-> Earlier,
                         iter |-> 1, rows |-> TRUE] : c \in stale})
    /\ tsdb \in BOOLEAN
    /\ exitCode = 0

-----------------------------------------------------------------------------
End(code) ==
    /\ exitCode' = code
    /\ Goto("done")
    /\ UNCHANGED <<statuses, sessions, csv>>

Preflight ==
    /\ pc = "preflight"
    /\ tsdb
    /\ IF Total > 0 THEN Goto("next") /\ UNCHANGED outcome ELSE End(1)
    /\ UNCHANGED <<config, at, output, docker, disk>>

\* No TimescaleDB, or no Grafana.
PreflightFails ==
    /\ pc = "preflight"
    /\ End(1)
    /\ UNCHANGED <<config, at, output, docker, disk>>

-----------------------------------------------------------------------------
(* process_combo(). *)

\* Every way out of process_combo() appends to both arrays.
Record(status, session) ==
    /\ statuses' = Append(statuses, status)
    /\ sessions' = Append(sessions, session)

\* docker compose down -v: gone, or an error that may have left it up.
Down ==
    \/ stacks' = stacks \ {Current} /\ broken' = broken \ {Current}
    \/ stacks' = stacks /\ broken' = broken \cup {Current}

NextCombo ==
    /\ pc = "next"
    /\ at < Total
    /\ at' = at + 1
    /\ Goto("compose")
    /\ UNCHANGED <<config, output, outcome, docker, disk>>

\* No compose file, so there was never a stack either.
Skip ==
    /\ pc = "compose"
    /\ Current \notin stale
    /\ Record("SKIPPED", {})
    /\ Goto("cleanup")
    /\ UNCHANGED <<config, at, output, csv, exitCode, docker, disk>>

DownStale ==
    /\ pc = "compose"
    /\ Down
    /\ Goto("up")
    /\ UNCHANGED <<config, at, output, outcome, tsdb, disk>>

Up ==
    /\ pc = "up"
    /\ stacks' = stacks \cup {Current}
    /\ Goto("bootstrap")
    /\ UNCHANGED <<config, at, output, outcome, broken, tsdb, disk>>

\* up -d failed: what it did start is not taken down.
UpFails ==
    /\ pc = "up"
    /\ stacks' \in {stacks, stacks \cup {Current}}
    /\ broken' = broken \cup {Current}
    /\ Record("START_FAILED", {})
    /\ Goto("cleanup")
    /\ UNCHANGED <<config, at, output, csv, exitCode, tsdb, disk>>

\* bootstrap_wait(): a leader and two streaming replicas within 90 seconds.
BootstrapReady ==
    /\ pc = "bootstrap"
    /\ Goto("runner")
    /\ UNCHANGED <<config, at, output, outcome, docker, disk>>

\* Mistake: the stack is left up.
BootstrapTimeoutLeaves ==
    /\ pc = "bootstrap"
    /\ Record("BOOTSTRAP_TIMEOUT", {})
    /\ Goto("cleanup")
    /\ UNCHANGED <<config, at, output, csv, exitCode, docker, disk>>

BootstrapTimeout ==
    /\ pc = "bootstrap"
    /\ Down
    /\ Record("BOOTSTRAP_TIMEOUT", {})
    /\ Goto("cleanup")
    /\ UNCHANGED <<config, at, output, csv, exitCode, tsdb, disk>>

\* A run as the client registers it; outside of iterations i is 0.
ClientRun(dir, i, rows) == [dir |-> dir, scenario |-> "unknown", session |-> at,
                            iter |-> i, rows |-> rows]

Strays == {k \in DOMAIN runs : runs[k].iter = 0}

\* The client of a stack that is up registers a run: while its cluster boots, or
\* at any time when the stack was left up.  Bound: while a cluster boots, also that
\* of another combination; those of an iteration are among its outcomes.
ClientRegisters ==
    /\ tsdb
    /\ pc = "bootstrap"
    /\ Cardinality(Strays) < MaxStrays
    /\ \E dir \in stacks, rows \in BOOLEAN : runs' = Append(runs, ClientRun(dir, 0, rows))
    /\ UNCHANGED <<config, pc, at, output, outcome, docker, folders, charts>>

\* Without the database nothing is stored.
NothingStored == [registered |-> FALSE, rows |-> FALSE, ok |-> FALSE, measured |-> FALSE,
                  charted |-> FALSE, before |-> <<>>, after |-> <<>>]

IterationResults == IF tsdb THEN Outcomes ELSE {NothingStored}

\* The runs of iteration i in order of started_at.
RunsOfIteration(i, it) ==
    LET driver == [dir |-> Current, scenario |-> options.scenarios[i], session |-> at,
                   iter |-> i, rows |-> it.rows]
        clients(own) == [j \in DOMAIN own |-> ClientRun(Current, i, own[j])]
    IN  clients(it.before)
            \o (IF it.registered THEN <<driver>> ELSE <<>>)
            \o clients(it.after)

Registered(its) == FlattenSeq([i \in DOMAIN its |-> RunsOfIteration(i, its[i])])

\* iter<i>_<scenario> gets the charts of an iteration that ended in SUCCESS, if
\* the container that makes them succeeds.
Charted(its) ==
    {[session |-> at, iter |-> i, scenario |-> options.scenarios[i]] :
        i \in {i \in DOMAIN its : its[i].ok /\ its[i].charted}}

\* Mistake: iterations are numbered from zero.
TableFromZero(its) ==
    [i \in DOMAIN its |-> [scenario |-> options.scenarios[i], iter |-> i - 1,
                           ok |-> its[i].ok, measured |-> its[i].measured]]

Table(its) ==
    [i \in DOMAIN its |-> [scenario |-> options.scenarios[i], iter |-> i,
                           ok |-> its[i].ok, measured |-> its[i].measured]]

\* run_failover_test.sh to its summary table; with which code it ends then
\* makes no difference.
RunnerFinishes ==
    /\ pc = "runner"
    /\ \E its \in [DOMAIN options.scenarios -> IterationResults] :
          /\ runs' = runs \o Registered(its)
          /\ charts' = charts \cup Charted(its)
          /\ output' = Table(its)
    /\ folders' = [folders EXCEPT ![Current] = @ \cup {at}]
    /\ Goto("collect")
    /\ UNCHANGED <<config, at, outcome, docker>>

\* It ended before the table: in its arguments, or in iteration n + 1 because the
\* client could not be started, whatever became of the iterations before.
RunnerDies ==
    /\ pc = "runner"
    /\ output' = <<>>
    /\ \/ UNCHANGED disk
       \/ /\ \E n \in 0..(Len(options.scenarios) - 1) :
             \E its \in [1..n -> IterationResults] :
                /\ runs' = runs \o Registered(its)
                /\ charts' = charts \cup Charted(its)
          /\ folders' = [folders EXCEPT ![Current] = @ \cup {at}]
    /\ Goto("collect")
    /\ UNCHANGED <<config, at, outcome, docker>>

\* Mistake: sort | head -1.
SessionFirst == {s \in folders[Current] : \A t \in folders[Current] : s <= t}

\* ls -d results/<combo>/*/ | sort | tail -1
SessionFound == {s \in folders[Current] : \A t \in folders[Current] : t <= s}

\* A line of results.csv.
CsvRow(row) == [dir |-> Current, session |-> SessionFound, scenario |-> row.scenario,
                iter |-> row.iter, ok |-> row.ok, measured |-> row.measured]

Passes(rows) == \E i \in DOMAIN rows : rows[i].ok

\* The session folder, the rows of the table with it, and the verdict.
Collect ==
    /\ pc = "collect"
    /\ csv' = csv \o [i \in DOMAIN output |-> CsvRow(output[i])]
    /\ Record(IF Passes(output) THEN "PASSED" ELSE "FAILED", SessionFound)
    /\ output' = <<>>
    /\ Goto("teardown")
    /\ UNCHANGED <<config, at, exitCode, docker, disk>>

TearDown ==
    /\ pc = "teardown"
    /\ Down
    /\ Goto("cleanup")
    /\ UNCHANGED <<config, at, output, outcome, tsdb, disk>>

-----------------------------------------------------------------------------
\* After the last combination there is nothing to clean up for.
NoCleanup ==
    /\ pc = "cleanup"
    /\ at = Total
    /\ Goto("next")
    /\ UNCHANGED <<config, at, output, outcome, docker, disk>>

\* cleanup_between_combos(): prune what is stopped.
Cleanup ==
    /\ pc = "cleanup"
    /\ at < Total
    /\ tsdb
    /\ Goto("next")
    /\ UNCHANGED <<config, at, output, outcome, docker, disk>>

CleanupAborts ==
    /\ pc = "cleanup"
    /\ at < Total
    /\ ~tsdb
    /\ End(1)
    /\ UNCHANGED <<config, at, output, docker, disk>>

Passed == Cardinality({i \in DOMAIN statuses : statuses[i] = "PASSED"})

BatchPasses == Passed >= (Total * 80) \div 100

Verdict ==
    /\ pc = "next"
    /\ at = Total
    /\ End(IF BatchPasses THEN 0 ELSE 1)
    /\ UNCHANGED <<config, at, output, docker, disk>>

\* The dashboard stack goes away under the batch.  Bound: only where something
\* looks at it next; earlier comes to the same.
TsdbGone ==
    /\ tsdb
    /\ pc \in {"runner", "cleanup"}
    /\ tsdb' = FALSE
    /\ UNCHANGED <<config, pc, at, output, outcome, stacks, broken, disk>>

Next ==
    \/ Preflight \/ PreflightFails
    \/ NextCombo \/ Skip \/ DownStale \/ Up \/ UpFails
    \/ BootstrapReady \/ BootstrapTimeout
    \/ RunnerFinishes \/ RunnerDies \/ Collect \/ TearDown
    \/ NoCleanup \/ Cleanup \/ CleanupAborts \/ Verdict
    \/ ClientRegisters \/ TsdbGone

Spec == Init /\ [][Next]_vars

-----------------------------------------------------------------------------
(* Properties *)

Pcs == {"preflight", "next", "compose", "up", "bootstrap", "runner", "collect",
        "teardown", "cleanup", "done"}

TypeOK ==
    /\ options.filter \in Filters /\ options.skip \in Skips
    /\ options.scenarios \in ScenarioLists
    /\ stale \subseteq Dirs
    /\ pc \in Pcs
    /\ at \in 0..Total
    /\ \A i \in DOMAIN output : output[i].iter = i
    /\ \A i \in DOMAIN statuses : statuses[i] \in Statuses
    /\ \A i \in DOMAIN sessions : sessions[i] \subseteq 0..i
    /\ \A i \in DOMAIN csv : csv[i].dir \in Dirs
    /\ stacks \subseteq Dirs /\ broken \subseteq Dirs
    /\ folders \in [Dirs -> SUBSET (0..Total)]
    /\ \A c \in charts : c.session \in 1..at
    /\ \A i \in DOMAIN runs : runs[i].dir \in Dirs /\ runs[i].session \in 0..at
    /\ tsdb \in BOOLEAN
    /\ exitCode \in {0, 1}

\* Containers of a combination other than the current one run only because an
\* earlier batch left them and their turn has not come, or because a compose
\* command on them failed: what is measured next to them is not alone.
StacksAccounted ==
    LET waiting == stale \ {RunDirs[i] : i \in 1..(IF pc = "compose" THEN at - 1 ELSE at)}
        current == IF pc \in {"bootstrap", "runner", "collect", "teardown"}
                   THEN {Current} ELSE {}
    IN  stacks \subseteq waiting \cup broken \cup current

\* The two arrays and RUN_DIRS are read with one index at the end: on every way
\* through process_combo() both grow by one.  The session of a row, and of a
\* combination that passed, is then the one its own test run made, whatever
\* earlier batches left (run_batch.sh:253).
SessionsAreOwn ==
    /\ Len(statuses) = Len(sessions)
    /\ Len(statuses) = IF pc \in {"compose", "up", "bootstrap", "runner", "collect"}
                      THEN at - 1 ELSE at
    /\ \A r \in DOMAIN csv : \E i \in DOMAIN statuses :
          csv[r].dir = RunDirs[i] /\ csv[r].session = {i}
    /\ \A i \in DOMAIN statuses : statuses[i] = "PASSED" =>
          /\ sessions[i] = {i}
          /\ \E r \in DOMAIN csv : csv[r].dir = RunDirs[i] /\ csv[r].ok
=============================================================================
