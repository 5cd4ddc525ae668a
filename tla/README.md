# A verification development for patroni-routing-bench

patroni-routing-bench measures how long clients of a Patroni-managed PostgreSQL
cluster are without a writable primary, and which layer of the stack spent the
time.  The code under `tool/` and `runner/` never elects a leader itself: it
watches, records, labels and subtracts.  What can go wrong is therefore the
*measurement*: an event lost in a buffer, a row filed under the wrong failover, a
downtime read before its rows are there, nine readers of the same rows that
disagree, a report that puts the wrong things side by side.  This directory holds
TLA+ models of the parts that decide whether the numbers are right, the TLC runs that
check them, and TLAPS proofs of every invariant the runs check.

Paths below are relative to the repository's root.

## 1. Inventory

### Parts

| Part | Source | State it keeps | Operations | Talks to |
|---|---|---|---|---|
| event emitter | `tool/observers/core/emitter.py` | buffer, lock, stop event, flush thread | emit, flush (by two threads), stop | its watcher's thread, TimescaleDB |
| watchers | `tool/observers/watchers/*.py` | last known value per channel | setup, poll | Patroni REST, Consul KV, HAProxy CSV, PostgreSQL, `ip addr` |
| observer life cycle | `tool/observers/core/watcher.py`, `agent.py` | `_running`, a thread per target, emitters open or stopped | configure, run, stop, signal handler, join | watchers, emitters, signals |
| heartbeat client | `tool/clients/failover/heartbeat.py` | results buffer, failover detection, `test_run_id` | attempt, detect, register, tag, summarise, flush | the cluster under test, TimescaleDB |
| schema and views | `tool/timescaledb/schema/*.sql` | `client_events`, `observer_events`, `test_runs` | insert, tag, `failover_window` | written by client, observers, runner; read by all |
| failover runner | `runner/run_failover_test.sh` | status and timestamps per iteration | inject, wait, tag, measure, recover, summarise | docker, client, TimescaleDB |
| charts of a run | `tool/charts/generate_charts.py` | none (reads rows) | milestones, phases, waterfall, Gantt lanes, latency timeline | TimescaleDB |
| reports of many runs | `tool/charts/generate_charts.py` | none | batch report, report from the database, report of a session | TimescaleDB, CSV of the batch, chart folders |
| batch runner | `runner/run_batch.sh` | status per combination | start, bootstrap, run, parse, tear down | failover runner, docker |
| routing combinations | `dcs/consul/*` | configuration, a bound address or backend state | role-change callbacks | Patroni, HAProxy, ExaBGP |
| cloud deployment | `deploy/gcp/*` | terraform and ansible state | provision, inject, recover, stabilise | everything above |
| dashboards, images | `dashboard/`, `shared/` | none | - | - |

### How they interact

    watcher --emit--> emitter --flush--> observer_events --+
       ^                                      ^            |
     polls                           UPDATE (tag a window) |
       |                                      |            v
    cluster <--query-- heartbeat --flush--> client_events --> failover_window --> charts
       ^                  ^                   ^      |             ^
       | take out,        | start/stop        | tag  | poll,       | measure
       | bring back       |                   |      v measure     |
       +---------------- failover runner -----+--------------------+

All coupling is through three tables, written by processes that do not know of
each other, in autocommitted statements and in batches.  There is no lock and no
transaction across any of the arrows.

### What is hard, and what makes each part correct

* **Emitter.** Two threads flush one buffer; the lock is dropped between the copy
  and the inserts; an exception puts the copy back in front of what was emitted
  meanwhile; `stop()` joins the other thread for five seconds only.  Correct: no
  interleaving loses or doubles an event in memory; a duplicate row costs a
  failure; an orderly stop stores everything; otherwise the loss is confined to
  an abnormal end.
* **Observer agents.** A watcher sees one answer at a time, polls fail, and the first
  answer has no predecessor; with several targets each watcher has a thread, any of
  which may die while the others go on.  Correct: what is emitted, given one remembered
  value per channel, is what the entire history of answers would say changed; no
  watcher emits to a stopped emitter and every emitter is stopped; a signal ends every
  watcher whose own polls end, and the agent if all polls and final flushes do; the lanes
  drawn from the events show what the component showed.
* **Heartbeat client.** Failovers are detected from outcomes with a streak of
  successes; rows are labelled at the flush; every statement may raise after it
  committed.  Correct: the detection equals its definition over the history; a
  running client loses no attempt, and one that ends loses only the end of its run and only
  to a final flush that raised; labels move in one direction and by less than a batch; tags
  fall inside the failover's window.
* **Readers of the rows.** The view, the runner, the waterfall query with the hero chart,
  the milestone chart, an iteration's title, the comparison, the overlap chart, the
  client lane and the latency timeline each compute the outage.  Correct: they agree
  when there is one outage and differ in a known direction when the client flaps;
  charts add up and hide no outage; a measure taken early is a lower bound.
* **Failover runner.** Every command of an iteration can fail, the client stores late
  and labels rows itself, and an iteration that gives up leaves things behind.
  Correct: never two nodes out; what is measured is an
  outage of that iteration's client; labels never change hands; the loop ends.
* **Batch runner.** Combinations run one after another on one docker host, one results
  directory and one database, each of which earlier batches have used; every compose
  command may fail.  Correct: one result per combination on every path; containers of
  another combination run only when a compose command failed; a row belongs to the
  session of its own test run.
* **Reports of many runs.** Rows, test runs and chart folders are put side by side by
  their position, while iterations may lack a run, a row of the view, a downtime or a
  folder, and the client registers runs of its own between the driver's.  Correct:
  what is shown beside what is off in a known direction only, and for known reasons.
* **Callbacks (04, 05, 09).** Patroni runs a script on the node that was promoted and on
  the one that was demoted, in any order, once, and the scripts swallow failures.
  Correct: whoever still attracts clients without being the primary is frozen, gone,
  unaware, in the middle of its callback or lacks a command of it; if none is lacking,
  the traffic comes back to the primary.

## 2. Modules

| Module | Models | Uses |
|---|---|---|
| `EventLog` | the promise of the emitter: an at-least-once log | |
| `Emitter` | `emitter.py`, step by step | `Log == INSTANCE EventLog WITH ...` |
| `Observer` | the agent: `main`, `_run_multi_target`, `BaseWatcher.run`/`stop`, the five watchers | |
| `Gantt` | the Patroni, Consul and HAProxy lanes drawn from an observer's events | `Observer` |
| `MCObserver` | the target lists and Patroni's answers in the runs | `Gantt` |
| `Heartbeat` | `heartbeat.py`, with the database and observers around it | |
| `Downtime` | the nine readers as functions of one run's rows | |
| `Runner` | `run_failover_test.sh` with client batches and the cluster | `View == INSTANCE Downtime WITH ...` for `measure_downtime` |
| `Batch` | `run_batch.sh` | |
| `Reports` | the reports of many runs | `Batch` |
| `MCBatch` | the combinations, scenario lists and outcomes of the run | `Reports` |
| `Callbacks` | the callbacks of 04, 05 and 09 between Patroni and the network | |

| Module of proofs | About | Uses |
|---|---|---|
| `EmitterProofs` | `Emitter` and its refinement of `EventLog` | |
| `ObserverProofs` | `Observer` and `Gantt` | `DataFacts` |
| `HeartbeatProofs` | `Heartbeat` | `DataFacts` |
| `DowntimeProofs` | `Downtime` | `DataFacts` |
| `RunnerProofs` | `Runner` | |
| `BatchProofs` | `Batch` and `Reports` | `DataFacts` |
| `CallbacksProofs` | `Callbacks` | |
| `DataFacts` | naturals, finite sets, functions and sequences: what several of these need | |

Operators introduced by a comment "Mistake: ..." are no part of a specification:
each is a plausible bug, put in the place of the definition below it to see that
the property it is meant for notices.

### Emitter

A step is what one thread does between two points at which the other can
interfere: a section under `_lock`, one autocommitted INSERT, one read of the stop
event.  `Emit` and `CheckBatch` are the two locked sections of `emit()`, between
which the flush thread may empty the buffer.  `FlushTake`, `InsertRow`,
`FlushDone` and `FlushFail` are `flush()`, by either thread; a failing statement
may have been committed before the connection broke.  `LoopTest` and `WaitOver`
are `_flush_loop()`.  `Stop`, `Joined`, `JoinTimeout`, the final flush and `Exit`
are `stop()` and the end of the agent; `Kill` is the end of docker's grace period.
`connected` says whether `TIMESCALE_CONNSTRING` is set; without it `FlushDiscard`
empties the buffer.  `unclean` is history: the join timed out, the final flush
raised, or the process was killed.  The steps in which a thread waits for the database
are apart from those it makes by itself (`CallerDatabase`, `CallerOwn`), because neither
the connection nor the INSERT has a timeout (`emitter.py:128-151`).

### Observer and Gantt

The main thread of the agent is at `main`; `next` is the watcher its loop is at.
`Refuse` and `Configure` are `main()` up to the signal handlers, `StartThread`, `Join`
and `StopEmitter` the three loops of `_run_multi_target`.  With one watcher the main
thread runs it itself, which is starting it and waiting for it; only there an
exception reaches `main()` (`ExitStatus`).  `entries` is WATCHER_TARGETS, whose blank and
malformed entries `ParsedTargets` drops; only the Patroni and PostgreSQL watchers
take it.  `pc[w]` is `BaseWatcher.run()`: `Run` sets the flag, `Setup` is the first poll
with `emit_initial`, which may raise out of `run()` (`SetupRaises`); `poll()` may not
(`PollRaises`).  `Signal` clears the flag of every watcher at any moment once the
handlers are installed, also before `run()` sets it.

`answers` is the history of what the component showed, or that the poll failed;
`memory` holds the `_last_...` attributes.  Each watcher is a pair of functions:
what it emits for an answer and what it remembers of it.  `PatroniShows` are the answers
of a Patroni node: any texts for role and state (`patroni_watcher.py:64-66` takes them as
they come) and a timeline that may be missing, which `TimelineOf` makes Python's `None`; a
node lost before its state was seen is reported as lost from "unknown" (`LostState`).  For
the other components names, timelines and HAProxy states are represented by two values
each.  Whether an emitter is open is all that is modelled of it here; what it does with the
events is `Emitter`.

Two things come back without an event, which `ToldOfChange` names: a HAProxy server that
was missing from an answer (`haproxy_watcher.py:92`) and a timeline that was
(`patroni_watcher.py:95`).

`Gantt` draws the lanes as `build_gantt_chart` does, from the events of a window that begins
at any poll: the bar before the first event (`InitColor`) from its old value, then one bar per
event; the HAProxy lane is an aggregate over servers (`ServerStates`).  `StateColor` is
`get_state_color` with its fallbacks: a text that begins with "up" or "down" (`UpWords`,
`DownWords`) has the colour of that, any other unknown text is grey.  The events of a window
are the set of their places in the watcher's history.  What `RoutingLanes` says of the HAProxy
lane is about servers that were in every answer: one that was missing comes back without an
event (`haproxy_watcher.py:92`).

### Heartbeat

Attempts are numbered and the number stands for `wall_ts`.  `EndAttempt` is the
outcome with `_handle_auto_test_run`'s detection; `Register`, `Tag` and
`Summarise` are its statements, each with a failing twin, which may have committed what
it did before the connection broke.  `InsertRow`,
`FlushDone` and `FlushFail` are `_flush_results`; `RowOf` reads `test_run_id` at
that moment, as the code does.  A run's id is `RunId`, its second.  `observed` are
events of the observers that are still in an emitter or already rows.

### Downtime

A run's rows are a sequence, a row's position its timestamp, and NULL is the empty
set, so that comparisons with NULL select nothing and differences with NULL are
NULL.  `ViewDowntime` is the view `failover_window`, `MeasuredDowntime` the query
of the runner, `Waterfall` the columns of `_WATERFALL_SQL` and `HeroSplit` what the
hero chart makes of them, `Window` the cut of `load_run_data`, `Milestones`,
`PhaseChain` and `Phases` the stacked chart, `IterationDowntime` the title of an
iteration's charts, `ComparisonTotal` a bar of the comparison of combinations,
`OverlapPhases` the overlapping chart, `ClientLane` the client's lane of the Gantt
chart and `LatencyRows` the queries of the latency timeline.  `LongRun` is the
test before the cut: a span of more than two minutes (`SpanLimit`) or more than 5000 client
rows (`RowLimit`).  `Insert` appends a row: the client is one thread and flushes in order.
`read` is history: every downtime the runner could have read so far.

### Runner

One action per outcome of each command of the main loop; `pc` names the place.
`attempts` are the queries of all client processes, each pending in a buffer, lost
or stored, with the label of its row.  `RunNow` is the client's own label, given at
its first failure, as in `Heartbeat`.  `window` holds the client's start, START_TS
and `kill_ts`; `kill_ts` may be up to `Truncation` attempts early because it is cut
to the second.  `Measure` records what `Downtime`'s query gives over the rows
stored by then, or nothing when psql fails.  `out` counts nodes taken out and not
brought back; `recover_node` may fail and the loop goes on.  A docker command that returns
an error may have done its work all the same: `InjectFails` may leave the node out
(`TakenOut`), which nothing in the script then undoes before the next health check;
`SameClientGoesOn`, `RestartClientRefused` and `StopClientFails` leave the old client
process running with its buffer and its label, as `docker stop ... || true` does
(`run_failover_test.sh:509-513`).  A label is who gave it, not how it reads; names that
coincide are in `Batch`.

### Batch and Reports

One action per way through `process_combo`: `Skip`, `DownStale`, `Up` or `UpFails`,
`BootstrapReady` or `BootstrapTimeout`, `RunnerFinishes` or `RunnerDies`, `Collect`,
`TearDown`; then `Cleanup`, which aborts the batch when TimescaleDB is gone.  `Down`
is `docker compose down -v`, whose failure the script tolerates everywhere; `broken`
remembers combinations whose last compose command failed.  `stale` are the
combinations an earlier batch left containers, a session folder and test runs of.
A session is known by the position in `RUN_DIRS` that made it, an earlier one by 0.
A whole test run is one step: an element of `Outcomes` says what `Runner` and
`Heartbeat` can leave of an iteration: whether the driver's INSERT into `test_runs` was
taken (`registered`), rows labelled with the driver's run, success, a downtime, a folder of
charts (`charted`), and the runs the client registers itself, any number, `before` and
`after` the driver's, each with or without rows.  Driver and client name a run after the
combination and the second, so the two may ask for one name; then the second INSERT is
refused and the rows of both are under the run of the first, failed rows under the driver's
included.  Without TimescaleDB nothing is stored.  `RunnerFinishes` and `RunnerDies` fill
`charts` from the iterations that ended well (`Charted`); a test run that dies may do so
after any number of iterations, whatever became of them.  `ClientRegisters` is a client
outside of iterations: while its cluster boots, or in a stack that was left up (`Strays`).

`Reports` are functions of that state.  A list of runs is the set of their places in
`test_runs`, whose order every query keeps: `Nth` is the run at a position of such a
list, and `Rank` the position.  In the batch report, `TableRun` and
`TimelineRun` are the run that the per-iteration table and the latency timeline put
beside a row of the CSV; in the report from the database, `DbRows` are the rows made
of `test_runs JOIN failover_window` and `DbTableRun` what the same table joins them
with; in the report of a session, `RunsOfTheDay` are the runs it lists and
`ChartsBeside` the chart folder shown with the i-th of them.

### Callbacks

`Script(r)` is the list of commands a callback runs for a role, in 04 `bind` (ip addr
add) and `arp` (arping), in 05 `bind` and `announce` or `withdraw` and `unbind`, in 09
`ready` or `maint`.  `Command` runs the next one on its node, `CommandFails` passes it
over, as `|| true` does; `missed` are nodes whose last callback lacks a command.  A newer
callback replaces the one that still runs (`Call`).  External, from how the scripts use
them: Patroni with the leader lock (`Promote`, `Demote`, `DemoteStale`, `LockExpires`),
containers stopped, started, frozen and thawed as the driver's scenarios do, the ARP
caches of the LAN, the hold time of the BGP session and HAProxy's health check.
`Traffic` is where a new connection ends up.

## 3. Runs

| Run | Expects | What it shows |
|---|---|---|
| `emitter` | pass | All interleavings of the two flushing threads, failing inserts, with and without a database, shutdown and kill at any moment.  `NothingDropped`, `OneCopyInMemory`, `StopDrains`; `ImplementsLog` (refinement); `EventuallyStored`, `StopReturns` (liveness): a flush thread that hangs keeps no `stop()` from its own flush, after which it returns if that is answered. |
| `observer` | pass | Each component over every sequence of answers, failures, dying threads and signals, with one watcher or one per target: `EventsAreTheChanges`, `EmittersOutliveWatchers`, `PatroniLaneShowsPrimary`, `RoutingLanes`; `StopEndsAgent`: a stop ends every watcher whose own polls end, and the agent if all polls and flushes do. |
| `heartbeat` | pass | Every sequence of outcomes, failing statements, a signal at any moment: `LostOnlyAtTheEnd`, `DetectionMatchesHistory`, `LabelledForward`, `RecoveryIsItsOwn`. |
| `heartbeat_separate` | violation | Failed queries still buffered when the next failover is detected are filed under it (`tool/README.md:71` says each failover is tracked separately). |
| `downtime` | pass | Every sequence of up to five rows of nine kinds: `OneOutageAgreement`, `ViewUnderstatesFlapping`, `ChartTotalIsDowntime`, `OutagesAreShown`, `WaterfallMatchesMilestones` (the two readers of a promotion differ exactly when it repeats); `MeasuresSettle` (no value the runner reads is below any it could have read before, also across a gap). |
| `downtime_documented` | violation | The reports' downtime ends at the first success after the *first* failure; their own methodology says after the last (`generate_charts.py:1073`). |
| `runner` | pass | Every command failing or not, with or without its effect, over a whole run, also with a client that could not be stopped: `AtMostOneNodeOut`, `TagsOwnClient`; `MeasuredIsAnOutage`, `LabelsSettle`; `RunnerEnds`. |
| `runner_recovered` | violation | SUCCESS is decided from stored successes of before the outage while the failures wait in the client's buffer (`runner/README.md:113`). |
| `runner_failures` | violation | The failed queries of an iteration carry the client's own label, which the driver's UPDATE leaves alone (`runner/README.md:88`). |
| `runner_report` | violation | Under `set -e` the first `(( n++ ))` with n = 0 ends the script, before the report (`run_failover_test.sh:28`, `:654`). |
| `batch` | pass | Two combinations, every compose command, bootstrap and test run going well or not (also one that dies after iterations it measured), runs the client registers of its own, names that two runs share, charts that fail, TimescaleDB vanishing, leftovers of earlier batches, and the reports at any moment: `StacksAccounted`, `SessionsAreOwn`, `BatchReportPairs`, `DbReportPairs`, `SessionReportCharts`. |
| `callbacks` | pass | Three nodes that are stopped, frozen, demoted and brought back under each of the three layers, every command of a callback failing or not: `HoldersAccounted`; `TrafficReturns`. |

### Bounds

* `Emitter.cfg`: batches of 2, four events, two failing flushes.  Four events let
  a batch fill while the other thread holds one, and let a third collect behind
  two that are put back; two failures let both threads fail, or one twice.
* `Observer.cfg`: four polls of one watcher, of which the first is `setup()`'s.  A value,
  failures or absence in between, another value and its return need four; the memory
  is one value per channel, so longer histories repeat these.  Two targets, with a blank
  and a malformed entry between them, share three polls: one thread can crash or stop
  while the other polls on.  A Patroni node has four answers: on timeline 1 and on timeline
  2, stopping (a state without a colour), and uninitialized, stopped and without a timeline.
  `UpWords` and `DownWords` have a word each.
* `Heartbeat.cfg`: six attempts with a streak of 2 hold two whole failovers, or one
  that flaps; a batch of 3 puts the boundary of a batch inside a failover,
  before it and after it; two attempts per second make ids collide; one failing
  statement at any of them.  `Heartbeat_separate.cfg` keeps the real streak of 3.
* `Downtime.cfg`: five rows, so that a failure, a success, a failure, a success and one
  event, or one event of each of three kinds inside an outage, occur in every order.
  `KillTimes` {0, 1} puts the kill before the run, so that five rows follow it, or
  inside it, with rows on both sides. `SpanLimit` 3, `RowLimit` 2 and the windows of
  -2/+3 and -2/+2 make both cut and uncut runs occur. `created` and `bornPrimary`, which
  only columns of the waterfall read, are left out of the cfg, and so is `promoteSeen`,
  which is read only where `promoteAsked` is read too. The latency timeline is cut after
  `TimelineCap` rows, fewer than a run has, when there is no recovery.
* `Runner.cfg`: two iterations, of a scenario that takes the leader out twice, or
  of `all`, whose three scenarios are scaled to one that takes the leader out and
  one that moves it.  What one iteration can leave to the next is seen with two.
  Three attempts, batches of 2, more than 0 successes to be confirmed (the code
  waits to exceed 5).  Attempts before the first iteration and after the last measure are
  left out (`Observed`): no query of the driver that follows them can select them.
* `Batch.cfg`: two combinations of one number, as `06-haproxy-rest-polling` and its tuned
  variant are, so that filters take or leave both; one is what the other leaves behind.  Two
  iterations, of one scenario, where positions can shift, or of two, where the scenario keeps
  them apart.  Three outcomes of an iteration: all well, with a client's run after the
  driver's; the client's INSERT first, the driver's refused and no charts; a failover before the
  driver's run, which has no recovery, downtime or row.  So each part is missing in one, and
  runs come before, after and instead of the driver's.  One stray run
  (`MaxStrays`), while a cluster boots.  TimescaleDB goes away only where the script or the
  test run looks at it next.
* `Callbacks.cfg`: three nodes and three changes (stops, freezes, demotions): an old
  primary, a new one and a third that takes over before the first is done, or a node that
  comes back and is promoted again.  A stopped node is not started within the TTL of the
  lock or the hold time of its route.

Symmetry is not used.  `CHECK_DEADLOCK FALSE` is set because
every modelled program is meant to end, and `Downtime` because the rows do.

### Fairness

* `Emitter`: `CallerFairSpec` has weak fairness only for what the caller does without the
  database.  A connection or an INSERT may last for ever in either thread: `CallerAnswered`
  and `FlusherFair` say that it does not, and are premises inside `EventuallyStored` and the
  second half of `StopReturns`.  What the code does promise without them is the first half:
  the join is bounded, so `stop()` reaches its own flush.  Emitting, stopping, killing and
  failing are never forced.
* `Observer`: weak fairness of what the main thread and each watcher's thread do without
  waiting for a peer (`MainGoesOn`, `WatcherGoesOn`).  The query of the PostgreSQL watcher,
  the connection of an emitter and the join of the threads have no timeout
  (`postgres_sql_watcher.py:87`, `emitter.py:93`, `:128`, `agent.py:159`), so that polls and
  final flushes end (`PollsReturn`, `FlushesReturn`) is a premise inside `StopEndsAgent`, for
  a watcher that of its own polls only.  Signals and crashes are not forced.
* `Callbacks`: scripts run (they succeed or not), a lock whose holder is gone expires,
  Patroni promotes someone when the lock is free and demotes a primary that lost it,
  timers and health checks go on, and stopped or frozen nodes are brought back, as
  `recover_node` of the driver does.  Failures are not forced, nor excluded:
  `TrafficReturns` has the premise that from some moment on none is outstanding.
* `Runner`: weak fairness of the script; each of its waits has a deadline or a
  retry count, and docker and psql commands return: a database that accepts a query and
  never answers would hold `wait_for_recovery` (`run_failover_test.sh:206`) and is outside
  of the specification.  The client is not assumed to do anything.

`Heartbeat`, `Downtime` and `Batch` state no liveness and assume no fairness.

## 4. Proofs

Every type invariant, every safety invariant, every action property and the refinement
that the runs check are theorems, for every value of the constants.

| Module | Theorems (property of a run each states) |
|---|---|
| `EmitterProofs` | `TypeCorrect` (`TypeOK`), `NothingIsDropped` (`NothingDropped`), `OneCopy` (`OneCopyInMemory`), `StopDrainsBuffer` (`StopDrains`), `EmitterImplementsLog` (`ImplementsLog`) |
| `ObserverProofs` | `TypeCorrect` (`TypeOK`), `ReportsAreTheChanges` (`EventsAreTheChanges`), `EmittersLast` (`EmittersOutliveWatchers`), `PatroniLanesAreTrue` (`PatroniLaneShowsPrimary`), `RoutingLanesAreTrue` (`RoutingLanes`) |
| `HeartbeatProofs` | `TypeCorrect` (`TypeOK`), `LossesAreTheTail` (`LostOnlyAtTheEnd`), `DetectionIsExact` (`DetectionMatchesHistory`), `LabelsLookForward` (`LabelledForward`), `RecoveriesAreOwn` (`RecoveryIsItsOwn`) |
| `DowntimeProofs` | `TypeCorrect` (`TypeOK`), `OneOutageOneNumber` (`OneOutageAgreement`), `ViewIsALowerBound` (`ViewUnderstatesFlapping`), `TotalsAreDowntime` (`ChartTotalIsDowntime`), `OutagesAreDrawn` (`OutagesAreShown`), `ChartsAgreeOnEvents` (`WaterfallMatchesMilestones`), `ReportsSettle` (`MeasuresSettle`) |
| `RunnerProofs` | `TypeCorrect` (`TypeOK`), `OneNodeOut` (`AtMostOneNodeOut`), `TagsAreOwn` (`TagsOwnClient`), `LabelsNeverChange` (`LabelsSettle`), `MeasurementIsAnOutage` (`MeasuredIsAnOutage`) |
| `BatchProofs` | `TypeCorrect` (`TypeOK`), `StacksAreAccounted` (`StacksAccounted`), `SessionsBelong` (`SessionsAreOwn`), `RowsMeetTheirRuns` (`BatchReportPairs`), `RowsMeetRunsOfTheDatabase` (`DbReportPairs`), `ChartsMeetTheirRuns` (`SessionReportCharts`) |
| `CallbacksProofs` | `TypeCorrect` (`TypeOK`), `HoldersAreAccounted` (`HoldersAccounted`) |

Each of these modules also states `Invariance`: `Spec => []IInv`, where `IInv` is the
inductive invariant.  Each is laid out the same way: one lemma per action, or per group
of actions that disturb the same part of `IInv`; one lemma for all that leave it alone;
`Invariance` from them; and then, for each property, that `IInv` (and a step, for an
action property) implies it.

### Assumptions

* `EmitterAssumption`, `HeartbeatAssumption`, `RunnerAssumption`, `CallbacksAssumption`,
  `DowntimeAssumption`, `ObserverAssumption`: the constants have their type, and what the
  code divides by, counts up to or fills (a batch, a streak, attempts per second) is not
  zero.
* `ObserverAssumption` further says that the role and the state of a Patroni node are no empty
  texts and none of the three the watcher and the model use for something else ("none",
  "absent" and "unreachable").
* `BatchAssumption` further says that no two entries of `COMBO_REGISTRY` have one
  directory, which is so in the script, and that no scenario is called "unknown", which
  the driver refuses (`run_failover_test.sh:80-89`) and which the client's own runs are
  called.

### Why the properties need more than themselves

**Emitter.**  `NothingDropped` is not inductive by itself.  When a thread finishes its
batch (`FlushDone`) the batch is forgotten, and one must know that everything in it is a
row: that is `BatchHeld`, whose `HeldBy(t)` says that the inserted prefix of a batch is in
the table, and that a thread outside its insert loop holds nothing (so that `FlushTake`
overwrites nothing).  `StopDrains` further needs `ShutdownOrder`: in a clean shutdown the
flush thread has ended before the final flush, and the final flush left the buffer empty;
with `BatchHeld` that leaves the table as the only place an event can be.  `OnlyEmitted`
bounds the table by the events emitted, which the refinement needs.  `OneCopyInMemory` is
inductive beside them: what a failing flush puts back in front of the buffer was in its
batch and nowhere else.  `LogStep` maps each step of the emitter to `Accept`, `Store`,
`Fault`, `Close`, `Crash` or a stutter of the log.

**Observer.**  `InOrder` says how far each pass of the main thread has come, which is all
`EmittersOutliveWatchers` needs.  `EventsAreTheChanges` compares the events with the whole
history, whereas a watcher compares an answer with its memory; `Told` closes the gap: the
memory of a watcher is, per channel, the value last told in its history, and its events
are those of the history (`Recorded`, one case for each of the five watchers).  The lanes
need where each event comes from (`Explained`: its poll, the answer found there and the
value it says was before, which is "unknown" for a Patroni node that was lost before its
state was seen).  A lane's colour at a poll is then that of the last event of the window up
to it, or of the old value of the first one after it, and both are traced to answers.

**Heartbeat.**  The flags of the detection are compared with their definition over the
history, so `IInv` carries what the streak counts (`Counted`) and that a failover in progress
has not recovered (`Unrecovered`).  `LostOnlyAtTheEnd` needs how far a flush has come: the
first `written` waiting attempts are rows, and the others have at most one row per statement
that raised (`Stored`); that the rows are those of the first attempts; and that a list which
is not empty when the client has ended was left by a flush that raised (both in `PrefixStored`).
`LabelledForward` has two parts: no row is filed under an older failover (`Forward`, with
`Registered`: nothing is filed under a failover before its run exists), and the rows filed too
late are fewer than a batch, for which the rows *and* the attempts that still wait are counted
together (`OneBatch`).  `Observed` and `Logged` say what a tag and a summary were about when
they were made.

**Downtime.**  The inductive invariant says that rows are rows, and that every value the
runner could have read ends at a success after one of the failures after the kill
(`ReadBefore`), so that a later value, which is about a later failure or the same one, is not
below it; the other properties are facts about any sequence of rows.  The argument is by
extremes: the first failure after the kill, the first success after it, the last failure and
so on are least or greatest elements of sets of timestamps, and each reader's number is a
difference of such.  A chart's total telescopes over the phases that are present, which the
lemmas about `Phases` reduce to the first and the last milestone.

**Runner.**  `AtMostOneNodeOut` needs what is out at each place of the script
(`NodesAccounted`), also after an injection that returned an error.  `TagsOwnClient` and
`LabelsSettle` need that START_TS, the client's start and `kill_ts` are taken in order
(`WindowOrdered`), that rows are stored in the order of the attempts (`StoredInOrder`), and
that a failure is never stored without a label (`Labelled`), so that the driver's UPDATE of
unlabelled rows finds successes only.

**Batch and Reports.**  `SessionsAreOwn` needs that folders and runs of positions not yet
reached do not exist (`NothingFromLater`) and that a table that was printed comes with a
folder (`AtACombination`).  The reports put lists side by side, so `IInv` carries that
`results.csv` lists, for each combination, the iterations from the first on (`Listed`), that
the runs the driver registered come, among the client's and however many of those there are,
in the order of their iterations and at most once in each (`Historied`), and that charts are
of iterations of a test run that was started (`ChartsListed`).  For the batch report the proof
rests on `Pairing` (in `DataFacts`): when increasing numbers are given to some places out of a
set of numbers, the k-th place has at least the k-th number, and exactly that one when none
before it is missing.  For a session's report the driver's runs up to one of them are counted
(`OwnRunsUpTo`).  `DbReportPairs` needs no history: it compares the places of a run in two
lists of which one is a part of the other (`SideBySide`).

**Callbacks.**  `HoldersAccounted` is about nodes whose callback may be half done.
`Accounted(n)` says of each node what the commands still to run will leave on it: a promoted
node that missed no command has its address or its first command before it, a demoted one
has lost it or will, and likewise for its route and its server line.

### Induction over data

The induction theorems of the library take an operator as an argument, which the prover
cannot instantiate.  Where a proof needs an induction over naturals it takes the least
counterexample (`LeastElement` in `DataFacts`, from `NatLessThanWellFounded` and `WFMin` of
the library) or the greatest element of a bounded set (`GreatestElement`).  That a recursive
function exists, as `FlattenSeq` and the folds of the community modules need, is shown in the
same way (`FlattensExists` in `BatchProofs`).

### Model-checked only

Liveness: `EventuallyStored`, `StopReturns`, `StopEndsAgent`, `RunnerEnds` and
`TrafficReturns`.  They rest on fairness, hence on ENABLED, which the prover does not handle.
The five runs that expect a violation are counterexamples and stay with TLC by their nature.
No module declares a RECURSIVE operator.

## 5. Divergences noticed without a run of their own

Read in the code while modelling; kept here so that they are not read as modelling
errors.

* A retried flush stores committed rows again; `001_create_events.sql:39` says one
  row per query attempt.  The last conjunct of `LostOnlyAtTheEnd` in `Heartbeat` is what
  remains true.
* Two failovers of one client in the same second get one id (`heartbeat.py:218`), although
  `tool/README.md:71` calls ids unique: at the default interval a failure, three successes and
  a failure take half a second.  The second INSERT into `test_runs` is refused and the rows of
  both carry the id.  `RunId` models it.
* The summary of a recovery is selected before the rows it is about are written
  (`heartbeat.py:198`), so it counts fewer failures than there were, or finds no downtime and
  logs nothing; `tool/README.md:55-57` shows three failed queries and a summary that says
  three.  The second conjunct of `RecoveryIsItsOwn` is what remains true.
* The UPDATE of a recovery tags the events that are rows by then.  One that an emitter stores
  later is never tagged, although `heartbeat.py:178` speaks of the window.  The first conjunct
  of `RecoveryIsItsOwn` is about those that are tagged.
* A Patroni node that answers without a timeline makes its watcher forget the old one
  (`patroni_watcher.py:95`), so that a change between the answers before and after is not
  reported, although `patroni_watcher.py:5-8` says that timeline changes are.
  `EventsAreTheChanges` has this case as the code has it.
* The final flush of the client is not repeated: what it could not store ends with the
  process (`heartbeat.py:286`).  `LostOnlyAtTheEnd` admits that and nothing else.
* `build_phase_chart` subtracts neighbours of a fixed chain, so a phase may be
  negative although the docstring calls phases sequential (`generate_charts.py:516`,
  `:550`); only the total is right (`ChartTotalIsDowntime`).
* `_render_phase_breakdown` has no line for "PG Promotion" but counts it in the total
  (`generate_charts.py:967`, `:976`).
* The combination report calls a run SUCCESS when the view has a downtime
  (`generate_charts.py:1948`), whatever the runner recorded (`runner/README.md:113`).
* `run_failover_test.sh:9` speaks of six scenarios of `all`; `ALL_SCENARIOS` at line 60
  has three.
* The emitter's docstring says "never lose events" (`emitter.py:43`).  Events of a flush
  thread that outlives `join(timeout=5)`, and of a final flush that fails, die with
  the process; `StopDrains` and `ImplementsLog` are what remains true.
* A leader key that is found after a failed first poll is reported as
  `leader_key_created`, also when it had been there all along
  (`consul_watcher.py:109`): the watcher keeps one value for "missing" and "unknown".
* The batch report selects every run a combination ever had (`generate_charts.py:1657`,
  `:1747`), so in a database of several batches rows are paired with runs of earlier
  ones.  The pairing properties are about combinations without earlier runs.
* A combination whose `up` failed is not taken down (`run_batch.sh:212-217`); what did
  start runs beside the next ones.  `StacksAccounted` admits exactly that.
* A signal between the installation of the handler and `run()` is undone
  (`watcher.py:54`), although `watcher.py:49` says it stops the watcher; `StopEndsAgent` is
  about signals that find every watcher in `run()`.
* In multi-target mode a watcher thread that dies is noticed by nobody and the agent exits
  with 0; with one watcher the exit code is 1 (`agent.py:158`, `:237`).
* `agent.py:27` shows log paths as targets of the PostgreSQL watcher, which takes connection
  strings (`agent.py:67`).
* The Gantt chart's comment has green for the primary and blue for replicas
  (`generate_charts.py:388-389`); a replica whose last event is `running` is green.
  `PatroniLaneShowsPrimary` says what a colour does mean.
* The comparison of combinations has no line for a missing phase: for layers without HAProxy
  events the stack ends at the promotion (`generate_charts.py:754`), as
  `ChartTotalIsDowntime` says.
* The exit code of a batch: `run_batch.sh:423` says "0 if >=80% of combos passed", and
  line 428 cuts the threshold to an integer, so a batch of one combination that did not pass
  ends with 0.  `BatchPasses` has the code's arithmetic.
* The compose files start the client with an empty TEST_RUN_ID, so a failed query never
  carries the driver's test run, unless the client named its own in the same second and the
  two names are one.  The hero chart, the waterfall and the latency timeline of the batch
  report select runs by scenario and as a rule find none with failures; the outages of the
  report from the database are, as a rule, under the scenario "unknown".
* The report from the database calls every row SUCCESS, whatever the runner recorded
  (`generate_charts.py:2118`).
* `09-patroni-callback-haproxy/README.md:112` says the script sets all other nodes to maint;
  it sets the state of its own node only, and `haproxy.cfg` starts with none in maint.
* `04-vip-patroni-callback/README.md:29` says `on_stop` and `on_restart` remove the address; the
  script looks at the role only, not at the action.
* Two nodes may hold the address of 04: a frozen primary's kernel goes on answering ARP.
  `HoldersAccounted` says who can.

## 6. Not modelled

* Time: latencies, intervals and deadlines are nondeterministic, never counted.
* Texts: log lines, error messages, HTML, colours, layout; option parsing.
* PostgreSQL, Patroni, Consul, HAProxy, Docker: external; they answer, fail, or
  commit a statement whose answer is lost.
* The cloud playbooks (`deploy/gcp/ansible/`): an iteration there has the shape of the
  runner's, with the same injections and the same UPDATE of unlabelled rows, in Ansible
  tasks whose retries and failure semantics are Ansible's.
* `08`'s `update-haproxy.sh.ctmpl` and `07`'s template are rendered by consul-template; the
  other combinations are configuration only.  05 is modelled although its README and that of
  10 call it parked.
* A session that runs past midnight: the report of the session selects by its date and
  loses the runs that started after it.
* Medians over runs (also those of the batch report's waterfall and hero chart), error
  categories, the choice of the latest run when no run is named.
* Terraform, ansible roles, Grafana, Prometheus, Dockerfiles, static configuration and
  the empty `reporter.py`: no control of their own.

## 7. Plan

The components in reach are modelled and every safety property of a run is a theorem.  What
is left, in this order:

1. Abstract specifications beside `EventLog`: the client as a log that files every attempt
   under a failover not older than its own (implemented by `Heartbeat`), and the driver as a
   cluster of which at most one node is out (implemented by `Runner`), each with its
   refinement as a `PROPERTY` of a run and as a theorem.
2. The safety half of the liveness properties, as theorems: a measure that every step of the
   driver's loop lowers (`RunnerEnds`), and that a watcher that was told to stop
   polls at most once more (`StopEndsAgent`).  The rest, under fairness, stays with TLC.
3. Action properties of `Batch`: rows of `results.csv` and results of combinations are never
   rewritten by a later combination.
4. `Callbacks`: from `HoldersAccounted`, that a cluster at rest sends its clients to the
   primary; the step from there to `TrafficReturns` is TLC's.
