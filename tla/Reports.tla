------------------------------- MODULE Reports -------------------------------
(***************************************************************************)
(* The reports of tool/charts/generate_charts.py that put things side by   *)
(* side by their position in a list: the rows of a batch's CSV and the     *)
(* test runs of the database (cmd_batch_report, cmd_db_report), and the    *)
(* test runs of a day and the chart folders of a session                   *)
(* (cmd_combo_report).  A report may be made at any moment, of the batch   *)
(* of module Batch that is running or of one that ended.                   *)
(*                                                                         *)
(* The client's own runs (heartbeat.py) are in test_runs beside the        *)
(* driver's.  A selection of runs is the set of their places in test_runs, *)
(* whose order every query keeps; a run that is put beside something is a  *)
(* set of at most one place, empty where the code runs off the end of its  *)
(* list and shows a dash.                                                  *)
(***************************************************************************)
EXTENDS Batch

\* Where a place comes in a list made of these places, and the n-th of the list.
Rank(places, k) == Cardinality({j \in places : j <= k})
Nth(places, n)  == {k \in places : Rank(places, k) = n}

IsClients(k) == runs[k].scenario = "unknown"

-----------------------------------------------------------------------------
(* cmd_batch_report: the rows of the CSV. *)

\* Mistake: the runs of the combination, whatever the scenario.
RunsOfCombo(dir, scenario) == {k \in DOMAIN runs : runs[k].dir = dir}

RunsOf(dir, scenario) ==
    {k \in DOMAIN runs : runs[k].dir = dir /\ runs[k].scenario = scenario}

RowsUpTo(r) ==
    {q \in 1..r : csv[q].dir = csv[r].dir /\ csv[q].scenario = csv[r].scenario}

\* _render_per_iteration_table(): the n-th row of a scenario with its n-th run.
TableRun(r) == Nth(RunsOf(csv[r].dir, csv[r].scenario), Cardinality(RowsUpTo(r)))

MeasuredUpTo(r) == {q \in RowsUpTo(r) : csv[q].measured}

\* _render_client_latency_timeline(): the rows without a downtime are dropped
\* before they are counted; of those of hard_stop the one nearest the median is shown.
TimelineRun(r) == Nth(RunsOf(csv[r].dir, csv[r].scenario), Cardinality(MeasuredUpTo(r)))

-----------------------------------------------------------------------------
(* cmd_db_report: rows made of test_runs JOIN failover_window. *)

\* Mistake: the outer join.
DbRowsAll(dir, scenario) == RunsOf(dir, scenario)

\* The view has a row for every run some client row is labelled with.
DbRows(dir, scenario) == {k \in RunsOf(dir, scenario) : runs[k].rows}

\* The same table as above: the n-th row is joined with the n-th of all runs.
DbTableRun(dir, scenario, n) == Nth(RunsOf(dir, scenario), n)

ReportScenarios == Range(options.scenarios) \cup {"unknown"}

-----------------------------------------------------------------------------
(* cmd_combo_report for a session folder with charts. *)

\* Mistake: the runs of every combination of the day.
RunsOfTheDayOfAll(dir, sameDay) ==
    {k \in DOMAIN runs : sameDay \/ runs[k].session # Earlier}

\* _load_session_runs(): the runs of the combination that started on the date
\* of the session; the earlier session may have been on the same day.
RunsOfTheDay(dir, sameDay) ==
    {k \in DOMAIN runs : runs[k].dir = dir /\ (sameDay \/ runs[k].session # Earlier)}

\* _load_iter_charts(): the folder of the i-th run of the day.
ChartsBeside(session, i, run) ==
    charts \cap {[session |-> session, iter |-> i, scenario |-> run.scenario]}

-----------------------------------------------------------------------------
(* Properties *)

RegisteredIters(dir, scenario) ==
    {runs[k].iter : k \in {k \in RunsOf(dir, scenario) : runs[k].session # Earlier}}

\* With no earlier runs of a combination in the database, what a row of the
\* batch report is shown with comes from its own scenario: in the table from its
\* own iteration, or from a later one when one before it has no registered run;
\* in the timeline, with every run registered, from its own iteration, or from
\* an earlier one exactly when a row before it has no downtime.
BatchReportPairs ==
    \A r \in {r \in DOMAIN csv : csv[r].dir \notin stale} :
        LET registered == RegisteredIters(csv[r].dir, csv[r].scenario)
            upTo       == {csv[q].iter : q \in RowsUpTo(r)}
        IN  /\ \A k \in TableRun(r) :
                  /\ runs[k].scenario = csv[r].scenario
                  /\ runs[k].iter >= csv[r].iter
                  /\ upTo \subseteq registered => runs[k].iter = csv[r].iter
            /\ csv[r].measured /\ upTo \subseteq registered => \A k \in TimelineRun(r) :
                  /\ runs[k].iter <= csv[r].iter
                  /\ runs[k].iter < csv[r].iter <=> MeasuredUpTo(r) # RowsUpTo(r)

\* In the report made from the database the table joins a row with its own run,
\* or with an earlier one exactly when a run of the scenario before it has no
\* client row: of the driver's runs and of the client's, whatever combinations
\* were left running and whichever INSERT was refused.
DbReportPairs ==
    \A dir \in Dirs, scenario \in ReportScenarios :
        LET all  == RunsOf(dir, scenario)
            rows == DbRows(dir, scenario)
        IN  \A k \in rows : \E j \in all :
                /\ DbTableRun(dir, scenario, Rank(rows, k)) = {j}
                /\ j <= k
                /\ j = k <=> \A i \in all : i <= k => runs[i].rows

\* The report of a session, also of one whose test run died, shows charts beside
\* a run of the driver that are its own or those of a later iteration, its own
\* when neither a run of an earlier session of that day nor one of the client's
\* precedes it, as long as every iteration registered its run; beside the client's
\* runs it shows none, and beside an earlier session's only if it was on the same
\* day.
SessionReportCharts ==
    \A s \in {c.session : c \in charts}, sameDay \in BOOLEAN :
        LET shown == RunsOfTheDay(RunDirs[s], sameDay)
            own(k) == runs[k].session = s /\ ~IsClients(k)
        IN  \A k \in shown : \A chart \in ChartsBeside(s, Rank(shown, k), runs[k]) :
                LET run    == runs[k]
                    before == {j \in shown : j < k}
                IN  /\ ~IsClients(k)
                    /\ run.dir = RunDirs[s]
                    /\ run.session = Earlier => sameDay
                    /\ own(k) /\ (\A i \in 1..run.iter : \E j \in before \cup {k} :
                                     own(j) /\ runs[j].iter = i)
                       => /\ chart.iter >= run.iter
                          /\ chart.iter = run.iter <=> \A j \in before : own(j)
=============================================================================
