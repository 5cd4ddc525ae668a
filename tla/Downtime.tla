------------------------------ MODULE Downtime ------------------------------
(***************************************************************************)
(* What the reports say about one test run.  Nine pieces of code read the  *)
(* same client_events and observer_events rows and each has its own idea of *)
(* when the outage began, when it ended and what happened in between:      *)
(*   the view failover_window (003_create_views.sql);                      *)
(*   measure_downtime of runner/run_failover_test.sh;                      *)
(*   of tool/charts/generate_charts.py: _WATERFALL_SQL with the split of   *)
(*   the hero chart, extract_milestones with build_phase_chart,            *)
(*   cmd_iteration, generate_comparison_phases, extract_overlap_phases,    *)
(*   _LATENCY_TIMELINE_SQL, and the client lane of build_gantt_chart.      *)
(*                                                                         *)
(* The rows of a run are a sequence; a row's position is its ts.  A        *)
(* timestamp or an interval that SQL or pandas may find NULL is a set of   *)
(* at most one number, so that NULL propagates as the empty set does.      *)
(***************************************************************************)
EXTENDS Integers, Sequences, FiniteSets

CONSTANTS
    Kinds,         \* the kinds of rows that occur, a subset of RowKinds
    WindowBefore,  \* load_run_data keeps this much before the anchor (15 s)
    WindowAfter,   \* and this much after it (45 s)
    WindowShort,   \* cmd_iteration and the comparison: after it (30 s)
    SpanLimit,     \* longest run that is not cut to the window (120 s)
    RowLimit,      \* most client rows of a run that is not cut (5000)
    TimelinePad,   \* the latency timeline begins and ends with this (2 s)
    TimelineCap,   \* and goes this far when there is no recovery (60 s)
    KillTimes,     \* bound: where the runner's kill_ts may fall
    MaxRows        \* bound: rows of the run

RowKinds ==
    {"ok", "fail",          \* client_events by success
     "deleted", "created",  \* consul leader_key_deleted, leader_key_created
     "promoted",            \* patroni role_change to primary of a live node
     "bornPrimary",         \* patroni role_change to primary from none
     "promoteSeen",         \* postgres pg_promote_detected
     "promoteAsked",        \* postgres pg_promote_requested
     "ready",               \* postgres pg_ready_accept_connections
     "primaryUp",           \* haproxy backend UP, of primary_backend
     "replicaUp",           \* haproxy backend UP, of another backend
     "down"}                \* haproxy backend not UP

ASSUME DowntimeAssumption ==
    /\ Kinds \subseteq RowKinds
    /\ KillTimes \subseteq Nat
    /\ {WindowBefore, WindowAfter, WindowShort, SpanLimit, RowLimit, TimelinePad, TimelineCap,
        MaxRows}
          \subseteq Nat

VARIABLES
    timeline,   \* the rows of the run in ts order
    killTs,     \* kill_ts of the runner: the last ts before the failure
    read        \* every downtime the runner could have read so far; only the
                \* properties look at it

vars == <<timeline, killTs, read>>

(***************************************************************************)
(* Timestamps.                                                             *)
(***************************************************************************)
Rows(kinds) == {t \in DOMAIN timeline : timeline[t] \in kinds}

\* Mistake: every event but the first is the last one.
LastAndOthers(S) == {t \in S : \E u \in S : t > u}

First(S) == {t \in S : \A u \in S : t <= u}
Last(S)  == {t \in S : \A u \in S : t >= u}

\* Mistake: the bound is forgotten.
AfterAnything(S, x) == S

\* WHERE ts > x: no row qualifies when x is NULL.
After(S, x) == {t \in S : \E u \in x : t > u}

\* df[df.ts >= x] if x is not None else df.
From(S, x) == {t \in S : \A u \in x : t >= u}

Span(a, b) == {v - u : u \in a, v \in b}

Failures  == Rows({"fail"})
Successes == Rows({"ok"})

(***************************************************************************)
(* The view failover_window.                                               *)
(***************************************************************************)
\* Mistake: the last success instead of the first.
LatestRecovery == Last(After(Successes, First(Failures)))

FirstRecovery == First(After(Successes, First(Failures)))

ViewDowntime == Span(First(Failures), FirstRecovery)

(***************************************************************************)
(* The runner's measure_downtime.                                          *)
(***************************************************************************)
\* Mistake: the interval starts at the last failure.
MeasuredFromLastFailure ==
    LET failed    == After(Failures, {killTs})
        succeeded == After(Successes, {killTs})
    IN  Span(Last(failed), First(After(succeeded, Last(failed))))

MeasuredDowntime ==
    LET failed    == After(Failures, {killTs})
        succeeded == After(Successes, {killTs})
    IN  Span(First(failed), First(After(succeeded, Last(failed))))

(***************************************************************************)
(* _WATERFALL_SQL: offsets from the first failure of the first event of    *)
(* each kind after it.                                                     *)
(***************************************************************************)
Waterfall ==
    LET offset(kinds) == Span(First(Failures), First(After(Rows(kinds), First(Failures))))
    IN  [T0 |-> offset({"promoteSeen", "promoteAsked"}),
         T1 |-> offset({"promoted", "bornPrimary"}),
         T2 |-> offset({"created"}),
         T3 |-> offset({"primaryUp"}),
         T4 |-> offset({"ready"}),
         Tc |-> Span(First(Failures), First(After(Successes, Last(Failures))))]

\* _render_hero_chart: the downtime up to the last server event and after it.
HeroSplit ==
    LET offsets == Waterfall
        server == Last(offsets.T0 \cup offsets.T1 \cup offsets.T2 \cup offsets.T3)
        split(tc, done) == IF tc < done THEN [server |-> tc, client |-> 0]
                           ELSE [server |-> done, client |-> tc - done]
    IN  {split(tc, done) : tc \in offsets.Tc, done \in IF server = {} THEN {0} ELSE server}

(***************************************************************************)
(* load_run_data: a long run is cut to a window around its last deletion   *)
(* of the leader key or promotion; the charts see the rows of the window.  *)
(***************************************************************************)
Anchor == Last(Rows({"deleted", "promoted"}))

Around(after) ==
    {t \in DOMAIN timeline : \A a \in Anchor : t \in (a - WindowBefore)..(a + after)}

ClientRows == Rows({"ok", "fail"})

LongRun ==
    \/ Cardinality(ClientRows) > RowLimit
    \/ \E s \in Span(First(ClientRows), Last(ClientRows)) : s > SpanLimit

Window == IF LongRun THEN Around(WindowAfter) ELSE DOMAIN timeline

Seen(kinds) == Rows(kinds) \cap Window

(***************************************************************************)
(* extract_milestones and the phase chain of build_phase_chart.            *)
(***************************************************************************)
MilestonesIn(window) ==
    LET within(kinds) == Rows(kinds) \cap window
        failure == First(within({"fail"}))
    IN  [Failure    |-> failure,
         Deleted    |-> Last(within({"deleted"})),
         PgPromoted |-> Last(within({"promoteSeen", "promoteAsked"})),
         Promoted   |-> Last(within({"promoted"})),
         HaproxyUp  |-> First(From(within({"primaryUp"}), failure)),
         Recovery   |-> First(After(within({"ok"}), failure))]

Milestones == MilestonesIn(Window)

PhaseOrder == <<"Failure", "Deleted", "PgPromoted", "Promoted", "HaproxyUp", "Recovery">>

\* The places of the milestones the chart joins: PostgreSQL's promotion hides
\* Patroni's.
PhaseChain ==
    LET ms == Milestones
        present(m) == /\ ms[m] # {}
                      /\ m = "Promoted" => ms.PgPromoted = {}
    IN  {i \in DOMAIN PhaseOrder : ms.Failure # {} /\ present(PhaseOrder[i])}

\* Mistake: every phase is counted from the failure.
PhasesFromFailure ==
    LET ms == Milestones
        at(i) == CHOOSE t \in ms[PhaseOrder[i]] : TRUE
    IN  [i \in PhaseChain \ {1} |-> at(i) - at(1)]

\* phases: what each milestone but the first took from the one before it.
Phases ==
    LET ms == Milestones
        chain == PhaseChain
        at(i) == CHOOSE t \in ms[PhaseOrder[i]] : TRUE
        before(i) == CHOOSE j \in Last({k \in chain : k < i}) : TRUE
    IN  [i \in chain \ {1} |-> at(i) - at(before(i))]

\* cumulative, after the last bar: a phase that is not there is passed over.
Total(phases) ==
    LET took(i) == IF i \in DOMAIN phases THEN phases[i] ELSE 0
    IN  took(2) + took(3) + took(4) + took(5) + took(6)

\* cmd_iteration: the view, else the milestones of its shorter window.
IterationDowntime ==
    LET ms == MilestonesIn(IF LongRun THEN Around(WindowShort) ELSE DOMAIN timeline)
    IN  IF ViewDowntime # {} THEN ViewDowntime ELSE Span(ms.Failure, ms.Recovery)

\* generate_comparison_phases: a phase whose end is missing counts nothing.
ComparisonTotal ==
    LET ms == MilestonesIn(Around(WindowShort))
        phase(a, b) == IF ms[a] # {} /\ ms[b] # {} THEN CHOOSE d \in Span(ms[a], ms[b]) : TRUE
                       ELSE 0
    IN  phase("Failure", "Deleted") + phase("Deleted", "Promoted")
        + phase("Promoted", "HaproxyUp") + phase("HaproxyUp", "Recovery")

(***************************************************************************)
(* extract_overlap_phases.                                                 *)
(***************************************************************************)
OverlapPhases ==
    LET failure    == First(Seen({"fail"}))
        lastFailure == Last(Seen({"fail"}))
        asked      == Last(Seen({"promoteAsked"}))
        routing    == From(Seen({"primaryUp", "replicaUp", "down"}), failure)
        up         == routing \cap Rows({"primaryUp", "replicaUp"})
        primaryUp  == up \cap Rows({"primaryUp"})
    IN  [DcsDetection     |-> Span(failure, Last(Seen({"deleted"}))),
         PatroniPromotion |-> Span(asked, First(From(Seen({"ready"}), asked))),
         RoutingDetection |-> Span(First(routing),
                                   First(IF primaryUp # {} THEN primaryUp ELSE up)),
         ClientRecovery   |-> Span(lastFailure, First(After(Seen({"ok"}), lastFailure)))]

(***************************************************************************)
(* The client lane of build_gantt_chart: one bar for each run of equal     *)
(* outcomes, up to the first row of the next.                              *)
(***************************************************************************)
BarStarts ==
    LET rows == ClientRows \cap Window
    IN  {t \in rows : \A u \in Last({v \in rows : v < t}) : timeline[u] # timeline[t]}

\* Mistake: a bar ends at its last row.
ClientLaneGaps ==
    LET rows == ClientRows \cap Window
        end(s) == Last({t \in rows : \A n \in First(After(BarStarts, {s})) : t < n})
    IN  UNION {{[kind |-> timeline[s], from |-> s, to |-> e] : e \in end(s)} : s \in BarStarts}

ClientLane ==
    LET starts == BarStarts
        following(s) == First(After(starts, {s}))
        end(s) == IF following(s) # {} THEN following(s) ELSE Last(ClientRows \cap Window)
    IN  UNION {{[kind |-> timeline[s], from |-> s, to |-> e] : e \in end(s)} : s \in starts}

(***************************************************************************)
(* _LATENCY_TIMELINE_SQL: the queries of the outage, padded.               *)
(***************************************************************************)
LatencyRows ==
    LET recovery == First(After(Successes, Last(Failures)))
        shown(f) == (f - TimelinePad)..(TimelinePad +
                        IF recovery # {} THEN CHOOSE r \in recovery : TRUE ELSE f + TimelineCap)
    IN  {t \in ClientRows : \E f \in First(Failures) : t \in shown(f)}

(***************************************************************************)
(* Rows are appended in ts order: the client is one thread that flushes in *)
(* order, and the measures are taken from what is stored.                  *)
(***************************************************************************)
Init ==
    /\ timeline = <<>>
    /\ killTs \in KillTimes
    /\ read = {}

Insert(kind) ==
    /\ Len(timeline) < MaxRows
    /\ timeline' = Append(timeline, kind)
    /\ UNCHANGED killTs
    /\ read' = read \cup MeasuredDowntime'

Next == \E kind \in Kinds : Insert(kind)

Spec == Init /\ [][Next]_vars

(***************************************************************************)
(* Properties                                                              *)
(***************************************************************************)

\* The rows are rows, and every timestamp the code computes is at most one.
TypeOK ==
    /\ timeline \in Seq(Kinds)
    /\ Len(timeline) <= MaxRows
    /\ killTs \in KillTimes
    /\ read \subseteq Nat
    /\ LET ms == Milestones IN \A m \in DOMAIN ms : Cardinality(ms[m]) <= 1
    /\ LET offsets == Waterfall IN \A m \in DOMAIN offsets : Cardinality(offsets[m]) <= 1

\* One outage, one number: when the failed queries of the run all follow the
\* kill and no success interrupts them, the view, the runner and the waterfall
\* give the same downtime, the split of the hero chart adds up to it, and none of
\* them gives one while the client is down.
OneOutageAgreement ==
    (/\ \A f \in Failures : f > killTs
     /\ \A f, g \in Failures : \A s \in Successes : ~ (f < s /\ s < g))
    => /\ ViewDowntime = MeasuredDowntime
       /\ ViewDowntime = Waterfall.Tc
       /\ ViewDowntime = {h.server + h.client : h \in HeroSplit}
       /\ ViewDowntime = Span(First(Failures),
                              First({t \in Successes : \A u \in Failures : u < t}))

\* The downtime of the view never exceeds the client offset of the waterfall,
\* and falls short of it exactly when a query failed after the recovery the
\* view settled on: the reports understate flapping runs and only those.
ViewUnderstatesFlapping ==
    \A tc \in Waterfall.Tc :
        \E d \in ViewDowntime :
            /\ d <= tc
            /\ d < tc <=> \E r \in FirstRecovery : \E f \in Failures : f > r

\* What is read early stays a lower bound: once the view reports a downtime,
\* later rows do not change it; what the runner measures vanishes while queries
\* fail again, and no value it reads is smaller than any it could have read
\* before, also across such a gap.
MeasuresSettle ==
    [][/\ ViewDowntime # {} => ViewDowntime' = ViewDowntime
       /\ \A d \in read : \A e \in MeasuredDowntime' : d <= e]_vars

\* The title of an iteration's charts is the downtime of the view, also of runs
\* cut to a window: the fallback to the milestones finds nothing the view does
\* not know (generate_charts.py:1877-1882).  The stacked bars of the phase chart
\* add up to it, whichever milestones are missing and in whatever order they
\* happened, as long as the window shows both ends of the outage; those of the
\* comparison do if all five milestones exist, and without a HAProxy they stop
\* at the promotion.
ChartTotalIsDowntime ==
    LET ms == MilestonesIn(Around(WindowShort))
        present(names) == Anchor # {} /\ \A m \in names : ms[m] # {}
        bothEnds(window) == (First(Failures) \cup FirstRecovery) \subseteq window
    IN  /\ IterationDowntime = ViewDowntime
        /\ bothEnds(Window) => \A d \in ViewDowntime : d = Total(Phases)
        /\ bothEnds(Around(WindowShort)) /\ present({"Deleted", "Promoted", "HaproxyUp"})
           => \A d \in ViewDowntime : d = ComparisonTotal
        /\ present({"Failure", "Deleted", "Promoted"}) /\ ms.HaproxyUp = {}
           => Span(ms.Failure, ms.Promoted) = {ComparisonTotal}

\* The red bars of the client lane are the outages: together they hold every
\* failed query and no successful one, the first is as long as the view's
\* downtime, the last ends with the waterfall's client offset, and there are
\* several exactly when the two differ.  The client recovery of the overlapping
\* phases is the end of the last; their other phases but the detection by the
\* DCS, which looks at the last deletion of the key, end no earlier than they
\* begin.  The latency timeline shows all of an outage that ended
\* (generate_charts.py:262-305, 328-346, 1536-1559).
OutagesAreShown ==
    LET red == {bar \in ClientLane : bar.kind = "fail"}
        first == {bar \in red : bar.from \in First(Failures)}
        overlap == OverlapPhases
    IN  /\ Window = DOMAIN timeline =>
              /\ \A f \in Failures : \E bar \in red : f \in bar.from..bar.to
              /\ \A s \in Successes : \A bar \in red : s \notin bar.from..(bar.to - 1)
              /\ \A d \in ViewDowntime : {bar.to - bar.from : bar \in first} = {d}
              /\ \A tc \in Waterfall.Tc : \A f \in First(Failures) :
                    /\ Last({bar.to : bar \in red}) = {f + tc}
                    /\ Cardinality(red) > 1 <=> ViewDowntime # {tc}
                    /\ Span(Last(Failures), {f + tc}) = overlap.ClientRecovery
        /\ \A d \in overlap.PatroniPromotion \cup overlap.RoutingDetection : d >= 0
        /\ Waterfall.Tc # {} => Failures \subseteq LatencyRows

\* The waterfall looks for the first event after the failure and the milestones
\* for the last of the run.  In a run the charts see whole both find a promotion
\* or neither does, the waterfall's is never the later one, and the two are the
\* same exactly when it happened once: what repeats is what they disagree on.  The
\* routing and the recovery are the same, whatever repeats.  (A node that was
\* started as primary counts for the waterfall only.)
WaterfallMatchesMilestones ==
    (Rows({"bornPrimary"}) = {} /\ Window = DOMAIN timeline)
    => LET ms == Milestones
           later(m) == {d \in Span(ms.Failure, ms[m]) : d > 0}
           agree(m, kinds, offset) ==
              /\ later(m) = {} <=> offset = {}
              /\ \A d \in later(m), e \in offset :
                    /\ e <= d
                    /\ e = d <=> Cardinality(After(Rows(kinds), First(Failures))) = 1
       IN  /\ agree("PgPromoted", {"promoteSeen", "promoteAsked"}, Waterfall.T0)
           /\ agree("Promoted", {"promoted"}, Waterfall.T1)
           /\ later("HaproxyUp") = Waterfall.T3
           /\ later("Recovery") = ViewDowntime

(***************************************************************************)
(* What the documents say                                                  *)
(***************************************************************************)

\* runner/README.md:107 and the reports' own methodology (generate_charts.py:1073
\* and 2034) define the downtime as first client failure -> first success after
\* last failure; the reports take it from the view.
DowntimeAsDocumented ==
    ViewDowntime = Span(First(Failures), First(After(Successes, Last(Failures))))
=============================================================================
