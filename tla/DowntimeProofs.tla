---------------------------- MODULE DowntimeProofs ----------------------------
(***************************************************************************)
(* Theorems about module Downtime, for a run of any length with rows of    *)
(* any of its kinds in any order.                                          *)
(***************************************************************************)
EXTENDS Downtime, DataFacts

-----------------------------------------------------------------------------
(* The inductive invariant: the rows are rows, what the reports compute is a *)
(* function of them, and what was read ended some outage after the kill.     *)

FailedAfterKill    == After(Failures, {killTs})
SucceededAfterKill == After(Successes, {killTs})

\* The downtime if g were the last failure.
DowntimeUpTo(g) == Span(First(FailedAfterKill), First(After(SucceededAfterKill, {g})))

ReadBefore == \A d \in read : \E g \in FailedAfterKill : d \in DowntimeUpTo(g)

\* What the runner measures is that of the last failure.
UpToLast ==
    \A d \in MeasuredDowntime :
        \E g \in FailedAfterKill : d \in DowntimeUpTo(g) /\ \A t \in FailedAfterKill : t <= g

NothingSmallerThanRead == read \subseteq Nat /\ \A d \in read, e \in MeasuredDowntime : d <= e

Typed == timeline \in Seq(Kinds) /\ killTs \in Nat

IInv ==
    /\ timeline \in Seq(Kinds)
    /\ Len(timeline) <= MaxRows
    /\ killTs \in KillTimes
    /\ ReadBefore

-----------------------------------------------------------------------------
(* Timestamps. *)

\* The first of a set.
LEMMA FirstIs ==
    ASSUME NEW S \in SUBSET Int, NEW x \in S, \A y \in S : x <= y
    PROVE  First(S) = {x}
<1>1. \A t \in S : (\A u \in S : t <= u) <=> t = x
  OBVIOUS
<1>. QED BY <1>1 DEF First

\* The last of a set.
LEMMA LastIs ==
    ASSUME NEW S \in SUBSET Int, NEW x \in S, \A y \in S : y <= x
    PROVE  Last(S) = {x}
<1>1. \A t \in S : (\A u \in S : t >= u) <=> t = x
  OBVIOUS
<1>. QED BY <1>1 DEF Last

\* A set of timestamps that is not empty has a first one.
LEMMA FirstExists ==
    ASSUME NEW S \in SUBSET Nat, S # {}
    PROVE  \E x \in S : First(S) = {x} /\ \A y \in S : x <= y
<1>1. PICK x \in S : \A y \in S : x <= y
  BY LeastElement
<1>. QED BY <1>1, FirstIs

\* One with a bound has a last one.
LEMMA LastExists ==
    ASSUME NEW n \in Nat, NEW S \in SUBSET (0..n), S # {}
    PROVE  \E x \in S : Last(S) = {x} /\ \A y \in S : y <= x
<1>1. PICK x \in S : \A y \in S : y <= x
  BY GreatestElement
<1>. QED BY <1>1, LastIs

\* Nothing has no first and no last.
LEMMA NoneOfNothing == First({}) = {} /\ Last({}) = {}
  BY DEF First, Last

\* A first or last timestamp is at most one.
LEMMA OneTimestamp ==
    ASSUME NEW S \in SUBSET Int
    PROVE  /\ First(S) \subseteq S /\ Last(S) \subseteq S
           /\ \A x, y \in First(S) : x = y
           /\ \A x, y \in Last(S) : x = y
  BY DEF First, Last

\* The differences between two.
LEMMA SpanMembers ==
    ASSUME NEW a, NEW b, NEW d
    PROVE  d \in Span(a, b) <=> \E u \in a, v \in b : d = v - u
  BY DEF Span

\* The difference between two that are there, or not.
LEMMA SpanOf ==
    /\ \A x, y : Span({x}, {y}) = {y - x}
    /\ \A b : Span({}, b) = {} /\ Span(b, {}) = {}
<1>1. ASSUME NEW x, NEW y PROVE Span({x}, {y}) = {y - x}
  <2>1. \A d : d \in Span({x}, {y}) <=> d = y - x
    BY SpanMembers
  <2>. QED BY <2>1
<1>2. ASSUME NEW b PROVE Span({}, b) = {} /\ Span(b, {}) = {}
  BY SpanMembers
<1>. QED BY <1>1, <1>2

\* So is a difference of two.
LEMMA OneSpan ==
    ASSUME NEW a \in SUBSET Int, NEW b \in SUBSET Int,
           \A x, y \in a : x = y, \A x, y \in b : x = y
    PROVE  Span(a, b) \in SUBSET Int /\ \A x, y \in Span(a, b) : x = y
<1>1. ASSUME NEW d \in Span(a, b) PROVE \E u \in a : \E v \in b : d = v - u
  BY DEF Span
<1>. QED BY <1>1

\* At most one element.
LEMMA OneCardinality ==
    ASSUME NEW S, \A x, y \in S : x = y
    PROVE  Cardinality(S) <= 1
<1>1. CASE S = {}
  BY <1>1, FS_EmptySet
<1>2. CASE S # {}
  <2>1. PICK x \in S : S = {x}
    BY <1>2
  <2>. QED BY <2>1, FS_Singleton
<1>. QED BY <1>1, <1>2

\* The rows of some kinds are positions of the run.
LEMMA RowsType ==
    ASSUME timeline \in Seq(Kinds)
    PROVE  /\ Len(timeline) \in Nat /\ DOMAIN timeline = 1..Len(timeline)
           /\ \A kinds : Rows(kinds) \in SUBSET (1..Len(timeline))
  BY DEF Rows

\* The successes and the failures of a run.
LEMMA OutcomeRows ==
    ASSUME timeline \in Seq(Kinds)
    PROVE  /\ Len(timeline) \in Nat
           /\ Failures \in SUBSET (1..Len(timeline))
           /\ Successes \in SUBSET (1..Len(timeline))
           /\ \A s \in Successes, f \in Failures : s # f
  BY DEF Failures, Successes, Rows

-----------------------------------------------------------------------------
(* Runs with an outage. *)

\* The first and the last failure, and what follows each.
LEMMA Outage ==
    ASSUME timeline \in Seq(Kinds), Failures # {}
    PROVE  \E first, last \in Failures :
              /\ First(Failures) = {first} /\ \A f \in Failures : first <= f
              /\ Last(Failures) = {last} /\ \A f \in Failures : f <= last
<1>1. Len(timeline) \in Nat /\ Failures \in SUBSET (0..Len(timeline)) /\ Failures \in SUBSET Nat
  BY OutcomeRows
<1>2. PICK first \in Failures : First(Failures) = {first} /\ \A f \in Failures : first <= f
  BY <1>1, FirstExists
<1>3. PICK last \in Failures : Last(Failures) = {last} /\ \A f \in Failures : f <= last
  BY <1>1, LastExists
<1>. QED BY <1>2, <1>3

\* Without failures nothing has a downtime.
LEMMA NoOutage ==
    ASSUME Failures = {}
    PROVE  ViewDowntime = {} /\ MeasuredDowntime = {} /\ Waterfall.Tc = {} /\ HeroSplit = {}
<1>1. First(Failures) = {} /\ After(Failures, {killTs}) = {}
  BY NoneOfNothing DEF After
<1>2. ViewDowntime = {}
  BY <1>1 DEF ViewDowntime, Span
<1>3. MeasuredDowntime = {}
  BY <1>1, NoneOfNothing DEF MeasuredDowntime, Span
<1>4. Waterfall.Tc = {}
  BY <1>1 DEF Waterfall, Span
<1>5. HeroSplit = {}
  BY <1>4 DEF HeroSplit
<1>. QED BY <1>2, <1>3, <1>4, <1>5

\* The hero chart splits the waterfall's client offset in two.
LEMMA HeroAddsUp ==
    ASSUME NEW tc \in Int, Waterfall.Tc = {tc}, 
           NEW server, server = Last(Waterfall.T0 \cup Waterfall.T1 \cup Waterfall.T2 \cup Waterfall.T3),
           server \subseteq Int
    PROVE  {h.server + h.client : h \in HeroSplit} = {tc}
<1> DEFINE split(c, done) == IF c < done THEN [server |-> c, client |-> 0]
                             ELSE [server |-> done, client |-> c - done]
           dones == IF server = {} THEN {0} ELSE server
<1>1. \A h : h \in HeroSplit <=> \E done \in dones : h = split(tc, done)
  <2>1. HeroSplit = {split(c, done) : c \in Waterfall.Tc, done \in dones}
    BY DEF HeroSplit
  <2> HIDE DEF split, dones
  <2>. QED BY <2>1
<1>2. dones \subseteq Int /\ dones # {}
  OBVIOUS
<1>3. ASSUME NEW done \in Int PROVE split(tc, done).server + split(tc, done).client = tc
  <2>1. CASE tc < done
    BY <2>1
  <2>2. CASE ~(tc < done)
    BY <2>2
  <2>. QED BY <2>1, <2>2
<1> HIDE DEF dones, split
<1>4. ASSUME NEW h \in HeroSplit PROVE h.server + h.client = tc
  <2>1. PICK done \in dones : h = split(tc, done)
    BY <1>1
  <2>2. done \in Int
    BY <1>2
  <2>. QED BY <1>3, <2>1, <2>2
<1>5. HeroSplit # {}
  BY <1>1, <1>2
<1>. QED BY <1>4, <1>5

\* What the numbers are in a run with an outage that ended, and in one with an
\* outage that did not.
LEMMA OutageNumbers ==
    ASSUME NEW first \in Int, First(Failures) = {first}
    PROVE  /\ FirstRecovery = First(After(Successes, {first}))
           /\ ViewDowntime = Span({first}, FirstRecovery)
           /\ Waterfall.Tc = Span({first}, First(After(Successes, Last(Failures))))
  BY DEF FirstRecovery, ViewDowntime, Waterfall

\* The rows after a timestamp.
LEMMA AfterOne ==
    ASSUME NEW S, NEW x
    PROVE  After(S, {x}) = {t \in S : t > x}
  BY DEF After

\* Timestamps of the waterfall are numbers, each at most one.
LEMMA WaterfallType ==
    ASSUME timeline \in Seq(Kinds)
    PROVE  /\ DOMAIN Waterfall = {"T0", "T1", "T2", "T3", "T4", "Tc"}
           /\ \A m \in DOMAIN Waterfall :
                 Waterfall[m] \in SUBSET Int /\ \A x, y \in Waterfall[m] : x = y
<1> DEFINE offset(kinds) == Span(First(Failures), First(After(Rows(kinds), First(Failures))))
<1>1. /\ First(Failures) \in SUBSET Int /\ \A x, y \in First(Failures) : x = y
      /\ Last(Failures) \in SUBSET Int
  BY OutcomeRows, OneTimestamp
<1>2. ASSUME NEW S \in SUBSET Int, NEW x
      PROVE  First(After(S, x)) \in SUBSET Int /\ \A t, u \in First(After(S, x)) : t = u
  <2>1. After(S, x) \in SUBSET Int
    BY DEF After
  <2>. QED BY <2>1, OneTimestamp
<1>3. ASSUME NEW kinds PROVE offset(kinds) \in SUBSET Int /\ \A x, y \in offset(kinds) : x = y
  <2>1. Rows(kinds) \in SUBSET Int
    BY RowsType
  <2>. QED BY <1>1, <1>2, <2>1, OneSpan
<1> DEFINE tc == Span(First(Failures), First(After(Successes, Last(Failures))))
<1>4. tc \in SUBSET Int /\ \A x, y \in tc : x = y
  <2>1. Successes \in SUBSET Int
    BY OutcomeRows
  <2>. QED BY <1>1, <1>2, <2>1, OneSpan
<1>5. Waterfall = [T0 |-> offset({"promoteSeen", "promoteAsked"}),
                   T1 |-> offset({"promoted", "bornPrimary"}),
                   T2 |-> offset({"created"}),
                   T3 |-> offset({"primaryUp"}),
                   T4 |-> offset({"ready"}),
                   Tc |-> tc]
  BY DEF Waterfall
<1> HIDE DEF offset, tc
<1>6. DOMAIN Waterfall = {"T0", "T1", "T2", "T3", "T4", "Tc"}
  BY <1>5
<1>7. /\ Waterfall["T0"] = offset({"promoteSeen", "promoteAsked"})
      /\ Waterfall["T1"] = offset({"promoted", "bornPrimary"})
      /\ Waterfall["T2"] = offset({"created"})
      /\ Waterfall["T3"] = offset({"primaryUp"})
      /\ Waterfall["T4"] = offset({"ready"})
      /\ Waterfall["Tc"] = tc
  BY <1>5
<1>8. ASSUME NEW m \in DOMAIN Waterfall
      PROVE  Waterfall[m] = tc \/ \E kinds : Waterfall[m] = offset(kinds)
  BY <1>6, <1>7, Zenon
<1>9. ASSUME NEW m \in DOMAIN Waterfall
      PROVE  Waterfall[m] \in SUBSET Int /\ \A x, y \in Waterfall[m] : x = y
  <2>1. CASE Waterfall[m] = tc
    BY <1>4, <2>1
  <2>2. ASSUME NEW kinds, Waterfall[m] = offset(kinds)
        PROVE  Waterfall[m] \in SUBSET Int /\ \A x, y \in Waterfall[m] : x = y
    BY <1>3, <2>2
  <2>. QED BY <1>8, <2>1, <2>2
<1>. QED BY <1>6, <1>9

-----------------------------------------------------------------------------
(* The properties of every run. *)

\* One outage: after its first failure means after its last.
LEMMA OneOutage ==
    ASSUME timeline \in Seq(Kinds), killTs \in Nat, NEW first \in Failures, NEW last \in Failures,
           First(Failures) = {first}, \A f \in Failures : first <= f,
           Last(Failures) = {last}, \A f \in Failures : f <= last,
           \A f \in Failures : f > killTs,
           \A f, g \in Failures : \A s \in Successes : ~ (f < s /\ s < g)
    PROVE  /\ After(Successes, {first}) = {s \in Successes : s > last}
           /\ After(Failures, {killTs}) = Failures
           /\ After(After(Successes, {killTs}), {last}) = {s \in Successes : s > last}
           /\ {t \in Successes : \A u \in Failures : u < t} = {s \in Successes : s > last}
<1>1. /\ Failures \in SUBSET Nat /\ Successes \in SUBSET Nat
      /\ \A s \in Successes, f \in Failures : s # f
  BY OutcomeRows
<1>2. \A s \in Successes : s > first <=> s > last
  BY <1>1
<1>3. \A s \in Successes : s > last => s > killTs
  BY <1>1
<1>4. \A s \in Successes : (\A u \in Failures : u < s) <=> s > last
  BY <1>1
<1>5. After(Successes, {first}) = {s \in Successes : s > last}
  BY <1>2, AfterOne
<1>6. After(Failures, {killTs}) = Failures
  <2>1. After(Failures, {killTs}) = {t \in Failures : t > killTs}
    BY AfterOne
  <2>. QED BY <2>1
<1>7. After(After(Successes, {killTs}), {last}) = {s \in Successes : s > last}
  BY <1>3, AfterOne
<1>. QED BY <1>4, <1>5, <1>6, <1>7

\* One outage, one number.
LEMMA Agreement == IInv => OneOutageAgreement
<1> DEFINE recovery == First({t \in Successes : \A u \in Failures : u < t})
<1> SUFFICES ASSUME timeline \in Seq(Kinds), killTs \in Nat,
                    \A f \in Failures : f > killTs,
                    \A f, g \in Failures : \A s \in Successes : ~ (f < s /\ s < g)
             PROVE  /\ ViewDowntime = MeasuredDowntime
                    /\ ViewDowntime = Waterfall.Tc
                    /\ ViewDowntime = {h.server + h.client : h \in HeroSplit}
                    /\ ViewDowntime = Span(First(Failures), recovery)
  <2>1. IInv => timeline \in Seq(Kinds) /\ killTs \in Nat
    BY DowntimeAssumption DEF IInv
  <2>. QED BY <2>1, Zenon DEF OneOutageAgreement
<1>1. CASE Failures = {}
  <2>1. First(Failures) = {}
    BY <1>1, NoneOfNothing
  <2>2. \A b : Span(First(Failures), b) = {}
    BY <2>1, SpanOf
  <2>3. {h.server + h.client : h \in HeroSplit} = {}
    BY <1>1, NoOutage
  <2>. QED BY <1>1, <2>2, <2>3, NoOutage
<1>2. CASE Failures # {}
  <2>1. PICK first, last \in Failures :
           /\ First(Failures) = {first} /\ \A f \in Failures : first <= f
           /\ Last(Failures) = {last} /\ \A f \in Failures : f <= last
    BY <1>2, Outage
  <2>2. /\ Failures \in SUBSET Nat /\ Successes \in SUBSET Nat
    BY OutcomeRows
  <2> DEFINE later == {s \in Successes : s > last}
  <2>3. /\ After(Successes, {first}) = later
        /\ After(Failures, {killTs}) = Failures
        /\ After(After(Successes, {killTs}), {last}) = later
        /\ {t \in Successes : \A u \in Failures : u < t} = later
    BY <2>1, OneOutage
  <2>4. After(Successes, Last(Failures)) = later
    BY <2>1, AfterOne
  <2>5. later \in SUBSET Nat
    BY <2>2
  <2> HIDE DEF later
  <2>5a. first \in Int
    BY <2>2
  <2>5b. /\ FirstRecovery = First(After(Successes, {first}))
         /\ ViewDowntime = Span({first}, FirstRecovery)
         /\ Waterfall.Tc = Span({first}, First(After(Successes, Last(Failures))))
    BY <2>1, <2>5a, OutageNumbers
  <2>6. ViewDowntime = Span({first}, First(later))
    BY <2>3, <2>5b
  <2>7. Waterfall.Tc = Span({first}, First(later))
    BY <2>4, <2>5b
  <2>8. MeasuredDowntime = Span({first}, First(later))
    BY <2>1, <2>3 DEF MeasuredDowntime
  <2>9. {h.server + h.client : h \in HeroSplit} = Waterfall.Tc
    <3>1. CASE later = {}
      <4>1. Waterfall.Tc = {}
        BY <2>7, <3>1, NoneOfNothing, SpanOf
      <4>2. HeroSplit = {}
        BY <4>1 DEF HeroSplit
      <4>. QED BY <4>1, <4>2
    <3>2. CASE later # {}
      <4>1. PICK r \in later : First(later) = {r}
        BY <2>5, <3>2, FirstExists
      <4>2. Waterfall.Tc = {r - first} /\ r - first \in Int
        <5>1. r \in Int
          BY <2>5, <4>1
        <5>2. Span({first}, {r}) = {r - first}
          BY SpanOf
        <5>3. r - first \in Int
          BY <2>5a, <5>1
        <5>. QED BY <2>7, <4>1, <5>2, <5>3
      <4> DEFINE offsets == Waterfall.T0 \cup Waterfall.T1 \cup Waterfall.T2 \cup Waterfall.T3
      <4>3. offsets \in SUBSET Int
        BY WaterfallType
      <4>4. Last(offsets) \subseteq Int
        BY <4>3, OneTimestamp
      <4>. QED BY <4>2, <4>4, HeroAddsUp
    <3>. QED BY <3>1, <3>2
  <2>. QED BY <2>1, <2>3, <2>6, <2>7, <2>8, <2>9
<1>. QED BY <1>1, <1>2

\* The view understates the outage only when a query failed after its recovery.
LEMMA Understates == IInv => ViewUnderstatesFlapping
<1> SUFFICES ASSUME timeline \in Seq(Kinds), NEW tc \in Waterfall.Tc
             PROVE  \E d \in ViewDowntime :
                       /\ d <= tc
                       /\ d < tc <=> \E r \in FirstRecovery : \E f \in Failures : f > r
  BY DEF IInv, ViewUnderstatesFlapping
<1>1. Failures # {}
  BY NoOutage
<1>2. PICK first, last \in Failures :
         /\ First(Failures) = {first} /\ \A f \in Failures : first <= f
         /\ Last(Failures) = {last} /\ \A f \in Failures : f <= last
  BY <1>1, Outage
<1>3. /\ Failures \in SUBSET Nat /\ Successes \in SUBSET Nat
      /\ \A s \in Successes, f \in Failures : s # f
  BY OutcomeRows
<1> DEFINE afterFirst == {s \in Successes : s > first}
           afterLast == {s \in Successes : s > last}
<1>4. After(Successes, {first}) = afterFirst /\ After(Successes, {last}) = afterLast
  BY AfterOne
<1>5. ViewDowntime = Span({first}, First(afterFirst)) /\ FirstRecovery = First(afterFirst)
      /\ Waterfall.Tc = Span({first}, First(afterLast))
  <2>1. first \in Int
    BY <1>3
  <2>2. /\ FirstRecovery = First(After(Successes, {first}))
        /\ ViewDowntime = Span({first}, FirstRecovery)
        /\ Waterfall.Tc = Span({first}, First(After(Successes, Last(Failures))))
    BY <1>2, <2>1, OutageNumbers
  <2> HIDE DEF afterFirst, afterLast
  <2>. QED BY <1>2, <1>4, <2>2
<1>6. afterLast # {}
  BY <1>5, NoneOfNothing, SpanOf
<1>7. afterLast \subseteq afterFirst /\ afterFirst \in SUBSET Nat /\ afterLast \in SUBSET Nat
  <2>1. first \in Nat /\ last \in Nat /\ first <= last
    BY <1>2, <1>3
  <2>2. \A s \in Successes : s > last => s > first
    BY <1>3, <2>1
  <2>. QED BY <1>3, <2>2
<1>8. PICK r1 \in afterLast : First(afterLast) = {r1} /\ \A y \in afterLast : r1 <= y
  <2> HIDE DEF afterLast
  <2>. QED BY <1>6, <1>7, FirstExists
<1>9. PICK r0 \in afterFirst : First(afterFirst) = {r0} /\ \A y \in afterFirst : r0 <= y
  <2> HIDE DEF afterFirst, afterLast
  <2>. QED BY <1>6, <1>7, FirstExists
<1>10. tc = r1 - first /\ ViewDowntime = {r0 - first} /\ FirstRecovery = {r0}
  BY <1>5, <1>8, <1>9, SpanOf
<1>11. r0 \in Nat /\ r1 \in Nat /\ first \in Nat /\ r0 <= r1
  BY <1>3, <1>7, <1>8, <1>9
<1>12. ASSUME r0 < r1 PROVE \E f \in Failures : f > r0
  <2>1. ~(r0 > last)
    BY <1>8, <1>9, <1>11, <1>12
  <2>2. last > r0
    BY <1>3, <1>9, <2>1
  <2>. QED BY <2>2
<1>13. ASSUME NEW f \in Failures, f > r0 PROVE r0 < r1
  BY <1>2, <1>3, <1>8, <1>11, <1>13
<1>. QED BY <1>10, <1>11, <1>12, <1>13

-----------------------------------------------------------------------------
(* One more row. *)

\* It is at the end.
LEMMA OneMoreRow ==
    ASSUME timeline \in Seq(Kinds), NEW kind \in Kinds, timeline' = Append(timeline, kind)
    PROVE  /\ Len(timeline) \in Nat
           /\ Failures \in SUBSET (1..Len(timeline)) /\ Successes \in SUBSET (1..Len(timeline))
           /\ Failures' = Failures \/ Failures' = Failures \cup {Len(timeline) + 1}
           /\ Successes' = Successes \/ Successes' = Successes \cup {Len(timeline) + 1}
<1>1. /\ Len(timeline) \in Nat /\ DOMAIN timeline = 1..Len(timeline)
      /\ timeline' = Append(timeline, kind)
      /\ DOMAIN timeline' = 1..(Len(timeline) + 1)
      /\ \A t \in DOMAIN timeline : timeline'[t] = timeline[t]
      /\ timeline'[Len(timeline) + 1] = kind
  OBVIOUS
<1>2. ASSUME NEW k
      PROVE  \/ {t \in DOMAIN timeline' : timeline'[t] \in {k}} = {t \in DOMAIN timeline : timeline[t] \in {k}}
             \/ {t \in DOMAIN timeline' : timeline'[t] \in {k}}
                  = {t \in DOMAIN timeline : timeline[t] \in {k}} \cup {Len(timeline) + 1}
  <2>1. \A t : t \in DOMAIN timeline' <=> t \in DOMAIN timeline \/ t = Len(timeline) + 1
    BY <1>1
  <2>2. CASE kind = k
    BY <1>1, <2>1, <2>2
  <2>3. CASE kind # k
    BY <1>1, <2>1, <2>3
  <2>. QED BY <2>2, <2>3
<1>3. Failures' = Failures \/ Failures' = Failures \cup {Len(timeline) + 1}
  BY <1>2 DEF Failures, Rows
<1>4. Successes' = Successes \/ Successes' = Successes \cup {Len(timeline) + 1}
  BY <1>2 DEF Successes, Rows
<1>. QED BY <1>3, <1>4, OutcomeRows

\* A downtime the view reports is final.
LEMMA ViewSettles ==
    ASSUME timeline \in Seq(Kinds), NEW kind \in Kinds, timeline' = Append(timeline, kind),
           ViewDowntime # {}
    PROVE  ViewDowntime' = ViewDowntime
<1> DEFINE n == Len(timeline)
<1>1. /\ n \in Nat
      /\ Failures \in SUBSET (1..n) /\ Successes \in SUBSET (1..n)
      /\ Failures' = Failures \/ Failures' = Failures \cup {n + 1}
      /\ Successes' = Successes \/ Successes' = Successes \cup {n + 1}
  BY OneMoreRow
<1>2. PICK first \in Failures : First(Failures) = {first} /\ \A f \in Failures : first <= f
  BY NoOutage, Outage
<1>3. First(Failures') = {first}
  BY <1>1, <1>2, FirstIs
<1> DEFINE A == After(Successes, {first})
           B == After(Successes', {first})
<1>4. ViewDowntime = Span({first}, First(A))
  BY <1>2 DEF ViewDowntime, FirstRecovery
<1>5. ViewDowntime' = Span({first}, First(B))
  BY <1>3 DEF ViewDowntime, FirstRecovery
<1>6. A \in SUBSET Nat /\ A # {}
  <2>1. A \in SUBSET Nat
    <3>1. A = {t \in Successes : t > first}
      BY AfterOne
    <3> HIDE DEF n, A
    <3>2. A \subseteq Successes /\ Successes \subseteq 1..n
      BY <1>1, <3>1
    <3>. QED BY <1>1, <3>2
  <2>2. A # {}
    BY <1>4, NoneOfNothing, SpanOf
  <2>. QED BY <2>1, <2>2
<1>7. PICK r \in A : First(A) = {r} /\ \A y \in A : r <= y
  <2> HIDE DEF A
  <2>. QED BY <1>6, FirstExists
<1>8. r \in B /\ B \in SUBSET Int /\ \A y \in B : r <= y
  <2>1. A = {t \in Successes : t > first} /\ B = {t \in Successes' : t > first}
    BY AfterOne
  <2>2. r \in Successes /\ r \in 1..n /\ r > first
    BY <1>1, <1>7, <2>1
  <2>3. r \in B /\ B \in SUBSET Int
    <3>1. Successes' \subseteq Int /\ r \in Successes'
      <4> HIDE DEF n
      <4>1. Successes' \subseteq Successes \cup {n + 1} /\ Successes \subseteq Successes'
        BY <1>1
      <4>2. Successes \subseteq Int /\ n + 1 \in Int
        BY <1>1
      <4>. QED BY <2>2, <4>1, <4>2
    <3> HIDE DEF B
    <3>. QED BY <2>1, <2>2, <3>1
  <2>4. ASSUME NEW y \in B PROVE r <= y
    <3>1. y \in Successes' /\ y > first
      BY <2>1, <2>4
    <3>2. y \in Successes \/ y = n + 1
      BY <1>1, <3>1
    <3>3. CASE y \in Successes
      BY <1>7, <2>1, <3>1, <3>3
    <3>4. CASE y = n + 1
      BY <1>1, <2>2, <3>4
    <3>. QED BY <3>2, <3>3, <3>4
  <2>. QED BY <2>3, <2>4
<1>9. First(B) = {r}
  <2> HIDE DEF B
  <2>. QED BY <1>8, FirstIs
<1>. QED BY <1>4, <1>5, <1>7, <1>9

\* The failures and successes after the kill are numbers.
LEMMA AfterKill ==
    ASSUME timeline \in Seq(Kinds), killTs \in Nat
    PROVE  /\ Len(timeline) \in Nat
           /\ FailedAfterKill = {t \in Failures : t > killTs}
           /\ SucceededAfterKill = {t \in Successes : t > killTs}
           /\ FailedAfterKill \in SUBSET (0..Len(timeline)) /\ FailedAfterKill \in SUBSET Nat
           /\ SucceededAfterKill \in SUBSET Nat
<1>1. /\ Len(timeline) \in Nat
      /\ Failures \in SUBSET (1..Len(timeline)) /\ Successes \in SUBSET (1..Len(timeline))
  BY OutcomeRows
<1>2. /\ FailedAfterKill = {t \in Failures : t > killTs}
      /\ SucceededAfterKill = {t \in Successes : t > killTs}
  BY AfterOne DEF FailedAfterKill, SucceededAfterKill
<1>3. FailedAfterKill \subseteq Failures /\ SucceededAfterKill \subseteq Successes
  BY <1>2
<1>4. FailedAfterKill \in SUBSET (0..Len(timeline)) /\ FailedAfterKill \in SUBSET Nat
  <2>1. \A t \in Failures : t \in 0..Len(timeline) /\ t \in Nat
    BY <1>1
  <2>. QED BY <1>3, <2>1
<1>5. SucceededAfterKill \in SUBSET Nat
  <2>1. \A t \in Successes : t \in Nat
    BY <1>1
  <2>. QED BY <1>3, <2>1
<1>. QED BY <1>1, <1>2, <1>4, <1>5

\* A downtime that ended with the outage of one failure.
LEMMA DowntimeMembers ==
    ASSUME timeline \in Seq(Kinds), killTs \in Nat, NEW g \in FailedAfterKill, NEW d \in DowntimeUpTo(g)
    PROVE  \E f \in FailedAfterKill, r \in SucceededAfterKill :
              /\ First(FailedAfterKill) = {f} /\ f <= g /\ g < r /\ d = r - f
              /\ First(After(SucceededAfterKill, {g})) = {r}
              /\ \A t \in SucceededAfterKill : t > g => r <= t
<1>1. FailedAfterKill \in SUBSET Nat /\ SucceededAfterKill \in SUBSET Nat
  BY AfterKill
<1>2. PICK f \in FailedAfterKill : First(FailedAfterKill) = {f} /\ \A y \in FailedAfterKill : f <= y
  BY <1>1, FirstExists
<1>3. PICK r \in First(After(SucceededAfterKill, {g})) : d = r - f
  BY <1>2, SpanMembers DEF DowntimeUpTo
<1> DEFINE A == After(SucceededAfterKill, {g})
<1>4. A = {t \in SucceededAfterKill : t > g}
  BY AfterOne
<1>5. r \in A /\ \A t \in A : r <= t
  BY <1>3 DEF First
<1>6. First(A) = {r}
  <2>1. \A t \in A : t \in SucceededAfterKill
    BY <1>4
  <2> HIDE DEF A
  <2>2. A \in SUBSET Int
    <3>1. ASSUME NEW t \in A PROVE t \in Int
      <4>1. t \in SucceededAfterKill /\ SucceededAfterKill \subseteq Nat
        BY <1>1, <2>1
      <4>. QED BY <4>1
    <3>. QED BY <3>1
  <2>. QED BY <1>5, <2>2, FirstIs
<1>. QED BY <1>2, <1>3, <1>4, <1>5, <1>6

\* What the runner measures is that of the last failure.
LEMMA MeasuredUpToLast == Typed => UpToLast
<1> SUFFICES ASSUME timeline \in Seq(Kinds), killTs \in Nat, NEW d \in MeasuredDowntime
             PROVE  \E g \in FailedAfterKill :
                        d \in DowntimeUpTo(g) /\ \A t \in FailedAfterKill : t <= g
  BY DEF Typed, UpToLast
<1>1. MeasuredDowntime = Span(First(FailedAfterKill),
                              First(After(SucceededAfterKill, Last(FailedAfterKill))))
  BY DEF MeasuredDowntime, FailedAfterKill, SucceededAfterKill
<1>2. Len(timeline) \in Nat /\ FailedAfterKill \in SUBSET (0..Len(timeline))
  BY AfterKill
<1>3. FailedAfterKill # {}
  BY <1>1, NoneOfNothing, SpanOf
<1>4. PICK g \in FailedAfterKill : Last(FailedAfterKill) = {g} /\ \A t \in FailedAfterKill : t <= g
  BY <1>2, <1>3, LastExists
<1>. QED BY <1>1, <1>4 DEF DowntimeUpTo

\* No value is smaller than one that was read.
LEMMA ReadIsLowest == IInv => NothingSmallerThanRead
<1> SUFFICES ASSUME timeline \in Seq(Kinds), killTs \in Nat, ReadBefore
             PROVE  /\ read \subseteq Nat
                    /\ \A d \in read, e \in MeasuredDowntime : d <= e
  BY DowntimeAssumption DEF IInv, NothingSmallerThanRead
<1>1. FailedAfterKill \in SUBSET Nat /\ SucceededAfterKill \in SUBSET Nat
  BY AfterKill
<1>2. ASSUME NEW d \in read
      PROVE  \E g, f \in FailedAfterKill, r \in SucceededAfterKill :
                /\ First(FailedAfterKill) = {f} /\ f <= g /\ g < r /\ d = r - f
                /\ \A t \in SucceededAfterKill : t > g => r <= t
  <2>1. PICK g \in FailedAfterKill : d \in DowntimeUpTo(g)
    BY DEF ReadBefore
  <2>2. PICK f \in FailedAfterKill, r \in SucceededAfterKill :
                /\ First(FailedAfterKill) = {f} /\ f <= g /\ g < r /\ d = r - f
                /\ \A t \in SucceededAfterKill : t > g => r <= t
    BY <2>1, DowntimeMembers
  <2>. QED BY <2>2
<1>3. ASSUME NEW d \in read PROVE d \in Nat
  BY <1>1, <1>2
<1>4. ASSUME NEW d \in read, NEW e \in MeasuredDowntime PROVE d <= e
  <2>1. PICK g, f \in FailedAfterKill, r \in SucceededAfterKill :
                /\ First(FailedAfterKill) = {f} /\ f <= g /\ g < r /\ d = r - f
                /\ \A t \in SucceededAfterKill : t > g => r <= t
    BY <1>2
  <2>2. PICK h \in FailedAfterKill : e \in DowntimeUpTo(h) /\ \A t \in FailedAfterKill : t <= h
    BY MeasuredUpToLast DEF Typed, UpToLast
  <2>3. PICK u \in FailedAfterKill, v \in SucceededAfterKill :
                First(FailedAfterKill) = {u} /\ h < v /\ e = v - u
    BY <2>2, DowntimeMembers
  <2>4. u = f
    BY <2>1, <2>3
  <2>5. v > g
    BY <1>1, <2>2, <2>3
  <2>. QED BY <1>1, <2>1, <2>3, <2>4, <2>5
<1>. QED BY <1>3, <1>4

\* A row at the end changes no outage that has ended.
LEMMA OutageStays ==
    ASSUME timeline \in Seq(Kinds), killTs \in Nat, NEW kind \in Kinds,
           timeline' = Append(timeline, kind), killTs' = killTs,
           NEW g \in FailedAfterKill, NEW d \in DowntimeUpTo(g)
    PROVE  g \in FailedAfterKill' /\ d \in Span(First(FailedAfterKill'), First(After(SucceededAfterKill', {g})))
<1> DEFINE n == Len(timeline)
           F == FailedAfterKill
           S == SucceededAfterKill
           F2 == FailedAfterKill'
           S2 == SucceededAfterKill'
<1>1. /\ n \in Nat
      /\ Failures \in SUBSET (1..n) /\ Successes \in SUBSET (1..n)
      /\ Failures' = Failures \/ Failures' = Failures \cup {n + 1}
      /\ Successes' = Successes \/ Successes' = Successes \cup {n + 1}
  BY OneMoreRow
<1>2. /\ F = {t \in Failures : t > killTs} /\ F2 = {t \in Failures' : t > killTs}
      /\ S = {t \in Successes : t > killTs} /\ S2 = {t \in Successes' : t > killTs}
  BY AfterOne DEF FailedAfterKill, SucceededAfterKill
<1>3. PICK f \in F, r \in S :
              /\ First(F) = {f} /\ f <= g /\ g < r /\ d = r - f
              /\ \A t \in S : t > g => r <= t
  BY DowntimeMembers
<1>4. g \in F
  OBVIOUS
<1> HIDE DEF n, F, S, F2, S2
<1>5. /\ F \in SUBSET (1..n) /\ S \in SUBSET (1..n) /\ F \subseteq F2 /\ S \subseteq S2
      /\ \A t \in F2 : t \in F \/ t = n + 1
      /\ \A t \in S2 : t \in S \/ t = n + 1
  BY <1>1, <1>2
<1>6. First(F2) = {f}
  <2>1. \A y \in F : f <= y
    BY <1>3 DEF First
  <2>2. f \in F2 /\ F2 \in SUBSET Int /\ \A y \in F2 : f <= y
    BY <1>1, <1>3, <1>5, <2>1
  <2>. QED BY <2>2, FirstIs
<1>7. First(After(S2, {g})) = {r}
  <2> DEFINE A == After(S2, {g})
  <2>1. A = {t \in S2 : t > g}
    BY AfterOne
  <2>2. \A y : y \in A <=> y \in S2 /\ y > g
    BY <2>1
  <2>3. S2 \in SUBSET Int /\ r \in S2 /\ r > g
    BY <1>1, <1>3, <1>5
  <2>4. ASSUME NEW y \in A PROVE r <= y
    <3>1. y \in S2 /\ y > g
      BY <2>2
    <3>2. CASE y \in S
      BY <1>3, <3>1, <3>2
    <3>3. CASE y = n + 1
      <4>1. r \in 1..n
        BY <1>3, <1>5
      <4>. QED BY <1>1, <3>3, <4>1
    <3>. QED BY <1>5, <3>1, <3>2, <3>3
  <2> HIDE DEF A
  <2>5. A \in SUBSET Int /\ r \in A
    BY <2>2, <2>3
  <2>6. First(A) = {r}
    BY <2>4, <2>5, FirstIs
  <2>. QED BY <2>6 DEF A
<1>8. Span({f}, {r}) = {d}
  BY <1>3, SpanOf
<1>. QED BY <1>4, <1>5, <1>6, <1>7, <1>8 DEF F2, S2

-----------------------------------------------------------------------------
(* The theorems. *)

\* Rows are appended, one of the kinds at a time, and what is read is the end of
\* an outage.
THEOREM Invariance == Spec => []IInv
<1>1. Init => IInv
  BY DowntimeAssumption DEF Init, IInv, ReadBefore
<1>2. IInv /\ [Next]_vars => IInv'
  <2> SUFFICES ASSUME IInv, [Next]_vars PROVE IInv'
    OBVIOUS
  <2>1. ASSUME NEW kind \in Kinds, Insert(kind) PROVE IInv'
    <3>1. /\ timeline \in Seq(Kinds) /\ Len(timeline) \in Nat /\ MaxRows \in Nat
          /\ killTs \in Nat /\ ReadBefore
      BY DowntimeAssumption DEF IInv
    <3>2. /\ timeline' = Append(timeline, kind) /\ Len(timeline) < MaxRows /\ killTs' = killTs
          /\ read' = read \cup MeasuredDowntime'
      BY <2>1 DEF Insert
    <3>3. timeline' \in Seq(Kinds) /\ Len(timeline') = Len(timeline) + 1
      BY <3>1, <3>2
    <3>4. ASSUME NEW d \in read PROVE \E g \in FailedAfterKill' : d \in DowntimeUpTo(g)'
      <4>1. PICK g \in FailedAfterKill : d \in DowntimeUpTo(g)
        BY <3>1 DEF ReadBefore
      <4>2. /\ g \in FailedAfterKill'
            /\ d \in Span(First(FailedAfterKill'), First(After(SucceededAfterKill', {g})))
        BY <3>1, <3>2, <4>1, OutageStays
      <4>. QED BY <4>2 DEF DowntimeUpTo
    <3>5. ASSUME NEW d \in MeasuredDowntime' PROVE \E g \in FailedAfterKill' : d \in DowntimeUpTo(g)'
      <4>1. Typed'
        BY <3>1, <3>2, <3>3 DEF Typed
      <4>2. Typed' => UpToLast'
        BY MeasuredUpToLast, PTL
      <4>. QED BY <4>1, <4>2 DEF UpToLast
    <3>6. ReadBefore'
      BY <3>2, <3>4, <3>5 DEF ReadBefore
    <3>. QED BY <2>1, <3>1, <3>2, <3>3, <3>6 DEF IInv
  <2>2. ASSUME UNCHANGED vars PROVE IInv'
    <3>1. UNCHANGED <<timeline, killTs, read>>
      BY <2>2 DEF vars
    <3>2. FailedAfterKill' = FailedAfterKill /\ SucceededAfterKill' = SucceededAfterKill
      BY <3>1 DEF FailedAfterKill, SucceededAfterKill, Failures, Successes, Rows, After
    <3>3. ReadBefore'
      BY <3>1, <3>2 DEF IInv, ReadBefore, DowntimeUpTo
    <3>. QED BY <3>1, <3>3 DEF IInv
  <2>. QED BY <2>1, <2>2 DEF Next
<1>. QED BY <1>1, <1>2, PTL DEF Spec

\* Milestones are positions of the run, at most one of each.
LEMMA MilestonesType ==
    ASSUME timeline \in Seq(Kinds), NEW m \in DOMAIN Milestones
    PROVE  Cardinality(Milestones[m]) <= 1
<1> DEFINE within(kinds) == Rows(kinds) \cap Window
           failure == First(within({"fail"}))
<1>1. ASSUME NEW kinds PROVE within(kinds) \in SUBSET Int
  BY RowsType
<1>2. ASSUME NEW S \in SUBSET Int, NEW x \in SUBSET Int
      PROVE  First(S) \in SUBSET Int /\ From(S, x) \in SUBSET Int /\ After(S, x) \in SUBSET Int
  BY DEF First, From, After
<1>3. ASSUME NEW S \in SUBSET Int PROVE Cardinality(First(S)) <= 1 /\ Cardinality(Last(S)) <= 1
  BY OneTimestamp, OneCardinality
<1>4. failure \in SUBSET Int
  BY <1>1, <1>2
<1>5. Milestones = [Failure    |-> failure,
                    Deleted    |-> Last(within({"deleted"})),
                    PgPromoted |-> Last(within({"promoteSeen", "promoteAsked"})),
                    Promoted   |-> Last(within({"promoted"})),
                    HaproxyUp  |-> First(From(within({"primaryUp"}), failure)),
                    Recovery   |-> First(After(within({"ok"}), failure))]
  BY DEF Milestones, MilestonesIn
<1>6. Milestones[m] \in {failure, Last(within({"deleted"})),
         Last(within({"promoteSeen", "promoteAsked"})), Last(within({"promoted"})),
         First(From(within({"primaryUp"}), failure)), First(After(within({"ok"}), failure))}
  BY <1>5
<1>7. Cardinality(failure) <= 1
  BY <1>1, <1>3
<1>8. /\ Cardinality(Last(within({"deleted"}))) <= 1
      /\ Cardinality(Last(within({"promoteSeen", "promoteAsked"}))) <= 1
      /\ Cardinality(Last(within({"promoted"}))) <= 1
  BY <1>1, <1>3
<1>9. /\ Cardinality(First(From(within({"primaryUp"}), failure))) <= 1
      /\ Cardinality(First(After(within({"ok"}), failure))) <= 1
  BY <1>1, <1>2, <1>3, <1>4
<1> HIDE DEF within, failure
<1>. QED BY <1>6, <1>7, <1>8, <1>9

\* The rows are rows, and a timestamp the reports compute is one or none.
THEOREM TypeCorrect == Spec => []TypeOK
<1>1. IInv => TypeOK
  <2> SUFFICES ASSUME IInv PROVE TypeOK
    OBVIOUS
  <2>1. \A m \in DOMAIN Milestones : Cardinality(Milestones[m]) <= 1
    BY MilestonesType DEF IInv
  <2>2. \A m \in DOMAIN Waterfall : Cardinality(Waterfall[m]) <= 1
    BY WaterfallType, OneCardinality DEF IInv
  <2>. QED BY <2>1, <2>2, ReadIsLowest DEF IInv, TypeOK, NothingSmallerThanRead
<1>. QED BY Invariance, <1>1, PTL

\* In a run with one outage after the kill, the view, the runner, the waterfall
\* and the hero chart report the same downtime.
THEOREM OneOutageOneNumber == Spec => []OneOutageAgreement
  BY Invariance, Agreement, PTL

\* In every run, the view reports less than the waterfall exactly when a query
\* failed after the recovery it settled on.
THEOREM ViewIsALowerBound == Spec => []ViewUnderstatesFlapping
  BY Invariance, Understates, PTL

\* A downtime the view reports is final, and no value the runner reads is smaller
\* than any it could have read before, also when it had none in between.
THEOREM ReportsSettle == Spec => MeasuresSettle
<1> DEFINE Settles == /\ ViewDowntime # {} => ViewDowntime' = ViewDowntime
                      /\ \A d \in read : \A e \in MeasuredDowntime' : d <= e
<1>1. ASSUME IInv, IInv', Next PROVE Settles
  <2>1. PICK kind \in Kinds : Insert(kind)
    BY <1>1 DEF Next
  <2>2. timeline' = Append(timeline, kind) /\ read \subseteq read' /\ timeline \in Seq(Kinds)
    BY <1>1, <2>1 DEF Insert, IInv
  <2>3. IInv' => NothingSmallerThanRead'
    BY ReadIsLowest, PTL
  <2>4. ViewDowntime # {} => ViewDowntime' = ViewDowntime
    BY <2>2, ViewSettles
  <2>. QED BY <1>1, <2>2, <2>3, <2>4 DEF NothingSmallerThanRead
<1>2. IInv /\ IInv' /\ [Next]_vars => [Settles]_vars
  <2> HIDE DEF Settles
  <2>. QED BY <1>1
<1>. QED BY Invariance, <1>2, PTL DEF Spec, MeasuresSettle

-----------------------------------------------------------------------------
(* The waterfall and the milestones. *)

\* The milestones of a run that the charts see whole.
LEMMA WholeRun ==
    ASSUME timeline \in Seq(Kinds), Window = DOMAIN timeline
    PROVE  /\ Milestones.Failure = First(Failures)
           /\ Milestones.PgPromoted = Last(Rows({"promoteSeen", "promoteAsked"}))
           /\ Milestones.Promoted = Last(Rows({"promoted"}))
           /\ Milestones.HaproxyUp = First(From(Rows({"primaryUp"}), First(Failures)))
           /\ Milestones.Recovery = First(After(Successes, First(Failures)))
<1>1. \A kinds : Rows(kinds) \cap Window = Rows(kinds)
  BY DEF Rows
<1>. QED BY <1>1 DEF Milestones, MilestonesIn, Failures, Successes

\* How long after f the last of P was, if it was, and the first that was.
LastOffset(P, f)  == {d \in Span({f}, Last(P)) : d > 0}
FirstOffset(P, f) == Span({f}, First(After(P, {f})))

\* Of events that may repeat, the first after the failure and the last.
LEMMA RepeatedEvents ==
    ASSUME NEW n \in Nat, NEW P \in SUBSET (1..n), NEW f \in Int
    PROVE  /\ LastOffset(P, f) = {} <=> FirstOffset(P, f) = {}
           /\ \A d \in LastOffset(P, f), e \in FirstOffset(P, f) :
                 /\ e <= d
                 /\ e = d <=> Cardinality(After(P, {f})) = 1
<1> DEFINE A == After(P, {f})
           later == LastOffset(P, f)
           offset == FirstOffset(P, f)
<1>d. later = {d \in Span({f}, Last(P)) : d > 0} /\ offset = Span({f}, First(A))
  BY DEF LastOffset, FirstOffset
<1> HIDE DEF later, offset
<1>0. A = {t \in P : t > f}
  BY AfterOne
<1>1. /\ \A t : t \in A <=> t \in P /\ t > f
      /\ A \in SUBSET Nat /\ A \in SUBSET (0..n) /\ P \in SUBSET (0..n)
  <2>1. \A t : t \in A <=> t \in P /\ t > f
    BY <1>0
  <2>2. \A t \in P : t \in Nat /\ t \in 0..n
    OBVIOUS
  <2> HIDE DEF A
  <2>. QED BY <2>1, <2>2
<1>2. CASE A = {}
  <2>1. offset = {}
    BY <1>d, <1>2, NoneOfNothing, SpanOf
  <2>2. ASSUME NEW d \in Span({f}, Last(P)) PROVE ~(d > 0)
    <3>1. PICK l \in Last(P) : d = l - f
      BY <2>2, SpanMembers
    <3>2. l \in P /\ ~(l > f)
      BY <1>1, <1>2, <3>1 DEF Last
    <3>. QED BY <3>1, <3>2
  <2>. QED BY <1>d, <1>2, <2>1, <2>2 DEF later, offset
<1>3. CASE A # {}
  <2> HIDE DEF A
  <2>1. PICK a \in A : First(A) = {a} /\ \A y \in A : a <= y
    BY <1>1, <1>3, FirstExists
  <2>2. P # {}
    BY <1>1, <1>3
  <2>3. PICK l \in P : Last(P) = {l} /\ \A y \in P : y <= l
    BY <1>1, <2>2, LastExists
  <2>4. a \in Int /\ l \in Int /\ a > f /\ a <= l /\ l \in A
    BY <1>1, <2>1, <2>3
  <2>5. offset = {a - f}
    <3>1. offset = Span({f}, {a})
      BY <1>d, <2>1
    <3>. QED BY <3>1, SpanOf
  <2>6. later = {l - f}
    <3>1. Span({f}, {l}) = {l - f}
      BY SpanOf
    <3>2. l - f > 0
      BY <2>4
    <3>. QED BY <1>d, <2>3, <3>1, <3>2
  <2>7. a = l <=> Cardinality(A) = 1
    <3>1. ASSUME a = l PROVE Cardinality(A) = 1
      <4>1. A = {a}
        <5>1. ASSUME NEW t \in A PROVE t = a
          <6>1. t \in Int /\ a \in Int /\ a <= t /\ t \in P
            BY <1>1, <2>1
          <6>2. t <= a
            BY <2>3, <3>1, <6>1
          <6>. QED BY <6>1, <6>2
        <5>. QED BY <2>1, <5>1
      <4>. QED BY <4>1, FS_Singleton
    <3>2. ASSUME Cardinality(A) = 1 PROVE a = l
      <4>1. IsFiniteSet(A)
        <5>1. 0 \in Int /\ n \in Int /\ A \subseteq 0..n
          BY <1>1
        <5>2. IsFiniteSet(0..n)
          BY <5>1, FS_Interval
        <5>. QED BY <5>1, <5>2, FS_Subset
      <4>2. PICK x : A = {x}
        BY <3>2, <4>1, FS_Singleton
      <4>. QED BY <2>1, <2>4, <4>2
    <3>. QED BY <3>1, <3>2
  <2>8. a - f <= l - f /\ (a - f = l - f <=> a = l)
    BY <2>4
  <2>. QED BY <2>5, <2>6, <2>7, <2>8 DEF A, later, offset
<1>. QED BY <1>2, <1>3

\* An event that the routing repeats: both take the first after the failure.
LEMMA FirstFromFailure ==
    ASSUME NEW n \in Nat, NEW P \in SUBSET (1..n), NEW f \in Int, f \notin P
    PROVE  {d \in Span({f}, First(From(P, {f}))) : d > 0} = Span({f}, First(After(P, {f})))
<1>1. From(P, {f}) = After(P, {f})
  <2>1. ASSUME NEW t \in P PROVE t >= f <=> t > f
    OBVIOUS
  <2>. QED BY <2>1 DEF From, After
<1>2. ASSUME NEW d \in Span({f}, First(After(P, {f}))) PROVE d > 0
  <2>1. PICK r \in First(After(P, {f})) : d = r - f
    BY <1>2, SpanMembers
  <2>2. r \in P /\ r > f
    BY <2>1, AfterOne DEF First
  <2>. QED BY <2>1, <2>2
<1>. QED BY <1>1, <1>2

\* What the two say of a run that the charts see whole.
LEMMA SameOffsets == IInv => WaterfallMatchesMilestones
<1> DEFINE later(m) == {d \in Span(Milestones.Failure, Milestones[m]) : d > 0}
           agree(m, kinds, offset) ==
              /\ later(m) = {} <=> offset = {}
              /\ \A d \in later(m), e \in offset :
                    /\ e <= d
                    /\ e = d <=> Cardinality(After(Rows(kinds), First(Failures))) = 1
           Asked == {"promoteSeen", "promoteAsked"}
<1> SUFFICES ASSUME timeline \in Seq(Kinds), Rows({"bornPrimary"}) = {}, Window = DOMAIN timeline
             PROVE  /\ agree("PgPromoted", Asked, Waterfall.T0)
                    /\ agree("Promoted", {"promoted"}, Waterfall.T1)
                    /\ later("HaproxyUp") = Waterfall.T3
                    /\ later("Recovery") = ViewDowntime
  BY DEF IInv, WaterfallMatchesMilestones
<1>1. /\ Waterfall.T0 = Span(First(Failures), First(After(Rows(Asked), First(Failures))))
      /\ Waterfall.T1 = Span(First(Failures), First(After(Rows({"promoted", "bornPrimary"}), First(Failures))))
      /\ Waterfall.T3 = Span(First(Failures), First(After(Rows({"primaryUp"}), First(Failures))))
      /\ ViewDowntime = Span(First(Failures), First(After(Successes, First(Failures))))
  BY DEF Waterfall, ViewDowntime, FirstRecovery
<1>2. /\ Len(timeline) \in Nat /\ \A kinds : Rows(kinds) \in SUBSET (1..Len(timeline))
      /\ Failures \in SUBSET (1..Len(timeline)) /\ Successes \in SUBSET (1..Len(timeline))
      /\ \A t \in Failures : t \notin Successes /\ t \notin Rows({"primaryUp"})
  BY RowsType, OutcomeRows DEF Failures, Successes, Rows
<1>3. Rows({"promoted", "bornPrimary"}) = Rows({"promoted"})
  BY DEF Rows
<1>4. CASE Failures = {}
  <2>1. First(Failures) = {} /\ Milestones.Failure = {}
    BY <1>4, NoneOfNothing, WholeRun
  <2>2. \A b : Span(First(Failures), b) = {} /\ Span(Milestones.Failure, b) = {}
    BY <2>1, SpanOf
  <2>. QED BY <1>1, <2>2
<1>5. CASE Failures # {}
  <2>1. PICK f \in Failures : First(Failures) = {f}
    BY <1>5, Outage
  <2>2. f \in Int
    BY <1>2
  <2>3. /\ Milestones.Failure = {f}
        /\ Milestones.PgPromoted = Last(Rows(Asked))
        /\ Milestones.Promoted = Last(Rows({"promoted"}))
        /\ Milestones.HaproxyUp = First(From(Rows({"primaryUp"}), {f}))
        /\ Milestones.Recovery = First(After(Successes, {f}))
    BY <2>1, WholeRun
  <2>4. agree("PgPromoted", Asked, Waterfall.T0)
    <3>1. /\ later("PgPromoted") = {d \in Span({f}, Last(Rows(Asked))) : d > 0}
          /\ Waterfall.T0 = Span({f}, First(After(Rows(Asked), {f})))
      BY <1>1, <2>1, <2>3
    <3>2. Rows(Asked) \in SUBSET (1..Len(timeline))
      BY <1>2
    <3>3. /\ later("PgPromoted") = {} <=> Waterfall.T0 = {}
          /\ \A d \in later("PgPromoted"), e \in Waterfall.T0 :
                /\ e <= d
                /\ e = d <=> Cardinality(After(Rows(Asked), {f})) = 1
      <4>1. later("PgPromoted") = LastOffset(Rows(Asked), f) /\ Waterfall.T0 = FirstOffset(Rows(Asked), f)
        BY <3>1 DEF LastOffset, FirstOffset
      <4>2. Len(timeline) \in Nat
        BY <1>2
      <4>3. /\ LastOffset(Rows(Asked), f) = {} <=> FirstOffset(Rows(Asked), f) = {}
            /\ \A d \in LastOffset(Rows(Asked), f), e \in FirstOffset(Rows(Asked), f) :
                  /\ e <= d
                  /\ e = d <=> Cardinality(After(Rows(Asked), {f})) = 1
        BY ONLY <2>2, <3>2, <4>2, RepeatedEvents
      <4> HIDE DEF later, Asked
      <4>. QED BY <4>1, <4>3
    <3> HIDE DEF later, Asked
    <3>. QED BY <2>1, <3>3
  <2>5. agree("Promoted", {"promoted"}, Waterfall.T1)
    <3>1. /\ later("Promoted") = {d \in Span({f}, Last(Rows({"promoted"}))) : d > 0}
          /\ Waterfall.T1 = Span({f}, First(After(Rows({"promoted"}), {f})))
      BY <1>1, <1>3, <2>1, <2>3
    <3>2. Rows({"promoted"}) \in SUBSET (1..Len(timeline))
      BY <1>2
    <3>3. /\ later("Promoted") = {} <=> Waterfall.T1 = {}
          /\ \A d \in later("Promoted"), e \in Waterfall.T1 :
                /\ e <= d
                /\ e = d <=> Cardinality(After(Rows({"promoted"}), {f})) = 1
      <4>1. later("Promoted") = LastOffset(Rows({"promoted"}), f) /\ Waterfall.T1 = FirstOffset(Rows({"promoted"}), f)
        BY <3>1 DEF LastOffset, FirstOffset
      <4>2. Len(timeline) \in Nat
        BY <1>2
      <4>3. /\ LastOffset(Rows({"promoted"}), f) = {} <=> FirstOffset(Rows({"promoted"}), f) = {}
            /\ \A d \in LastOffset(Rows({"promoted"}), f), e \in FirstOffset(Rows({"promoted"}), f) :
                  /\ e <= d
                  /\ e = d <=> Cardinality(After(Rows({"promoted"}), {f})) = 1
        BY ONLY <2>2, <3>2, <4>2, RepeatedEvents
      <4> HIDE DEF later
      <4>. QED BY <4>1, <4>3
    <3> HIDE DEF later
    <3>. QED BY <2>1, <3>3
  <2>6. later("HaproxyUp") = Waterfall.T3
    <3>1. {d \in Span({f}, First(From(Rows({"primaryUp"}), {f}))) : d > 0}
             = Span({f}, First(After(Rows({"primaryUp"}), {f})))
      BY <1>2, <2>2, FirstFromFailure
    <3>. QED BY <1>1, <2>1, <2>3, <3>1
  <2>7. later("Recovery") = ViewDowntime
    <3>1. {d \in Span({f}, First(After(Successes, {f}))) : d > 0} = Span({f}, First(After(Successes, {f})))
      <4>1. ASSUME NEW d \in Span({f}, First(After(Successes, {f}))) PROVE d > 0
        <5>1. PICK s \in First(After(Successes, {f})) : d = s - f
          BY <4>1, SpanMembers
        <5>2. s \in Successes /\ s > f
          BY <5>1, AfterOne DEF First
        <5>. QED BY <1>2, <2>2, <5>1, <5>2
      <4>. QED BY <4>1
    <3>. QED BY <1>1, <2>1, <2>3, <3>1
  <2>. QED BY <2>4, <2>5, <2>6, <2>7
<1>. QED BY <1>4, <1>5

\* In a run that the charts see whole both find a promotion or neither does, the
\* waterfall's is never the later one, and they are the same exactly when it
\* happened once; of the routing and the recovery they find the same.
THEOREM ChartsAgreeOnEvents == Spec => []WaterfallMatchesMilestones
  BY Invariance, SameOffsets, PTL

-----------------------------------------------------------------------------
(* The totals of the charts. *)

\* Bars that each begin where the one before ended add up to the whole.
LEMMA BarsAddUp ==
    ASSUME NEW chain \in SUBSET (1..6), 1 \in chain, 6 \in chain,
           NEW at \in [chain -> Int], NEW bars,
           bars = [i \in chain \ {1} |->
                      at[i] - at[CHOOSE j \in Last({k \in chain : k < i}) : TRUE]]
    PROVE  Total(bars) = at[6] - at[1]
<1> DEFINE took(i) == IF i \in DOMAIN bars THEN bars[i] ELSE 0
           UpTo(n, sum) == \E j \in chain : /\ j <= n /\ \A k \in chain : k <= n => k <= j
                                            /\ sum = at[j] - at[1]
<1>1. ASSUME NEW n \in 1..5, NEW sum \in Int, UpTo(n, sum)
      PROVE  /\ took(n + 1) \in Int /\ sum + took(n + 1) \in Int
             /\ UpTo(n + 1, sum + took(n + 1))
  <2>1. PICK j \in chain : j <= n /\ (\A k \in chain : k <= n => k <= j) /\ sum = at[j] - at[1]
    BY <1>1
  <2>2. CASE n + 1 \in chain
    <3>1. Last({k \in chain : k < n + 1}) = {j}
      <4> DEFINE S == {k \in chain : k < n + 1}
      <4>1. n \in Int /\ \A k \in chain : k \in Int /\ (k < n + 1 <=> k <= n)
        OBVIOUS
      <4>2. S \in SUBSET Int /\ j \in S /\ \A y \in S : y <= j
        BY <2>1, <4>1
      <4>3. Last(S) = {j}
        <5> HIDE DEF S
        <5>. QED BY <4>2, LastIs
      <4>. QED BY <4>3
    <3>2. took(n + 1) = at[n + 1] - at[j]
      <4>1. n + 1 \in DOMAIN bars
        BY <2>2
      <4>2. (CHOOSE k \in {j} : TRUE) = j
        OBVIOUS
      <4>. QED BY <3>1, <4>1, <4>2
    <3>3. at[n + 1] \in Int /\ at[j] \in Int /\ at[1] \in Int
      BY <2>1, <2>2
    <3>4. /\ sum + took(n + 1) = at[n + 1] - at[1]
          /\ took(n + 1) \in Int /\ sum + took(n + 1) \in Int
      BY <2>1, <3>2, <3>3
    <3> HIDE DEF took
    <3>. QED BY <2>2, <3>4
  <2>3. CASE n + 1 \notin chain
    <3>1. took(n + 1) = 0
      BY <2>3
    <3>2. sum + took(n + 1) = sum /\ took(n + 1) \in Int
      BY <3>1
    <3>3. j <= n + 1 /\ \A k \in chain : k <= n + 1 => k <= j
      BY <2>1, <2>3
    <3> HIDE DEF took
    <3>. QED BY <2>1, <3>2, <3>3
  <2>. QED BY <2>2, <2>3
<1> HIDE DEF took
<1>2. UpTo(1, 0)
  BY DEF UpTo
<1> HIDE DEF UpTo
<1>3. took(2) \in Int /\ UpTo(2, took(2))
  <2>1. took(1 + 1) \in Int /\ UpTo(1 + 1, 0 + took(1 + 1))
    BY <1>1, <1>2
  <2>2. 1 + 1 = 2 /\ 0 + took(1 + 1) = took(2)
    BY <2>1
  <2>. QED BY <2>1, <2>2
<1>4. took(2) + took(3) \in Int /\ UpTo(3, took(2) + took(3))
  <2>1. took(2) + took(2 + 1) \in Int /\ UpTo(2 + 1, took(2) + took(2 + 1))
    BY <1>1, <1>3
  <2>. QED BY <2>1
<1>5. took(2) + took(3) + took(4) \in Int /\ UpTo(4, took(2) + took(3) + took(4))
  <2> DEFINE sum == took(2) + took(3)
  <2>1. sum + took(3 + 1) \in Int /\ UpTo(3 + 1, sum + took(3 + 1))
    BY <1>1, <1>4
  <2>. QED BY <2>1
<1>6. /\ took(2) + took(3) + took(4) + took(5) \in Int
      /\ UpTo(5, took(2) + took(3) + took(4) + took(5))
  <2> DEFINE sum == took(2) + took(3) + took(4)
  <2>1. sum + took(4 + 1) \in Int /\ UpTo(4 + 1, sum + took(4 + 1))
    BY <1>1, <1>5
  <2>. QED BY <2>1
<1>7. UpTo(6, took(2) + took(3) + took(4) + took(5) + took(6))
  <2> DEFINE sum == took(2) + took(3) + took(4) + took(5)
  <2>1. UpTo(5 + 1, sum + took(5 + 1))
    BY <1>1, <1>6
  <2>. QED BY <2>1
<1>8. Total(bars) = took(2) + took(3) + took(4) + took(5) + took(6)
  BY DEF Total, took
<1>9. PICK j \in chain : (\A k \in chain : k <= 6 => k <= j) /\ Total(bars) = at[j] - at[1]
  BY <1>7, <1>8 DEF UpTo
<1>10. j = 6
  BY <1>9
<1>. QED BY <1>9, <1>10

\* What the view reports lies between a first failure and a first recovery.
LEMMA Reported ==
    ASSUME timeline \in Seq(Kinds), ViewDowntime # {}
    PROVE  \E f \in Failures, r \in Successes :
              /\ First(Failures) = {f} /\ \A g \in Failures : f <= g
              /\ FirstRecovery = {r} /\ r > f /\ \A s \in Successes : s > f => r <= s
              /\ ViewDowntime = {r - f}
<1>1. Failures \in SUBSET Nat /\ Successes \in SUBSET Nat
  BY OutcomeRows
<1>2. Failures # {}
  BY NoOutage
<1>3. PICK f \in Failures : First(Failures) = {f} /\ \A g \in Failures : f <= g
  BY <1>2, Outage
<1> DEFINE later == {s \in Successes : s > f}
<1>4. FirstRecovery = First(later) /\ ViewDowntime = Span({f}, First(later))
  <2>1. FirstRecovery = First(After(Successes, {f})) /\ ViewDowntime = Span({f}, FirstRecovery)
    BY <1>3 DEF FirstRecovery, ViewDowntime
  <2>. QED BY <2>1, AfterOne
<1>5. later \in SUBSET Nat
  BY <1>1
<1>6. later # {}
  <2> HIDE DEF later
  <2>. QED BY <1>4, NoneOfNothing, SpanOf
<1>7. PICK r \in later : First(later) = {r} /\ \A s \in later : r <= s
  <2> HIDE DEF later
  <2>. QED BY <1>5, <1>6, FirstExists
<1>8. ViewDowntime = {r - f}
  BY <1>4, <1>7, SpanOf
<1>. QED BY <1>3, <1>4, <1>7, <1>8

\* A window that shows both ends of the outage has them as milestones.
LEMMA BothEnds ==
    ASSUME timeline \in Seq(Kinds), NEW window, NEW f \in Failures, NEW r \in Successes,
           f \in window, r \in window, \A g \in Failures : f <= g,
           r > f, \A s \in Successes : s > f => r <= s
    PROVE  MilestonesIn(window).Failure = {f} /\ MilestonesIn(window).Recovery = {r}
<1>1. Failures \in SUBSET Int /\ Successes \in SUBSET Int
  BY OutcomeRows
<1>2. First(Failures \cap window) = {f}
  <2> DEFINE S == Failures \cap window
  <2>1. S \in SUBSET Int /\ f \in S /\ \A y \in S : f <= y
    BY <1>1
  <2>2. First(S) = {f}
    <3> HIDE DEF S
    <3>. QED BY <2>1, FirstIs
  <2>. QED BY <2>2
<1>3. First(After(Successes \cap window, {f})) = {r}
  <2> DEFINE S == After(Successes \cap window, {f})
  <2>1. S = {s \in Successes \cap window : s > f}
    BY AfterOne
  <2>2. S \in SUBSET Int /\ r \in S /\ \A y \in S : r <= y
    BY <1>1, <2>1
  <2>3. First(S) = {r}
    <3> HIDE DEF S
    <3>. QED BY <2>2, FirstIs
  <2>. QED BY <2>3
<1>. QED BY <1>2, <1>3 DEF MilestonesIn, Failures, Successes

\* The milestones of a window are numbers, each at most one.
LEMMA MilestonesAreOne ==
    ASSUME timeline \in Seq(Kinds), NEW window,
           NEW m \in {"Failure", "Deleted", "PgPromoted", "Promoted", "HaproxyUp", "Recovery"}
    PROVE  MilestonesIn(window)[m] \in SUBSET Int /\ \A x, y \in MilestonesIn(window)[m] : x = y
<1> DEFINE within(kinds) == Rows(kinds) \cap window
           failure == First(within({"fail"}))
<1>1. ASSUME NEW kinds PROVE within(kinds) \in SUBSET Int
  BY RowsType
<1>2. ASSUME NEW S \in SUBSET Int, NEW x
      PROVE  From(S, x) \in SUBSET Int /\ After(S, x) \in SUBSET Int
  BY DEF From, After
<1>3. ASSUME NEW S \in SUBSET Int
      PROVE  /\ First(S) \in SUBSET Int /\ Last(S) \in SUBSET Int
             /\ \A x, y \in First(S) : x = y
             /\ \A x, y \in Last(S) : x = y
  BY OneTimestamp
<1>4. MilestonesIn(window) =
         [Failure    |-> failure,
          Deleted    |-> Last(within({"deleted"})),
          PgPromoted |-> Last(within({"promoteSeen", "promoteAsked"})),
          Promoted   |-> Last(within({"promoted"})),
          HaproxyUp  |-> First(From(within({"primaryUp"}), failure)),
          Recovery   |-> First(After(within({"ok"}), failure))]
  BY DEF MilestonesIn
<1>5. \E S \in SUBSET Int : MilestonesIn(window)[m] = First(S) \/ MilestonesIn(window)[m] = Last(S)
  <2> HIDE DEF within, failure
  <2>1. CASE m = "Failure"
    BY <1>1, <1>4, <2>1 DEF failure
  <2>2. CASE m = "Deleted"
    BY <1>1, <1>4, <2>2
  <2>3. CASE m = "PgPromoted"
    BY <1>1, <1>4, <2>3
  <2>4. CASE m = "Promoted"
    BY <1>1, <1>4, <2>4
  <2>5. CASE m = "HaproxyUp"
    <3>1. From(within({"primaryUp"}), failure) \in SUBSET Int
      BY <1>1, <1>2
    <3>. QED BY <1>4, <2>5, <3>1
  <2>6. CASE m = "Recovery"
    <3>1. After(within({"ok"}), failure) \in SUBSET Int
      BY <1>1, <1>2
    <3>. QED BY <1>4, <2>6, <3>1
  <2>. QED BY <2>1, <2>2, <2>3, <2>4, <2>5, <2>6
<1>. QED BY <1>3, <1>5

\* Which places of the phase chain are taken, and what there is.
LEMMA ChainPlaces ==
    ASSUME timeline \in Seq(Kinds), Milestones.Failure # {}
    PROVE  /\ PhaseChain \in SUBSET (1..6) /\ 1 \in PhaseChain
           /\ Milestones.Recovery # {} => 6 \in PhaseChain
           /\ \A i \in PhaseChain : (CHOOSE t \in Milestones[PhaseOrder[i]] : TRUE) \in Int
<1>1. /\ DOMAIN PhaseOrder = 1..6
      /\ PhaseOrder[1] = "Failure" /\ PhaseOrder[2] = "Deleted" /\ PhaseOrder[3] = "PgPromoted"
      /\ PhaseOrder[4] = "Promoted" /\ PhaseOrder[5] = "HaproxyUp" /\ PhaseOrder[6] = "Recovery"
  BY DEF PhaseOrder
<1>2. \A i : i \in PhaseChain <=>
         /\ i \in DOMAIN PhaseOrder
         /\ Milestones[PhaseOrder[i]] # {}
         /\ PhaseOrder[i] = "Promoted" => Milestones.PgPromoted = {}
  BY DEF PhaseChain
<1>3. \A m \in {"Failure", "Deleted", "PgPromoted", "Promoted", "HaproxyUp", "Recovery"} :
         Milestones[m] \in SUBSET Int
  BY MilestonesAreOne DEF Milestones
<1>4. ASSUME NEW i \in PhaseChain PROVE (CHOOSE t \in Milestones[PhaseOrder[i]] : TRUE) \in Int
  <2>1. i \in 1..6 /\ Milestones[PhaseOrder[i]] # {}
    BY <1>1, <1>2
  <2>2. PhaseOrder[i] \in {"Failure", "Deleted", "PgPromoted", "Promoted", "HaproxyUp", "Recovery"}
    BY <1>1, <2>1
  <2>3. (CHOOSE t \in Milestones[PhaseOrder[i]] : TRUE) \in Milestones[PhaseOrder[i]]
    BY <2>1
  <2>. QED BY <1>3, <2>2, <2>3
<1>5. PhaseChain \in SUBSET (1..6)
  BY <1>1, <1>2
<1>6. 1 \in PhaseChain /\ (Milestones.Recovery # {} => 6 \in PhaseChain)
  BY <1>1, <1>2
<1>. QED BY <1>4, <1>5, <1>6

\* The stacked bar of a run whose window shows both ends of the outage.
LEMMA StackedBar ==
    ASSUME timeline \in Seq(Kinds), NEW f \in Int, NEW r \in Int,
           Milestones.Failure = {f}, Milestones.Recovery = {r}
    PROVE  Total(Phases) = r - f
<1> DEFINE at == [i \in PhaseChain |-> CHOOSE t \in Milestones[PhaseOrder[i]] : TRUE]
<1>1. /\ PhaseChain \in SUBSET (1..6) /\ 1 \in PhaseChain /\ 6 \in PhaseChain
      /\ at \in [PhaseChain -> Int]
  BY ChainPlaces
<1>2. at[1] = f /\ at[6] = r
  <2>1. PhaseOrder[1] = "Failure" /\ PhaseOrder[6] = "Recovery"
    BY DEF PhaseOrder
  <2>. QED BY <1>1, <2>1
<1>3. ASSUME NEW i \in PhaseChain \ {1}
      PROVE  (CHOOSE j \in Last({k \in PhaseChain : k < i}) : TRUE) \in PhaseChain
  <2> DEFINE S == {k \in PhaseChain : k < i}
  <2>1. S \in SUBSET (0..6) /\ 1 \in S
    <3>1. PhaseChain \in SUBSET Int /\ i \in 1..6 /\ i # 1 /\ 1 \in PhaseChain
      BY <1>1
    <3>2. 1 < i
      BY <3>1
    <3>3. \A k \in PhaseChain : k \in 0..6
      BY <1>1
    <3>. QED BY <3>1, <3>2, <3>3
  <2>2. PICK j \in S : Last(S) = {j}
    <3> HIDE DEF S
    <3>. QED BY <2>1, LastExists
  <2>3. (CHOOSE x \in Last(S) : TRUE) = j
    BY <2>2
  <2>. QED BY <2>2, <2>3
<1>4. Phases = [i \in PhaseChain \ {1} |->
                   at[i] - at[CHOOSE j \in Last({k \in PhaseChain : k < i}) : TRUE]]
  <2> DEFINE before(i) == CHOOSE j \in Last({k \in PhaseChain : k < i}) : TRUE
             when(i) == CHOOSE t \in Milestones[PhaseOrder[i]] : TRUE
  <2>1. Phases = [i \in PhaseChain \ {1} |-> when(i) - when(before(i))]
    BY DEF Phases
  <2>2. \A i \in PhaseChain : at[i] = when(i)
    OBVIOUS
  <2>3. \A i \in PhaseChain \ {1} : before(i) \in PhaseChain
    BY <1>3
  <2> HIDE DEF at, when, before
  <2>4. Phases = [i \in PhaseChain \ {1} |-> at[i] - at[before(i)]]
    BY <2>1, <2>2, <2>3
  <2>. QED BY <2>4 DEF before
<1> HIDE DEF at
<1>. QED BY <1>1, <1>2, <1>4, BarsAddUp

\* The title of an iteration's charts.
LEMMA TitleIsView ==
    ASSUME timeline \in Seq(Kinds)
    PROVE  IterationDowntime = ViewDowntime
<1> DEFINE window == IF LongRun THEN Around(WindowShort) ELSE DOMAIN timeline
           ms == MilestonesIn(window)
<1>1. CASE ViewDowntime # {}
  BY <1>1 DEF IterationDowntime
<1>2. CASE ViewDowntime = {}
  <2>1. IterationDowntime = Span(ms.Failure, ms.Recovery)
    BY <1>2 DEF IterationDowntime
  <2> HIDE DEF window
  <2>2. ASSUME NEW d \in Span(ms.Failure, ms.Recovery) PROVE FALSE
    <3>1. PICK f \in ms.Failure, r \in ms.Recovery : TRUE
      BY <2>2 DEF Span
    <3>2. /\ ms.Failure = First(Rows({"fail"}) \cap window)
          /\ ms.Recovery = First(After(Rows({"ok"}) \cap window, ms.Failure))
      BY DEF MilestonesIn
    <3>3. f \in Failures
      BY <3>1, <3>2 DEF First, Failures
    <3>4. r \in Successes /\ \E u \in ms.Failure : r > u
      BY <3>1, <3>2 DEF First, After, Successes
    <3>5. PICK u \in Failures : r > u
      BY <3>2, <3>4 DEF First, Failures
    <3>6. PICK first \in Failures : First(Failures) = {first} /\ \A g \in Failures : first <= g
      BY <3>3, Outage
    <3>7. Failures \in SUBSET Nat /\ Successes \in SUBSET Nat
      BY OutcomeRows
    <3> DEFINE later == {s \in Successes : s > first}
    <3>8. later \in SUBSET Nat /\ r \in later
      <4>1. first \in Nat /\ u \in Nat /\ r \in Nat /\ first <= u /\ r > u
        BY <3>4, <3>5, <3>6, <3>7
      <4>2. r > first
        BY <4>1
      <4>. QED BY <3>4, <3>7, <4>2
    <3>9. ViewDowntime = Span({first}, First(later))
      <4>1. first \in Int
        BY <3>6, <3>7
      <4>2. After(Successes, {first}) = later
        BY AfterOne
      <4> HIDE DEF later
      <4>. QED BY <3>6, <4>1, <4>2, OutageNumbers
    <3> HIDE DEF later
    <3>10. PICK x \in later : First(later) = {x}
      BY <3>8, FirstExists
    <3>11. ViewDowntime = {x - first}
      BY <3>9, <3>10, SpanOf
    <3>. QED BY <1>2, <3>11
  <2>. QED BY <1>2, <2>1, <2>2
<1>. QED BY <1>1, <1>2

\* One element.
LEMMA ChosenSpan ==
    ASSUME NEW a \in Int, NEW b \in Int
    PROVE  (CHOOSE d \in Span({a}, {b}) : TRUE) = b - a
<1>1. Span({a}, {b}) = {b - a}
  BY SpanOf
<1>. QED BY <1>1

\* The comparison adds up when every milestone is there, and stops at the promotion
\* without a HAProxy.
LEMMA ComparisonAddsUp ==
    ASSUME timeline \in Seq(Kinds), NEW ms, ms = MilestonesIn(Around(WindowShort)),
           ms.Failure # {}, ms.Deleted # {}, ms.Promoted # {}
    PROVE  /\ ms.HaproxyUp = {} => Span(ms.Failure, ms.Promoted) = {ComparisonTotal}
           /\ ms.HaproxyUp # {} =>
                 \A f, r \in Int : ms.Failure = {f} /\ ms.Recovery = {r} => ComparisonTotal = r - f
<1> DEFINE phase(a, b) == IF ms[a] # {} /\ ms[b] # {} THEN CHOOSE d \in Span(ms[a], ms[b]) : TRUE
                          ELSE 0
<1>1. ComparisonTotal = phase("Failure", "Deleted") + phase("Deleted", "Promoted")
                        + phase("Promoted", "HaproxyUp") + phase("HaproxyUp", "Recovery")
  BY DEF ComparisonTotal
<1>2. \A m \in {"Failure", "Deleted", "PgPromoted", "Promoted", "HaproxyUp", "Recovery"} :
         ms[m] \in SUBSET Int /\ \A x, y \in ms[m] : x = y
  BY MilestonesAreOne
<1>3a. ASSUME NEW a, NEW b, NEW x \in Int, NEW y \in Int, ms[a] = {x}, ms[b] = {y}
       PROVE  phase(a, b) = y - x
  <2>1. phase(a, b) = CHOOSE d \in Span({x}, {y}) : TRUE
    BY <1>3a
  <2>. QED BY <2>1, ChosenSpan
<1>3. PICK f \in Int, d \in Int, p \in Int :
         ms["Failure"] = {f} /\ ms["Deleted"] = {d} /\ ms["Promoted"] = {p}
  <2>1. \A m \in {"Failure", "Deleted", "Promoted"} : ms[m] # {}
    OBVIOUS
  <2>2. \A m \in {"Failure", "Deleted", "Promoted"} : \E x \in Int : ms[m] = {x}
    <3>1. ASSUME NEW m \in {"Failure", "Deleted", "Promoted"} PROVE \E x \in Int : ms[m] = {x}
      <4>1. ms[m] \in SUBSET Int /\ (\A x, y \in ms[m] : x = y) /\ ms[m] # {}
        BY <1>2, <2>1
      <4>. QED BY <4>1
    <3>. QED BY <3>1
  <2>. QED BY <2>2
<1>4. phase("Failure", "Deleted") = d - f /\ phase("Deleted", "Promoted") = p - d
  <2> HIDE DEF phase
  <2>1. phase("Failure", "Deleted") = d - f
    BY <1>3, <1>3a
  <2>2. phase("Deleted", "Promoted") = p - d
    BY <1>3, <1>3a
  <2>. QED BY <2>1, <2>2
<1>5. CASE ms.HaproxyUp = {}
  <2>1. phase("Promoted", "HaproxyUp") = 0 /\ phase("HaproxyUp", "Recovery") = 0
    BY <1>5
  <2> HIDE DEF phase
  <2>2. ComparisonTotal = p - f
    BY <1>1, <1>4, <2>1
  <2>3. Span(ms.Failure, ms.Promoted) = {p - f}
    BY <1>3, SpanOf
  <2>. QED BY <1>5, <2>2, <2>3
<1>6. CASE ms.HaproxyUp # {}
  <2>1. PICK h \in Int : ms["HaproxyUp"] = {h}
    BY <1>2, <1>6
  <2>2. SUFFICES ASSUME NEW r \in Int, ms.Recovery = {r} PROVE ComparisonTotal = r - f
    BY <1>3, <1>6
  <2>3. phase("Promoted", "HaproxyUp") = h - p /\ phase("HaproxyUp", "Recovery") = r - h
    <3> HIDE DEF phase
    <3>1. phase("Promoted", "HaproxyUp") = h - p
      BY <1>3, <2>1, <1>3a
    <3>2. ms["HaproxyUp"] = {h} /\ ms["Recovery"] = {r}
      BY <2>1, <2>2
    <3>3. phase("HaproxyUp", "Recovery") = r - h
      BY <3>2, <1>3a
    <3>. QED BY <3>1, <3>3
  <2> HIDE DEF phase
  <2>. QED BY <1>1, <1>4, <2>3
<1>. QED BY <1>5, <1>6

\* The three totals.
LEMMA TotalsAgree == IInv => ChartTotalIsDowntime
<1> DEFINE ms == MilestonesIn(Around(WindowShort))
<1> SUFFICES ASSUME timeline \in Seq(Kinds) PROVE ChartTotalIsDowntime
  BY DEF IInv
<1>1. IterationDowntime = ViewDowntime
  BY TitleIsView
<1>2. ASSUME NEW window, (First(Failures) \cup FirstRecovery) \subseteq window, NEW d \in ViewDowntime
      PROVE  \E f, r \in Int : /\ MilestonesIn(window).Failure = {f}
                               /\ MilestonesIn(window).Recovery = {r} /\ d = r - f
  <2>1. PICK f \in Failures, r \in Successes :
           /\ First(Failures) = {f} /\ \A g \in Failures : f <= g
           /\ FirstRecovery = {r} /\ r > f /\ \A s \in Successes : s > f => r <= s
           /\ ViewDowntime = {r - f}
    BY <1>2, Reported
  <2>2. f \in Int /\ r \in Int /\ f \in window /\ r \in window
    BY <1>2, <2>1, OutcomeRows
  <2>3. MilestonesIn(window).Failure = {f} /\ MilestonesIn(window).Recovery = {r}
    BY <2>1, <2>2, BothEnds
  <2>. QED BY <1>2, <2>1, <2>2, <2>3
<1>3. ASSUME (First(Failures) \cup FirstRecovery) \subseteq Window, NEW d \in ViewDowntime
      PROVE  d = Total(Phases)
  BY <1>2, <1>3, StackedBar DEF Milestones
<1>4. ASSUME (First(Failures) \cup FirstRecovery) \subseteq Around(WindowShort),
             ms.Deleted # {}, ms.Promoted # {}, ms.HaproxyUp # {}, NEW d \in ViewDowntime
      PROVE  d = ComparisonTotal
  <2>1. PICK f, r \in Int : ms.Failure = {f} /\ ms.Recovery = {r} /\ d = r - f
    BY <1>2, <1>4
  <2>. QED BY <1>4, <2>1, ComparisonAddsUp
<1>5. ASSUME ms.Failure # {}, ms.Deleted # {}, ms.Promoted # {}, ms.HaproxyUp = {}
      PROVE  Span(ms.Failure, ms.Promoted) = {ComparisonTotal}
  BY <1>5, ComparisonAddsUp
<1> HIDE DEF ms
<1>. QED BY <1>1, <1>3, <1>4, <1>5 DEF ChartTotalIsDowntime, ms

\* The titles, the stacked bars and the comparison add up to the downtime of the view,
\* in every run of which they see both ends.
THEOREM TotalsAreDowntime == Spec => []ChartTotalIsDowntime
  BY Invariance, TotalsAgree, PTL

-----------------------------------------------------------------------------
(* The client lane. *)

\* A run whose rows the charts see whole.
SeenWhole == timeline \in Seq(Kinds) /\ Window = DOMAIN timeline

\* The row before another.
Precedes(u, t) == u \in ClientRows /\ u < t /\ \A v \in ClientRows : v < t => v <= u

\* Where the bar that starts at s ends: at the next start, or at the last row.
EndsAt(s, e) ==
    \/ e \in BarStarts /\ e > s /\ \A n \in BarStarts : n > s => e <= n
    \/ (\A n \in BarStarts : ~ (n > s)) /\ e \in ClientRows /\ \A t \in ClientRows : t <= e

\* The rows of the lane are the successes and the failures.
LEMMA LaneRows ==
    ASSUME timeline \in Seq(Kinds)
    PROVE  /\ Len(timeline) \in Nat
           /\ ClientRows \in SUBSET (1..Len(timeline)) /\ ClientRows \in SUBSET Nat
           /\ ClientRows = Failures \cup Successes
           /\ \A t \in Failures : timeline[t] = "fail"
           /\ \A t \in Successes : timeline[t] = "ok"
  BY DEF ClientRows, Failures, Successes, Rows

\* A bar starts where the row before shows something else.
LEMMA Starts ==
    ASSUME SeenWhole
    PROVE  /\ BarStarts \in SUBSET ClientRows
           /\ \A t \in ClientRows :
                 t \in BarStarts <=> \A u : Precedes(u, t) => timeline[u] # timeline[t]
<1>1. /\ ClientRows \in SUBSET Nat /\ ClientRows \cap Window = ClientRows
  BY LaneRows DEF SeenWhole, ClientRows, Rows
<1>2. BarStarts = {t \in ClientRows : \A u \in Last({v \in ClientRows : v < t}) : timeline[u] # timeline[t]}
  BY <1>1 DEF BarStarts
<1>3. ASSUME NEW t \in ClientRows, NEW u
      PROVE  u \in Last({v \in ClientRows : v < t}) <=> Precedes(u, t)
  BY <1>1 DEF Last, Precedes
<1>. QED BY <1>2, <1>3

\* A row that has rows before it has one right before it.
LEMMA HasPredecessor ==
    ASSUME timeline \in Seq(Kinds), NEW t \in ClientRows, NEW s \in ClientRows, s < t
    PROVE  \E u : Precedes(u, t) /\ s <= u
<1> DEFINE S == {v \in ClientRows : v < t}
<1>1. /\ Len(timeline) \in Nat /\ ClientRows \in SUBSET (1..Len(timeline))
      /\ ClientRows \in SUBSET Nat
  BY LaneRows
<1>2. S \in SUBSET (0..Len(timeline)) /\ s \in S
  <2>1. \A v \in ClientRows : v \in 0..Len(timeline)
    BY <1>1
  <2>. QED BY <2>1
<1>3. PICK u \in S : \A v \in S : v <= u
  <2> HIDE DEF S
  <2>. QED BY <1>1, <1>2, GreatestElement
<1>. QED BY <1>2, <1>3 DEF Precedes

\* Up to the next start, every row shows the same.
LEMMA SameBar ==
    ASSUME SeenWhole, NEW s \in ClientRows, NEW t \in ClientRows, s <= t,
           \A n \in BarStarts : ~ (s < n /\ n <= t)
    PROVE  timeline[t] = timeline[s]
<1> DEFINE Other == {x \in ClientRows : s <= x /\ x <= t /\ timeline[x] # timeline[s]}
<1>1. ClientRows \in SUBSET Nat
  BY LaneRows DEF SeenWhole
<1>2. CASE Other = {}
  BY <1>1, <1>2
<1>3. CASE Other # {}
  <2>1. PICK x \in Other : \A y \in Other : x <= y
    <3>1. Other \in SUBSET Nat
      BY <1>1
    <3> HIDE DEF Other
    <3>. QED BY <1>3, <3>1, LeastElement
  <2>2. x \in ClientRows /\ s < x /\ x <= t /\ timeline[x] # timeline[s]
    BY <1>1, <2>1
  <2>3. x \notin BarStarts
    BY <2>2
  <2>4. PICK u : Precedes(u, x) /\ timeline[u] = timeline[x]
    BY <2>2, <2>3, Starts
  <2>5. u \in ClientRows /\ u < x /\ s <= u
    BY <1>1, <2>2, <2>4 DEF Precedes
  <2>6. u \in Other
    BY <1>1, <2>2, <2>4, <2>5
  <2>. QED BY <1>1, <2>1, <2>2, <2>5, <2>6
<1>. QED BY <1>2, <1>3

\* Every row belongs to the bar of the last start up to it.
LEMMA BarOf ==
    ASSUME SeenWhole, NEW t \in ClientRows
    PROVE  \E s \in BarStarts : s <= t /\ \A n \in BarStarts : n <= t => n <= s
<1> DEFINE S == {n \in BarStarts : n <= t}
<1>1. /\ Len(timeline) \in Nat /\ ClientRows \in SUBSET (1..Len(timeline))
      /\ ClientRows \in SUBSET Nat /\ BarStarts \in SUBSET ClientRows
  BY LaneRows, Starts DEF SeenWhole
<1>2. PICK x \in ClientRows : \A y \in ClientRows : x <= y
  BY <1>1, LeastElement
<1>3. x \in BarStarts
  <2>1. ASSUME NEW u, Precedes(u, x) PROVE FALSE
    BY <1>1, <1>2, <2>1 DEF Precedes
  <2>. QED BY <1>2, <2>1, Starts
<1>4. S \in SUBSET (0..Len(timeline)) /\ x \in S
  <2>1. \A v \in BarStarts : v \in 0..Len(timeline)
    BY <1>1
  <2>2. x <= t
    BY <1>2
  <2>. QED BY <1>3, <2>1, <2>2
<1>5. PICK s \in S : \A n \in S : n <= s
  <2> HIDE DEF S
  <2>. QED BY <1>1, <1>4, GreatestElement
<1>. QED BY <1>5

\* The bars of the lane.
LEMMA Lane ==
    ASSUME SeenWhole
    PROVE  /\ \A bar : bar \in ClientLane <=>
                 \E s \in BarStarts, e \in ClientRows :
                    EndsAt(s, e) /\ bar = [kind |-> timeline[s], from |-> s, to |-> e]
           /\ \A s \in BarStarts : \E e \in ClientRows : EndsAt(s, e)
<1> DEFINE following(s) == First(After(BarStarts, {s}))
           end(s) == IF following(s) # {} THEN following(s) ELSE Last(ClientRows \cap Window)
<1>1. /\ Len(timeline) \in Nat /\ ClientRows \in SUBSET (0..Len(timeline))
      /\ ClientRows \in SUBSET Nat /\ BarStarts \in SUBSET ClientRows
      /\ ClientRows \cap Window = ClientRows
  BY LaneRows, Starts DEF SeenWhole, ClientRows, Rows
<1>2. ASSUME NEW s \in BarStarts, NEW e PROVE e \in end(s) <=> EndsAt(s, e)
  <2> DEFINE S == {n \in BarStarts : n > s}
  <2>1. following(s) = First(S)
    BY AfterOne
  <2>2. S \in SUBSET Nat
    BY <1>1
  <2>3. CASE S = {}
    <3>1. end(s) = Last(ClientRows)
      BY <1>1, <2>1, <2>3, NoneOfNothing
    <3>. QED BY <1>1, <2>3, <3>1 DEF Last, EndsAt
  <2>4. CASE S # {}
    <3>1. PICK x \in S : First(S) = {x} /\ \A y \in S : x <= y
      <4> HIDE DEF S
      <4>. QED BY <2>2, <2>4, FirstExists
    <3>2. end(s) = {x}
      BY <2>1, <3>1
    <3> HIDE DEF end
    <3>3. EndsAt(s, e) => e = x
      <4>1. x \in BarStarts /\ x > s /\ x \in Nat
        BY <1>1, <3>1
      <4>2. ASSUME e \in BarStarts, e > s, \A n \in BarStarts : n > s => e <= n PROVE e = x
        <5>1. e <= x /\ x <= e /\ e \in Nat
          BY <1>1, <3>1, <4>1, <4>2
        <5>. QED BY <4>1, <5>1
      <4>. QED BY <4>1, <4>2 DEF EndsAt
    <3>4. EndsAt(s, x)
      BY <1>1, <3>1 DEF EndsAt
    <3>. QED BY <3>2, <3>3, <3>4
  <2>. QED BY <2>3, <2>4
<1>3. ClientLane = UNION {{[kind |-> timeline[s], from |-> s, to |-> e] : e \in end(s)} : s \in BarStarts}
  BY DEF ClientLane
<1> HIDE DEF end
<1>4. ASSUME NEW bar
      PROVE  bar \in ClientLane <=>
                \E s \in BarStarts, e \in ClientRows :
                   EndsAt(s, e) /\ bar = [kind |-> timeline[s], from |-> s, to |-> e]
  <2>1. \A s \in BarStarts : \A e : EndsAt(s, e) => e \in ClientRows
    BY <1>1 DEF EndsAt
  <2>. QED BY <1>2, <1>3, <2>1
<1>5. ASSUME NEW s \in BarStarts PROVE \E e \in ClientRows : EndsAt(s, e)
  <2> DEFINE S == {n \in BarStarts : n > s}
  <2>1. CASE S = {}
    <3>1. PICK e \in ClientRows : \A t \in ClientRows : t <= e
      BY <1>1, GreatestElement
    <3>. QED BY <2>1, <3>1 DEF EndsAt
  <2>2. CASE S # {}
    <3>1. S \in SUBSET Nat
      BY <1>1
    <3>2. PICK x \in S : \A y \in S : x <= y
      <4> HIDE DEF S
      <4>. QED BY <2>2, <3>1, LeastElement
    <3>. QED BY <1>1, <3>2 DEF EndsAt
  <2>. QED BY <2>1, <2>2
<1>. QED BY <1>4, <1>5

\* From a start to the end of its bar every row shows the same.
LEMMA WithinBar ==
    ASSUME SeenWhole, NEW s \in BarStarts, NEW e, EndsAt(s, e), NEW t \in ClientRows,
           s <= t, t < e
    PROVE  timeline[t] = timeline[s]
<1>1. ClientRows \in SUBSET Nat /\ BarStarts \in SUBSET ClientRows
  BY LaneRows, Starts DEF SeenWhole
<1>2. e \in Nat
  BY <1>1 DEF EndsAt
<1>3. \A n \in BarStarts : ~ (s < n /\ n <= t)
  BY <1>1, <1>2 DEF EndsAt
<1>. QED BY <1>1, <1>3, SameBar

\* A failed query lies in a red bar.
LEMMA FailedIsRed ==
    ASSUME SeenWhole, NEW f \in Failures
    PROVE  \E bar \in ClientLane : bar.kind = "fail" /\ f \in bar.from..bar.to
<1>1. /\ ClientRows \in SUBSET Nat /\ BarStarts \in SUBSET ClientRows
      /\ f \in ClientRows /\ timeline[f] = "fail"
  BY LaneRows, Starts DEF SeenWhole
<1>2. PICK s \in BarStarts : s <= f /\ \A n \in BarStarts : n <= f => n <= s
  BY <1>1, BarOf
<1>3. timeline[s] = "fail"
  <2>1. \A n \in BarStarts : ~ (s < n /\ n <= f)
    BY <1>1, <1>2
  <2>. QED BY <1>1, <1>2, <2>1, SameBar
<1>4. PICK e \in ClientRows : EndsAt(s, e)
  BY Lane
<1>5. s \in Nat /\ f \in Nat /\ e \in Nat
  BY <1>1
<1>6. f <= e
  <2>1. CASE e \in BarStarts /\ e > s
    BY <1>2, <1>5, <2>1
  <2>2. CASE \A t \in ClientRows : t <= e
    BY <1>1, <2>2
  <2>. QED BY <1>4, <2>1, <2>2 DEF EndsAt
<1> DEFINE bar == [kind |-> timeline[s], from |-> s, to |-> e]
<1>7. bar \in ClientLane
  BY <1>4, Lane
<1>8. bar.kind = "fail" /\ f \in bar.from..bar.to
  BY <1>2, <1>3, <1>5, <1>6
<1>. QED BY <1>7, <1>8

\* A successful one does not.
LEMMA SucceededIsNot ==
    ASSUME SeenWhole, NEW s \in Successes, NEW bar \in ClientLane, bar.kind = "fail"
    PROVE  s \notin bar.from..(bar.to - 1)
<1>1. /\ ClientRows \in SUBSET Nat /\ BarStarts \in SUBSET ClientRows
      /\ s \in ClientRows /\ timeline[s] = "ok"
  BY LaneRows, Starts DEF SeenWhole
<1>2. PICK b \in BarStarts, e \in ClientRows : EndsAt(b, e) /\ bar = [kind |-> timeline[b], from |-> b, to |-> e]
  BY Lane
<1>3. e \in Nat
  BY <1>1, <1>2 DEF EndsAt
<1>4. bar.from = b /\ bar.to = e /\ timeline[b] = "fail"
  BY <1>2
<1>5. ASSUME b <= s, s < e PROVE FALSE
  <2>1. timeline[s] = timeline[b]
    BY <1>1, <1>2, <1>5, WithinBar
  <2>. QED BY <1>1, <1>4, <2>1
<1>6. ASSUME s \in b..(e - 1) PROVE FALSE
  BY <1>1, <1>3, <1>5, <1>6
<1>. QED BY <1>4, <1>6

\* The first outage: its bar starts with the first failure and ends with the first
\* success after it.
LEMMA FirstOutage ==
    ASSUME SeenWhole, NEW f \in Failures, \A g \in Failures : f <= g,
           NEW r \in Successes, r > f, \A s \in Successes : s > f => r <= s
    PROVE  /\ f \in BarStarts /\ r \in BarStarts
           /\ \A n \in BarStarts : n > f => r <= n
           /\ \A e : EndsAt(f, e) <=> e = r
<1>1. /\ ClientRows \in SUBSET Nat /\ BarStarts \in SUBSET ClientRows
      /\ ClientRows = Failures \cup Successes
      /\ \A t \in Failures : timeline[t] = "fail"
      /\ \A t \in Successes : timeline[t] = "ok"
  BY LaneRows, Starts DEF SeenWhole
<1>2. f \in ClientRows /\ r \in ClientRows
  BY <1>1
<1>3. f \in BarStarts
  <2>1. ASSUME NEW u, Precedes(u, f) PROVE timeline[u] # timeline[f]
    <3>1. u \in ClientRows /\ u < f
      BY <2>1 DEF Precedes
    <3>2. u \notin Failures
      BY <1>1, <3>1
    <3>. QED BY <1>1, <3>1, <3>2
  <2>. QED BY <1>2, <2>1, Starts
<1>4. ASSUME NEW t \in ClientRows, t > f, t <= r, NEW u, Precedes(u, t) PROVE u \in Failures
  <2>1. u \in ClientRows /\ u < t /\ f <= u
    BY <1>2, <1>4 DEF Precedes
  <2>2. ~ (u \in Successes /\ u > f)
    BY <1>1, <1>2, <1>4, <2>1
  <2>3. u = f \/ u > f
    BY <1>1, <1>2, <2>1
  <2>. QED BY <1>1, <2>1, <2>2, <2>3
<1>5. r \in BarStarts
  <2>1. ASSUME NEW u, Precedes(u, r) PROVE timeline[u] # timeline[r]
    <3>1. u \in Failures
      BY <1>1, <1>2, <1>4, <2>1
    <3>. QED BY <1>1, <3>1
  <2>. QED BY <1>2, <2>1, Starts
<1>6. ASSUME NEW n \in BarStarts, n > f PROVE r <= n
  <2> SUFFICES ASSUME n < r PROVE FALSE
    BY <1>1, <1>2
  <2>1. n \in ClientRows /\ n \in Failures
    BY <1>1, <1>6
  <2>2. PICK u : Precedes(u, n)
    BY <1>2, <1>6, <2>1, HasPredecessor DEF SeenWhole
  <2>3. u \in Failures
    BY <1>1, <1>2, <1>4, <1>6, <2>1, <2>2
  <2>4. timeline[u] # timeline[n]
    BY <2>1, <2>2, Starts
  <2>. QED BY <1>1, <2>1, <2>3, <2>4
<1>7. ASSUME NEW e PROVE EndsAt(f, e) <=> e = r
  <2>1. EndsAt(f, r)
    BY <1>1, <1>2, <1>5, <1>6 DEF EndsAt
  <2>2. ASSUME EndsAt(f, e) PROVE e = r
    <3>1. e \in BarStarts /\ e > f /\ \A n \in BarStarts : n > f => e <= n
      BY <1>5, <2>2 DEF EndsAt
    <3>. QED BY <1>1, <1>2, <1>5, <1>6, <3>1
  <2>. QED BY <2>1, <2>2
<1>. QED BY <1>3, <1>5, <1>6, <1>7

\* The last outage: a red bar ends with the first success after the last failure,
\* and no other ends later.
LEMMA LastOutage ==
    ASSUME SeenWhole, NEW last \in Failures, \A g \in Failures : g <= last,
           NEW c \in Successes, c > last, \A s \in Successes : s > last => c <= s
    PROVE  /\ \E b \in BarStarts : /\ b <= last /\ \A n \in BarStarts : n <= last => n <= b
                                   /\ timeline[b] = "fail" /\ EndsAt(b, c)
           /\ \A b \in BarStarts : \A e : timeline[b] = "fail" /\ EndsAt(b, e) => e <= c
<1>1. /\ ClientRows \in SUBSET Nat /\ BarStarts \in SUBSET ClientRows
      /\ ClientRows = Failures \cup Successes
      /\ \A t \in Failures : timeline[t] = "fail"
      /\ \A t \in Successes : timeline[t] = "ok"
  BY LaneRows, Starts DEF SeenWhole
<1>2. last \in ClientRows /\ c \in ClientRows
  BY <1>1
<1>3. ASSUME NEW t \in ClientRows, last < t PROVE c <= t
  <2>1. t \notin Failures
    BY <1>1, <1>2, <1>3
  <2>. QED BY <1>1, <1>3, <2>1
<1>4. c \in BarStarts
  <2>1. ASSUME NEW u, Precedes(u, c) PROVE timeline[u] # timeline[c]
    <3>1. u \in ClientRows /\ u < c /\ last <= u
      BY <1>2, <2>1 DEF Precedes
    <3>2. u = last
      BY <1>1, <1>2, <1>3, <3>1
    <3>. QED BY <1>1, <3>2
  <2>. QED BY <1>2, <2>1, Starts
<1>5. PICK b \in BarStarts : b <= last /\ \A n \in BarStarts : n <= last => n <= b
  BY <1>2, BarOf
<1>6. timeline[b] = "fail"
  <2>1. \A n \in BarStarts : ~ (b < n /\ n <= last)
    BY <1>1, <1>2, <1>5
  <2>. QED BY <1>1, <1>2, <1>5, <2>1, SameBar
<1>7. EndsAt(b, c)
  <2>1. c > b
    BY <1>1, <1>2, <1>5
  <2>2. ASSUME NEW n \in BarStarts, n > b PROVE c <= n
    <3>1. last < n
      BY <1>1, <1>2, <1>5, <2>2
    <3>. QED BY <1>1, <1>3, <3>1
  <2>. QED BY <1>4, <2>1, <2>2 DEF EndsAt
<1>8. ASSUME NEW a \in BarStarts, NEW e, timeline[a] = "fail", EndsAt(a, e) PROVE e <= c
  <2>1. a \in Failures
    BY <1>1, <1>8
  <2>2. c > a
    BY <1>1, <1>2, <2>1
  <2>. QED BY <1>4, <1>8, <2>2 DEF EndsAt
<1>. QED BY <1>5, <1>6, <1>7, <1>8

\* More than one element.
LEMMA TwoElements ==
    ASSUME NEW S, IsFiniteSet(S)
    PROVE  Cardinality(S) > 1 <=> \E x, y \in S : x # y
<1>1. Cardinality(S) \in Nat
  BY FS_CardinalityType
<1>2. Cardinality(S) = 0 <=> S = {}
  BY FS_EmptySet
<1>3. Cardinality(S) = 1 <=> \E x : S = {x}
  BY FS_Singleton
<1>4. (S = {} \/ \E x : S = {x}) <=> \A x, y \in S : x = y
  OBVIOUS
<1>. QED BY <1>1, <1>2, <1>3, <1>4

\* Outages from the first failure to the last, of which the view saw the end at r and
\* the waterfall at c.
OutageEnds(f, last, r, c, tc) ==
    /\ First(Failures) = {f} /\ \A g \in Failures : f <= g
    /\ Last(Failures) = {last} /\ \A g \in Failures : g <= last
    /\ r > f /\ \A s \in Successes : s > f => r <= s
    /\ c > last /\ \A s \in Successes : s > last => c <= s
    /\ First(After(Successes, {last})) = {c}
    /\ tc = c - f /\ ViewDowntime = {r - f}

\* When the waterfall has a client offset, there are such.
LEMMA Ended ==
    ASSUME timeline \in Seq(Kinds), NEW tc \in Waterfall.Tc
    PROVE  \E f, last \in Failures, r, c \in Successes : OutageEnds(f, last, r, c, tc)
<1>1. Failures \in SUBSET Nat /\ Successes \in SUBSET Nat
  BY OutcomeRows
<1>2. Failures # {}
  BY NoOutage
<1>3. PICK f, last \in Failures :
         /\ First(Failures) = {f} /\ \A g \in Failures : f <= g
         /\ Last(Failures) = {last} /\ \A g \in Failures : g <= last
  BY <1>2, Outage
<1> DEFINE later == {s \in Successes : s > last}
           sooner == {s \in Successes : s > f}
<1>4. Waterfall.Tc = Span({f}, First(later)) /\ After(Successes, {last}) = later
  <2>0. f \in Int
    BY <1>1, <1>3
  <2>1. Waterfall.Tc = Span({f}, First(After(Successes, Last(Failures))))
    <3> HIDE DEF later
    <3>. QED BY <1>3, <2>0, OutageNumbers
  <2>2. After(Successes, {last}) = later
    BY AfterOne
  <2>. QED BY <1>3, <2>1, <2>2
<1>5. later \in SUBSET Nat /\ later # {}
  <2>1. later \in SUBSET Nat
    BY <1>1
  <2> HIDE DEF later
  <2>. QED BY <1>4, <2>1, NoneOfNothing, SpanOf
<1>6. PICK c \in later : First(later) = {c} /\ \A s \in later : c <= s
  <2> HIDE DEF later
  <2>. QED BY <1>5, FirstExists
<1>7. tc = c - f
  <2> HIDE DEF later
  <2>1. tc \in Span({f}, {c})
    BY <1>4, <1>6
  <2>. QED BY <2>1, SpanOf
<1>8. sooner \in SUBSET Nat /\ c \in sooner
  <2>1. c \in Successes /\ c > last /\ f <= last /\ c \in Nat /\ last \in Nat /\ f \in Nat
    BY <1>1, <1>3, <1>6
  <2>2. c > f
    BY <2>1
  <2>. QED BY <1>1, <2>1, <2>2
<1>9. PICK r \in sooner : First(sooner) = {r} /\ \A s \in sooner : r <= s
  <2> HIDE DEF sooner
  <2>1. sooner # {}
    BY <1>8
  <2>. QED BY <1>8, <2>1, FirstExists
<1>10. ViewDowntime = {r - f}
  <2>0. f \in Int
    BY <1>1, <1>3
  <2>2. After(Successes, {f}) = sooner
    BY AfterOne
  <2>1. ViewDowntime = Span({f}, First(sooner))
    <3> HIDE DEF sooner
    <3>. QED BY <1>3, <2>0, <2>2, OutageNumbers
  <2>. QED BY <1>9, <2>1, SpanOf
<1>. QED BY <1>3, <1>4, <1>6, <1>7, <1>9, <1>10 DEF OutageEnds

\* A bar ends once, and there are finitely many.
LEMMA RedBarsAreFinite ==
    ASSUME SeenWhole
    PROVE  /\ \A s \in BarStarts : \A d, e : EndsAt(s, d) /\ EndsAt(s, e) => d = e
           /\ IsFiniteSet({bar \in ClientLane : bar.kind = "fail"})
<1>1. /\ Len(timeline) \in Nat /\ ClientRows \in SUBSET (1..Len(timeline))
      /\ ClientRows \in SUBSET Nat /\ BarStarts \in SUBSET ClientRows
  BY LaneRows, Starts DEF SeenWhole
<1>2. ASSUME NEW s \in BarStarts, NEW d, NEW e, EndsAt(s, d), EndsAt(s, e) PROVE d = e
  <2>1. d \in Nat /\ e \in Nat
    BY <1>1, <1>2 DEF EndsAt
  <2>2. d <= e /\ e <= d
    BY <1>1, <1>2 DEF EndsAt
  <2>. QED BY <2>1, <2>2
<1> DEFINE bar(s) == [kind |-> timeline[s], from |-> s, to |-> CHOOSE e : EndsAt(s, e)]
           bars == {bar(s) : s \in BarStarts}
<1>3. IsFiniteSet(BarStarts)
  <2>1. IsFiniteSet(1..Len(timeline))
    BY <1>1, FS_Interval
  <2>. QED BY <1>1, <2>1, FS_Subset
<1>4. IsFiniteSet(bars)
  <2> DEFINE drawn == [s \in BarStarts |-> bar(s)]
  <2>1. IsFiniteSet({drawn[s] : s \in BarStarts})
    <3>1. DOMAIN drawn = BarStarts
      OBVIOUS
    <3> HIDE DEF drawn
    <3>. QED BY <1>3, <3>1, FiniteImage
  <2>2. {drawn[s] : s \in BarStarts} = bars
    <3> HIDE DEF bar
    <3>. QED OBVIOUS
  <2>. QED BY <2>1, <2>2
<1>5. ClientLane \subseteq bars
  <2>1. ASSUME NEW x \in ClientLane PROVE x \in bars
    <3>1. PICK s \in BarStarts, e \in ClientRows : EndsAt(s, e) /\ x = [kind |-> timeline[s], from |-> s, to |-> e]
      BY Lane
    <3>2. (CHOOSE d : EndsAt(s, d)) = e
      BY <1>2, <3>1
    <3>. QED BY <3>1, <3>2
  <2>. QED BY <2>1
<1> HIDE DEF bars
<1>6. {x \in ClientLane : x.kind = "fail"} \subseteq bars
  BY <1>5
<1>. QED BY <1>2, <1>4, <1>6, FS_Subset

\* The bar of the first outage is as long as the downtime of the view.
LEMMA FirstBar ==
    ASSUME SeenWhole, NEW d \in ViewDowntime
    PROVE  {bar.to - bar.from : bar \in {b \in {x \in ClientLane : x.kind = "fail"} :
                                            b.from \in First(Failures)}} = {d}
<1> DEFINE firsts == {b \in {x \in ClientLane : x.kind = "fail"} : b.from \in First(Failures)}
<1>1. PICK f \in Failures, r \in Successes :
         /\ First(Failures) = {f} /\ \A g \in Failures : f <= g
         /\ FirstRecovery = {r} /\ r > f /\ \A s \in Successes : s > f => r <= s
         /\ ViewDowntime = {r - f}
  BY Reported DEF SeenWhole
<1>2. f \in BarStarts /\ \A e : EndsAt(f, e) <=> e = r
  BY <1>1, FirstOutage
<1>3. timeline[f] = "fail"
  BY LaneRows DEF SeenWhole
<1> DEFINE it == [kind |-> "fail", from |-> f, to |-> r]
<1>4. it \in firsts
  <2>1. it \in ClientLane
    BY <1>2, <1>3, Lane
  <2>. QED BY <1>1, <2>1
<1>5. ASSUME NEW b \in firsts PROVE b = it
  <2>1. PICK s \in BarStarts, e \in ClientRows : EndsAt(s, e) /\ b = [kind |-> timeline[s], from |-> s, to |-> e]
    BY <1>5, Lane
  <2>2. s = f
    BY <1>1, <1>5, <2>1
  <2>. QED BY <1>2, <1>3, <2>1, <2>2
<1>6. firsts = {it}
  BY <1>4, <1>5
<1>7. {bar.to - bar.from : bar \in {it}} = {r - f}
  OBVIOUS
<1>. QED BY <1>1, <1>6, <1>7

\* The red bars of an outage that ended.
LEMMA RedBars ==
    ASSUME SeenWhole, NEW tc \in Waterfall.Tc, NEW f \in First(Failures), NEW red,
           red = {bar \in ClientLane : bar.kind = "fail"}
    PROVE  /\ Last({bar.to : bar \in red}) = {f + tc}
           /\ Cardinality(red) > 1 <=> ViewDowntime # {tc}
<1>1. PICK f0, last \in Failures, r, c \in Successes :
         /\ First(Failures) = {f0} /\ \A g \in Failures : f0 <= g
         /\ Last(Failures) = {last} /\ \A g \in Failures : g <= last
         /\ r > f0 /\ \A s \in Successes : s > f0 => r <= s
         /\ c > last /\ \A s \in Successes : s > last => c <= s
         /\ tc = c - f0 /\ ViewDowntime = {r - f0}
  <2>1. PICK f0, last \in Failures, r, c \in Successes : OutageEnds(f0, last, r, c, tc)
    BY Ended DEF SeenWhole
  <2>. QED BY <2>1 DEF OutageEnds
<1>2. f = f0
  BY <1>1
<1>3. /\ ClientRows \in SUBSET Nat /\ BarStarts \in SUBSET ClientRows
      /\ ClientRows = Failures \cup Successes
      /\ \A t \in Failures : timeline[t] = "fail"
      /\ \A t \in Successes : timeline[t] = "ok"
  BY LaneRows, Starts DEF SeenWhole
<1>4. f \in Nat /\ last \in Nat /\ r \in Nat /\ c \in Nat /\ f <= last /\ r <= c /\ f + tc = c
  BY <1>1, <1>2, <1>3
<1>5. /\ f \in BarStarts /\ r \in BarStarts
      /\ \A n \in BarStarts : n > f => r <= n
      /\ \A e : EndsAt(f, e) <=> e = r
  BY <1>1, <1>2, FirstOutage
<1>6. PICK b \in BarStarts : /\ b <= last /\ \A n \in BarStarts : n <= last => n <= b
                             /\ timeline[b] = "fail" /\ EndsAt(b, c)
  BY <1>1, LastOutage
<1>7. \A a \in BarStarts : \A e : timeline[a] = "fail" /\ EndsAt(a, e) => e <= c
  BY <1>1, LastOutage
<1>8. \A x : x \in red <=> \E s \in BarStarts, e \in ClientRows :
         timeline[s] = "fail" /\ EndsAt(s, e) /\ x = [kind |-> "fail", from |-> s, to |-> e]
  BY Lane
<1> DEFINE firstBar == [kind |-> "fail", from |-> f, to |-> r]
           lastBar == [kind |-> "fail", from |-> b, to |-> c]
<1>9. firstBar \in red /\ lastBar \in red
  <2>1. timeline[f] = "fail" /\ EndsAt(f, r) /\ r \in ClientRows /\ c \in ClientRows
    BY <1>1, <1>2, <1>3, <1>5
  <2>. QED BY <1>5, <1>6, <1>8, <2>1
<1>10. Last({bar.to : bar \in red}) = {c}
  <2> DEFINE ends == {bar.to : bar \in red}
  <2>1. ASSUME NEW x \in red PROVE x.to \in Nat /\ x.to <= c
    <3>1. PICK s \in BarStarts, e \in ClientRows : timeline[s] = "fail" /\ EndsAt(s, e)
                                    /\ x = [kind |-> "fail", from |-> s, to |-> e]
      BY <1>8
    <3>2. e \in Nat /\ e <= c
      BY <1>3, <1>7, <3>1 DEF EndsAt
    <3>. QED BY <3>1, <3>2
  <2>2. c \in ends
    <3>1. lastBar.to = c
      OBVIOUS
    <3>. QED BY <1>9, <3>1
  <2>3. ends \in SUBSET Int /\ \A y \in ends : y <= c
    BY <2>1
  <2>4. Last(ends) = {c}
    <3> HIDE DEF ends
    <3>. QED BY <2>2, <2>3, LastIs
  <2>. QED BY <2>4
<1>11. IsFiniteSet(red)
  BY RedBarsAreFinite
<1>12. ViewDowntime # {tc} <=> r # c
  BY <1>1, <1>2, <1>4
<1>13. ASSUME r = c, NEW x \in red PROVE x = firstBar
  <2>1. PICK s \in BarStarts, e \in ClientRows : timeline[s] = "fail" /\ EndsAt(s, e)
                                  /\ x = [kind |-> "fail", from |-> s, to |-> e]
    BY <1>8
  <2>2. s \in Failures
    BY <1>3, <2>1
  <2>3. f <= s /\ s <= last /\ s \in Nat
    BY <1>1, <1>2, <1>3, <2>2
  <2>4. ~ (s > f)
    BY <1>1, <1>4, <1>5, <1>13, <2>3
  <2>5. s = f
    BY <1>4, <2>3, <2>4
  <2>. QED BY <1>5, <2>1, <2>5
<1>14. ASSUME r # c PROVE firstBar # lastBar
  <2>1. r <= last
    BY <1>1, <1>4, <1>14
  <2>2. r <= b /\ b \in Nat
    BY <1>3, <1>5, <1>6, <2>1
  <2>3. b # f
    BY <1>1, <1>2, <1>4, <2>2
  <2>4. firstBar.from = f /\ lastBar.from = b
    OBVIOUS
  <2>. QED BY <2>3, <2>4
<1> HIDE DEF firstBar, lastBar
<1>15. (\E x, y \in red : x # y) <=> r # c
  BY <1>9, <1>13, <1>14
<1>16. Cardinality(red) > 1 <=> r # c
  BY <1>11, <1>15, TwoElements
<1>. QED BY <1>4, <1>10, <1>12, <1>16

\* The client recovery among the overlapping phases.
LEMMA OverlapEnds ==
    ASSUME SeenWhole, NEW tc \in Waterfall.Tc, NEW f \in First(Failures)
    PROVE  Span(Last(Failures), {f + tc}) = OverlapPhases.ClientRecovery
<1>1. PICK f0, last \in Failures, c \in Successes :
         /\ First(Failures) = {f0} /\ Last(Failures) = {last}
         /\ First(After(Successes, {last})) = {c} /\ tc = c - f0
  <2>1. PICK f0, last \in Failures, r, c \in Successes : OutageEnds(f0, last, r, c, tc)
    BY Ended DEF SeenWhole
  <2>. QED BY <2>1 DEF OutageEnds
<1>2. f = f0 /\ f0 \in Int /\ c \in Int
  BY <1>1, OutcomeRows DEF SeenWhole
<1>3. f + tc = c
  BY <1>1, <1>2
<1>4. Seen({"fail"}) = Failures /\ Seen({"ok"}) = Successes
  BY DEF SeenWhole, Seen, Failures, Successes, Rows
<1>5. OverlapPhases.ClientRecovery = Span({last}, {c})
  BY <1>1, <1>4 DEF OverlapPhases
<1>. QED BY <1>1, <1>3, <1>5

\* The other overlapping phases end no earlier than they begin.
LEMMA OverlapForward ==
    ASSUME timeline \in Seq(Kinds),
           NEW d \in OverlapPhases.PatroniPromotion \cup OverlapPhases.RoutingDetection
    PROVE  d >= 0
<1> DEFINE failure == First(Seen({"fail"}))
           asked   == Last(Seen({"promoteAsked"}))
           ready   == From(Seen({"ready"}), asked)
           routing == From(Seen({"primaryUp", "replicaUp", "down"}), failure)
           up      == routing \cap Rows({"primaryUp", "replicaUp"})
           primaryUp == up \cap Rows({"primaryUp"})
           upper == IF primaryUp # {} THEN primaryUp ELSE up
<1>1. \A kinds : Seen(kinds) \in SUBSET Int
  BY RowsType DEF Seen
<1>2. asked \in SUBSET Int /\ ready \in SUBSET Int /\ routing \in SUBSET Int /\ upper \in SUBSET routing
  BY <1>1 DEF Last, From
<1>3. /\ OverlapPhases.PatroniPromotion = Span(asked, First(ready))
      /\ OverlapPhases.RoutingDetection = Span(First(routing), First(upper))
  BY DEF OverlapPhases
<1>4. \A a \in asked, b \in ready : b >= a
  BY DEF From
<1> HIDE DEF asked, ready, routing, upper
<1>5. CASE d \in Span(asked, First(ready))
  <2>1. PICK a \in asked, b \in First(ready) : d = b - a
    BY <1>5, SpanMembers
  <2>2. b \in ready
    BY <2>1 DEF First
  <2>3. a \in Int /\ b \in Int /\ b >= a
    BY <1>2, <1>4, <2>1, <2>2
  <2>. QED BY <2>1, <2>3
<1>6. CASE d \in Span(First(routing), First(upper))
  <2>1. PICK a \in First(routing), b \in First(upper) : d = b - a
    BY <1>6, SpanMembers
  <2>2. a \in Int /\ b \in Int /\ a <= b
    BY <1>2, <2>1 DEF First
  <2>. QED BY <2>1, <2>2
<1>. QED BY <1>3, <1>5, <1>6

\* The latency timeline shows every failed query of an outage that ended.
LEMMA TimelineShows ==
    ASSUME timeline \in Seq(Kinds), Waterfall.Tc # {}
    PROVE  Failures \subseteq LatencyRows
<1>1. PICK f, last \in Failures, c \in Successes :
         /\ First(Failures) = {f} /\ \A g \in Failures : f <= g
         /\ Last(Failures) = {last} /\ \A g \in Failures : g <= last
         /\ c > last /\ First(After(Successes, {last})) = {c}
  <2>1. PICK tc \in Waterfall.Tc : TRUE
    OBVIOUS
  <2>2. PICK f, last \in Failures, r, c \in Successes : OutageEnds(f, last, r, c, tc)
    BY <2>1, Ended
  <2>. QED BY <2>2 DEF OutageEnds
<1>2. LatencyRows = {t \in ClientRows : t \in (f - TimelinePad)..(TimelinePad + c)}
  <2>1. First(After(Successes, Last(Failures))) = {c} /\ First(Failures) = {f}
    BY <1>1
  <2>2. (CHOOSE x \in {c} : TRUE) = c /\ {c} # {}
    OBVIOUS
  <2>. QED BY <2>1, <2>2 DEF LatencyRows
<1>3. ASSUME NEW g \in Failures PROVE g \in LatencyRows
  <2>1. /\ g \in ClientRows /\ g \in Nat /\ f \in Nat /\ c \in Nat /\ last \in Nat
        /\ TimelinePad \in Nat
    BY LaneRows, OutcomeRows, DowntimeAssumption
  <2>2. f - TimelinePad <= g /\ g <= TimelinePad + c
    BY <1>1, <2>1
  <2>. QED BY <1>2, <2>1, <2>2
<1>. QED BY <1>3

\* All of it.
LEMMA Shown == IInv => OutagesAreShown
<1> DEFINE red == {bar \in ClientLane : bar.kind = "fail"}
           first == {bar \in red : bar.from \in First(Failures)}
<1> SUFFICES ASSUME timeline \in Seq(Kinds) PROVE OutagesAreShown
  BY DEF IInv
<1>1. ASSUME Window = DOMAIN timeline
      PROVE  /\ \A f \in Failures : \E bar \in red : f \in bar.from..bar.to
             /\ \A s \in Successes : \A bar \in red : s \notin bar.from..(bar.to - 1)
             /\ \A d \in ViewDowntime : {bar.to - bar.from : bar \in first} = {d}
             /\ \A tc \in Waterfall.Tc : \A f \in First(Failures) :
                   /\ Last({bar.to : bar \in red}) = {f + tc}
                   /\ Cardinality(red) > 1 <=> ViewDowntime # {tc}
                   /\ Span(Last(Failures), {f + tc}) = OverlapPhases.ClientRecovery
  <2>1. SeenWhole
    BY <1>1 DEF SeenWhole
  <2>2. \A f \in Failures : \E bar \in red : f \in bar.from..bar.to
    BY <2>1, FailedIsRed
  <2>3. \A s \in Successes : \A bar \in red : s \notin bar.from..(bar.to - 1)
    BY <2>1, SucceededIsNot
  <2>4. \A d \in ViewDowntime : {bar.to - bar.from : bar \in first} = {d}
    BY <2>1, FirstBar
  <2>5. \A tc \in Waterfall.Tc : \A f \in First(Failures) :
           /\ Last({bar.to : bar \in red}) = {f + tc}
           /\ Cardinality(red) > 1 <=> ViewDowntime # {tc}
           /\ Span(Last(Failures), {f + tc}) = OverlapPhases.ClientRecovery
    BY <2>1, RedBars, OverlapEnds
  <2>. QED BY <2>2, <2>3, <2>4, <2>5
<1>2. \A d \in OverlapPhases.PatroniPromotion \cup OverlapPhases.RoutingDetection : d >= 0
  BY OverlapForward
<1>3. Waterfall.Tc # {} => Failures \subseteq LatencyRows
  BY TimelineShows
<1> HIDE DEF red, first
<1>. QED BY <1>1, <1>2, <1>3, Zenon DEF OutagesAreShown, red, first

\* The client lane, the overlapping phases and the latency timeline hide no outage.
THEOREM OutagesAreDrawn == Spec => []OutagesAreShown
  BY Invariance, Shown, PTL
=============================================================================
