---------------------------- MODULE ObserverProofs ----------------------------
(***************************************************************************)
(* Theorems about modules Observer and Gantt, for any components, target    *)
(* lists and number of polls.                                              *)
(***************************************************************************)
EXTENDS Gantt, DataFacts

-----------------------------------------------------------------------------
(* The inductive invariant. *)

Pcs == {"created", "started", "setup", "test", "poll"} \cup Ended
Mains == {"configure", "start", "join", "close", "exit0", "exit1"}
Exits == {"exit0", "exit1"}

Typed ==
    /\ component \in Components /\ entries \in TargetLists
    /\ main \in Mains
    /\ next \in Nat /\ (next = 1 \/ next \in Watchers)
    /\ pc \in [Watchers -> Pcs]
    /\ running \in [Watchers -> BOOLEAN]
    /\ answers \in [Watchers -> Seq(Answers)]
    /\ closed \subseteq Watchers

\* The main thread goes over the watchers three times: it starts each, waits for
\* the end of each and closes the emitter of each.
InOrder ==
    /\ main = "configure" => closed = {} /\ next = 1 /\ \A w \in Watchers : pc[w] = "created"
    /\ main = "start" => /\ closed = {} /\ next \in Watchers
                         /\ \A w \in Watchers : w >= next => pc[w] = "created"
                         /\ \A w \in Watchers : w < next => pc[w] # "created"
    /\ main = "join" => /\ closed = {} /\ next \in Watchers
                        /\ \A w \in Watchers : w < next => pc[w] \in Ended
    /\ main = "close" => /\ next \in Watchers /\ closed = {w \in Watchers : w < next}
                         /\ \A w \in Watchers : pc[w] \in Ended
    /\ main \in Exits => \/ closed = Watchers /\ \A w \in Watchers : pc[w] \in Ended
                         \/ closed = {} /\ \A w \in Watchers : pc[w] = "created"

-----------------------------------------------------------------------------
(* The watchers. *)

\* They are numbered from one, and are the same in every state.
LEMMA WatchersShape ==
    ASSUME Typed
    PROVE  /\ Cardinality(Watchers) \in Nat
           /\ Watchers = 1..Cardinality(Watchers)
<1>1. CASE MultiTarget
  <2>1. entries \in Seq(STRING)
    BY ObserverAssumption DEF Typed
  <2>2. DOMAIN entries = 1..Len(entries) /\ Len(entries) \in Nat
    BY <2>1
  <2>3. IsFiniteSet(DOMAIN entries)
    BY <2>2, FS_Interval
  <2>4. Cardinality(ParsedTargets) \in Nat
    BY <2>3, FS_Subset, FS_CardinalityType DEF ParsedTargets
  <2>. QED BY <1>1, <2>4, UpToSize DEF Watchers
<1>2. CASE ~MultiTarget
  <2>1. Cardinality({1}) = 1
    BY FS_Singleton
  <2>2. 1..1 = {1}
    OBVIOUS
  <2>. QED BY <1>2, <2>1, <2>2 DEF Watchers
<1>. QED BY <1>1, <1>2

\* The configuration does not change.
LEMMA SettingsFrame ==
    ASSUME [Next]_vars
    PROVE  /\ component' = component /\ entries' = entries
           /\ Watchers' = Watchers /\ MultiTarget' = MultiTarget
           /\ Channels' = Channels /\ Answers' = Answers
<1>1. component' = component /\ entries' = entries
  BY DEF Next, MainStep, WatcherStep, vars, settings, Refuse, Configure, StartThread, Join,
     StopEmitter, Run, Setup, SetupRaises, LoopTest, Poll, PollRaises, Signal, Observe
<1>2. MultiTarget' = MultiTarget /\ ParsedTargets' = ParsedTargets
  BY <1>1 DEF MultiTarget, ParsedTargets
<1>3. Watchers' = Watchers
  BY <1>2 DEF Watchers
<1>4. Channels' = Channels /\ Shows' = Shows
  BY <1>1 DEF Channels, Shows
<1>5. Answers' = Answers
  BY <1>4 DEF Answers
<1>. QED BY <1>1, <1>2, <1>3, <1>4, <1>5

\* Where a watcher goes from where it is; one that has ended stays so.
LEMMA PcFrame ==
    ASSUME Typed, [Next]_vars
    PROVE  /\ pc' \in [Watchers -> Pcs]
           /\ \A w \in Watchers :
                \/ pc'[w] = pc[w]
                \/ pc[w] = "created" /\ pc'[w] = "started" /\ StartThread /\ w = next
                \/ /\ pc[w] \in {"started", "setup", "test", "poll"} /\ pc'[w] # "created"
                   /\ UNCHANGED <<main, next, closed>>
<1>0. pc \in [Watchers -> Pcs]
  BY DEF Typed
<1>1. ASSUME NEW v \in Watchers, WatcherStep(v)
      PROVE  /\ pc[v] \in {"started", "setup", "test", "poll"}
             /\ UNCHANGED <<main, next, closed>>
             /\ \E to \in Pcs \ {"created"} : pc' = [pc EXCEPT ![v] = to]
  <2>1. \E to \in Pcs \ {"created"} : Goto(v, "started", to) \/ Goto(v, "setup", to)
                                      \/ Goto(v, "test", to) \/ Goto(v, "poll", to)
    BY <1>1 DEF WatcherStep, Run, Setup, SetupRaises, LoopTest, Test, Poll, PollRaises, Pcs, Ended
  <2>2. UNCHANGED <<main, next, closed>>
    BY <1>1 DEF WatcherStep, Run, Setup, SetupRaises, LoopTest, Poll, PollRaises, Observe
  <2>. QED BY <2>1, <2>2 DEF Goto
<1>2. CASE \E v \in Watchers : WatcherStep(v)
  BY <1>0, <1>1, <1>2
<1>3. CASE StartThread
  <2>1. pc[next] = "created" /\ pc' = [pc EXCEPT ![next] = "started"]
    BY <1>3 DEF StartThread, Goto
  <2>2. "started" \in Pcs
    BY DEF Pcs
  <2>. QED BY <1>0, <1>3, <2>1, <2>2
<1>4. CASE Refuse \/ Configure \/ Join \/ StopEmitter \/ Signal \/ UNCHANGED vars
  BY <1>0, <1>4 DEF Refuse, Configure, Join, StopEmitter, Signal, vars
<1>. QED BY <1>2, <1>3, <1>4 DEF Next, MainStep

\* One step of a loop of the main thread over the watchers.
LEMMA LoopStep ==
    ASSUME Typed, next \in Watchers, NEW then, Advance(then)
    PROVE  \/ /\ next' = 1 /\ main' = then /\ 1 \in Watchers
              /\ \A w \in Watchers : w <= next
           \/ /\ next' = next + 1 /\ main' = main /\ next + 1 \in Watchers
  BY WatchersShape DEF Advance

\* The main thread's passes are complete before the next one begins.
LEMMA InOrderStep ==
    ASSUME Typed, Typed', InOrder, [Next]_vars
    PROVE  InOrder'
<1>1. Watchers' = Watchers
  BY SettingsFrame
<1>2. /\ pc' \in [Watchers -> Pcs]
      /\ \A w \in Watchers :
           \/ pc'[w] = pc[w]
           \/ pc[w] = "created" /\ pc'[w] = "started" /\ StartThread /\ w = next
           \/ /\ pc[w] \in {"started", "setup", "test", "poll"} /\ pc'[w] # "created"
              /\ UNCHANGED <<main, next, closed>>
  BY PcFrame
<1>3. /\ Watchers = 1..Cardinality(Watchers) /\ Cardinality(Watchers) \in Nat /\ next \in Nat
      /\ main \in Mains
  BY WatchersShape DEF Typed
<1>4. CASE UNCHANGED <<main, next, closed>> /\ ~StartThread
  <2>1. \A w \in Watchers : /\ pc[w] \in Ended => pc'[w] = pc[w]
                            /\ pc[w] = "created" <=> pc'[w] = "created"
    BY <1>2, <1>4 DEF Ended
  <2>. QED BY <1>1, <1>4, <2>1 DEF InOrder
<1>5. ASSUME ~StartThread, UNCHANGED pc PROVE \A w \in Watchers : pc'[w] = pc[w]
  BY <1>5
<1>6. CASE Refuse
  <2>1. /\ closed' = closed /\ pc' = pc /\ main = "configure" /\ main' = "exit1"
    BY <1>6 DEF Refuse
  <2>. QED BY <1>1, <2>1 DEF InOrder, Exits
<1>7. CASE Configure
  <2>1. /\ closed' = closed /\ pc' = pc /\ next' = next /\ main = "configure" /\ main' = "start"
        /\ Watchers # {}
    BY <1>7 DEF Configure
  <2>2. next = 1
    BY <2>1 DEF InOrder
  <2>. QED BY <1>1, <1>3, <2>1, <2>2 DEF InOrder, Exits
<1>8. CASE StartThread
  <2>1. /\ main = "start" /\ closed' = closed /\ Advance("join")
        /\ pc[next] = "created" /\ pc' = [pc EXCEPT ![next] = "started"]
    BY <1>8 DEF StartThread, Goto
  <2>2. /\ closed = {} /\ next \in Watchers
        /\ \A w \in Watchers : w >= next => pc[w] = "created"
        /\ \A w \in Watchers : w < next => pc[w] # "created"
    BY <2>1 DEF InOrder
  <2>3. /\ pc'[next] = "started" /\ \A w \in Watchers : w # next => pc'[w] = pc[w]
    BY <2>1, <2>2 DEF Typed
  <2>4. CASE next' = 1 /\ main' = "join" /\ 1 \in Watchers
    <3>1. \A w \in Watchers : ~(w < 1)
      BY <1>3
    <3>. QED BY <1>1, <2>1, <2>2, <2>4, <3>1 DEF InOrder, Exits
  <2>5. CASE next' = next + 1 /\ main' = main /\ next + 1 \in Watchers
    <3>1. \A w \in Watchers : /\ w >= next + 1 => w >= next /\ w # next
                              /\ w < next + 1 => w < next \/ w = next
      BY <1>3
    <3>2. /\ \A w \in Watchers : w >= next' => pc'[w] = "created"
          /\ \A w \in Watchers : w < next' => pc'[w] # "created"
      BY <2>2, <2>3, <2>5, <3>1
    <3>. QED BY <1>1, <2>1, <2>2, <2>5, <3>2 DEF InOrder, Exits
  <2>. QED BY <2>1, <2>2, <2>4, <2>5, LoopStep
<1>9. CASE Join
  <2>1. /\ main = "join" /\ closed' = closed /\ Advance("close") /\ pc' = pc /\ pc[next] \in Ended
    BY <1>9 DEF Join
  <2>2. /\ closed = {} /\ next \in Watchers
        /\ \A w \in Watchers : w < next => pc[w] \in Ended
    BY <2>1 DEF InOrder
  <2>3. CASE next' = 1 /\ main' = "close" /\ 1 \in Watchers /\ \A w \in Watchers : w <= next
    <3>1. \A w \in Watchers : w < next \/ w = next
      BY <1>3, <2>3
    <3>2. \A w \in Watchers : ~(w < 1)
      BY <1>3
    <3>. QED BY <1>1, <2>1, <2>2, <2>3, <3>1, <3>2 DEF InOrder, Exits
  <2>4. CASE next' = next + 1 /\ main' = main /\ next + 1 \in Watchers
    <3>1. \A w \in Watchers : w < next + 1 => w < next \/ w = next
      BY <1>3
    <3>. QED BY <1>1, <2>1, <2>2, <2>4, <3>1 DEF InOrder, Exits
  <2>. QED BY <2>1, <2>2, <2>3, <2>4, LoopStep
<1>10. CASE StopEmitter
  <2>1. /\ main = "close" /\ closed' = closed \cup {next} /\ Advance(ExitStatus) /\ pc' = pc
        /\ ExitStatus \in Exits
    BY <1>10 DEF StopEmitter, ExitStatus, Exits
  <2>2. /\ closed = {w \in Watchers : w < next} /\ next \in Watchers
        /\ \A w \in Watchers : pc[w] \in Ended
    BY <2>1 DEF InOrder
  <2>3. CASE next' = 1 /\ main' = ExitStatus /\ \A w \in Watchers : w <= next
    <3>1. \A w \in Watchers : w < next \/ w = next
      BY <1>3, <2>3
    <3>2. closed' = Watchers
      BY <2>1, <2>2, <3>1
    <3>. QED BY <1>1, <2>1, <2>2, <2>3, <3>2 DEF InOrder, Exits
  <2>4. CASE next' = next + 1 /\ main' = main /\ next + 1 \in Watchers
    <3>1. \A w \in Watchers : w < next + 1 <=> w < next \/ w = next
      BY <1>3
    <3>2. closed' = {w \in Watchers : w < next'}
      BY <2>1, <2>2, <2>4, <3>1
    <3>. QED BY <1>1, <2>1, <2>2, <2>4, <3>2 DEF InOrder, Exits
  <2>. QED BY <2>1, <2>2, <2>3, <2>4, LoopStep
<1>11. CASE (\E w \in Watchers : WatcherStep(w)) \/ Signal \/ UNCHANGED vars
  <2>1. UNCHANGED <<main, next, closed>>
    BY <1>11 DEF WatcherStep, Run, Setup, SetupRaises, LoopTest, Poll, PollRaises, Observe, Signal, vars
  <2>2. ~StartThread
    <3>1. StartThread => next' # next \/ main' # main
      BY <1>3 DEF StartThread, Advance
    <3>. QED BY <2>1, <3>1
  <2>. QED BY <1>4, <2>1, <2>2
<1>. QED BY <1>6, <1>7, <1>8, <1>9, <1>10, <1>11 DEF Next, MainStep

\* What a step does to the answers, the memories and the events.
LEMMA HistoryFrame ==
    ASSUME [Next]_vars
    PROVE  \/ UNCHANGED <<answers, memory, events>>
           \/ \E w \in Watchers : Setup(w) \/ Poll(w)
  BY DEF Next, MainStep, WatcherStep, vars, history, Refuse, Configure, StartThread, Join,
     StopEmitter, Run, SetupRaises, LoopTest, PollRaises, Signal

\* Every variable of the threads keeps its range.
LEMMA TypedStep ==
    ASSUME Typed, InOrder, [Next]_vars
    PROVE  Typed'
<1>1. /\ component' = component /\ entries' = entries
      /\ Watchers' = Watchers /\ Answers' = Answers
  BY SettingsFrame
<1>2. main \in {"start", "join", "close"} => next \in Watchers
  BY DEF InOrder
<1>3. main' \in Mains /\ next' \in Nat /\ (next' = 1 \/ next' \in Watchers) /\ closed' \subseteq Watchers
  <2>1. ASSUME NEW then \in Mains, Advance(then), main \in {"start", "join", "close"}
        PROVE  main' \in Mains /\ next' \in Nat /\ (next' = 1 \/ next' \in Watchers)
    BY <1>2, <2>1, LoopStep DEF Typed
  <2>2. CASE Refuse
    BY <2>2 DEF Refuse, Typed, Mains
  <2>3. CASE Configure
    BY <2>3 DEF Configure, Typed, Mains
  <2>4. CASE StartThread
    BY <2>1, <2>4 DEF StartThread, Typed, Mains
  <2>5. CASE Join
    BY <2>1, <2>5 DEF Join, Typed, Mains
  <2>6. CASE StopEmitter
    <3>1. ExitStatus \in Mains /\ Advance(ExitStatus) /\ main = "close" /\ closed' = closed \cup {next}
      BY <2>6 DEF StopEmitter, ExitStatus, Mains
    <3>2. closed' \subseteq Watchers
      BY <1>2, <3>1 DEF Typed
    <3>. QED BY <2>1, <3>1, <3>2
  <2>7. CASE (\E w \in Watchers : WatcherStep(w)) \/ Signal \/ UNCHANGED vars
    <3>1. UNCHANGED <<main, next, closed>>
      BY <2>7 DEF WatcherStep, Run, Setup, SetupRaises, LoopTest, Poll, PollRaises, Observe, Signal, vars
    <3>. QED BY <3>1 DEF Typed
  <2>. QED BY <2>2, <2>3, <2>4, <2>5, <2>6, <2>7 DEF Next, MainStep
<1>4. pc' \in [Watchers -> Pcs]
  BY PcFrame
<1>5. running' \in [Watchers -> BOOLEAN]
  <2>1. \/ running' = running
        \/ \E w \in Watchers : running' = [running EXCEPT ![w] = TRUE]
        \/ running' = [w \in Watchers |-> FALSE]
    BY DEF Next, MainStep, WatcherStep, vars, Refuse, Configure, StartThread, Join,
     StopEmitter, Run, Setup, SetupRaises, LoopTest, Poll, PollRaises, Signal, Observe
  <2>. QED BY <2>1 DEF Typed
<1>6. answers' \in [Watchers -> Seq(Answers)]
  <2>1. CASE UNCHANGED <<answers, memory, events>>
    BY <2>1 DEF Typed
  <2>2. ASSUME NEW w \in Watchers, Setup(w) \/ Poll(w)
        PROVE  answers' \in [Watchers -> Seq(Answers)]
    <3>1. PICK a \in Answers : answers' = [answers EXCEPT ![w] = Append(@, a)]
      BY <2>2 DEF Setup, Poll, Observe
    <3>2. answers \in [Watchers -> Seq(Answers)]
      BY DEF Typed
    <3> DEFINE S == Answers
    <3> HIDE DEF S
    <3>3. Append(answers[w], a) \in Seq(S)
      BY <3>1, <3>2 DEF S
    <3>. QED BY <3>1, <3>2, <3>3 DEF S
  <2>. QED BY <2>1, <2>2, HistoryFrame
<1>. QED BY <1>1, <1>3, <1>4, <1>5, <1>6 DEF Typed

-----------------------------------------------------------------------------
(* What an answer tells and what is remembered of it. *)

\* The five components.
LEMMA ComponentCases ==
    ASSUME component \in Components
    PROVE  component \in {"patroni", "consul", "haproxy", "postgres", "vip"}
  BY ObserverAssumption

\* What Patroni can answer: a role and a state, and a timeline that may be absent.
LEMMA PatroniAnswer ==
    ASSUME component = "patroni", NEW a \in Answers, a.answered
    PROVE  /\ \A c \in {"role", "state"} : a.seen[c] \in Values \ {None, Absent, "unreachable", ""}
           /\ a.seen.timeline # None
           /\ a.seen.timeline # Absent => a.seen.timeline \in Values
<1>1. a.seen \in PatroniShows
  BY DEF Answers, Shows, Answer, Failed
<1>2. /\ a.seen.role \in STRING \ {"", None, Absent, "unreachable"}
      /\ a.seen.state \in STRING \ {"", None, Absent, "unreachable"}
      /\ a.seen.timeline # None
  BY <1>1, ObserverAssumption
<1>3. \A c : a.seen[c] \in PatroniValues(c)
  BY <1>1 DEF PatroniValues
<1>4. a.seen.role \in Values /\ a.seen.state \in Values
  BY <1>3 DEF Values
<1>5. a.seen.timeline # Absent => a.seen.timeline \in Values
  BY <1>3 DEF Values
<1>. QED BY <1>2, <1>4, <1>5

\* A memory holds a value for each channel after a poll as before it.
LEMMA RememberedType ==
    ASSUME component \in Components, NEW mem \in [Channels -> Values], NEW a \in Answers
    PROVE  Remembered(mem, a) \in [Channels -> Values]
<1>1. CASE component = "patroni"
  <2>1. Channels = {"role", "state", "timeline"} /\ Remembered(mem, a) = PatroniMemory(mem, a)
    BY <1>1 DEF Channels, Remembered
  <2>2. None \in Values /\ "unreachable" \in Values
    BY DEF Values
  <2>3. CASE a.answered
    <3>1. a.seen.role \in Values /\ a.seen.state \in Values /\ TimelineOf(a.seen) \in Values
      BY <1>1, <2>2, <2>3, PatroniAnswer DEF TimelineOf
    <3>. QED BY <2>1, <2>3, <3>1 DEF PatroniMemory
  <2>4. CASE ~a.answered
    BY <2>1, <2>2, <2>4 DEF PatroniMemory
  <2>. QED BY <2>3, <2>4
<1>2. CASE component = "consul"
  <2>1. Channels = {"leader"} /\ Remembered(mem, a) = ConsulMemory(mem, a)
    BY <1>2 DEF Channels, Remembered
  <2>2. a.answered => a.seen \in [leader : {"node1", "node2", Absent}]
    BY <1>2 DEF Answers, Shows, Answer, Failed
  <2>. QED BY <2>1, <2>2 DEF ConsulMemory, Values, None, Absent
<1>3. CASE component = "haproxy"
  <2>1. Channels = {"server1", "server2"} /\ Remembered(mem, a) = HaproxyMemory(mem, a)
    BY <1>3 DEF Channels, Remembered
  <2>2. a.answered => a.seen \in [server1 : {"UP", "DOWN", Absent}, server2 : {"UP", "DOWN"}]
    BY <1>3 DEF Answers, Shows, Answer, Failed
  <2>. QED BY <2>1, <2>2 DEF HaproxyMemory, Values, None, Absent
<1>4. CASE component = "postgres"
  <2>1. Channels = {"recovery", "timeline", "reachable"} /\ Remembered(mem, a) = PostgresMemory(mem, a)
    BY <1>4 DEF Channels, Remembered
  <2>2. a.answered => a.seen \in [recovery : {"primary", "in_recovery"}, timeline : {"1", "2"}]
    BY <1>4 DEF Answers, Shows, Answer, Failed
  <2>. QED BY <2>1, <2>2 DEF PostgresMemory, Values
<1>5. CASE component = "vip"
  <2>1. Channels = {"vip"} /\ Remembered(mem, a) = VipMemory(mem, a)
    BY <1>5 DEF Channels, Remembered
  <2>2. a.answered => a.seen \in [vip : {"bound", "unbound"}]
    BY <1>5 DEF Answers, Shows, Answer, Failed
  <2>. QED BY <2>1, <2>2 DEF VipMemory, Values
<1>. QED BY <1>1, <1>2, <1>3, <1>4, <1>5, ComponentCases

-----------------------------------------------------------------------------
(* Counting in sequences. *)

\* The positions of the elements of C, and how many there are.
Positions(s, C) == {k \in DOMAIN s : s[k] \in C}
CountIn(s, C) == Cardinality(Positions(s, C))

\* A count is a number.
LEMMA CountType ==
    ASSUME NEW S, NEW s \in Seq(S), NEW C
    PROVE  IsFiniteSet(Positions(s, C)) /\ CountIn(s, C) \in Nat
<1>1. DOMAIN s = 1..Len(s) /\ Len(s) \in Nat
  OBVIOUS
<1>2. IsFiniteSet(DOMAIN s)
  BY <1>1, FS_Interval
<1>. QED BY <1>2, FS_Subset, FS_CardinalityType DEF Positions, CountIn

\* Counts add up.
LEMMA CountConcat ==
    ASSUME NEW S, NEW s \in Seq(S), NEW t \in Seq(S), NEW C
    PROVE  CountIn(s \o t, C) = CountIn(s, C) + CountIn(t, C)
<1> DEFINE n == Len(s)
           m == Len(t)
           c == s \o t
           P == Positions(s, C)
           Q == Positions(t, C)
           R == {k \in (n + 1)..(n + m) : c[k] \in C}
<1>1. /\ DOMAIN c = 1..(n + m)
      /\ \A i \in 1..n : c[i] = s[i]
      /\ \A i \in 1..m : c[n + i] = t[i]
      /\ DOMAIN s = 1..n  /\ n \in Nat
      /\ DOMAIN t = 1..m  /\ m \in Nat
  OBVIOUS
<1>2. IsFiniteSet(P) /\ Cardinality(P) \in Nat /\ IsFiniteSet(Q) /\ Cardinality(Q) \in Nat
  BY CountType DEF CountIn
<1> HIDE DEF c, n, m
<1>3. Positions(c, C) = P \cup R
  <2>1. \A k : k \in 1..(n + m) <=> k \in 1..n \/ k \in (n + 1)..(n + m)
    BY <1>1
  <2>. QED BY <1>1, <2>1 DEF Positions
<1>4. P \cap R = {}
  BY <1>1 DEF Positions
<1>5. IsFiniteSet(R) /\ Cardinality(R) = Cardinality(Q)
  <2> DEFINE f == [k \in Q |-> n + k]
  <2>1. Q \subseteq 1..m /\ \A k \in Q : n + k \in R
    BY <1>1 DEF Positions
  <2>2. \A r \in R : r - n \in Q /\ r = n + (r - n)
    <3> SUFFICES ASSUME NEW r \in R PROVE r - n \in Q /\ r = n + (r - n)
      OBVIOUS
    <3>1. r \in Nat /\ r - n \in 1..m /\ r = n + (r - n)
      BY <1>1
    <3>2. c[r] = t[r - n]
      BY <1>1, <3>1
    <3>. QED BY <1>1, <3>1, <3>2 DEF Positions
  <2> HIDE DEF Q, R
  <2>3. f \in Bijection(Q, R)
    <3>1. f \in [Q -> R]
      BY <2>1
    <3>2. \A i, j \in Q : f[i] = f[j] => i = j
      BY <1>1, <2>1
    <3>3. \A r \in R : \E k \in Q : f[k] = r
      BY <2>2
    <3> HIDE DEF f
    <3>. QED BY <3>1, <3>2, <3>3 DEF Bijection, Injection, Surjection, IsInjective
  <2>4. ExistsBijection(Q, R)
    BY <2>3 DEF ExistsBijection
  <2>5. IsFiniteSet(Q)
    BY <1>2 DEF Q
  <2>. QED BY <2>4, <2>5, FS_Bijection
<1>6. Cardinality(P \cup R) = Cardinality(P) + Cardinality(R) - Cardinality(P \cap R)
  BY <1>2, <1>5, FS_Union
<1>7. Cardinality(P \cap R) = 0
  BY <1>4, FS_EmptySet
<1>8. Cardinality(Positions(c, C)) = Cardinality(P) + Cardinality(Q)
  <2> HIDE DEF P, Q, R
  <2>. QED BY <1>2, <1>3, <1>5, <1>6, <1>7
<1>. QED BY <1>8 DEF CountIn, c

\* An empty sequence has none, and one of one element has at most that.
LEMMA CountSmall ==
    /\ \A C : CountIn(<<>>, C) = 0
    /\ \A e, C : CountIn(<<e>>, C) = IF e \in C THEN 1 ELSE 0
<1>1. ASSUME NEW C PROVE CountIn(<<>>, C) = 0
  <2>1. Positions(<<>>, C) = {}
    BY DEF Positions
  <2>. QED BY <2>1, FS_EmptySet DEF CountIn
<1>2. ASSUME NEW e, NEW C PROVE CountIn(<<e>>, C) = IF e \in C THEN 1 ELSE 0
  <2>1. Positions(<<e>>, C) = IF e \in C THEN {1} ELSE {}
    BY DEF Positions
  <2>. QED BY <2>1, FS_EmptySet, FS_Singleton DEF CountIn
<1>. QED BY <1>1, <1>2

-----------------------------------------------------------------------------
(* What an answer should be reported as, of any history of answers. *)

\* The parts of ToldOfChange, for a component and a sequence of answers.
TellsOf(comp, a, c) == a.answered \/ c = "reachable" \/ (comp = "patroni" /\ c = "state")

EarlierIn(comp, s, i, c) == {j \in 1..(i - 1) : TellsOf(comp, s[j], c)}

BeforeIn(comp, s, i, c) ==
    {Value(s[j], c) :
        j \in {k \in EarlierIn(comp, s, i, c) : \A l \in EarlierIn(comp, s, i, c) : l <= k}}

DueFrom(comp, a, c, before, i) ==
    /\ TellsOf(comp, a, c)
    /\ \/ /\ \E v \in before : v # Value(a, c)
          /\ comp = "haproxy" => Absent \notin before \cup {Value(a, c)}
          /\ comp = "patroni" => Absent \notin before
       \/ /\ before = {}
          /\ Value(a, c) # Absent
          /\ c \in Announced
          /\ i = 1 \/ c = "leader" \/ Value(a, c) = "unreachable"

DueOf(comp, s, i, c) == DueFrom(comp, s[i], c, BeforeIn(comp, s, i, c), i)

\* They are the definitions the property is stated with.
LEMMA DueIsTold ==
    ASSUME NEW w, NEW i, NEW c
    PROVE  ToldOfChange(w, i, c) <=> DueOf(component, answers[w], i, c)
<1>1. ValueBefore(w, i, c) = BeforeIn(component, answers[w], i, c)
  BY DEF ValueBefore, BeforeIn, Earlier, EarlierIn, Tells, TellsOf
<1>2. \A j : Tells(answers[w][j], c) <=> TellsOf(component, answers[w][j], c)
  BY DEF Tells, TellsOf
<1>. QED BY <1>1, <1>2 DEF ToldOfChange, DueOf, DueFrom

\* What is before a poll depends on the earlier answers alone.
LEMMA BeforePrefix ==
    ASSUME NEW comp, NEW s, NEW t, NEW i \in Nat, NEW c,
           \A j \in 1..(i - 1) : s[j] = t[j]
    PROVE  BeforeIn(comp, s, i, c) = BeforeIn(comp, t, i, c)
<1>1. EarlierIn(comp, s, i, c) = EarlierIn(comp, t, i, c)
  BY DEF EarlierIn
<1>2. \A j \in EarlierIn(comp, s, i, c) : s[j] = t[j]
  BY DEF EarlierIn
<1>. QED BY <1>1, <1>2 DEF BeforeIn

\* After a poll it is the value the poll told, if it told one.
LEMMA BeforeNext ==
    ASSUME NEW comp, NEW s, NEW n \in Nat, NEW c
    PROVE  /\ TellsOf(comp, s[n + 1], c) => BeforeIn(comp, s, n + 2, c) = {Value(s[n + 1], c)}
           /\ ~TellsOf(comp, s[n + 1], c) => BeforeIn(comp, s, n + 2, c) = BeforeIn(comp, s, n + 1, c)
<1> DEFINE E == EarlierIn(comp, s, n + 1, c)
           F == EarlierIn(comp, s, n + 2, c)
<1>1. F = {j \in 1..(n + 1) : TellsOf(comp, s[j], c)} /\ E = {j \in 1..n : TellsOf(comp, s[j], c)}
  <2>1. (n + 2) - 1 = n + 1 /\ (n + 1) - 1 = n
    OBVIOUS
  <2>. QED BY <2>1 DEF EarlierIn
<1>2. CASE TellsOf(comp, s[n + 1], c)
  <2>1. n + 1 \in F /\ \A l \in F : l <= n + 1 /\ (l # n + 1 => ~(n + 1 <= l))
    BY <1>1, <1>2
  <2>2. {k \in F : \A l \in F : l <= k} = {n + 1}
    <3> HIDE DEF F
    <3>. QED BY <2>1
  <2>. QED BY <1>2, <2>2 DEF BeforeIn
<1>3. CASE ~TellsOf(comp, s[n + 1], c)
  <2>1. F = E
    <3>1. \A j : j \in 1..(n + 1) <=> j \in 1..n \/ j = n + 1
      OBVIOUS
    <3>. QED BY <1>1, <1>3, <3>1
  <2>. QED BY <1>3, <2>1 DEF BeforeIn
<1>. QED BY <1>2, <1>3

-----------------------------------------------------------------------------
(* The events of one watcher. *)

EventKinds ==
    {"role_change", "node_state_change", "timeline_change", "leader_key_created",
     "leader_key_change", "leader_key_deleted", "backend_state_change",
     "pg_ready_accept_connections", "pg_state_detected", "pg_promote_detected",
     "pg_demote_detected", "pg_timeline_change", "pg_connection_lost", "vip_state_change"}

\* As a watcher makes them, and as they are kept, with the poll they are of.
EventType(chs) == [type : EventKinds, channel : chs, old : Values, new : Values]
DatedType(chs) == [type : EventKinds, channel : chs, old : Values, new : Values, poll : Nat]

On(chs, c)    == {e \in EventType(chs) : e.channel = c}
At(chs, i, c) == {e \in DatedType(chs) : e.poll = i /\ e.channel = c}

\* One event for each thing there is to report, and none besides.
Accounted(comp, chs, hist, es) ==
    \A i \in DOMAIN hist : \A c \in chs :
        CountIn(es, At(chs, i, c)) = IF DueOf(comp, hist, i, c) THEN 1 ELSE 0

PollsIn(es, polls) == \A k \in DOMAIN es : es[k].poll \in polls

\* What one poll adds: the events of its changes.
AddedFor(comp, chs, bs, i, more) ==
    \A c \in chs : CountIn(more, At(chs, i, c)) = IF DueOf(comp, bs, i, c) THEN 1 ELSE 0

\* A history and the one that an answer makes of it.
LEMMA HistoryShape ==
    ASSUME NEW S, NEW hist \in Seq(S), NEW a \in S
    PROVE  /\ DOMAIN hist = 1..Len(hist) /\ Len(hist) \in Nat
           /\ DOMAIN Append(hist, a) = 1..(Len(hist) + 1)
           /\ \A j \in 1..Len(hist) : Append(hist, a)[j] = hist[j]
           /\ Append(hist, a)[Len(hist) + 1] = a
           /\ Append(hist, a) \in Seq(S) /\ Len(Append(hist, a)) = Len(hist) + 1
  OBVIOUS

\* It stays so when a poll adds an answer and what that is to be reported as.
LEMMA AccountedStep ==
    ASSUME NEW comp, NEW chs, NEW S, NEW hist \in Seq(S), NEW a \in S,
           NEW es \in Seq(DatedType(chs)), NEW more \in Seq(DatedType(chs)),
           PollsIn(es, DOMAIN hist), PollsIn(more, {Len(hist) + 1}),
           Accounted(comp, chs, hist, es),
           AddedFor(comp, chs, Append(hist, a), Len(hist) + 1, more)
    PROVE  /\ es \o more \in Seq(DatedType(chs))
           /\ PollsIn(es \o more, DOMAIN Append(hist, a))
           /\ Accounted(comp, chs, Append(hist, a), es \o more)
<1> DEFINE D == DatedType(chs)
           n == Len(hist)
           bs == Append(hist, a)
           fs == es \o more
<1> HIDE DEF D, bs, n
<1>1. /\ DOMAIN hist = 1..n /\ n \in Nat /\ DOMAIN bs = 1..(n + 1)
      /\ \A j \in 1..n : bs[j] = hist[j]
  BY HistoryShape DEF bs, n
<1>0. /\ \A k \in DOMAIN es : es[k].poll \in 1..n
      /\ \A k \in DOMAIN more : more[k].poll = n + 1
  BY <1>1 DEF n, PollsIn
<1>2. /\ es \in Seq(D) /\ more \in Seq(D)
  BY DEF D
<1>3. fs \in Seq(D)
  BY <1>2
<1>4. /\ Len(es) \in Nat /\ Len(more) \in Nat /\ DOMAIN fs = 1..(Len(es) + Len(more))
      /\ DOMAIN es = 1..Len(es) /\ DOMAIN more = 1..Len(more)
      /\ \A k \in 1..Len(es) : fs[k] = es[k]
      /\ \A k \in 1..Len(more) : fs[Len(es) + k] = more[k]
  BY <1>2
<1> HIDE DEF fs
<1>5. \A k \in DOMAIN fs : fs[k].poll \in DOMAIN bs
  <2> SUFFICES ASSUME NEW k \in DOMAIN fs PROVE fs[k].poll \in 1..(n + 1)
    BY <1>1
  <2>1. CASE k \in 1..Len(es)
    <3>1. fs[k].poll \in 1..n
      BY <1>0, <1>4, <2>1
    <3>. QED BY <1>1, <3>1
  <2>2. CASE k \notin 1..Len(es)
    <3>1. k - Len(es) \in 1..Len(more) /\ Len(es) + (k - Len(es)) = k
      BY <1>4, <2>2
    <3>2. fs[k] = more[k - Len(es)]
      BY <1>4, <3>1
    <3>3. fs[k].poll = n + 1
      BY <1>0, <1>4, <3>1, <3>2
    <3>. QED BY <1>1, <3>3
  <2>. QED BY <2>1, <2>2
<1>6. ASSUME NEW i \in DOMAIN bs, NEW c \in chs
      PROVE  CountIn(fs, At(chs, i, c)) = IF DueOf(comp, bs, i, c) THEN 1 ELSE 0
  <2>1. CountIn(fs, At(chs, i, c)) = CountIn(es, At(chs, i, c)) + CountIn(more, At(chs, i, c))
    BY <1>2, CountConcat DEF fs
  <2>2. /\ CountIn(es, At(chs, i, c)) \in Nat /\ CountIn(more, At(chs, i, c)) \in Nat
    BY <1>2, CountType
  <2>3. CASE i \in 1..n
    <3>0. i \in Nat /\ i # n + 1
      BY <1>1, <2>3
    <3>1. Positions(more, At(chs, i, c)) = {}
      BY <1>0, <3>0 DEF Positions, At
    <3>2. CountIn(more, At(chs, i, c)) = 0
      BY <3>1, FS_EmptySet DEF CountIn
    <3>4. BeforeIn(comp, hist, i, c) = BeforeIn(comp, bs, i, c)
      <4>1. \A j \in 1..(i - 1) : j \in 1..n
        BY <1>1, <2>3
      <4>2. \A j \in 1..(i - 1) : hist[j] = bs[j]
        BY <1>1, <4>1
      <4>3. ASSUME NEW s, NEW t, \A j \in 1..(i - 1) : s[j] = t[j]
            PROVE  BeforeIn(comp, s, i, c) = BeforeIn(comp, t, i, c)
        BY <3>0, <4>3, BeforePrefix
      <4>. QED BY <4>2, <4>3
    <3>5. DueOf(comp, hist, i, c) <=> DueOf(comp, bs, i, c)
      BY <1>1, <2>3, <3>4 DEF DueOf
    <3>6. CountIn(es, At(chs, i, c)) = IF DueOf(comp, bs, i, c) THEN 1 ELSE 0
      BY <1>1, <2>3, <3>5 DEF Accounted
    <3>7. CountIn(fs, At(chs, i, c)) = CountIn(es, At(chs, i, c))
      BY <2>1, <2>2, <3>2
    <3>. QED BY <3>6, <3>7
  <2>4. CASE i = n + 1
    <3>1. Positions(es, At(chs, i, c)) = {}
      <4>1. ~(n + 1 \in 1..n)
        BY <1>1
      <4>. QED BY <1>0, <2>4, <4>1 DEF Positions, At
    <3>2. CountIn(es, At(chs, i, c)) = 0
      BY <3>1, FS_EmptySet DEF CountIn
    <3>3. CountIn(more, At(chs, i, c)) = IF DueOf(comp, bs, i, c) THEN 1 ELSE 0
      <4>1. AddedFor(comp, chs, bs, n + 1, more)
        BY DEF bs, n
      <4>. QED BY <2>4, <4>1 DEF AddedFor
    <3>. QED BY <2>1, <2>2, <3>2, <3>3
  <2>5. i \in 1..n \/ i = n + 1
    BY <1>1
  <2>. QED BY <2>3, <2>4, <2>5
<1>. QED BY <1>3, <1>5, <1>6 DEF Accounted, PollsIn, D, bs, fs

\* A dated sequence has the events of its poll where the watcher made them.
LEMMA DatedShape ==
    ASSUME NEW chs, NEW s \in Seq(EventType(chs)), NEW i \in Nat
    PROVE  LET t == [k \in DOMAIN s |-> Dated(s[k], i)]
           IN  /\ t \in Seq(DatedType(chs))
               /\ PollsIn(t, {i})
               /\ \A c : CountIn(t, At(chs, i, c)) = CountIn(s, On(chs, c))
<1> DEFINE t == [k \in DOMAIN s |-> Dated(s[k], i)]
           S == EventType(chs)
           D == DatedType(chs)
<1>1. \A e \in S : Dated(e, i) \in D /\ Dated(e, i).poll = i /\ Dated(e, i).channel = e.channel
  BY DEF EventType, DatedType, Dated
<1> HIDE DEF S, D
<1>2. s \in Seq(S)
  BY DEF S
<1>3. DOMAIN s = 1..Len(s) /\ Len(s) \in Nat /\ \A k \in DOMAIN s : s[k] \in S
  BY <1>2
<1>4. t \in [1..Len(s) -> D]
  BY <1>1, <1>3
<1>5. t \in Seq(D)
  BY <1>3, <1>4
<1>6. \A k \in DOMAIN t : t[k].poll = i
  BY <1>1, <1>3
<1>7. ASSUME NEW c PROVE CountIn(t, At(chs, i, c)) = CountIn(s, On(chs, c))
  <2>1. Positions(t, At(chs, i, c)) = Positions(s, On(chs, c))
    BY <1>1, <1>3 DEF Positions, At, On, S, D
  <2>. QED BY <2>1 DEF CountIn
<1>. QED BY <1>5, <1>6, <1>7 DEF D, PollsIn

-----------------------------------------------------------------------------
(* What one poll emits is what is due. *)

\* What a watcher remembers of a channel is the value told last: the absent one is
\* forgotten, and only three components can answer that a value is absent.
MayBeAbsent(comp, c) == comp \in {"consul", "haproxy"} \/ (comp = "patroni" /\ c = "timeline")

Known(comp, c, before, value) ==
    \/ before = {} /\ value = None
    \/ \E v : /\ before = {v} /\ v # None
              /\ v = Absent => MayBeAbsent(comp, c)
              /\ c = "reachable" => v \in {"yes", "no"}
              /\ value = IF v = Absent THEN None ELSE v

\* A change is one event of its channel.
LEMMA CountChanges ==
    ASSUME NEW chs, NEW mem \in [chs -> Values], NEW type \in EventKinds, NEW channel \in chs,
           NEW new \in Values, NEW initial \in BOOLEAN
    PROVE  /\ Changes(mem, type, channel, new, initial) \in Seq(EventType(chs))
           /\ \A c : CountIn(Changes(mem, type, channel, new, initial), On(chs, c))
                       = IF c = channel /\ new # mem[channel] /\ (mem[channel] # None \/ initial)
                         THEN 1 ELSE 0
<1> DEFINE e == Event(mem, type, channel, new)
           S == EventType(chs)
<1>1. e \in S /\ e.channel = channel
  BY DEF Event, EventType
<1>2. \A c : e \in On(chs, c) <=> c = channel
  BY <1>1 DEF On
<1> HIDE DEF e, S
<1>3. <<e>> \in Seq(S) /\ <<>> \in Seq(S)
  BY <1>1
<1>4. CASE new # mem[channel] /\ (mem[channel] # None \/ initial)
  <2>1. Changes(mem, type, channel, new, initial) = <<e>>
    BY <1>4 DEF Changes, e
  <2>. QED BY <1>2, <1>3, <1>4, <2>1, CountSmall DEF S
<1>5. CASE ~(new # mem[channel] /\ (mem[channel] # None \/ initial))
  <2>1. Changes(mem, type, channel, new, initial) = <<>>
    BY <1>5 DEF Changes
  <2>. QED BY <1>3, <1>5, <2>1, CountSmall DEF S
<1>. QED BY <1>4, <1>5

\* Events that are counted: in the set and of which there are so many on a channel.
LEMMA CountTwo ==
    ASSUME NEW chs, NEW s \in Seq(EventType(chs)), NEW t \in Seq(EventType(chs))
    PROVE  /\ s \o t \in Seq(EventType(chs))
           /\ \A c : /\ CountIn(s \o t, On(chs, c)) = CountIn(s, On(chs, c)) + CountIn(t, On(chs, c))
                     /\ CountIn(s, On(chs, c)) \in Nat /\ CountIn(t, On(chs, c)) \in Nat
<1> DEFINE S == EventType(chs)
<1> HIDE DEF S
<1>1. s \in Seq(S) /\ t \in Seq(S)
  BY DEF S
<1>2. s \o t \in Seq(S)
  BY <1>1
<1>. QED BY <1>1, <1>2, CountConcat, CountType DEF S

\* An answer that is one shows what the component can show.
LEMMA AnswerShape ==
    ASSUME NEW a \in Answers
    PROVE  a.answered => a.seen \in Shows
  BY DEF Answers, Answer, Failed

\* A value is new, and there was one or a first one is announced.
Compared(c, value, new, i) ==
    /\ new # value
    /\ value # None \/ (c \in Announced /\ (i = 1 \/ c = "leader" \/ new = "unreachable"))

\* For a value that is not absent, a watcher that compares it with what it remembers
\* finds what the history of the channel says.
LEMMA ChangeIsDue ==
    ASSUME NEW comp, NEW c, NEW before, NEW value, NEW a, NEW i,
           Known(comp, c, before, value), i = 1 => before = {},
           TellsOf(comp, a, c), Value(a, c) \notin {None, Absent},
           comp = "consul" => c = "leader",
           comp = "haproxy" => c # "leader" /\ Value(a, c) # "unreachable"
    PROVE  /\ DueFrom(comp, a, c, before, i)
                <=> Compared(c, value, Value(a, c), i)
           /\ c = "reachable" => Value(a, c) \in {"yes", "no"}
           /\ Known(comp, c, {Value(a, c)}, Value(a, c))
<1>1. c = "reachable" => Value(a, c) \in {"yes", "no"}
  BY DEF Value
<1>2. Known(comp, c, {Value(a, c)}, Value(a, c))
  BY <1>1 DEF Known
<1>3. CASE before = {} /\ value = None
  <2>1. ~\E v \in before : v # Value(a, c)
    BY <1>3
  <2>2. Value(a, c) # Absent /\ Value(a, c) # value
    BY <1>3
  <2>3. DueFrom(comp, a, c, before, i)
          <=> c \in Announced /\ (i = 1 \/ c = "leader" \/ Value(a, c) = "unreachable")
    BY <1>3, <2>1, <2>2, Zenon DEF DueFrom
  <2>4. DueFrom(comp, a, c, before, i) <=> Compared(c, value, Value(a, c), i)
    BY <1>3, <2>2, <2>3 DEF Compared
  <2>. QED BY <1>1, <1>2, <2>4
<1>4. ASSUME NEW v, before = {v}, v # None, v = Absent => MayBeAbsent(comp, c),
             value = IF v = Absent THEN None ELSE v
      PROVE  DueFrom(comp, a, c, before, i)
                <=> Compared(c, value, Value(a, c), i)
  <2>1. i # 1 /\ before # {}
    BY <1>4
  <2>2. CASE v = Absent
    <3>1. CASE comp = "haproxy"
      BY <1>4, <2>1, <2>2, <3>1 DEF DueFrom, Compared
    <3>3. CASE comp = "patroni" /\ c = "timeline"
      <4>1. ~(c \in Announced) /\ Absent \in before /\ value = None
        BY <1>4, <2>2, <3>3 DEF Announced
      <4>. QED BY <2>1, <3>3, <4>1 DEF DueFrom, Compared
    <3>2. CASE comp = "consul"
      <4>1. "leader" \in Announced
        BY DEF Announced
      <4>. QED BY <1>4, <2>1, <2>2, <3>2, <4>1 DEF DueFrom, Compared
    <3>. QED BY <1>4, <2>2, <3>1, <3>2, <3>3 DEF MayBeAbsent
  <2>3. CASE v # Absent
    <3>1. value = v /\ value # None
      BY <1>4, <2>3
    <3>2. (comp = "haproxy" => Absent \notin before \cup {Value(a, c)}) /\ Absent \notin before
      BY <1>4, <2>3
    <3>. QED BY <1>4, <2>1, <3>1, <3>2 DEF DueFrom, Compared
  <2>. QED BY <2>2, <2>3
<1>5. \/ before = {} /\ value = None
      \/ \E v : /\ before = {v} /\ v # None /\ (v = Absent => MayBeAbsent(comp, c))
                /\ value = IF v = Absent THEN None ELSE v
  BY DEF Known
<1>6. DueFrom(comp, a, c, before, i) <=> Compared(c, value, Value(a, c), i)
  BY <1>3, <1>4, <1>5
<1>. QED BY <1>1, <1>2, <1>6

\* The number of events owed for a channel.
Owed(comp, a, c, before, i) == IF DueFrom(comp, a, c, before, i) THEN 1 ELSE 0

\* The first value of a channel is announced.
Announces(c, new, i) == c \in Announced /\ (i = 1 \/ c = "leader" \/ new = "unreachable")

\* The comparison that does so.
Compare(mem, type, channel, new, i) == Changes(mem, type, channel, new, Announces(channel, new, i))

\* Events of one channel, n of them.
OnlyOn(chs, s, channel, n) ==
    /\ s \in Seq(EventType(chs))
    /\ CountIn(s, On(chs, channel)) = n
    /\ \A c : c # channel => CountIn(s, On(chs, c)) = 0

\* A comparison that announces the first value when the property says so is
\* reported exactly when it is due.
LEMMA ComparedOwn ==
    ASSUME NEW comp, NEW chs, NEW mem \in [chs -> Values], NEW type \in EventKinds,
           NEW channel \in chs, NEW a, NEW i, NEW before,
           Known(comp, channel, before, mem[channel]), i = 1 => before = {},
           TellsOf(comp, a, channel), Value(a, channel) \in Values \ {None, Absent},
           comp = "consul" => channel = "leader",
           comp = "haproxy" => channel # "leader" /\ Value(a, channel) # "unreachable"
    PROVE  LET s == Compare(mem, type, channel, Value(a, channel), i)
           IN  /\ s \in Seq(EventType(chs))
               /\ CountIn(s, On(chs, channel)) = Owed(comp, a, channel, before, i)
<1> DEFINE new == Value(a, channel)
           announced == Announces(channel, new, i)
           s == Changes(mem, type, channel, new, announced)
<1>1. DueFrom(comp, a, channel, before, i) <=> Compared(channel, mem[channel], new, i)
  BY ChangeIsDue
<1>2. Compared(channel, mem[channel], new, i)
        <=> new # mem[channel] /\ (mem[channel] # None \/ announced)
  BY DEF Compared, Announces
<1>3. announced \in BOOLEAN
  BY DEF Announces
<1>4. new \in Values
  OBVIOUS
<1> HIDE DEF new, announced
<1>5. /\ s \in Seq(EventType(chs))
      /\ \A c : CountIn(s, On(chs, c))
                  = IF c = channel /\ new # mem[channel] /\ (mem[channel] # None \/ announced)
                    THEN 1 ELSE 0
  BY <1>3, <1>4, CountChanges
<1>6. /\ s \in Seq(EventType(chs))
      /\ CountIn(s, On(chs, channel)) = Owed(comp, a, channel, before, i)
  BY <1>1, <1>2, <1>5 DEF Owed
<1>. QED BY <1>6 DEF new, announced, Compare

\* It is no event of another channel.
LEMMA ComparedElsewhere ==
    ASSUME NEW chs, NEW mem \in [chs -> Values], NEW type \in EventKinds, NEW channel \in chs,
           NEW new \in Values, NEW i, NEW c, c # channel
    PROVE  CountIn(Compare(mem, type, channel, new, i), On(chs, c)) = 0
<1> DEFINE announced == Announces(channel, new, i)
<1>1. announced \in BOOLEAN
  BY DEF Announces
<1> HIDE DEF announced
<1>2. CountIn(Changes(mem, type, channel, new, announced), On(chs, c)) = 0
  BY <1>1, CountChanges
<1>. QED BY <1>2 DEF Compare, announced

\* Both together.
LEMMA ChangeCounted ==
    ASSUME NEW comp, NEW chs, NEW mem \in [chs -> Values], NEW type \in EventKinds,
           NEW channel \in chs, NEW a, NEW i, NEW before,
           Known(comp, channel, before, mem[channel]), i = 1 => before = {},
           TellsOf(comp, a, channel), Value(a, channel) \in Values \ {None, Absent},
           comp = "consul" => channel = "leader",
           comp = "haproxy" => channel # "leader" /\ Value(a, channel) # "unreachable"
    PROVE  OnlyOn(chs, Compare(mem, type, channel, Value(a, channel), i), channel,
                  Owed(comp, a, channel, before, i))
<1> DEFINE s == Compare(mem, type, channel, Value(a, channel), i)
<1>1. s \in Seq(EventType(chs)) /\ CountIn(s, On(chs, channel)) = Owed(comp, a, channel, before, i)
  BY ComparedOwn
<1>2. ASSUME NEW c, c # channel PROVE CountIn(s, On(chs, c)) = 0
  BY <1>2, ComparedElsewhere
<1>. QED BY <1>1, <1>2 DEF OnlyOn

\* No events at all.
LEMMA NoneOn ==
    ASSUME NEW chs, NEW channel
    PROVE  OnlyOn(chs, <<>>, channel, 0)
<1>1. <<>> \in Seq(EventType(chs))
  OBVIOUS
<1>. QED BY <1>1, CountSmall DEF OnlyOn

\* The events of two channels one after the other.
LEMMA TwoChannels ==
    ASSUME NEW chs, NEW s, NEW t, NEW x, NEW y, NEW k, NEW l, x # y,
           OnlyOn(chs, s, x, k), OnlyOn(chs, t, y, l)
    PROVE  /\ s \o t \in Seq(EventType(chs))
           /\ CountIn(s \o t, On(chs, x)) = k
           /\ CountIn(s \o t, On(chs, y)) = l
           /\ \A c : c # x /\ c # y => CountIn(s \o t, On(chs, c)) = 0
<1>1. /\ s \in Seq(EventType(chs)) /\ t \in Seq(EventType(chs))
      /\ CountIn(s, On(chs, x)) = k /\ CountIn(t, On(chs, y)) = l
      /\ \A c : c # x => CountIn(s, On(chs, c)) = 0
      /\ \A c : c # y => CountIn(t, On(chs, c)) = 0
  BY DEF OnlyOn
<1>2. /\ s \o t \in Seq(EventType(chs))
      /\ \A c : /\ CountIn(s \o t, On(chs, c)) = CountIn(s, On(chs, c)) + CountIn(t, On(chs, c))
                /\ CountIn(s, On(chs, c)) \in Nat /\ CountIn(t, On(chs, c)) \in Nat
  BY <1>1, CountTwo
<1>. QED BY <1>1, <1>2

\* The events of three channels.
ThreeOnly(chs, r, s, t, x, y, z, k, l, m) ==
    /\ x # y /\ y # z /\ x # z
    /\ OnlyOn(chs, r, x, k) /\ OnlyOn(chs, s, y, l) /\ OnlyOn(chs, t, z, m)

\* And one after the other.
LEMMA ThreeChannels ==
    ASSUME NEW chs, NEW r, NEW s, NEW t, NEW x, NEW y, NEW z, NEW k, NEW l, NEW m,
           ThreeOnly(chs, r, s, t, x, y, z, k, l, m)
    PROVE  /\ r \o s \o t \in Seq(EventType(chs))
           /\ CountIn(r \o s \o t, On(chs, x)) = k
           /\ CountIn(r \o s \o t, On(chs, y)) = l
           /\ CountIn(r \o s \o t, On(chs, z)) = m
<1> DEFINE u == r \o s
<1>1. /\ u \in Seq(EventType(chs))
      /\ CountIn(u, On(chs, x)) = k /\ CountIn(u, On(chs, y)) = l /\ CountIn(u, On(chs, z)) = 0
  BY TwoChannels DEF ThreeOnly
<1>2. /\ t \in Seq(EventType(chs)) /\ CountIn(t, On(chs, z)) = m
      /\ CountIn(t, On(chs, x)) = 0 /\ CountIn(t, On(chs, y)) = 0
  BY DEF OnlyOn, ThreeOnly
<1> HIDE DEF u
<1>3. /\ u \o t \in Seq(EventType(chs))
      /\ \A c : /\ CountIn(u \o t, On(chs, c)) = CountIn(u, On(chs, c)) + CountIn(t, On(chs, c))
                /\ CountIn(u, On(chs, c)) \in Nat /\ CountIn(t, On(chs, c)) \in Nat
  BY <1>1, <1>2, CountTwo
<1>4. /\ u \o t \in Seq(EventType(chs))
      /\ CountIn(u \o t, On(chs, x)) = k
      /\ CountIn(u \o t, On(chs, y)) = l
      /\ CountIn(u \o t, On(chs, z)) = m
  BY <1>1, <1>2, <1>3
<1>. QED BY <1>4 DEF u

\* The events es and the memory after an answer are what it tells.
Faithful(comp, chs, es, after, a, before, i) ==
    /\ es \in Seq(EventType(chs))
    /\ \A c \in chs :
          /\ CountIn(es, On(chs, c)) = Owed(comp, a, c, before[c], i)
          /\ Known(comp, c, IF TellsOf(comp, a, c) THEN {Value(a, c)} ELSE before[c], after[c])

\* A channel that an answer tells nothing of.
LEMMA NothingTold ==
    ASSUME NEW comp, NEW c, NEW a, NEW before, NEW i, NEW value, Known(comp, c, before, value),
           ~TellsOf(comp, a, c)
    PROVE  /\ ~DueFrom(comp, a, c, before, i)
           /\ Known(comp, c, IF TellsOf(comp, a, c) THEN {Value(a, c)} ELSE before, value)
  BY DEF DueFrom

\* An answer that tells nothing at all changes nothing.
LEMMA SilentFaithful ==
    ASSUME NEW comp, NEW chs, NEW a, NEW before, NEW i, NEW mem,
           \A c \in chs : Known(comp, c, before[c], mem[c]),
           \A c \in chs : ~TellsOf(comp, a, c)
    PROVE  Faithful(comp, chs, <<>>, mem, a, before, i)
<1>1. <<>> \in Seq(EventType(chs))
  OBVIOUS
<1>2. ASSUME NEW c \in chs
      PROVE  /\ CountIn(<<>>, On(chs, c)) = Owed(comp, a, c, before[c], i)
             /\ Known(comp, c, IF TellsOf(comp, a, c) THEN {Value(a, c)} ELSE before[c], mem[c])
  BY CountSmall, NothingTold DEF Owed
<1>. QED BY <1>1, <1>2 DEF Faithful

\* VIPWatcher: one channel.
LEMMA VipFaithful ==
    ASSUME component = "vip", NEW mem \in [Channels -> Values], NEW a \in Answers,
           NEW initial \in BOOLEAN, NEW i, initial <=> i = 1, NEW before,
           \A c \in Channels : Known(component, c, before[c], mem[c]),
           i = 1 => \A c \in Channels : before[c] = {}
    PROVE  Faithful(component, Channels, VipEvents(mem, a, initial), VipMemory(mem, a), a, before, i)
<1>1. /\ Channels = {"vip"}
      /\ a.answered => a.seen \in [vip : {"bound", "unbound"}]
  BY AnswerShape DEF Channels, Shows
<1>2. CASE a.answered
  <2> DEFINE s == VipEvents(mem, a, initial)
  <2>1. a.seen.vip \in {"bound", "unbound"} /\ Value(a, "vip") = a.seen.vip
    BY <1>1, <1>2 DEF Value
  <2>2. TellsOf(component, a, "vip") /\ VipMemory(mem, a)["vip"] = Value(a, "vip")
    BY <1>1, <1>2, <2>1 DEF TellsOf, VipMemory
  <2>3. Known(component, "vip", before["vip"], mem["vip"]) /\ (i = 1 => before["vip"] = {})
    BY <1>1
  <2>4. /\ Value(a, "vip") \in Values \ {None, Absent} /\ Value(a, "vip") # "unreachable"
        /\ "vip" \in Announced /\ "vip_state_change" \in EventKinds
    BY <2>1 DEF Values, None, Absent, Announced, EventKinds
  <2>5. Known(component, "vip", {Value(a, "vip")}, VipMemory(mem, a)["vip"])
    BY <2>2, <2>3, <2>4, ChangeIsDue
  <2>6. s = Changes(mem, "vip_state_change", "vip", Value(a, "vip"), initial)
    BY <1>2, <2>1 DEF VipEvents
  <2>8. s = Compare(mem, "vip_state_change", "vip", Value(a, "vip"), i)
    BY <2>4, <2>6 DEF Changes, Announces, Compare
  <2>9. component # "consul" /\ component # "haproxy" /\ "vip" \in Channels
    BY <1>1
  <2> HIDE DEF s
  <2>7. OnlyOn(Channels, s, "vip", Owed(component, a, "vip", before["vip"], i))
    BY <2>2, <2>3, <2>4, <2>8, <2>9, ChangeCounted
  <2>. QED BY <1>1, <2>2, <2>5, <2>7 DEF Faithful, OnlyOn, s
<1>3. CASE ~a.answered
  <2>1. VipEvents(mem, a, initial) = <<>> /\ VipMemory(mem, a) = mem
    BY <1>3 DEF VipEvents, VipMemory
  <2>2. \A c \in Channels : ~TellsOf(component, a, c)
    BY <1>1, <1>3 DEF TellsOf
  <2>. QED BY <2>1, <2>2, SilentFaithful
<1>. QED BY <1>2, <1>3

\* A channel that is found absent is reported when the value it had is gone; a server
\* that is not listed is not reported at all.
LEMMA AbsentTold ==
    ASSUME NEW comp, NEW c, NEW a, NEW before, NEW i, NEW value, Known(comp, c, before, value),
           TellsOf(comp, a, c), Value(a, c) = Absent, MayBeAbsent(comp, c),
           c # "reachable"
    PROVE  /\ DueFrom(comp, a, c, before, i) <=> comp # "haproxy" /\ value # None
           /\ Known(comp, c, {Value(a, c)}, None)
<1>1. DueFrom(comp, a, c, before, i)
        <=> /\ comp # "haproxy" /\ (comp = "patroni" => Absent \notin before)
            /\ \E v \in before : v # Absent
  BY DEF DueFrom
<1>2. /\ (\E v \in before : v # Absent) <=> value # None
      /\ (\E v \in before : v # Absent) => Absent \notin before
  BY DEF Known
<1>3. Absent # None
  BY DEF Absent, None
<1>4. Known(comp, c, {Value(a, c)}, None)
  BY <1>3 DEF Known
<1>. QED BY <1>1, <1>2, <1>4

\* ConsulWatcher: one channel, whose key may be absent.
LEMMA ConsulFaithful ==
    ASSUME component = "consul", NEW mem \in [Channels -> Values], NEW a \in Answers,
           NEW initial \in BOOLEAN, NEW i, initial <=> i = 1, NEW before,
           \A c \in Channels : Known(component, c, before[c], mem[c]),
           i = 1 => \A c \in Channels : before[c] = {}
    PROVE  Faithful(component, Channels, ConsulEvents(mem, a, initial), ConsulMemory(mem, a), a, before, i)
<1> DEFINE s == ConsulEvents(mem, a, initial)
<1>1. /\ Channels = {"leader"}
      /\ a.answered => a.seen \in [leader : {"node1", "node2", Absent}]
  BY AnswerShape DEF Channels, Shows
<1>2. Known(component, "leader", before["leader"], mem["leader"]) /\ (i = 1 => before["leader"] = {})
  BY <1>1
<1>3. component # "haproxy" /\ "leader" \in Channels /\ "leader" # "reachable"
  BY <1>1
<1>4. CASE a.answered /\ a.seen.leader # Absent
  <2>1. a.seen.leader \in {"node1", "node2"} /\ Value(a, "leader") = a.seen.leader
    BY <1>1, <1>4 DEF Value
  <2>2. TellsOf(component, a, "leader") /\ ConsulMemory(mem, a)["leader"] = Value(a, "leader")
    BY <1>1, <1>4, <2>1 DEF TellsOf, ConsulMemory
  <2>3. Value(a, "leader") \in Values \ {None, Absent}
    BY <2>1 DEF Values, None, Absent
  <2>4. Known(component, "leader", {Value(a, "leader")}, ConsulMemory(mem, a)["leader"])
    BY <1>2, <1>3, <2>2, <2>3, ChangeIsDue
  <2> DEFINE kind == LeaderChange(mem, a.seen.leader, initial)
  <2>5. kind \in EventKinds
    BY DEF LeaderChange, EventKinds
  <2>6. s = Changes(mem, kind, "leader", Value(a, "leader"), TRUE)
    BY <1>4, <2>1 DEF ConsulEvents
  <2>7. Announces("leader", Value(a, "leader"), i)
    BY DEF Announces, Announced
  <2> HIDE DEF kind, s
  <2>8. s = Compare(mem, kind, "leader", Value(a, "leader"), i)
    BY <2>6, <2>7 DEF Compare, Changes
  <2>9. OnlyOn(Channels, s, "leader", Owed(component, a, "leader", before["leader"], i))
    BY <1>2, <1>3, <2>2, <2>3, <2>5, <2>8, ChangeCounted
  <2>. QED BY <1>1, <2>2, <2>4, <2>9 DEF Faithful, OnlyOn, s
<1>5. CASE a.answered /\ a.seen.leader = Absent
  <2>1. Value(a, "leader") = Absent
    BY <1>5 DEF Value
  <2>2. TellsOf(component, a, "leader") /\ ConsulMemory(mem, a)["leader"] = None
    BY <1>5 DEF TellsOf, ConsulMemory
  <2>3. /\ DueFrom(component, a, "leader", before["leader"], i) <=> mem["leader"] # None
        /\ Known(component, "leader", {Value(a, "leader")}, None)
    BY <1>2, <1>3, <2>1, <2>2, AbsentTold DEF MayBeAbsent
  <2>4. s = Changes(mem, "leader_key_deleted", "leader", None, FALSE)
    BY <1>5 DEF ConsulEvents
  <2>5. "leader_key_deleted" \in EventKinds /\ None \in Values
    BY DEF EventKinds, Values
  <2> HIDE DEF s
  <2>6. /\ s \in Seq(EventType(Channels))
        /\ CountIn(s, On(Channels, "leader")) = IF mem["leader"] # None THEN 1 ELSE 0
    <3> DEFINE flagged(f) == Changes(mem, "leader_key_deleted", "leader", None, f)
    <3>1. ASSUME NEW f \in BOOLEAN
          PROVE  /\ flagged(f) \in Seq(EventType(Channels))
                 /\ CountIn(flagged(f), On(Channels, "leader"))
                      = IF None # mem["leader"] /\ (mem["leader"] # None \/ f) THEN 1 ELSE 0
      BY <1>3, <2>5, CountChanges
    <3> HIDE DEF flagged
    <3>2. /\ flagged(FALSE) \in Seq(EventType(Channels))
          /\ CountIn(flagged(FALSE), On(Channels, "leader"))
               = IF None # mem["leader"] /\ (mem["leader"] # None \/ FALSE) THEN 1 ELSE 0
      BY <3>1
    <3>. QED BY <2>4, <3>2 DEF flagged
  <2>. QED BY <1>1, <2>2, <2>3, <2>6 DEF Faithful, Owed, s
<1>6. CASE ~a.answered
  <2>1. s = <<>> /\ ConsulMemory(mem, a) = mem
    BY <1>6 DEF ConsulEvents, ConsulMemory
  <2>2. \A c \in Channels : ~TellsOf(component, a, c)
    BY <1>1, <1>6 DEF TellsOf
  <2>. QED BY <2>1, <2>2, SilentFaithful
<1>. QED BY <1>4, <1>5, <1>6

\* HAProxyWatcher: two servers, of which one may not be listed.
LEMMA HaproxyFaithful ==
    ASSUME component = "haproxy", NEW mem \in [Channels -> Values], NEW a \in Answers,
           NEW initial \in BOOLEAN, NEW i, initial <=> i = 1, NEW before,
           \A c \in Channels : Known(component, c, before[c], mem[c]),
           i = 1 => \A c \in Channels : before[c] = {}
    PROVE  Faithful(component, Channels, HaproxyEvents(mem, a, initial), HaproxyMemory(mem, a), a, before, i)
<1>1. /\ Channels = {"server1", "server2"}
      /\ a.answered => a.seen \in [server1 : {"UP", "DOWN", Absent}, server2 : {"UP", "DOWN"}]
  BY AnswerShape DEF Channels, Shows
<1>2. CASE a.answered
  <2> DEFINE server(c) == IF a.seen[c] # Absent
                          THEN Changes(mem, "backend_state_change", c, a.seen[c], initial)
                          ELSE <<>>
  <2>1. ASSUME NEW c \in Channels
        PROVE  /\ OnlyOn(Channels, server(c), c, Owed(component, a, c, before[c], i))
               /\ Known(component, c, IF TellsOf(component, a, c) THEN {Value(a, c)} ELSE before[c],
                        HaproxyMemory(mem, a)[c])
    <3>1. /\ Known(component, c, before[c], mem[c]) /\ (i = 1 => before[c] = {})
          /\ c # "leader" /\ c # "reachable" /\ c \in Announced /\ component # "consul"
      BY <1>1 DEF Announced
    <3>2. a.seen[c] \in {"UP", "DOWN", Absent} /\ Value(a, c) = a.seen[c]
      BY <1>1, <1>2 DEF Value
    <3>3. TellsOf(component, a, c)
      BY <1>2 DEF TellsOf
    <3>4. HaproxyMemory(mem, a)[c] = IF a.seen[c] = Absent THEN None ELSE a.seen[c]
      BY <1>2 DEF HaproxyMemory
    <3>5. CASE a.seen[c] # Absent
      <4>1. /\ Value(a, c) \in Values \ {None, Absent} /\ Value(a, c) # "unreachable"
            /\ "backend_state_change" \in EventKinds
        BY <3>2, <3>5 DEF Values, None, Absent, EventKinds
      <4>2. Known(component, c, {Value(a, c)}, Value(a, c))
        BY <3>1, <3>3, <4>1, ChangeIsDue
      <4>3. server(c) = Compare(mem, "backend_state_change", c, Value(a, c), i)
        BY <3>1, <3>2, <3>5, <4>1 DEF Changes, Compare, Announces
      <4> HIDE DEF server
      <4>4. OnlyOn(Channels, server(c), c, Owed(component, a, c, before[c], i))
        BY <3>1, <3>3, <4>1, <4>3, ChangeCounted
      <4>. QED BY <3>2, <3>3, <3>4, <3>5, <4>2, <4>4
    <3>6. CASE a.seen[c] = Absent
      <4>1. /\ DueFrom(component, a, c, before[c], i) <=> FALSE
            /\ Known(component, c, {Value(a, c)}, None)
        BY <3>1, <3>2, <3>3, <3>6, AbsentTold DEF MayBeAbsent
      <4>2. OnlyOn(Channels, server(c), c, Owed(component, a, c, before[c], i))
        BY <3>6, <4>1, NoneOn DEF Owed
      <4>. QED BY <3>3, <3>4, <3>6, <4>1, <4>2
    <3>. QED BY <3>5, <3>6
  <2>2. HaproxyEvents(mem, a, initial) = server("server1") \o server("server2")
    BY <1>2 DEF HaproxyEvents
  <2> HIDE DEF server
  <2>3. /\ OnlyOn(Channels, server("server1"), "server1", Owed(component, a, "server1", before["server1"], i))
        /\ OnlyOn(Channels, server("server2"), "server2", Owed(component, a, "server2", before["server2"], i))
    BY <1>1, <2>1
  <2>4. /\ HaproxyEvents(mem, a, initial) \in Seq(EventType(Channels))
        /\ CountIn(HaproxyEvents(mem, a, initial), On(Channels, "server1"))
             = Owed(component, a, "server1", before["server1"], i)
        /\ CountIn(HaproxyEvents(mem, a, initial), On(Channels, "server2"))
             = Owed(component, a, "server2", before["server2"], i)
    BY <2>2, <2>3, TwoChannels
  <2>. QED BY <1>1, <2>1, <2>4 DEF Faithful
<1>3. CASE ~a.answered
  <2> DEFINE s == HaproxyEvents(mem, a, initial)
  <2>1. s = <<>> \o <<>> /\ HaproxyMemory(mem, a) = mem
    BY <1>3 DEF HaproxyEvents, HaproxyMemory
  <2>2. <<>> \o <<>> = <<>>
    OBVIOUS
  <2>3. \A c \in Channels : ~TellsOf(component, a, c)
    BY <1>1, <1>3 DEF TellsOf
  <2>. QED BY <2>1, <2>2, <2>3, SilentFaithful
<1>. QED BY <1>2, <1>3

\* PatroniWatcher: three channels, of which a failed request tells one.
LEMMA PatroniFaithful ==
    ASSUME component = "patroni", NEW mem \in [Channels -> Values], NEW a \in Answers,
           NEW initial \in BOOLEAN, NEW i, initial <=> i = 1, NEW before,
           \A c \in Channels : Known(component, c, before[c], mem[c]),
           i = 1 => \A c \in Channels : before[c] = {}
    PROVE  Faithful(component, Channels, PatroniEvents(mem, a, initial), PatroniMemory(mem, a), a, before, i)
<1> DEFINE s == PatroniEvents(mem, a, initial)
           after == PatroniMemory(mem, a)
<1>1. /\ Channels = {"role", "state", "timeline"}
      /\ a.answered => /\ \A c \in {"role", "state"} :
                             a.seen[c] \in Values \ {None, Absent, "unreachable"}
                       /\ a.seen.timeline # None
                       /\ a.seen.timeline # Absent => a.seen.timeline \in Values
  BY PatroniAnswer DEF Channels
<1>2. \A c \in Channels : /\ Known(component, c, before[c], mem[c]) /\ (i = 1 => before[c] = {})
                          /\ component # "consul" /\ component # "haproxy"
  OBVIOUS
<1>3. {"role_change", "node_state_change", "timeline_change"} \subseteq EventKinds
  BY DEF EventKinds
<1>4. CASE a.answered
  <2> DEFINE r1 == Compare(mem, "role_change", "role", Value(a, "role"), i)
             r2 == Compare(mem, "node_state_change", "state", Value(a, "state"), i)
             r3 == Changes(mem, "timeline_change", "timeline", TimelineOf(a.seen), FALSE)
  <2>1. \A c \in Channels : Value(a, c) = a.seen[c] /\ TellsOf(component, a, c)
    BY <1>1, <1>4 DEF Value, TellsOf
  <2>2. \A c \in {"role", "state"} :
           c \in Channels /\ Value(a, c) \in Values \ {None, Absent, "unreachable"} /\ after[c] = Value(a, c)
    BY <1>1, <1>4, <2>1 DEF PatroniMemory
  <2>3. after["timeline"] = TimelineOf(a.seen) /\ "timeline" \in Channels
    BY <1>1, <1>4 DEF PatroniMemory
  <2>5. \A c \in {"role", "state"} : Announces(c, Value(a, c), i) <=> initial
    BY <2>2 DEF Announces, Announced
  <2>6. s = r1 \o r2 \o r3
    <3>1. /\ r1 = Changes(mem, "role_change", "role", a.seen.role, initial)
          /\ r2 = Changes(mem, "node_state_change", "state", a.seen.state, initial)
      BY <1>1, <2>1, <2>2, <2>5 DEF Compare, Changes
    <3>. QED BY <1>4, <3>1 DEF PatroniEvents
  <2> HIDE DEF s, after
  <2>9. \A c \in {"role", "state"} : Known(component, c, {Value(a, c)}, after[c])
    <3> SUFFICES ASSUME NEW c \in {"role", "state"} PROVE Known(component, c, {Value(a, c)}, after[c])
      OBVIOUS
    <3>1. /\ Known(component, c, before[c], mem[c]) /\ (i = 1 => before[c] = {})
          /\ TellsOf(component, a, c) /\ Value(a, c) \notin {None, Absent} /\ after[c] = Value(a, c)
          /\ component # "consul" /\ component # "haproxy"
      BY <1>2, <2>1, <2>2
    <3>. QED BY ONLY <3>1, ChangeIsDue
  <2>10. /\ OnlyOn(Channels, r3, "timeline", Owed(component, a, "timeline", before["timeline"], i))
         /\ Known(component, "timeline", {Value(a, "timeline")}, after["timeline"])
    <3>1. /\ Known(component, "timeline", before["timeline"], mem["timeline"])
          /\ i = 1 => before["timeline"] = {}
          /\ TellsOf(component, a, "timeline") /\ Value(a, "timeline") = a.seen.timeline
          /\ component # "consul" /\ component # "haproxy" /\ component = "patroni"
      BY <1>2, <2>1, <2>3
    <3>2. CASE a.seen.timeline # Absent
      <4>1. /\ Value(a, "timeline") \in Values \ {None, Absent} /\ TimelineOf(a.seen) = Value(a, "timeline")
            /\ after["timeline"] = Value(a, "timeline")
        BY <1>1, <1>4, <2>3, <3>1, <3>2 DEF TimelineOf
      <4>2. Announces("timeline", Value(a, "timeline"), i) = FALSE
        BY DEF Announces, Announced
      <4>3. r3 = Compare(mem, "timeline_change", "timeline", Value(a, "timeline"), i)
        BY <4>1, <4>2 DEF Compare
      <4> HIDE DEF r3
      <4>4. OnlyOn(Channels, r3, "timeline", Owed(component, a, "timeline", before["timeline"], i))
        BY <1>3, <2>3, <3>1, <4>1, <4>3, ChangeCounted
      <4>5. Known(component, "timeline", {Value(a, "timeline")}, Value(a, "timeline"))
        BY ONLY <3>1, <4>1, ChangeIsDue
      <4>. QED BY <4>1, <4>4, <4>5
    <3>3. CASE a.seen.timeline = Absent
      <4>1. TimelineOf(a.seen) = None /\ Value(a, "timeline") = Absent
        BY <3>1, <3>3 DEF TimelineOf
      <4>2. /\ DueFrom(component, a, "timeline", before["timeline"], i) <=> mem["timeline"] # None
            /\ Known(component, "timeline", {Value(a, "timeline")}, None)
        BY <3>1, <4>1, AbsentTold DEF MayBeAbsent
      <4>3. None \in Values /\ "timeline_change" \in EventKinds
        BY DEF Values, EventKinds
      <4> DEFINE flagged(f) == Changes(mem, "timeline_change", "timeline", None, f)
      <4>4. ASSUME NEW f \in BOOLEAN
            PROVE  /\ flagged(f) \in Seq(EventType(Channels))
                   /\ \A c : CountIn(flagged(f), On(Channels, c))
                               = IF c = "timeline" /\ None # mem["timeline"] /\ (mem["timeline"] # None \/ f)
                                 THEN 1 ELSE 0
        BY <2>3, <4>3, CountChanges
      <4>5. r3 = flagged(FALSE)
        BY <4>1
      <4> HIDE DEF flagged, r3
      <4>6. /\ r3 \in Seq(EventType(Channels))
            /\ \A c : CountIn(r3, On(Channels, c))
                        = IF c = "timeline" /\ None # mem["timeline"] /\ (mem["timeline"] # None \/ FALSE)
                          THEN 1 ELSE 0
        BY <4>4, <4>5
      <4>7. OnlyOn(Channels, r3, "timeline", Owed(component, a, "timeline", before["timeline"], i))
        BY <4>2, <4>6 DEF OnlyOn, Owed
      <4>. QED BY <2>3, <4>1, <4>2, <4>7
    <3>. QED BY <3>2, <3>3
  <2>4. \A c \in Channels : Known(component, c, {Value(a, c)}, after[c])
    BY <1>1, <2>9, <2>10
  <2>7. /\ OnlyOn(Channels, r1, "role", Owed(component, a, "role", before["role"], i))
        /\ OnlyOn(Channels, r2, "state", Owed(component, a, "state", before["state"], i))
    <3>1. ASSUME NEW c \in {"role", "state"}, NEW kind \in EventKinds
          PROVE OnlyOn(Channels, Compare(mem, kind, c, Value(a, c), i), c, Owed(component, a, c, before[c], i))
      <4>1. /\ Known(component, c, before[c], mem[c]) /\ (i = 1 => before[c] = {})
            /\ TellsOf(component, a, c) /\ Value(a, c) \in Values \ {None, Absent}
            /\ component # "consul" /\ component # "haproxy" /\ c \in Channels
        BY <1>2, <2>1, <2>2
      <4>. QED BY <4>1, ChangeCounted
    <3>. QED BY <1>3, <3>1
  <2> HIDE DEF r1, r2, r3
  <2>8. /\ s \in Seq(EventType(Channels))
        /\ CountIn(s, On(Channels, "role")) = Owed(component, a, "role", before["role"], i)
        /\ CountIn(s, On(Channels, "state")) = Owed(component, a, "state", before["state"], i)
        /\ CountIn(s, On(Channels, "timeline")) = Owed(component, a, "timeline", before["timeline"], i)
    <3> DEFINE n1 == Owed(component, a, "role", before["role"], i)
               n2 == Owed(component, a, "state", before["state"], i)
               n3 == Owed(component, a, "timeline", before["timeline"], i)
    <3>1. /\ OnlyOn(Channels, r1, "role", n1) /\ OnlyOn(Channels, r2, "state", n2)
          /\ OnlyOn(Channels, r3, "timeline", n3)
      BY <2>7, <2>10
    <3> HIDE DEF n1, n2, n3
    <3>2. ThreeOnly(Channels, r1, r2, r3, "role", "state", "timeline", n1, n2, n3)
      BY <3>1 DEF ThreeOnly
    <3>3. /\ s \in Seq(EventType(Channels))
          /\ CountIn(s, On(Channels, "role")) = n1
          /\ CountIn(s, On(Channels, "state")) = n2
          /\ CountIn(s, On(Channels, "timeline")) = n3
      BY <2>6, <3>2, ThreeChannels
    <3>. QED BY <3>3 DEF n1, n2, n3
  <2>. QED BY <1>1, <2>1, <2>4, <2>8 DEF Faithful, s, after
<1>5. CASE ~a.answered
  <2>1. Value(a, "state") = "unreachable"
    BY <1>5 DEF Value
  <2>2. /\ TellsOf(component, a, "state")
        /\ ~TellsOf(component, a, "role") /\ ~TellsOf(component, a, "timeline")
    BY <1>5 DEF TellsOf
  <2>3. Value(a, "state") \in Values \ {None, Absent} /\ "state" \in Channels
    BY <1>1, <2>1 DEF Values, None, Absent
  <2>4. after["state"] = Value(a, "state") /\ after["role"] = mem["role"] /\ after["timeline"] = mem["timeline"]
    BY <1>1, <1>5, <2>1 DEF PatroniMemory
  <2>5. Known(component, "state", {Value(a, "state")}, after["state"])
    BY <1>2, <2>2, <2>3, <2>4, ChangeIsDue
  <2> DEFINE lost == [mem EXCEPT !.state = LostState(mem)]
             flagged(f) == Changes(lost, "node_state_change", "state", "unreachable", f)
  <2>6. s = flagged(TRUE)
    BY <1>5 DEF PatroniEvents
  <2>9. /\ lost \in [Channels -> Values] /\ lost["state"] = LostState(mem)
        /\ LostState(mem) = "unreachable" <=> mem["state"] = "unreachable"
    BY <1>1 DEF LostState, Values, None
  <2>10. "node_state_change" \in EventKinds /\ "unreachable" \in Values /\ "state" \in Channels
    BY <2>1, <2>3, <1>3
  <2> HIDE DEF s, after, lost
  <2>11. ASSUME NEW f \in BOOLEAN
         PROVE  /\ flagged(f) \in Seq(EventType(Channels))
                /\ \A c : CountIn(flagged(f), On(Channels, c))
                            = IF c = "state" /\ "unreachable" # lost["state"] /\ (lost["state"] # None \/ f)
                              THEN 1 ELSE 0
    <3>1. lost \in [Channels -> Values]
      BY <2>9
    <3>. QED BY ONLY <2>10, <2>11, <3>1, CountChanges
  <2> HIDE DEF flagged
  <2>12. /\ s \in Seq(EventType(Channels))
         /\ \A c : CountIn(s, On(Channels, c))
                     = IF c = "state" /\ "unreachable" # lost["state"] /\ (lost["state"] # None \/ TRUE)
                       THEN 1 ELSE 0
    BY <2>6, <2>11
  <2>13. DueFrom(component, a, "state", before["state"], i) <=> mem["state"] # "unreachable"
    <3>1. /\ Known(component, "state", before["state"], mem["state"]) /\ (i = 1 => before["state"] = {})
          /\ TellsOf(component, a, "state") /\ Value(a, "state") \notin {None, Absent}
          /\ component # "consul" /\ component # "haproxy"
      BY <1>2, <2>2, <2>3
    <3>2. DueFrom(component, a, "state", before["state"], i) <=> Compared("state", mem["state"], Value(a, "state"), i)
      BY ONLY <3>1, ChangeIsDue
    <3>. QED BY <2>1, <3>2 DEF Compared, Announced
  <2>7. OnlyOn(Channels, s, "state", Owed(component, a, "state", before["state"], i))
    BY <2>9, <2>12, <2>13 DEF OnlyOn, Owed
  <2>8. \A c \in {"role", "timeline"} :
           /\ ~DueFrom(component, a, c, before[c], i)
           /\ Known(component, c, before[c], after[c])
           /\ CountIn(s, On(Channels, c)) = 0
    BY <1>1, <1>2, <2>2, <2>4, <2>7, NothingTold DEF OnlyOn
  <2>. QED BY <1>1, <2>2, <2>5, <2>7, <2>8 DEF Faithful, OnlyOn, Owed, s, after
<1>. QED BY <1>4, <1>5

\* PostgresSQLWatcher: three channels, of which one says whether the poll failed.
LEMMA PostgresFaithful ==
    ASSUME component = "postgres", NEW mem \in [Channels -> Values], NEW a \in Answers,
           NEW initial \in BOOLEAN, NEW i, initial <=> i = 1, NEW before,
           \A c \in Channels : Known(component, c, before[c], mem[c]),
           i = 1 => \A c \in Channels : before[c] = {}
    PROVE  Faithful(component, Channels, PostgresEvents(mem, a, initial), PostgresMemory(mem, a), a, before, i)
<1> DEFINE s == PostgresEvents(mem, a, initial)
           after == PostgresMemory(mem, a)
<1>1. /\ Channels = {"recovery", "timeline", "reachable"}
      /\ a.answered => a.seen \in [recovery : {"primary", "in_recovery"}, timeline : {"1", "2"}]
  BY AnswerShape DEF Channels, Shows
<1>2. \A c \in Channels : /\ Known(component, c, before[c], mem[c]) /\ (i = 1 => before[c] = {})
                          /\ component # "consul" /\ component # "haproxy"
  OBVIOUS
<1>3. /\ {"pg_ready_accept_connections", "pg_timeline_change", "pg_connection_lost"} \subseteq EventKinds
      /\ \A v : RecoveryChange(mem, v) \in EventKinds
  BY DEF EventKinds, RecoveryChange
<1>4. mem["reachable"] \in {None, "yes", "no"}
  BY <1>1, <1>2 DEF Known, Absent
<1>5. CASE a.answered
  <2> DEFINE kind == RecoveryChange(mem, a.seen.recovery)
             r1 == Compare(mem, "pg_ready_accept_connections", "reachable", Value(a, "reachable"), i)
             r2 == Compare(mem, kind, "recovery", Value(a, "recovery"), i)
             r3 == Compare(mem, "pg_timeline_change", "timeline", Value(a, "timeline"), i)
  <2>1. /\ Value(a, "reachable") = "yes"
        /\ a.seen.recovery \in {"primary", "in_recovery"} /\ Value(a, "recovery") = a.seen.recovery
        /\ a.seen.timeline \in {"1", "2"} /\ Value(a, "timeline") = a.seen.timeline
    BY <1>1, <1>5 DEF Value
  <2>2. \A c \in Channels : TellsOf(component, a, c) /\ after[c] = Value(a, c)
    BY <1>1, <1>5, <2>1 DEF TellsOf, PostgresMemory
  <2>3. \A c \in Channels : Value(a, c) \in Values \ {None, Absent}
    BY <1>1, <2>1 DEF Values, None, Absent
  <2>4. \A c \in Channels : Known(component, c, {Value(a, c)}, after[c])
    <3> SUFFICES ASSUME NEW c \in Channels PROVE Known(component, c, {Value(a, c)}, after[c])
      OBVIOUS
    <3> HIDE DEF after
    <3>1. Known(component, c, {Value(a, c)}, Value(a, c))
      BY <1>2, <2>2, <2>3, ChangeIsDue
    <3>. QED BY <2>2, <3>1
  <2>5. /\ ~Announces("reachable", Value(a, "reachable"), i)
        /\ Announces("recovery", Value(a, "recovery"), i) <=> initial
        /\ ~Announces("timeline", Value(a, "timeline"), i)
    BY <2>1 DEF Announces, Announced
  <2>6. s = r1 \o r2 \o r3
    <3>1. r1 = IF mem.reachable = "no"
               THEN <<Event(mem, "pg_ready_accept_connections", "reachable", "yes")>> ELSE <<>>
      BY <1>4, <2>1, <2>5 DEF Compare, Changes, None
    <3>2. /\ r2 = Changes(mem, kind, "recovery", a.seen.recovery, initial)
          /\ r3 = Changes(mem, "pg_timeline_change", "timeline", a.seen.timeline, FALSE)
      BY <2>1, <2>5 DEF Compare, Changes
    <3>. QED BY <1>5, <3>1, <3>2 DEF PostgresEvents
  <2> HIDE DEF s, after
  <2>7. /\ OnlyOn(Channels, r1, "reachable", Owed(component, a, "reachable", before["reachable"], i))
        /\ OnlyOn(Channels, r2, "recovery", Owed(component, a, "recovery", before["recovery"], i))
        /\ OnlyOn(Channels, r3, "timeline", Owed(component, a, "timeline", before["timeline"], i))
    <3>1. ASSUME NEW c \in Channels, NEW k \in EventKinds
          PROVE OnlyOn(Channels, Compare(mem, k, c, Value(a, c), i), c, Owed(component, a, c, before[c], i))
      BY <1>2, <2>2, <2>3, ChangeCounted
    <3>. QED BY <1>1, <1>3, <3>1
  <2> HIDE DEF r1, r2, r3
  <2>8. /\ s \in Seq(EventType(Channels))
        /\ CountIn(s, On(Channels, "reachable")) = Owed(component, a, "reachable", before["reachable"], i)
        /\ CountIn(s, On(Channels, "recovery")) = Owed(component, a, "recovery", before["recovery"], i)
        /\ CountIn(s, On(Channels, "timeline")) = Owed(component, a, "timeline", before["timeline"], i)
    <3> DEFINE n1 == Owed(component, a, "reachable", before["reachable"], i)
               n2 == Owed(component, a, "recovery", before["recovery"], i)
               n3 == Owed(component, a, "timeline", before["timeline"], i)
    <3>1. /\ OnlyOn(Channels, r1, "reachable", n1) /\ OnlyOn(Channels, r2, "recovery", n2)
          /\ OnlyOn(Channels, r3, "timeline", n3)
      BY <2>7
    <3> HIDE DEF n1, n2, n3
    <3>2. ThreeOnly(Channels, r1, r2, r3, "reachable", "recovery", "timeline", n1, n2, n3)
      BY <3>1 DEF ThreeOnly
    <3>3. /\ s \in Seq(EventType(Channels))
          /\ CountIn(s, On(Channels, "reachable")) = n1
          /\ CountIn(s, On(Channels, "recovery")) = n2
          /\ CountIn(s, On(Channels, "timeline")) = n3
      BY <2>6, <3>2, ThreeChannels
    <3>. QED BY <3>3 DEF n1, n2, n3
  <2>. QED BY <1>1, <2>2, <2>4, <2>8 DEF Faithful, s, after
<1>6. CASE ~a.answered
  <2>1. Value(a, "reachable") = "no"
    BY <1>6 DEF Value
  <2>2. /\ TellsOf(component, a, "reachable")
        /\ ~TellsOf(component, a, "recovery") /\ ~TellsOf(component, a, "timeline")
    BY <1>6 DEF TellsOf
  <2>3. Value(a, "reachable") \in Values \ {None, Absent} /\ "reachable" \in Channels
    BY <1>1, <2>1 DEF Values, None, Absent
  <2>4. /\ after["reachable"] = Value(a, "reachable")
        /\ after["recovery"] = mem["recovery"] /\ after["timeline"] = mem["timeline"]
    BY <1>1, <1>6, <2>1 DEF PostgresMemory
  <2>5. Known(component, "reachable", {Value(a, "reachable")}, after["reachable"])
    BY <1>2, <2>2, <2>3, <2>4, ChangeIsDue
  <2>6. s = Compare(mem, "pg_connection_lost", "reachable", Value(a, "reachable"), i)
    <3>1. ~Announces("reachable", Value(a, "reachable"), i)
      BY <2>1 DEF Announces, Announced
    <3>2. s = Changes(mem, "pg_connection_lost", "reachable", Value(a, "reachable"), FALSE)
      BY <1>6, <2>1 DEF PostgresEvents
    <3> HIDE DEF s
    <3>. QED BY <3>1, <3>2 DEF Compare, Changes
  <2> HIDE DEF s, after
  <2>7. OnlyOn(Channels, s, "reachable", Owed(component, a, "reachable", before["reachable"], i))
    BY <1>2, <1>3, <2>2, <2>3, <2>6, ChangeCounted
  <2>8. \A c \in {"recovery", "timeline"} :
           /\ ~DueFrom(component, a, c, before[c], i)
           /\ Known(component, c, before[c], after[c])
           /\ CountIn(s, On(Channels, c)) = 0
    BY <1>1, <1>2, <2>2, <2>4, <2>7, NothingTold DEF OnlyOn
  <2>. QED BY <1>1, <2>2, <2>5, <2>7, <2>8 DEF Faithful, OnlyOn, Owed, s, after
<1>. QED BY <1>5, <1>6

\* Whatever the component.
LEMMA EmittedFaithful ==
    ASSUME component \in Components, NEW mem \in [Channels -> Values], NEW a \in Answers,
           NEW initial \in BOOLEAN, NEW i, initial <=> i = 1, NEW before,
           \A c \in Channels : Known(component, c, before[c], mem[c]),
           i = 1 => \A c \in Channels : before[c] = {}
    PROVE  Faithful(component, Channels, Emitted(mem, a, initial), Remembered(mem, a), a, before, i)
<1>1. CASE component = "patroni"
  BY <1>1, PatroniFaithful DEF Emitted, Remembered
<1>2. CASE component = "consul"
  BY <1>2, ConsulFaithful DEF Emitted, Remembered
<1>3. CASE component = "haproxy"
  BY <1>3, HaproxyFaithful DEF Emitted, Remembered
<1>4. CASE component = "postgres"
  BY <1>4, PostgresFaithful DEF Emitted, Remembered
<1>5. CASE component = "vip"
  BY <1>5, VipFaithful DEF Emitted, Remembered
<1>. QED BY <1>1, <1>2, <1>3, <1>4, <1>5, ComponentCases

-----------------------------------------------------------------------------
(* One watcher and its whole history. *)

\* The events account for the history, and the memory is the last of it.
Recorded(comp, chs, hist, mem, es) ==
    /\ mem \in [chs -> Values]
    /\ es \in Seq(DatedType(chs))
    /\ PollsIn(es, DOMAIN hist)
    /\ Accounted(comp, chs, hist, es)
    /\ \A c \in chs : Known(comp, c, BeforeIn(comp, hist, Len(hist) + 1, c), mem[c])

\* A watcher that has not polled.
LEMMA RecordedAtFirst ==
    ASSUME NEW comp, NEW chs
    PROVE  Recorded(comp, chs, <<>>, [c \in chs |-> None], <<>>)
<1>1. [c \in chs |-> None] \in [chs -> Values]
  BY DEF Values
<1>2. <<>> \in Seq(DatedType(chs)) /\ DOMAIN <<>> = {}
  OBVIOUS
<1>3. Len(<<>>) + 1 = 1
  OBVIOUS
<1>4. ASSUME NEW c PROVE BeforeIn(comp, <<>>, 1, c) = {}
  <2>1. 1..(1 - 1) = {}
    OBVIOUS
  <2>2. EarlierIn(comp, <<>>, 1, c) = {}
    BY <2>1 DEF EarlierIn
  <2>. QED BY <2>2 DEF BeforeIn
<1>5. \A c \in chs : Known(comp, c, BeforeIn(comp, <<>>, Len(<<>>) + 1, c), [d \in chs |-> None][c])
  BY <1>3, <1>4 DEF Known
<1>. QED BY <1>1, <1>2, <1>5 DEF Recorded, PollsIn, Accounted

\* A poll keeps the record, and only the first one is made by setup().
LEMMA RecordedStep ==
    ASSUME component \in Components, NEW hist \in Seq(Answers), NEW mem, NEW es, NEW a \in Answers,
           NEW initial \in BOOLEAN, initial <=> hist = <<>>,
           Recorded(component, Channels, hist, mem, es)
    PROVE  LET emitted == Emitted(mem, a, initial)
               dated   == [k \in DOMAIN emitted |-> Dated(emitted[k], Len(hist) + 1)]
           IN  Recorded(component, Channels, Append(hist, a), Remembered(mem, a), es \o dated)
<1> DEFINE chs == Channels
           emitted == Emitted(mem, a, initial)
           n == Len(hist)
           dated == [k \in DOMAIN emitted |-> Dated(emitted[k], n + 1)]
           hist2 == Append(hist, a)
           before == [c \in chs |-> BeforeIn(component, hist, n + 1, c)]
           ans == Answers
<1>1. /\ mem \in [chs -> Values] /\ es \in Seq(DatedType(chs)) /\ PollsIn(es, DOMAIN hist)
      /\ Accounted(component, chs, hist, es)
      /\ \A c \in chs : Known(component, c, before[c], mem[c])
  BY DEF Recorded
<1>2. hist \in Seq(ans) /\ a \in ans
  OBVIOUS
<1>3. /\ n \in Nat /\ (n = 0 <=> hist = <<>>)
      /\ DOMAIN hist = 1..n /\ DOMAIN hist2 = 1..(n + 1)
      /\ \A j \in 1..n : hist2[j] = hist[j]
      /\ hist2[n + 1] = a /\ Len(hist2) = n + 1
  <2> HIDE DEF ans
  <2>1. n \in Nat /\ (n = 0 <=> hist = <<>>)
    BY <1>2
  <2>. QED BY <1>2, <2>1, HistoryShape
<1>4. \A c \in chs : BeforeIn(component, hist2, n + 1, c) = before[c]
  <2> SUFFICES ASSUME NEW c \in chs PROVE BeforeIn(component, hist2, n + 1, c) = before[c]
    OBVIOUS
  <2>1. before[c] = BeforeIn(component, hist, n + 1, c)
    OBVIOUS
  <2> HIDE DEF n, hist2, before
  <2>2. (n + 1) - 1 = n /\ n + 1 \in Nat
    BY <1>3
  <2>3. \A j \in 1..((n + 1) - 1) : hist2[j] = hist[j]
    BY <1>3, <2>2
  <2>4. ASSUME NEW s, NEW t, \A j \in 1..((n + 1) - 1) : s[j] = t[j]
        PROVE  BeforeIn(component, s, n + 1, c) = BeforeIn(component, t, n + 1, c)
    BY <2>2, <2>4, BeforePrefix
  <2>. QED BY <2>1, <2>3, <2>4
<1>5. initial <=> n + 1 = 1
  BY <1>3
<1>6. n + 1 = 1 => \A c \in chs : before[c] = {}
  <2> SUFFICES ASSUME n + 1 = 1, NEW c \in chs PROVE BeforeIn(component, hist, 1, c) = {}
    OBVIOUS
  <2>1. 1..(1 - 1) = {}
    OBVIOUS
  <2>2. EarlierIn(component, hist, 1, c) = {}
    BY <2>1 DEF EarlierIn
  <2>. QED BY <2>2 DEF BeforeIn
<1> HIDE DEF n, hist2, before, ans
<1>7. Faithful(component, chs, emitted, Remembered(mem, a), a, before, n + 1)
  BY <1>1, <1>5, <1>6, EmittedFaithful
<1> HIDE DEF emitted
<1>8. /\ emitted \in Seq(EventType(chs))
      /\ \A c \in chs : CountIn(emitted, On(chs, c)) = Owed(component, a, c, before[c], n + 1)
      /\ \A c \in chs : Known(component, c,
                              IF TellsOf(component, a, c) THEN {Value(a, c)} ELSE before[c],
                              Remembered(mem, a)[c])
  BY <1>7 DEF Faithful
<1>9. /\ dated \in Seq(DatedType(chs)) /\ PollsIn(dated, {n + 1})
      /\ \A c : CountIn(dated, At(chs, n + 1, c)) = CountIn(emitted, On(chs, c))
  <2>1. n + 1 \in Nat
    BY <1>3
  <2>. QED BY <1>8, <2>1, DatedShape
<1> HIDE DEF dated
<1>10. AddedFor(component, chs, hist2, n + 1, dated)
  <2> SUFFICES ASSUME NEW c \in chs
               PROVE  CountIn(dated, At(chs, n + 1, c)) = IF DueOf(component, hist2, n + 1, c) THEN 1 ELSE 0
    BY DEF AddedFor
  <2>1. DueOf(component, hist2, n + 1, c) <=> DueFrom(component, a, c, before[c], n + 1)
    BY <1>3, <1>4 DEF DueOf
  <2>2. CountIn(dated, At(chs, n + 1, c)) = Owed(component, a, c, before[c], n + 1)
    BY <1>8, <1>9
  <2>. QED BY <2>1, <2>2 DEF Owed
<1>11. /\ es \o dated \in Seq(DatedType(chs))
       /\ PollsIn(es \o dated, DOMAIN hist2)
       /\ Accounted(component, chs, hist2, es \o dated)
  BY <1>1, <1>2, <1>9, <1>10, AccountedStep DEF n, hist2
<1>12. Remembered(mem, a) \in [chs -> Values]
  BY <1>1, RememberedType
<1>13. \A c \in chs : Known(component, c, BeforeIn(component, hist2, Len(hist2) + 1, c), Remembered(mem, a)[c])
  <2> SUFFICES ASSUME NEW c \in chs
               PROVE  Known(component, c, BeforeIn(component, hist2, Len(hist2) + 1, c), Remembered(mem, a)[c])
    OBVIOUS
  <2>1. Len(hist2) + 1 = n + 2
    BY <1>3
  <2>2. BeforeIn(component, hist2, n + 2, c)
          = IF TellsOf(component, hist2[n + 1], c) THEN {Value(hist2[n + 1], c)}
            ELSE BeforeIn(component, hist2, n + 1, c)
    <3>1. n \in Nat
      BY <1>3
    <3>2. CASE TellsOf(component, hist2[n + 1], c)
      BY <3>1, <3>2, BeforeNext
    <3>3. CASE ~TellsOf(component, hist2[n + 1], c)
      BY <3>1, <3>3, BeforeNext, SMTT(30)
    <3>. QED BY <3>2, <3>3
  <2>3. hist2[n + 1] = a
    BY <1>3
  <2>4. BeforeIn(component, hist2, Len(hist2) + 1, c)
          = IF TellsOf(component, a, c) THEN {Value(a, c)} ELSE before[c]
    BY <1>4, <2>1, <2>2, <2>3
  <2>. QED BY <1>8, <2>4
<1>. QED BY <1>11, <1>12, <1>13 DEF Recorded, emitted, dated, n, hist2

-----------------------------------------------------------------------------
(* Why an event was emitted. *)

\* Its type says of which channel it is, and the deletion of the key has no new value.
TypeFits(comp, e) ==
    /\ e.type = "timeline_change" => e.channel = "timeline"
    /\ comp = "patroni" /\ e.channel = "timeline" => e.type = "timeline_change"
    /\ comp = "consul" => (e.type = "leader_key_deleted" <=> e.new = None)

\* An old value is what was known before; a Patroni node that is lost before it told
\* anything has one nevertheless.
OldKnown(comp, c, before, old) ==
    \/ Known(comp, c, before, old)
    \/ comp = "patroni" /\ c = "state" /\ before = {} /\ old = "unknown"

\* The key is created when it was absent before.
CreationFits(comp, e, before) ==
    comp = "consul" /\ before # {} => (e.type = "leader_key_created" <=> e.old = None)

\* The answer told the new value, and the old one is what was known before.
Justified(comp, e, a, before) ==
    /\ TellsOf(comp, a, e.channel)
    /\ e.new = IF Value(a, e.channel) = Absent THEN None ELSE Value(a, e.channel)
    /\ OldKnown(comp, e.channel, before, e.old)
    /\ e.old # e.new
    /\ TypeFits(comp, e)
    /\ CreationFits(comp, e, before)

Grounded(comp, chs, a, before) ==
    {e \in EventType(chs) : Justified(comp, e, a, before[e.channel])}

\* A change is justified when the event it may give is.
LEMMA ChangesGrounded ==
    ASSUME NEW comp, NEW chs, NEW mem \in [chs -> Values], NEW type \in EventKinds,
           NEW channel \in chs, NEW new \in Values, NEW initial, NEW a, NEW before,
           OldKnown(comp, channel, before[channel], mem[channel]),
           TellsOf(comp, a, channel),
           new = IF Value(a, channel) = Absent THEN None ELSE Value(a, channel),
           new # mem[channel] => /\ TypeFits(comp, Event(mem, type, channel, new))
                                 /\ CreationFits(comp, Event(mem, type, channel, new), before[channel])
    PROVE  Changes(mem, type, channel, new, initial) \in Seq(Grounded(comp, chs, a, before))
<1> DEFINE e == Event(mem, type, channel, new)
           G == Grounded(comp, chs, a, before)
<1>1. CASE new # mem[channel] /\ (mem[channel] # None \/ initial)
  <2>1. e \in EventType(chs) /\ e.channel = channel /\ e.old = mem[channel] /\ e.new = new
    BY DEF Event, EventType
  <2>2. Justified(comp, e, a, before[channel])
    BY <1>1, <2>1 DEF Justified
  <2>3. e \in G
    BY <2>1, <2>2 DEF Grounded
  <2>4. Changes(mem, type, channel, new, initial) = <<e>>
    BY <1>1 DEF Changes
  <2> HIDE DEF e, G
  <2>5. <<e>> \in Seq(G)
    BY <2>3
  <2>. QED BY <2>4, <2>5 DEF G
<1>2. CASE ~(new # mem[channel] /\ (mem[channel] # None \/ initial))
  <2>1. Changes(mem, type, channel, new, initial) = <<>>
    BY <1>2 DEF Changes
  <2> HIDE DEF G
  <2>2. <<>> \in Seq(G)
    OBVIOUS
  <2>. QED BY <2>1, <2>2 DEF G
<1>. QED BY <1>1, <1>2

\* Sequences of justified events one after the other.
LEMMA GroundedConcat ==
    ASSUME NEW G
    PROVE  /\ <<>> \in Seq(G)
           /\ \A s, t \in Seq(G) : s \o t \in Seq(G)
           /\ \A r, s, t \in Seq(G) : r \o s \o t \in Seq(G)
<1>1. <<>> \in Seq(G) /\ \A s, t \in Seq(G) : s \o t \in Seq(G)
  OBVIOUS
<1>. QED BY <1>1

\* Whatever the watcher emits for an answer is justified by it.
LEMMA EmittedGrounded ==
    ASSUME component \in Components, NEW mem \in [Channels -> Values], NEW a \in Answers,
           NEW initial \in BOOLEAN, NEW before,
           \A c \in Channels : Known(component, c, before[c], mem[c]),
           initial => \A c \in Channels : before[c] = {}
    PROVE  Emitted(mem, a, initial) \in Seq(Grounded(component, Channels, a, before))
<1> DEFINE G == Grounded(component, Channels, a, before)
           new(c) == IF Value(a, c) = Absent THEN None ELSE Value(a, c)
           fits(type, c) == new(c) # mem[c] => /\ TypeFits(component, Event(mem, type, c, new(c)))
                                               /\ CreationFits(component, Event(mem, type, c, new(c)), before[c])
<1>0. ASSUME NEW type \in EventKinds, NEW c \in Channels, NEW first \in BOOLEAN,
             new(c) \in Values, TellsOf(component, a, c), fits(type, c)
      PROVE  Changes(mem, type, c, new(c), first) \in Seq(G)
  <2>1. OldKnown(component, c, before[c], mem[c])
    BY DEF OldKnown
  <2>. QED BY <1>0, <2>1, ChangesGrounded
<1> HIDE DEF G
<1>1. CASE component = "patroni"
  <2>1. Channels = {"role", "state", "timeline"} /\ Emitted(mem, a, initial) = PatroniEvents(mem, a, initial)
    BY <1>1 DEF Channels, Emitted
  <2>2. CASE a.answered
    <3>1. /\ a.seen.role \in Values \ {Absent} /\ a.seen.state \in Values \ {Absent}
          /\ a.seen.timeline # Absent => a.seen.timeline \in Values
          /\ None \in Values
      BY <1>1, <2>2, PatroniAnswer DEF Values
    <3>2. /\ new("role") = a.seen.role /\ new("state") = a.seen.state /\ new("timeline") = TimelineOf(a.seen)
          /\ {a.seen.role, a.seen.state, TimelineOf(a.seen)} \subseteq Values
      BY <2>2, <3>1 DEF Value, TimelineOf
    <3>3. \A c : TellsOf(component, a, c)
      BY <2>2 DEF TellsOf
    <3>4. /\ fits("role_change", "role") /\ fits("node_state_change", "state")
          /\ fits("timeline_change", "timeline")
      BY <1>1 DEF TypeFits, CreationFits, Event
    <3> HIDE DEF new, fits
    <3>5. /\ Changes(mem, "role_change", "role", a.seen.role, initial) \in Seq(G)
          /\ Changes(mem, "node_state_change", "state", a.seen.state, initial) \in Seq(G)
          /\ Changes(mem, "timeline_change", "timeline", TimelineOf(a.seen), FALSE) \in Seq(G)
      BY <1>0, <2>1, <3>2, <3>3, <3>4 DEF EventKinds
    <3>6. PatroniEvents(mem, a, initial)
            = Changes(mem, "role_change", "role", a.seen.role, initial)
              \o Changes(mem, "node_state_change", "state", a.seen.state, initial)
              \o Changes(mem, "timeline_change", "timeline", TimelineOf(a.seen), FALSE)
      BY <2>2 DEF PatroniEvents
    <3>7. \A r, s, t \in Seq(G) : r \o s \o t \in Seq(G)
      BY GroundedConcat
    <3>8. PatroniEvents(mem, a, initial) \in Seq(G)
      BY <3>5, <3>6, <3>7
    <3>. QED BY <2>1, <3>8 DEF G
  <2>3. CASE ~a.answered
    <3> DEFINE lost == [mem EXCEPT !.state = LostState(mem)]
               event == Event(lost, "node_state_change", "state", "unreachable")
    <3>1. Value(a, "state") = "unreachable" /\ "unreachable" \in Values /\ "unreachable" # Absent
      BY <2>3 DEF Value, Values, Absent
    <3>2. TellsOf(component, a, "state")
      BY <1>1 DEF TellsOf
    <3>3. TypeFits(component, event) /\ CreationFits(component, event, before["state"])
      BY <1>1 DEF TypeFits, CreationFits, Event
    <3>4. lost \in [Channels -> Values] /\ lost["state"] = LostState(mem)
      BY <2>1 DEF LostState, Values
    <3>5. OldKnown(component, "state", before["state"], lost["state"])
      <4>1. Known(component, "state", before["state"], mem["state"])
        BY <2>1
      <4>2. mem["state"] = None => before["state"] = {}
        BY <1>1, <4>1 DEF Known, MayBeAbsent
      <4>3. lost["state"] = IF mem["state"] = None THEN "unknown" ELSE mem["state"]
        BY <3>4 DEF LostState
      <4> HIDE DEF lost
      <4>. QED BY <1>1, <4>1, <4>2, <4>3 DEF OldKnown
    <3>6. PatroniEvents(mem, a, initial) = Changes(lost, "node_state_change", "state", "unreachable", TRUE)
      BY <2>3 DEF PatroniEvents
    <3>7. "state" \in Channels /\ "node_state_change" \in EventKinds
      BY <2>1 DEF EventKinds
    <3>8. TypeFits(component, Event(lost, "node_state_change", "state", "unreachable"))
          /\ CreationFits(component, Event(lost, "node_state_change", "state", "unreachable"), before["state"])
      BY <3>3
    <3> HIDE DEF lost, event, new, fits
    <3>9. Changes(lost, "node_state_change", "state", "unreachable", TRUE) \in Seq(G)
      BY <3>1, <3>2, <3>4, <3>5, <3>7, <3>8, ChangesGrounded DEF G
    <3>. QED BY <2>1, <3>6, <3>9 DEF G
  <2>. QED BY <2>2, <2>3
<1>2. CASE component = "consul"
  <2>1. Channels = {"leader"} /\ Emitted(mem, a, initial) = ConsulEvents(mem, a, initial)
    BY <1>2 DEF Channels, Emitted
  <2>2. CASE ~a.answered
    BY <2>1, <2>2, GroundedConcat DEF ConsulEvents, G
  <2>3. CASE a.answered
    <3>1. a.seen \in [leader : {"node1", "node2", Absent}]
      BY <1>2, <2>3, AnswerShape DEF Shows
    <3>2. TellsOf(component, a, "leader")
      BY <2>3 DEF TellsOf
    <3>3. CASE a.seen.leader = Absent
      <4>1. new("leader") = None /\ None \in Values
        BY <2>3, <3>3 DEF Value, Values
      <4>2. fits("leader_key_deleted", "leader")
        BY <1>2, <4>1 DEF TypeFits, CreationFits, Event, None
      <4> HIDE DEF new, fits
      <4>3. Changes(mem, "leader_key_deleted", "leader", None, FALSE) \in Seq(G)
        BY <1>0, <2>1, <3>2, <4>1, <4>2 DEF EventKinds
      <4>. QED BY <2>1, <2>3, <3>3, <4>3 DEF ConsulEvents, G
    <3>4. CASE a.seen.leader # Absent
      <4> DEFINE type == LeaderChange(mem, a.seen.leader, initial)
      <4>1. new("leader") = a.seen.leader /\ a.seen.leader \in Values \ {None}
        BY <2>3, <3>1, <3>4 DEF Value, Values, None, Absent
      <4>2. type \in EventKinds /\ type \notin {"leader_key_deleted", "timeline_change"}
        BY DEF LeaderChange, EventKinds
      <4>3. fits(type, "leader")
        <5>1. before["leader"] # {} => (type = "leader_key_created" <=> mem["leader"] = None)
          BY <2>1 DEF LeaderChange
        <5>. QED BY <1>2, <4>1, <4>2, <5>1 DEF TypeFits, CreationFits, Event
      <4> HIDE DEF new, fits, type
      <4>4. Changes(mem, type, "leader", a.seen.leader, TRUE) \in Seq(G)
        BY <1>0, <2>1, <3>2, <4>1, <4>2, <4>3
      <4>. QED BY <2>1, <2>3, <3>4, <4>4 DEF ConsulEvents, G, type
    <3>. QED BY <3>3, <3>4
  <2>. QED BY <2>2, <2>3
<1>3. CASE component = "haproxy"
  <2>1. Channels = {"server1", "server2"} /\ Emitted(mem, a, initial) = HaproxyEvents(mem, a, initial)
    BY <1>3 DEF Channels, Emitted
  <2> DEFINE server(s) == IF a.answered /\ a.seen[s] # Absent
                          THEN Changes(mem, "backend_state_change", s, a.seen[s], initial)
                          ELSE <<>>
  <2>2. ASSUME NEW s \in Channels PROVE server(s) \in Seq(G)
    <3>1. CASE a.answered /\ a.seen[s] # Absent
      <4>1. new(s) = a.seen[s] /\ a.seen[s] \in Values
        <5>1. a.seen \in [server1 : {"UP", "DOWN", Absent}, server2 : {"UP", "DOWN"}]
          BY <1>3, <3>1, AnswerShape DEF Shows
        <5>2. s \in {"server1", "server2"}
          BY <2>1
        <5>. QED BY <3>1, <5>1, <5>2 DEF Value, Values
      <4>2. TellsOf(component, a, s)
        BY <3>1 DEF TellsOf
      <4>3. fits("backend_state_change", s)
        BY <1>3 DEF TypeFits, CreationFits, Event
      <4> HIDE DEF new, fits
      <4>4. Changes(mem, "backend_state_change", s, a.seen[s], initial) \in Seq(G)
        BY <1>0, <4>1, <4>2, <4>3 DEF EventKinds
      <4>. QED BY <3>1, <4>4
    <3>2. CASE ~(a.answered /\ a.seen[s] # Absent)
      BY <3>2, GroundedConcat
    <3>. QED BY <3>1, <3>2
  <2>3. HaproxyEvents(mem, a, initial) = server("server1") \o server("server2")
    BY DEF HaproxyEvents
  <2> HIDE DEF server
  <2>. QED BY <2>1, <2>2, <2>3, GroundedConcat DEF G
<1>4. CASE component = "postgres"
  <2>1. Channels = {"recovery", "timeline", "reachable"} /\ Emitted(mem, a, initial) = PostgresEvents(mem, a, initial)
    BY <1>4 DEF Channels, Emitted
  <2>2. CASE a.answered
    <3> DEFINE r == Event(mem, "pg_ready_accept_connections", "reachable", "yes")
               ready == IF mem.reachable = "no" THEN <<r>> ELSE <<>>
               type == RecoveryChange(mem, a.seen.recovery)
    <3>1. a.seen \in [recovery : {"primary", "in_recovery"}, timeline : {"1", "2"}]
      BY <1>4, <2>2, AnswerShape DEF Shows
    <3>2. /\ new("recovery") = a.seen.recovery /\ new("timeline") = a.seen.timeline
          /\ {a.seen.recovery, a.seen.timeline, "yes"} \subseteq Values
          /\ Value(a, "reachable") = "yes"
      BY <2>2, <3>1 DEF Value, Values, Absent
    <3>3. \A c : TellsOf(component, a, c)
      BY <2>2 DEF TellsOf
    <3>4. /\ type \in EventKinds \ {"timeline_change"}
      BY DEF RecoveryChange, EventKinds
    <3>5. fits(type, "recovery") /\ fits("pg_timeline_change", "timeline")
      BY <1>4, <3>4 DEF TypeFits, CreationFits, Event
    <3>6. ready \in Seq(G)
      <4>1. r \in EventType(Channels) /\ r.channel = "reachable" /\ r.new = "yes" /\ r.old = mem["reachable"]
        BY <2>1, <3>2 DEF Event, EventType, EventKinds
      <4>2. TypeFits(component, r)
        BY <1>4 DEF TypeFits, CreationFits, Event
      <4>3. CASE mem.reachable = "no"
        <5>1. Justified(component, r, a, before["reachable"])
          BY <1>4, <2>1, <3>2, <3>3, <4>1, <4>2, <4>3 DEF Justified, OldKnown, CreationFits, Absent
        <5>2. r \in G
          BY <4>1, <5>1 DEF G, Grounded
        <5> HIDE DEF r
        <5>3. <<r>> \in Seq(G)
          BY <5>2
        <5>. QED BY <4>3, <5>3
      <4>4. CASE mem.reachable # "no"
        BY <4>4, GroundedConcat
      <4>. QED BY <4>3, <4>4
    <3> HIDE DEF new, fits, type, ready
    <3>7. Changes(mem, type, "recovery", a.seen.recovery, initial) \in Seq(G)
      BY <1>0, <2>1, <3>2, <3>3, <3>4, <3>5
    <3>8. Changes(mem, "pg_timeline_change", "timeline", a.seen.timeline, FALSE) \in Seq(G)
      BY <1>0, <2>1, <3>2, <3>3, <3>5 DEF EventKinds
    <3>9. PostgresEvents(mem, a, initial)
            = ready \o Changes(mem, type, "recovery", a.seen.recovery, initial)
              \o Changes(mem, "pg_timeline_change", "timeline", a.seen.timeline, FALSE)
      BY <2>2 DEF PostgresEvents, ready, type
    <3>10. \A r1, s, t \in Seq(G) : r1 \o s \o t \in Seq(G)
      BY GroundedConcat
    <3>11. PostgresEvents(mem, a, initial) \in Seq(G)
      BY <3>6, <3>7, <3>8, <3>9, <3>10
    <3>. QED BY <2>1, <3>11 DEF G
  <2>3. CASE ~a.answered
    <3>1. new("reachable") = "no" /\ "no" \in Values
      BY <2>3 DEF Value, Values, Absent
    <3>2. TellsOf(component, a, "reachable")
      BY DEF TellsOf
    <3>3. fits("pg_connection_lost", "reachable")
      BY <1>4 DEF TypeFits, CreationFits, Event
    <3> HIDE DEF new, fits
    <3>4. Changes(mem, "pg_connection_lost", "reachable", "no", FALSE) \in Seq(G)
      BY <1>0, <2>1, <3>1, <3>2, <3>3 DEF EventKinds
    <3>. QED BY <2>1, <2>3, <3>4 DEF PostgresEvents, G
  <2>. QED BY <2>2, <2>3
<1>5. CASE component = "vip"
  <2>1. Channels = {"vip"} /\ Emitted(mem, a, initial) = VipEvents(mem, a, initial)
    BY <1>5 DEF Channels, Emitted
  <2>2. CASE ~a.answered
    BY <2>1, <2>2, GroundedConcat DEF VipEvents, G
  <2>3. CASE a.answered
    <3>1. a.seen \in [vip : {"bound", "unbound"}]
      BY <1>5, <2>3, AnswerShape DEF Shows
    <3>2. new("vip") = a.seen.vip /\ a.seen.vip \in Values
      BY <2>3, <3>1 DEF Value, Values, Absent
    <3>3. TellsOf(component, a, "vip")
      BY <2>3 DEF TellsOf
    <3>4. fits("vip_state_change", "vip")
      BY <1>5 DEF TypeFits, CreationFits, Event
    <3> HIDE DEF new, fits
    <3>5. Changes(mem, "vip_state_change", "vip", a.seen.vip, initial) \in Seq(G)
      BY <1>0, <2>1, <3>2, <3>3, <3>4 DEF EventKinds
    <3>. QED BY <2>1, <2>3, <3>5 DEF VipEvents, G
  <2>. QED BY <2>2, <2>3
<1>. QED BY <1>1, <1>2, <1>3, <1>4, <1>5, ComponentCases DEF G

\* The events of a history are in the order of their polls and justified by it.
Reasoned(comp, hist, es) ==
    /\ \A k, l \in DOMAIN es : k < l => es[k].poll <= es[l].poll
    /\ \A k \in DOMAIN es :
          Justified(comp, es[k], hist[es[k].poll],
                    BeforeIn(comp, hist, es[k].poll, es[k].channel))

\* Dated events have the fields they had and the poll.
LEMMA DatedFields ==
    ASSUME NEW S, NEW s \in Seq(S), NEW i
    PROVE  LET t == [k \in DOMAIN s |-> Dated(s[k], i)]
           IN  /\ DOMAIN t = DOMAIN s
               /\ \A k \in DOMAIN t : /\ t[k].poll = i /\ t[k].channel = s[k].channel
                                      /\ t[k].old = s[k].old /\ t[k].new = s[k].new
                                      /\ t[k].type = s[k].type
  BY DEF Dated

\* Where the elements of a concatenation are.
LEMMA ConcatShape ==
    ASSUME NEW S, NEW s \in Seq(S), NEW t \in Seq(S)
    PROVE  /\ DOMAIN (s \o t) = 1..(Len(s) + Len(t))
           /\ DOMAIN s = 1..Len(s) /\ Len(s) \in Nat
           /\ \A k \in 1..Len(s) : (s \o t)[k] = s[k]
           /\ \A k \in 1..Len(t) : (s \o t)[Len(s) + k] = t[k]
  OBVIOUS

\* A poll adds events that are justified by its answer.
LEMMA ReasonedStep ==
    ASSUME component \in Components, NEW hist \in Seq(Answers), NEW mem, NEW es, NEW a \in Answers,
           NEW initial \in BOOLEAN, initial => hist = <<>>,
           Recorded(component, Channels, hist, mem, es), Reasoned(component, hist, es)
    PROVE  LET emitted == Emitted(mem, a, initial)
               dated   == [k \in DOMAIN emitted |-> Dated(emitted[k], Len(hist) + 1)]
           IN  Reasoned(component, Append(hist, a), es \o dated)
<1> DEFINE emitted == Emitted(mem, a, initial)
           n == Len(hist)
           hist2 == Append(hist, a)
           dated == [k \in DOMAIN emitted |-> Dated(emitted[k], n + 1)]
           before == [c \in Channels |-> BeforeIn(component, hist, n + 1, c)]
           G == Grounded(component, Channels, a, before)
           ans == Answers
<1>1. /\ mem \in [Channels -> Values] /\ es \in Seq(DatedType(Channels)) /\ PollsIn(es, DOMAIN hist)
      /\ \A c \in Channels : Known(component, c, before[c], mem[c])
  BY DEF Recorded
<1>2. hist \in Seq(ans) /\ a \in ans
  OBVIOUS
<1> HIDE DEF ans
<1>3. /\ DOMAIN hist = 1..n /\ n \in Nat
      /\ \A j \in 1..n : hist2[j] = hist[j]
      /\ hist2[n + 1] = a
  BY <1>2, HistoryShape
<1>4. ASSUME NEW i \in 1..(n + 1), NEW c
      PROVE  BeforeIn(component, hist2, i, c) = BeforeIn(component, hist, i, c)
  <2>1. i \in Nat /\ \A j \in 1..(i - 1) : hist2[j] = hist[j]
    BY <1>3
  <2> HIDE DEF hist2
  <2>. QED BY <2>1, BeforePrefix
<1>0. initial => \A c \in Channels : before[c] = {}
  <2>1. hist = <<>> => n = 0
    BY <1>2
  <2>2. n = 0 => \A c : BeforeIn(component, hist, n + 1, c) = {}
    BY DEF BeforeIn, EarlierIn
  <2>. QED BY <2>1, <2>2
<1>5. emitted \in Seq(G)
  <2>1. \A c \in Channels : Known(component, c, before[c], mem[c])
    BY <1>1
  <2>. QED BY <1>1, <1>0, <2>1, EmittedGrounded
<1> HIDE DEF emitted, G
<1>6. /\ DOMAIN dated = DOMAIN emitted
      /\ \A k \in DOMAIN dated :
           /\ dated[k].poll = n + 1 /\ dated[k].channel = emitted[k].channel
           /\ dated[k].old = emitted[k].old /\ dated[k].new = emitted[k].new
           /\ dated[k].type = emitted[k].type
  BY <1>5, DatedFields
<1>7. \A k \in DOMAIN emitted : emitted[k] \in G
  BY <1>5
<1>8. DOMAIN emitted = 1..Len(emitted) /\ Len(emitted) \in Nat
  BY <1>5
<1> HIDE DEF dated
<1>9. ASSUME NEW k \in DOMAIN dated
      PROVE  Justified(component, dated[k], hist2[n + 1],
                       BeforeIn(component, hist2, n + 1, dated[k].channel))
  <2>1. emitted[k].channel \in Channels /\ Justified(component, emitted[k], a, before[emitted[k].channel])
    BY <1>6, <1>7, <1>9 DEF G, Grounded, EventType
  <2>2. before[emitted[k].channel] = BeforeIn(component, hist2, n + 1, dated[k].channel)
    BY <1>3, <1>4, <1>6, <1>9, <2>1
  <2> HIDE DEF before, hist2
  <2>. QED BY <1>3, <1>6, <1>9, <2>1, <2>2 DEF Justified, TypeFits, CreationFits
<1>10. ASSUME NEW k \in DOMAIN es
       PROVE  /\ es[k].poll \in 1..n
              /\ Justified(component, es[k], hist2[es[k].poll],
                           BeforeIn(component, hist2, es[k].poll, es[k].channel))
  <2>1. es[k].poll \in 1..n
    BY <1>1, <1>3, <1>10 DEF PollsIn
  <2>2. es[k].poll \in 1..(n + 1)
    BY <1>3, <2>1
  <2>3. BeforeIn(component, hist2, es[k].poll, es[k].channel) = BeforeIn(component, hist, es[k].poll, es[k].channel)
    BY <1>4, <2>2
  <2>4. hist2[es[k].poll] = hist[es[k].poll]
    BY <1>3, <2>1
  <2>. QED BY <1>10, <2>1, <2>3, <2>4 DEF Reasoned
<1> DEFINE both == es \o dated
<1>11. /\ DOMAIN both = 1..(Len(es) + Len(emitted)) /\ Len(es) \in Nat /\ DOMAIN es = 1..Len(es)
       /\ \A k \in 1..Len(es) : both[k] = es[k]
       /\ \A k \in 1..Len(emitted) : both[Len(es) + k] = dated[k]
  <2> DEFINE U == {es[k] : k \in DOMAIN es} \cup {dated[k] : k \in DOMAIN dated}
  <2>1. dated \in Seq(U) /\ Len(dated) = Len(emitted)
    BY <1>6, <1>8 DEF dated
  <2>2. es \in Seq(U)
    BY <1>1
  <2> HIDE DEF U
  <2>3. ASSUME NEW s \in Seq(U), NEW t \in Seq(U)
        PROVE  /\ DOMAIN (s \o t) = 1..(Len(s) + Len(t))
               /\ DOMAIN s = 1..Len(s) /\ Len(s) \in Nat
               /\ \A k \in 1..Len(s) : (s \o t)[k] = s[k]
               /\ \A k \in 1..Len(t) : (s \o t)[Len(s) + k] = t[k]
    BY ConcatShape
  <2> HIDE DEF both
  <2>4. /\ DOMAIN both = 1..(Len(es) + Len(dated))
        /\ DOMAIN es = 1..Len(es) /\ Len(es) \in Nat
        /\ \A k \in 1..Len(es) : both[k] = es[k]
        /\ \A k \in 1..Len(dated) : both[Len(es) + k] = dated[k]
    BY <2>1, <2>2, <2>3 DEF both
  <2>. QED BY <2>1, <2>4
<1> HIDE DEF both, hist2
<1>12. ASSUME NEW k \in DOMAIN both
       PROVE  \/ k \in DOMAIN es /\ both[k] = es[k]
              \/ k > Len(es) /\ k - Len(es) \in DOMAIN dated /\ both[k] = dated[k - Len(es)]
  <2>1. CASE k \in 1..Len(es)
    BY <1>11, <2>1
  <2>2. CASE k \notin 1..Len(es)
    <3>1. k - Len(es) \in 1..Len(emitted) /\ k = Len(es) + (k - Len(es)) /\ k > Len(es)
      BY <1>8, <1>11, <1>12, <2>2
    <3>2. both[k] = dated[k - Len(es)]
      BY <1>11, <3>1
    <3>. QED BY <1>6, <1>8, <3>1, <3>2
  <2>. QED BY <2>1, <2>2
<1>13. \A k \in DOMAIN both :
          Justified(component, both[k], hist2[both[k].poll],
                    BeforeIn(component, hist2, both[k].poll, both[k].channel))
  BY <1>6, <1>9, <1>10, <1>12
<1>14. \A k, l \in DOMAIN both : k < l => both[k].poll <= both[l].poll
  <2> SUFFICES ASSUME NEW k \in DOMAIN both, NEW l \in DOMAIN both, k < l
               PROVE  both[k].poll <= both[l].poll
    OBVIOUS
  <2>1. k \in Nat /\ l \in Nat
    BY <1>8, <1>11
  <2>2. CASE l \in DOMAIN es /\ both[l] = es[l]
    <3>1. k \in DOMAIN es /\ both[k] = es[k]
      BY <1>11, <1>12, <2>1, <2>2
    <3>. QED BY <2>2, <3>1 DEF Reasoned
  <2>3. CASE l - Len(es) \in DOMAIN dated /\ both[l] = dated[l - Len(es)]
    <3>1. both[l].poll = n + 1
      BY <1>6, <2>3
    <3>2. both[k].poll \in Nat /\ both[k].poll <= n + 1
      BY <1>3, <1>6, <1>10, <1>12
    <3>. QED BY <1>3, <3>1, <3>2
  <2>. QED BY <1>12, <2>2, <2>3
<1>15. Reasoned(component, hist2, both)
  BY <1>13, <1>14 DEF Reasoned
<1>. QED BY <1>15 DEF hist2, both, dated, emitted, n

-----------------------------------------------------------------------------
(* The invariant. *)

\* setup() polls first: until it has, there are no answers, and after it there are.
Polled ==
    \A w \in Watchers :
        /\ pc[w] \in {"created", "started", "setup"} => answers[w] = <<>>
        /\ pc[w] \in {"test", "poll"} => answers[w] # <<>>

\* Every watcher's events and memory are those of its history.
Told ==
    /\ DOMAIN memory = Watchers /\ memory = [w \in Watchers |-> memory[w]]
    /\ DOMAIN events = Watchers /\ events = [w \in Watchers |-> events[w]]
    /\ \A w \in Watchers : Recorded(component, Channels, answers[w], memory[w], events[w])

\* Every event is of its poll, its answer and what was told before.
Explained == \A w \in Watchers : Reasoned(component, answers[w], events[w])

IInv == Typed /\ InOrder /\ Polled /\ Told /\ Explained

\* What setup() and poll() do, to one watcher.
LEMMA ObserveShape ==
    ASSUME Typed, NEW v \in Watchers, Setup(v) \/ Poll(v)
    PROVE  \E a \in Answers : \E initial \in BOOLEAN :
             /\ initial <=> pc[v] = "setup"
             /\ pc[v] \in {"setup", "poll"} /\ pc' = [pc EXCEPT ![v] = "test"]
             /\ answers' = [answers EXCEPT ![v] = Append(@, a)]
             /\ memory' = [memory EXCEPT ![v] = Remembered(@, a)]
             /\ LET emitted == Emitted(memory[v], a, initial)
                IN  events' = [events EXCEPT ![v] =
                                 @ \o [i \in DOMAIN emitted |-> Dated(emitted[i], Len(answers[v]) + 1)]]
<1>1. CASE Setup(v)
  <2>1. pc[v] = "setup" /\ pc' = [pc EXCEPT ![v] = "test"] /\ Observe(v, TRUE)
    BY <1>1 DEF Setup, Goto
  <2>. QED BY <2>1 DEF Observe
<1>2. CASE Poll(v)
  <2>1. pc[v] = "poll" /\ pc' = [pc EXCEPT ![v] = "test"] /\ Observe(v, FALSE)
    BY <1>2 DEF Poll, Goto
  <2>. QED BY <2>1 DEF Observe
<1>. QED BY <1>1, <1>2

\* It holds at first.
LEMMA IInvInit ==
    ASSUME Init
    PROVE  IInv
<1>1. Typed
  <2>1. \A w \in Watchers : answers[w] \in Seq(Answers)
    BY DEF Init
  <2>2. pc \in [Watchers -> Pcs] /\ running \in [Watchers -> BOOLEAN]
    BY DEF Init, Pcs
  <2>3. answers \in [Watchers -> Seq(Answers)]
    BY <2>1 DEF Init
  <2>. QED BY <2>2, <2>3 DEF Init, Typed, Mains
<1>2. InOrder
  BY DEF Init, InOrder, Exits
<1>3. Polled
  BY DEF Init, Polled
<1>4. Told
  <2>1. ASSUME NEW w \in Watchers PROVE Recorded(component, Channels, answers[w], memory[w], events[w])
    <3>1. answers[w] = <<>> /\ memory[w] = [c \in Channels |-> None] /\ events[w] = <<>>
      BY DEF Init
    <3>. QED BY <3>1, RecordedAtFirst
  <2>2. /\ DOMAIN memory = Watchers /\ memory = [w \in Watchers |-> memory[w]]
        /\ DOMAIN events = Watchers /\ events = [w \in Watchers |-> events[w]]
    BY DEF Init
  <2>. QED BY <2>1, <2>2 DEF Told
<1>5. Explained
  <2>1. ASSUME NEW w \in Watchers PROVE events[w] = <<>>
    BY DEF Init
  <2>2. DOMAIN <<>> = {}
    OBVIOUS
  <2>. QED BY <2>1, <2>2 DEF Explained, Reasoned
<1>. QED BY <1>1, <1>2, <1>3, <1>4, <1>5 DEF IInv

\* A watcher is past setup() exactly when it has polled.
LEMMA PolledStep ==
    ASSUME Typed, Polled, [Next]_vars
    PROVE  Polled'
<1>1. Watchers' = Watchers
  BY SettingsFrame
<1>2. pc \in [Watchers -> Pcs] /\ answers \in [Watchers -> Seq(Answers)]
  BY DEF Typed
<1>3. ASSUME NEW v \in Watchers, Setup(v) \/ Poll(v) PROVE Polled'
  <2>1. PICK a \in Answers : pc' = [pc EXCEPT ![v] = "test"] /\ answers' = [answers EXCEPT ![v] = Append(@, a)]
    BY <1>3, ObserveShape
  <2>2. Append(answers[v], a) # <<>>
    <3> DEFINE S == Answers
    <3>1. answers[v] \in Seq(S) /\ a \in S
      BY <1>2
    <3> HIDE DEF S
    <3>2. Len(answers[v]) + 1 \in DOMAIN Append(answers[v], a)
      BY <3>1, AppendShape
    <3>3. DOMAIN <<>> = {}
      OBVIOUS
    <3>. QED BY <3>2, <3>3
  <2>. QED BY <1>1, <1>2, <2>1, <2>2 DEF Polled
<1>4. ASSUME NEW v \in Watchers, Run(v) \/ SetupRaises(v) \/ LoopTest(v) \/ PollRaises(v) PROVE Polled'
  <2>1. answers' = answers
    BY <1>4 DEF Run, SetupRaises, LoopTest, PollRaises, history
  <2>2. \/ pc[v] \in {"created", "started", "setup"} /\ \E to \in {"setup", "crashed"} : pc' = [pc EXCEPT ![v] = to]
        \/ pc[v] \in {"test", "poll"} /\ \E to \in {"test", "poll", "stopped"} : pc' = [pc EXCEPT ![v] = to]
    BY <1>4 DEF Run, SetupRaises, LoopTest, PollRaises, Test, Goto
  <2>. QED BY <1>1, <1>2, <2>1, <2>2 DEF Polled
<1>5. CASE StartThread
  <2>1. answers' = answers /\ pc[next] = "created" /\ pc' = [pc EXCEPT ![next] = "started"]
    BY <1>5 DEF StartThread, Goto, history
  <2>. QED BY <1>1, <1>2, <2>1 DEF Polled
<1>6. CASE Refuse \/ Configure \/ Join \/ StopEmitter \/ Signal \/ UNCHANGED vars
  <2>1. answers' = answers /\ pc' = pc
    BY <1>6 DEF Refuse, Configure, Join, StopEmitter, Signal, history, vars
  <2>. QED BY <1>1, <2>1 DEF Polled
<1>. QED BY <1>3, <1>4, <1>5, <1>6 DEF Next, MainStep, WatcherStep

\* The record of each watcher is kept by every step.
LEMMA ToldStep ==
    ASSUME Typed, Polled, Told, [Next]_vars
    PROVE  Told'
<1>1. Watchers' = Watchers /\ Channels' = Channels /\ component' = component
  BY SettingsFrame
<1>2. CASE UNCHANGED <<answers, memory, events>>
  BY <1>1, <1>2 DEF Told
<1>3. ASSUME NEW v \in Watchers, Setup(v) \/ Poll(v) PROVE Told'
  <2>1. PICK a \in Answers, initial \in BOOLEAN :
             /\ initial <=> pc[v] = "setup"
             /\ pc[v] \in {"setup", "poll"} /\ pc' = [pc EXCEPT ![v] = "test"]
             /\ answers' = [answers EXCEPT ![v] = Append(@, a)]
             /\ memory' = [memory EXCEPT ![v] = Remembered(@, a)]
             /\ LET emitted == Emitted(memory[v], a, initial)
                IN  events' = [events EXCEPT ![v] =
                                 @ \o [i \in DOMAIN emitted |-> Dated(emitted[i], Len(answers[v]) + 1)]]
    BY <1>3, ObserveShape
  <2> DEFINE emitted == Emitted(memory[v], a, initial)
             dated == [i \in DOMAIN emitted |-> Dated(emitted[i], Len(answers[v]) + 1)]
  <2>2. answers[v] \in Seq(Answers) /\ component \in Components /\ DOMAIN answers = Watchers
    BY DEF Typed
  <2>3. initial <=> answers[v] = <<>>
    BY <2>1 DEF Polled
  <2>4. Recorded(component, Channels, answers[v], memory[v], events[v])
    BY DEF Told
  <2>5. Recorded(component, Channels, Append(answers[v], a), Remembered(memory[v], a), events[v] \o dated)
    BY <2>2, <2>3, <2>4, RecordedStep
  <2>6. events' = [events EXCEPT ![v] = @ \o dated]
    BY <2>1
  <2> HIDE DEF dated
  <2>7. /\ DOMAIN memory = Watchers /\ memory = [w \in Watchers |-> memory[w]]
        /\ DOMAIN events = Watchers /\ events = [w \in Watchers |-> events[w]]
    BY DEF Told
  <2>8. /\ answers'[v] = Append(answers[v], a)
        /\ memory'[v] = Remembered(memory[v], a)
        /\ events'[v] = events[v] \o dated
    BY <2>1, <2>2, <2>6, <2>7
  <2>9. ASSUME NEW w \in Watchers, w # v
        PROVE  answers'[w] = answers[w] /\ memory'[w] = memory[w] /\ events'[w] = events[w]
    BY <2>1, <2>2, <2>6, <2>7, <2>9
  <2>10. \A w \in Watchers : Recorded(component, Channels, answers'[w], memory'[w], events'[w])
    BY <2>5, <2>8, <2>9 DEF Told
  <2>11. /\ DOMAIN memory' = Watchers /\ memory' = [w \in Watchers |-> memory'[w]]
         /\ DOMAIN events' = Watchers /\ events' = [w \in Watchers |-> events'[w]]
    BY <2>1, <2>6, <2>7
  <2>. QED BY <1>1, <2>10, <2>11 DEF Told
<1>. QED BY <1>2, <1>3, HistoryFrame

\* The events of each watcher stay explained.
LEMMA ExplainedStep ==
    ASSUME Typed, Polled, Told, Explained, [Next]_vars
    PROVE  Explained'
<1>1. Watchers' = Watchers /\ component' = component
  BY SettingsFrame
<1>2. CASE UNCHANGED <<answers, memory, events>>
  BY <1>1, <1>2 DEF Explained
<1>3. ASSUME NEW v \in Watchers, Setup(v) \/ Poll(v) PROVE Explained'
  <2>1. PICK a \in Answers, initial \in BOOLEAN :
             /\ initial <=> pc[v] = "setup"
             /\ pc[v] \in {"setup", "poll"} /\ pc' = [pc EXCEPT ![v] = "test"]
             /\ answers' = [answers EXCEPT ![v] = Append(@, a)]
             /\ memory' = [memory EXCEPT ![v] = Remembered(@, a)]
             /\ LET emitted == Emitted(memory[v], a, initial)
                IN  events' = [events EXCEPT ![v] =
                                 @ \o [i \in DOMAIN emitted |-> Dated(emitted[i], Len(answers[v]) + 1)]]
    BY <1>3, ObserveShape
  <2> DEFINE emitted == Emitted(memory[v], a, initial)
             dated == [i \in DOMAIN emitted |-> Dated(emitted[i], Len(answers[v]) + 1)]
  <2>2. answers[v] \in Seq(Answers) /\ component \in Components /\ DOMAIN answers = Watchers
    BY DEF Typed
  <2>3. /\ Recorded(component, Channels, answers[v], memory[v], events[v])
        /\ Reasoned(component, answers[v], events[v])
        /\ DOMAIN events = Watchers
    BY DEF Told, Explained
  <2>4. Reasoned(component, Append(answers[v], a), events[v] \o dated)
    <3>1. initial => answers[v] = <<>>
      BY <2>1 DEF Polled
    <3>. QED BY <2>2, <2>3, <3>1, ReasonedStep
  <2>5. events' = [events EXCEPT ![v] = @ \o dated]
    BY <2>1
  <2> HIDE DEF dated
  <2>6. answers'[v] = Append(answers[v], a) /\ events'[v] = events[v] \o dated
    BY <2>1, <2>2, <2>3, <2>5
  <2>7. ASSUME NEW w \in Watchers, w # v
        PROVE  answers'[w] = answers[w] /\ events'[w] = events[w]
    BY <2>1, <2>2, <2>3, <2>5, <2>7
  <2>. QED BY <1>1, <2>4, <2>6, <2>7 DEF Explained
<1>. QED BY <1>2, <1>3, HistoryFrame

-----------------------------------------------------------------------------
(* The theorems. *)

\* The main thread's passes, the polls of each watcher and the record they leave.
THEOREM Invariance == Spec => []IInv
<1>1. Init => IInv
  BY IInvInit
<1>2. IInv /\ [Next]_vars => IInv'
  <2> SUFFICES ASSUME IInv, [Next]_vars PROVE IInv'
    OBVIOUS
  <2>1. Typed'
    BY TypedStep DEF IInv
  <2>2. InOrder'
    BY <2>1, InOrderStep DEF IInv
  <2>3. Polled'
    BY PolledStep DEF IInv
  <2>4. Told'
    BY ToldStep DEF IInv
  <2>5. Explained'
    BY ExplainedStep DEF IInv
  <2>. QED BY <2>1, <2>2, <2>3, <2>4, <2>5 DEF IInv
<1>. QED BY <1>1, <1>2, PTL DEF Spec

\* Every variable of the agent keeps its range: a watcher remembers and reports only
\* values its component can show, on its own channels and of polls it made.
THEOREM TypeCorrect == Spec => []TypeOK
<1>1. IInv => TypeOK
  <2> SUFFICES ASSUME IInv PROVE TypeOK
    OBVIOUS
  <2>1. Typed /\ Told
    BY DEF IInv
  <2>2. memory \in [Watchers -> [Channels -> Values]]
    BY <2>1 DEF Told, Recorded
  <2>3. ASSUME NEW w \in Watchers
        PROVE  /\ \A i \in DOMAIN answers[w] : answers[w][i] \in Answers
               /\ \A i \in DOMAIN events[w] :
                     /\ events[w][i].channel \in Channels
                     /\ {events[w][i].old, events[w][i].new} \subseteq Values
                     /\ events[w][i].poll \in DOMAIN answers[w]
    <3>1. answers[w] \in Seq(Answers) /\ events[w] \in Seq(DatedType(Channels))
      BY <2>1 DEF Typed, Told, Recorded
    <3>2. PollsIn(events[w], DOMAIN answers[w])
      BY <2>1 DEF Told, Recorded
    <3>3. \A i \in DOMAIN answers[w] : answers[w][i] \in Answers
      <4> DEFINE S == Answers
      <4>1. answers[w] \in Seq(S)
        BY <3>1
      <4> HIDE DEF S
      <4>2. \A i \in DOMAIN answers[w] : answers[w][i] \in S
        BY <4>1
      <4>. QED BY <4>2 DEF S
    <3>4. \A i \in DOMAIN events[w] : events[w][i] \in DatedType(Channels)
      BY <3>1
    <3>5. \A i \in DOMAIN events[w] : events[w][i].channel \in Channels
                                      /\ {events[w][i].old, events[w][i].new} \subseteq Values
      BY <3>4 DEF DatedType
    <3>. QED BY <3>2, <3>3, <3>5 DEF PollsIn
  <2>. QED BY <2>1, <2>2, <2>3 DEF TypeOK, Typed, Mains, Pcs
<1>. QED BY <1>1, Invariance, PTL

\* A watcher reports each change of each channel once and nothing else, however many
\* polls failed in between, for every sequence of answers.
THEOREM ReportsAreTheChanges == Spec => []EventsAreTheChanges
<1>1. IInv => EventsAreTheChanges
  <2> SUFFICES ASSUME IInv, NEW w \in Watchers, NEW i \in DOMAIN answers[w], NEW c \in Channels
               PROVE  Cardinality({e \in DOMAIN events[w] :
                                      events[w][e].poll = i /\ events[w][e].channel = c})
                        = IF ToldOfChange(w, i, c) THEN 1 ELSE 0
    BY DEF EventsAreTheChanges
  <2>1. events[w] \in Seq(DatedType(Channels)) /\ Accounted(component, Channels, answers[w], events[w])
    BY DEF IInv, Told, Recorded
  <2>2. \A e \in DOMAIN events[w] : events[w][e] \in DatedType(Channels)
    BY <2>1
  <2>3. {e \in DOMAIN events[w] : events[w][e].poll = i /\ events[w][e].channel = c}
          = Positions(events[w], At(Channels, i, c))
    BY <2>2 DEF Positions, At
  <2>4. CountIn(events[w], At(Channels, i, c)) = IF DueOf(component, answers[w], i, c) THEN 1 ELSE 0
    BY <2>1 DEF Accounted
  <2>5. ToldOfChange(w, i, c) <=> DueOf(component, answers[w], i, c)
    BY DueIsTold
  <2>. QED BY <2>3, <2>4, <2>5 DEF CountIn
<1>. QED BY <1>1, Invariance, PTL

\* No emitter is stopped before its watcher has ended, and an agent that has started its
\* watchers ends with every emitter stopped.
THEOREM EmittersLast == Spec => []EmittersOutliveWatchers
<1>1. IInv => EmittersOutliveWatchers
  <2> SUFFICES ASSUME IInv PROVE EmittersOutliveWatchers
    OBVIOUS
  <2>1. InOrder /\ main \in Mains /\ closed \subseteq Watchers
    BY DEF IInv, Typed
  <2>2. \A w \in closed : pc[w] \in Ended
    BY <2>1 DEF InOrder, Mains, Exits
  <2>3. main \in Exits /\ (\E w \in Watchers : pc[w] # "created") => closed = Watchers
    BY <2>1 DEF InOrder
  <2>. QED BY <2>2, <2>3 DEF EmittersOutliveWatchers, Exits
<1>. QED BY <1>1, Invariance, PTL

-----------------------------------------------------------------------------
(* What a channel shows while nothing is reported of it. *)

\* The value before a poll is the one of the history.
LEMMA BeforeIs ==
    ASSUME NEW w, NEW i, NEW c
    PROVE  ValueBefore(w, i, c) = BeforeIn(component, answers[w], i, c)
<1>1. Earlier(w, i, c) = EarlierIn(component, answers[w], i, c)
  BY DEF Earlier, EarlierIn, Tells, TellsOf
<1>. QED BY <1>1 DEF ValueBefore, BeforeIn

\* Where no event is, none was due.
LEMMA NotDue ==
    ASSUME NEW comp, NEW chs, NEW hist, NEW es \in Seq(DatedType(chs)),
           Accounted(comp, chs, hist, es), NEW c \in chs, NEW i \in DOMAIN hist,
           \A k \in DOMAIN es : ~(es[k].channel = c /\ es[k].poll = i)
    PROVE  ~DueOf(comp, hist, i, c)
<1>1. Positions(es, At(chs, i, c)) = {}
  BY DEF Positions, At
<1>2. CountIn(es, At(chs, i, c)) = 0
  BY <1>1, FS_EmptySet DEF CountIn
<1>. QED BY <1>2 DEF Accounted

\* No event of the channel after poll m, up to poll n.
Silent(es, c, m, n) == \A k \in DOMAIN es : es[k].channel = c => es[k].poll \notin (m + 1)..n

\* HAProxy does not report a server that is missing, nor a Patroni node a timeline after
\* none; any other change is reported.
Listed(comp, hist, c, v, m, n) ==
    /\ comp = "haproxy" => /\ v # Absent
                           /\ \A j \in (m + 1)..n :
                                 TellsOf(comp, hist[j], c) => Value(hist[j], c) # Absent
    /\ comp = "patroni" => v # Absent

\* A value that was told stays while the channel is silent.
LEMMA Steady ==
    ASSUME NEW comp, NEW chs, NEW S, NEW hist \in Seq(S), NEW es \in Seq(DatedType(chs)),
           Accounted(comp, chs, hist, es), NEW c \in chs,
           NEW m \in Nat, NEW n \in Nat, m <= n, n <= Len(hist), Silent(es, c, m, n),
           NEW v, BeforeIn(comp, hist, m + 1, c) = {v}, Listed(comp, hist, c, v, m, n)
    PROVE  BeforeIn(comp, hist, n + 1, c) = {v}
<1> DEFINE T == {x \in Nat : m <= x /\ x <= n /\ BeforeIn(comp, hist, x + 1, c) # {v}}
<1>0. T = {} => BeforeIn(comp, hist, n + 1, c) = {v}
  <2> SUFFICES ASSUME BeforeIn(comp, hist, n + 1, c) # {v} PROVE n \in T
    OBVIOUS
  <2>. QED OBVIOUS
<1> SUFFICES ASSUME T # {} PROVE FALSE
  BY <1>0
<1>1. PICK x \in T : \A y \in T : x <= y
  BY LeastElement
<1>2. x \in Nat /\ m < x /\ x <= n /\ BeforeIn(comp, hist, x + 1, c) # {v}
  <2>1. x # m
    BY <1>1
  <2>. QED BY <1>1, <2>1
<1>3. BeforeIn(comp, hist, x, c) = {v}
  <2>1. x - 1 \notin T
    BY <1>1, <1>2
  <2>. QED BY <1>2, <2>1
<1>4. x \in DOMAIN hist /\ x \in (m + 1)..n
  <2>1. DOMAIN hist = 1..Len(hist) /\ Len(hist) \in Nat
    OBVIOUS
  <2>. QED BY <1>2, <2>1
<1>5. ~DueOf(comp, hist, x, c)
  <2>1. \A k \in DOMAIN es : ~(es[k].channel = c /\ es[k].poll = x)
    BY <1>4 DEF Silent
  <2>. QED BY <1>4, <2>1, NotDue
<1>6. /\ TellsOf(comp, hist[x], c) => BeforeIn(comp, hist, x + 1, c) = {Value(hist[x], c)}
      /\ ~TellsOf(comp, hist[x], c) => BeforeIn(comp, hist, x + 1, c) = BeforeIn(comp, hist, x, c)
  <2> DEFINE p == x - 1
  <2>1. p \in Nat /\ p + 1 = x /\ p + 2 = x + 1
    BY <1>2
  <2> HIDE DEF p
  <2>2. /\ TellsOf(comp, hist[p + 1], c) => BeforeIn(comp, hist, p + 2, c) = {Value(hist[p + 1], c)}
        /\ ~TellsOf(comp, hist[p + 1], c) => BeforeIn(comp, hist, p + 2, c) = BeforeIn(comp, hist, p + 1, c)
    BY <2>1, BeforeNext
  <2>. QED BY <2>1, <2>2
<1>7. TellsOf(comp, hist[x], c) /\ Value(hist[x], c) # v
  BY <1>2, <1>3, <1>6
<1>8. /\ comp = "haproxy" => v # Absent /\ Value(hist[x], c) # Absent
      /\ comp = "patroni" => v # Absent
  BY <1>4, <1>7 DEF Listed
<1>9. DueFrom(comp, hist[x], c, {v}, x)
  BY <1>7, <1>8 DEF DueFrom
<1>. QED BY <1>3, <1>5, <1>9 DEF DueOf

\* The last and the first of some places.
LEMMA LastPlace ==
    ASSUME NEW n \in Nat, NEW S \in SUBSET (1..n), S # {}
    PROVE  /\ Max(S) \in S /\ \A k \in S : k <= Max(S)
           /\ Min(S) \in S /\ \A k \in S : Min(S) <= k
<1>1. \E x \in S : \A y \in S : x >= y
  <2>1. S \in SUBSET (0..n)
    OBVIOUS
  <2>2. PICK x \in S : \A y \in S : y <= x
    BY <2>1, GreatestElement
  <2>. QED BY <2>2
<1>2. \E x \in S : \A y \in S : x <= y
  <2>1. S \in SUBSET Nat
    OBVIOUS
  <2>. QED BY <2>1, LeastElement
<1>3. Max(S) \in S /\ \A y \in S : Max(S) >= y
  BY <1>1 DEF Max
<1>4. Min(S) \in S /\ \A y \in S : Min(S) <= y
  BY <1>2 DEF Min
<1>. QED BY <1>3, <1>4

\* What the invariant says of one watcher.
Watched(w) ==
    /\ component \in Components
    /\ answers[w] \in Seq(Answers)
    /\ events[w] \in Seq(DatedType(Channels))
    /\ PollsIn(events[w], DOMAIN answers[w])
    /\ Accounted(component, Channels, answers[w], events[w])
    /\ Reasoned(component, answers[w], events[w])

\* It says it of each.
LEMMA EachWatched ==
    ASSUME IInv, NEW w \in Watchers
    PROVE  Watched(w)
  BY DEF IInv, Typed, Told, Recorded, Explained, Watched

\* What is known of an answer and of an event.
LEMMA EventFacts ==
    ASSUME NEW w, Watched(w)
    PROVE  /\ DOMAIN answers[w] = 1..Len(answers[w]) /\ Len(answers[w]) \in Nat
           /\ \A j \in DOMAIN answers[w] : answers[w][j] \in Answers
           /\ DOMAIN events[w] = 1..Len(events[w]) /\ Len(events[w]) \in Nat
           /\ \A k \in DOMAIN events[w] :
                /\ events[w][k] \in DatedType(Channels)
                /\ events[w][k].poll \in 1..Len(answers[w])
                /\ Justified(component, events[w][k], answers[w][events[w][k].poll],
                             BeforeIn(component, answers[w], events[w][k].poll, events[w][k].channel))
                /\ BeforeIn(component, answers[w], events[w][k].poll + 1, events[w][k].channel)
                     = {Value(answers[w][events[w][k].poll], events[w][k].channel)}
<1>1. /\ DOMAIN answers[w] = 1..Len(answers[w]) /\ Len(answers[w]) \in Nat
      /\ \A j \in DOMAIN answers[w] : answers[w][j] \in Answers
  <2> DEFINE S == Answers
  <2>1. answers[w] \in Seq(S)
    BY DEF Watched
  <2> HIDE DEF S
  <2>2. DOMAIN answers[w] = 1..Len(answers[w]) /\ Len(answers[w]) \in Nat
        /\ \A j \in DOMAIN answers[w] : answers[w][j] \in S
    BY <2>1
  <2>. QED BY <2>2 DEF S
<1>2. /\ DOMAIN events[w] = 1..Len(events[w]) /\ Len(events[w]) \in Nat
      /\ \A k \in DOMAIN events[w] : events[w][k] \in DatedType(Channels)
  <2> DEFINE S == DatedType(Channels)
  <2>1. events[w] \in Seq(S)
    BY DEF Watched
  <2> HIDE DEF S
  <2>2. DOMAIN events[w] = 1..Len(events[w]) /\ Len(events[w]) \in Nat
        /\ \A k \in DOMAIN events[w] : events[w][k] \in S
    BY <2>1
  <2>. QED BY <2>2 DEF S
<1>3. ASSUME NEW k \in DOMAIN events[w]
      PROVE  /\ events[w][k].poll \in 1..Len(answers[w])
             /\ Justified(component, events[w][k], answers[w][events[w][k].poll],
                          BeforeIn(component, answers[w], events[w][k].poll, events[w][k].channel))
  BY <1>1, <1>3 DEF Watched, PollsIn, Reasoned
<1>4. ASSUME NEW k \in DOMAIN events[w]
      PROVE  BeforeIn(component, answers[w], events[w][k].poll + 1, events[w][k].channel)
               = {Value(answers[w][events[w][k].poll], events[w][k].channel)}
  <2> DEFINE c == events[w][k].channel
             p == events[w][k].poll - 1
  <2>1. p \in Nat /\ p + 1 = events[w][k].poll /\ p + 2 = events[w][k].poll + 1
    BY <1>1, <1>3, <1>4
  <2>2. TellsOf(component, answers[w][events[w][k].poll], c)
    BY <1>3, <1>4 DEF Justified
  <2> HIDE DEF p, c
  <2>3. TellsOf(component, answers[w][p + 1], c)
          => BeforeIn(component, answers[w], p + 2, c) = {Value(answers[w][p + 1], c)}
    BY <2>1, BeforeNext
  <2>. QED BY <2>1, <2>2, <2>3 DEF c
<1>. QED BY <1>1, <1>2, <1>3, <1>4

\* A server that is always listed is never told absent.
LEMMA NeverAbsent ==
    ASSUME NEW w, Watched(w), component = "haproxy", AlwaysListed(w), NEW c \in Channels,
           NEW j \in DOMAIN answers[w], TellsOf(component, answers[w][j], c)
    PROVE  Value(answers[w][j], c) \in {"UP", "DOWN"}
<1>1. c \in {"server1", "server2"}
  BY DEF Channels
<1>2. answers[w][j].answered
  BY <1>1 DEF TellsOf
<1>3. answers[w][j] \in Answers
  BY EventFacts
<1>4. answers[w][j].seen \in [server1 : {"UP", "DOWN", Absent}, server2 : {"UP", "DOWN"}]
  BY <1>2, <1>3, AnswerShape DEF Shows
<1>5. answers[w][j].seen.server1 # Absent
  BY <1>2 DEF AlwaysListed
<1>. QED BY <1>1, <1>2, <1>4, <1>5 DEF Value

\* The role and the state of a Patroni node are never absent; only a failed poll tells
\* that it is unreachable, and that poll tells no role.
LEMMA PatroniTells ==
    ASSUME NEW w, Watched(w), component = "patroni", NEW c \in {"role", "state"},
           NEW j \in DOMAIN answers[w], TellsOf(component, answers[w][j], c)
    PROVE  /\ Value(answers[w][j], c) \notin {None, Absent, ""}
           /\ Value(answers[w][j], c) = "unreachable" <=> ~answers[w][j].answered
           /\ c = "role" => answers[w][j].answered
<1>1. answers[w][j] \in Answers
  BY EventFacts
<1>2. c = "role" => answers[w][j].answered
  BY DEF TellsOf
<1>3. CASE answers[w][j].answered
  <2>1. answers[w][j].seen[c] \notin {None, Absent, "unreachable", ""}
    BY <1>1, <1>3, PatroniAnswer
  <2>. QED BY <1>3, <2>1 DEF Value
<1>4. CASE ~answers[w][j].answered
  BY <1>2, <1>4 DEF Value, None, Absent
<1>. QED BY <1>2, <1>3, <1>4

\* After the last event of a channel it shows what that event was about.
LEMMA Latest ==
    ASSUME NEW w, Watched(w), component = "haproxy" => AlwaysListed(w),
           NEW k \in DOMAIN events[w], component = "patroni" => events[w][k].channel # "timeline",
           NEW i \in DOMAIN answers[w], events[w][k].poll <= i,
           \A l \in DOMAIN events[w] :
               events[w][l].channel = events[w][k].channel /\ events[w][l].poll <= i => l <= k
    PROVE  Current(w, i, events[w][k].channel)
             = {Value(answers[w][events[w][k].poll], events[w][k].channel)}
<1> DEFINE c == events[w][k].channel
           p == events[w][k].poll
           v == Value(answers[w][p], c)
<1>1. /\ DOMAIN answers[w] = 1..Len(answers[w]) /\ Len(answers[w]) \in Nat
      /\ DOMAIN events[w] = 1..Len(events[w]) /\ Len(events[w]) \in Nat
      /\ \A l \in DOMAIN events[w] : events[w][l].poll \in 1..Len(answers[w])
      /\ c \in Channels /\ p \in 1..Len(answers[w])
      /\ TellsOf(component, answers[w][p], c)
      /\ BeforeIn(component, answers[w], p + 1, c) = {v}
  BY EventFacts DEF DatedType, Justified
<1>2. Silent(events[w], c, p, i)
  <2> SUFFICES ASSUME NEW l \in DOMAIN events[w], events[w][l].channel = c,
                      events[w][l].poll \in (p + 1)..i
               PROVE  FALSE
    BY DEF Silent
  <2>1. l <= k /\ events[w][l].poll > p
    BY <1>1
  <2>2. l # k
    BY <1>1, <2>1
  <2>3. l < k
    BY <1>1, <2>1, <2>2
  <2>4. events[w][l].poll <= p
    BY <2>3 DEF Watched, Reasoned
  <2>. QED BY <1>1, <2>1, <2>4
<1>5. component = "patroni" => v # Absent
  <2>1. component = "patroni" => c \in {"role", "state"} /\ p \in DOMAIN answers[w]
    BY <1>1 DEF Channels
  <2>. QED BY <1>1, <2>1, PatroniTells
<1>3. Listed(component, answers[w], c, v, p, i)
  <2> SUFFICES ASSUME component = "haproxy"
               PROVE  /\ v # Absent
                      /\ \A j \in (p + 1)..i :
                            TellsOf(component, answers[w][j], c) => Value(answers[w][j], c) # Absent
    BY <1>5 DEF Listed
  <2>1. \A j \in DOMAIN answers[w] :
            TellsOf(component, answers[w][j], c) => Value(answers[w][j], c) # Absent
    BY <1>1, NeverAbsent DEF Absent
  <2>2. p \in DOMAIN answers[w] /\ (p + 1)..i \subseteq DOMAIN answers[w]
    BY <1>1
  <2>. QED BY <1>1, <2>1, <2>2
<1>4. BeforeIn(component, answers[w], i + 1, c) = {v}
  <2>1. answers[w] \in Seq(Answers) /\ events[w] \in Seq(DatedType(Channels))
        /\ Accounted(component, Channels, answers[w], events[w])
    BY DEF Watched
  <2>2. p \in Nat /\ i \in Nat /\ p <= i /\ i <= Len(answers[w])
    BY <1>1
  <2> HIDE DEF v, p, c
  <2>. QED BY <1>1, <1>2, <1>3, <2>1, <2>2, Steady
<1>. QED BY <1>4, BeforeIs DEF Current

\* Before the next event of the lane a channel shows what it showed.
LEMMA Upcoming ==
    ASSUME NEW w, Watched(w), component = "haproxy" => AlwaysListed(w),
           NEW i \in DOMAIN answers[w], NEW p \in DOMAIN answers[w], i < p, NEW c \in Channels,
           component = "patroni" => c # "timeline",
           \A l \in DOMAIN events[w] :
               events[w][l].channel = c /\ events[w][l].poll > i => events[w][l].poll >= p,
           NEW v, Current(w, i, c) = {v}
    PROVE  BeforeIn(component, answers[w], p, c) = {v}
<1>1. /\ DOMAIN answers[w] = 1..Len(answers[w]) /\ Len(answers[w]) \in Nat
      /\ \A l \in DOMAIN events[w] : events[w][l].poll \in 1..Len(answers[w])
  BY EventFacts
<1>2. Silent(events[w], c, i, p - 1)
  BY <1>1 DEF Silent
<1>3. BeforeIn(component, answers[w], i + 1, c) = {v}
  BY BeforeIs DEF Current
<1>9. \E j \in 1..i : TellsOf(component, answers[w][j], c) /\ v = Value(answers[w][j], c)
  <2>1. v \in BeforeIn(component, answers[w], i + 1, c) /\ (i + 1) - 1 = i
    BY <1>1, <1>3
  <2>. QED BY <2>1 DEF BeforeIn, EarlierIn
<1>10. component = "patroni" => v # Absent
  <2>1. component = "patroni" => c \in {"role", "state"}
    BY DEF Channels
  <2>2. 1..i \subseteq DOMAIN answers[w]
    BY <1>1
  <2>. QED BY <1>9, <2>1, <2>2, PatroniTells
<1>4. Listed(component, answers[w], c, v, i, p - 1)
  <2> SUFFICES ASSUME component = "haproxy"
               PROVE  /\ v # Absent
                      /\ \A j \in (i + 1)..(p - 1) :
                            TellsOf(component, answers[w][j], c) => Value(answers[w][j], c) # Absent
    BY <1>10 DEF Listed
  <2>1. \A j \in DOMAIN answers[w] :
            TellsOf(component, answers[w][j], c) => Value(answers[w][j], c) # Absent
    BY <1>1, NeverAbsent DEF Absent
  <2>3. 1..i \subseteq DOMAIN answers[w] /\ (i + 1)..(p - 1) \subseteq DOMAIN answers[w]
    BY <1>1
  <2>. QED BY <1>9, <2>1, <2>3
<1>5. answers[w] \in Seq(Answers) /\ events[w] \in Seq(DatedType(Channels))
      /\ Accounted(component, Channels, answers[w], events[w])
  BY DEF Watched
<1> DEFINE n == p - 1
<1>6. i \in Nat /\ n \in Nat /\ i <= n /\ n <= Len(answers[w]) /\ n + 1 = p
  BY <1>1
<1>7. Silent(events[w], c, i, n) /\ Listed(component, answers[w], c, v, i, n)
  BY <1>2, <1>4
<1> HIDE DEF n
<1>8. BeforeIn(component, answers[w], n + 1, c) = {v}
  BY <1>3, <1>5, <1>6, <1>7, Steady
<1>. QED BY <1>6, <1>8

-----------------------------------------------------------------------------
(* The lanes of the Gantt chart. *)

\* An event was due, or it would not be there.
LEMMA WasDue ==
    ASSUME NEW w, Watched(w), NEW k \in DOMAIN events[w]
    PROVE  DueOf(component, answers[w], events[w][k].poll, events[w][k].channel)
<1> DEFINE c == events[w][k].channel
           p == events[w][k].poll
           P == Positions(events[w], At(Channels, p, c))
<1>1. events[w][k] \in DatedType(Channels) /\ p \in DOMAIN answers[w] /\ c \in Channels
  BY EventFacts DEF DatedType
<1>2. k \in P
  BY <1>1 DEF Positions, At
<1>3. IsFiniteSet(P)
  BY CountType DEF Watched
<1>4. Cardinality(P) # 0
  BY <1>2, <1>3, FS_EmptySet
<1>. QED BY <1>1, <1>4 DEF Watched, Accounted, CountIn

\* There is one value before a poll, or none.
LEMMA OneBefore ==
    ASSUME NEW comp, NEW s, NEW i \in Nat, NEW c, BeforeIn(comp, s, i, c) # {}
    PROVE  \E v : BeforeIn(comp, s, i, c) = {v}
<1> DEFINE E == EarlierIn(comp, s, i, c)
           L == {k \in E : \A l \in E : l <= k}
<1>1. E \subseteq Nat
  BY DEF EarlierIn
<1>2. \A j, k \in L : j = k
  BY <1>1
<1> HIDE DEF L
<1>3. BeforeIn(comp, s, i, c) = {Value(s[j], c) : j \in L}
  BY DEF BeforeIn, L
<1>4. PICK j \in L : TRUE
  BY <1>3
<1>5. L = {j}
  BY <1>2, <1>4
<1>6. BeforeIn(comp, s, i, c) = {Value(s[j], c)}
  BY <1>3, <1>5
<1>. QED BY <1>6

\* The events of a lane are of the window, and only timeline changes are left out.
LEMMA LaneShape ==
    ASSUME NEW w, Watched(w), NEW from
    PROVE  /\ LaneEvents(w, from) \subseteq WindowEvents(w, from)
           /\ WindowEvents(w, from) \subseteq 1..Len(events[w])
           /\ \A k \in WindowEvents(w, from) : k \notin LaneEvents(w, from) =>
                  events[w][k].channel = "timeline"
           /\ component = "patroni" =>
                  \A k \in LaneEvents(w, from) : events[w][k].channel # "timeline"
<1>1. \A k \in DOMAIN events[w] : TypeFits(component, events[w][k])
  BY EventFacts DEF Justified
<1>2. DOMAIN events[w] = 1..Len(events[w])
  BY EventFacts
<1>. QED BY <1>1, <1>2 DEF LaneEvents, WindowEvents, TypeFits

\* The events of a lane up to a poll.
Past(w, from, i) == {k \in LaneEvents(w, from) : events[w][k].poll <= i}

\* The last of them on a channel is the last of its channel.
LEMMA LatestInWindow ==
    ASSUME NEW w, Watched(w), component = "haproxy" => AlwaysListed(w),
           NEW i \in DOMAIN answers[w], NEW from \in 1..i,
           NEW k \in Past(w, from, i), events[w][k].channel # "timeline",
           \A l \in Past(w, from, i) : events[w][l].channel = events[w][k].channel => l <= k
    PROVE  Current(w, i, events[w][k].channel)
             = {Value(answers[w][events[w][k].poll], events[w][k].channel)}
<1>1. /\ DOMAIN events[w] = 1..Len(events[w]) /\ Len(events[w]) \in Nat
      /\ \A l \in DOMAIN events[w] : events[w][l].poll \in Nat
  BY EventFacts
<1>2. k \in DOMAIN events[w] /\ events[w][k].poll <= i /\ events[w][k].poll >= from /\ from \in Nat
  BY DEF Past, LaneEvents, WindowEvents
<1>3. ASSUME NEW l \in DOMAIN events[w], events[w][l].channel = events[w][k].channel,
             events[w][l].poll <= i
      PROVE  l <= k
  <2>1. CASE events[w][l].poll >= from
    <3>1. l \in WindowEvents(w, from)
      BY <2>1 DEF WindowEvents
    <3>2. l \in LaneEvents(w, from)
      BY <1>3, <3>1, LaneShape
    <3>. QED BY <1>3, <3>2 DEF Past
  <2>2. CASE ~(events[w][l].poll >= from)
    <3>1. events[w][l].poll < events[w][k].poll
      BY <1>1, <1>2, <2>2
    <3>2. ~(k < l)
      BY <1>1, <1>2, <3>1 DEF Watched, Reasoned
    <3>. QED BY <1>1, <1>2, <3>2
  <2>. QED BY <2>1, <2>2
<1>. QED BY <1>2, <1>3, Latest

\* The places of a lane have a first, those up to a poll a last.
LEMMA LaneEnds ==
    ASSUME NEW w, Watched(w), NEW from, NEW i
    PROVE  /\ Past(w, from, i) # {} =>
                 /\ Max(Past(w, from, i)) \in Past(w, from, i)
                 /\ \A l \in Past(w, from, i) : l <= Max(Past(w, from, i))
           /\ LaneEvents(w, from) # {} =>
                 /\ Min(LaneEvents(w, from)) \in LaneEvents(w, from)
                 /\ \A l \in LaneEvents(w, from) : Min(LaneEvents(w, from)) <= l
<1>1. Len(events[w]) \in Nat
  BY EventFacts
<1>2. LaneEvents(w, from) \in SUBSET (1..Len(events[w])) /\ Past(w, from, i) \in SUBSET (1..Len(events[w]))
  BY LaneShape DEF Past
<1>. QED BY <1>1, <1>2, LastPlace

\* When all of a lane is after poll i, its first event is the next on each channel.
LEMMA FirstOfLane ==
    ASSUME NEW w, Watched(w), NEW i \in DOMAIN answers[w], NEW from \in 1..i,
           LaneEvents(w, from) # {}, Past(w, from, i) = {}
    PROVE  LET k == Min(LaneEvents(w, from))
           IN  /\ k \in LaneEvents(w, from) /\ k \in DOMAIN events[w]
               /\ events[w][k].poll \in DOMAIN answers[w] /\ i < events[w][k].poll
               /\ \A c : c # "timeline" =>
                     \A l \in DOMAIN events[w] :
                         events[w][l].channel = c /\ events[w][l].poll > i
                             => events[w][l].poll >= events[w][k].poll
<1> DEFINE k == Min(LaneEvents(w, from))
<1>1. k \in LaneEvents(w, from) /\ \A l \in LaneEvents(w, from) : k <= l
  BY LaneEnds
<1> HIDE DEF k
<1>2. /\ DOMAIN events[w] = 1..Len(events[w]) /\ Len(events[w]) \in Nat
      /\ DOMAIN answers[w] = 1..Len(answers[w]) /\ Len(answers[w]) \in Nat
      /\ \A l \in DOMAIN events[w] : events[w][l].poll \in 1..Len(answers[w])
  BY EventFacts
<1>3. k \in DOMAIN events[w]
  BY <1>1 DEF LaneEvents, WindowEvents
<1>4. i < events[w][k].poll
  BY <1>1, <1>2, <1>3 DEF Past
<1>5. ASSUME NEW c, c # "timeline", NEW l \in DOMAIN events[w], events[w][l].channel = c,
             events[w][l].poll > i
      PROVE  events[w][l].poll >= events[w][k].poll
  <2>1. events[w][l].poll >= from
    BY <1>2, <1>5
  <2>2. l \in LaneEvents(w, from)
    BY <1>5, <2>1, LaneShape DEF WindowEvents
  <2>3. k <= l
    BY <1>1, <2>2
  <2>4. k = l \/ k < l
    BY <1>2, <1>3, <2>3
  <2>5. k < l => events[w][k].poll <= events[w][l].poll
    BY <1>3 DEF Watched, Reasoned
  <2>. QED BY <1>2, <1>3, <2>4, <2>5
<1>6. /\ k \in LaneEvents(w, from) /\ k \in DOMAIN events[w]
      /\ events[w][k].poll \in DOMAIN answers[w] /\ i < events[w][k].poll
      /\ \A c : c # "timeline" =>
            \A l \in DOMAIN events[w] :
                events[w][l].channel = c /\ events[w][l].poll > i
                    => events[w][l].poll >= events[w][k].poll
  BY <1>1, <1>2, <1>3, <1>4, <1>5
<1>. QED BY <1>6 DEF k

\* The colour in terms of the past.
LEMMA ColorOf ==
    ASSUME NEW w, NEW from, NEW i, NEW backend, LaneEvents(w, from) # {}
    PROVE  LaneColor(w, from, i, backend) =
             IF Past(w, from, i) = {} THEN InitColor(events[w][Min(LaneEvents(w, from))], backend)
             ELSE EventColor(w, Past(w, from, i), backend)
  BY DEF LaneColor, Past

\* Consul: the last answer's leader decides, in the window as before its first event.
LEMMA ConsulLane ==
    ASSUME NEW w, Watched(w), component = "consul",
           NEW i \in DOMAIN answers[w], NEW from \in 1..i,
           LaneColor(w, from, i, {}) # NoLane, Current(w, i, "leader") # {}
    PROVE  LaneColor(w, from, i, {}) = Green <=> Current(w, i, "leader") # {Absent}
<1> DEFINE lane == LaneEvents(w, from)
           past == Past(w, from, i)
<1>0. Channels = {"leader"}
  BY DEF Channels
<1>1. \A k \in DOMAIN events[w] :
         /\ events[w][k].channel = "leader" /\ events[w][k].poll \in DOMAIN answers[w]
         /\ TellsOf(component, answers[w][events[w][k].poll], "leader")
         /\ events[w][k].new = IF Value(answers[w][events[w][k].poll], "leader") = Absent THEN None
                               ELSE Value(answers[w][events[w][k].poll], "leader")
         /\ Known(component, "leader", BeforeIn(component, answers[w], events[w][k].poll, "leader"),
                  events[w][k].old)
         /\ events[w][k].old # events[w][k].new
         /\ events[w][k].type = "leader_key_deleted" <=> events[w][k].new = None
         /\ BeforeIn(component, answers[w], events[w][k].poll, "leader") # {}
              => (events[w][k].type = "leader_key_created" <=> events[w][k].old = None)
  <2> SUFFICES ASSUME NEW k \in DOMAIN events[w]
               PROVE  /\ events[w][k].channel = "leader" /\ events[w][k].poll \in DOMAIN answers[w]
                      /\ Justified(component, events[w][k], answers[w][events[w][k].poll],
                                   BeforeIn(component, answers[w], events[w][k].poll, "leader"))
    BY DEF Justified, TypeFits, CreationFits, OldKnown
  <2>1. events[w][k].channel = "leader"
    BY <1>0, EventFacts DEF DatedType
  <2>. QED BY <2>1, EventFacts
<1>2. lane = WindowEvents(w, from) /\ lane \subseteq DOMAIN events[w]
  BY <1>1, LaneShape DEF WindowEvents
<1>3. lane # {}
  BY <1>2 DEF LaneColor
<1>4. Green # Red
  BY DEF Green, Red
<1>5. CASE past # {}
  <2> DEFINE k == Max(past)
             v == Value(answers[w][events[w][k].poll], "leader")
  <2>1. k \in past /\ \A l \in past : l <= k
    BY <1>5, LaneEnds
  <2>2. k \in DOMAIN events[w]
    BY <1>2, <2>1 DEF Past
  <2>3. LaneColor(w, from, i, {}) = ConsulColor(events[w][k])
    BY <1>3, <1>5, ColorOf DEF EventColor
  <2> HIDE DEF k
  <2>4. Current(w, i, "leader") = {v}
    <3>1. events[w][k].channel = "leader"
      BY <1>1, <2>2
    <3>2. Current(w, i, events[w][k].channel)
             = {Value(answers[w][events[w][k].poll], events[w][k].channel)}
      BY <2>1, <3>1, LatestInWindow
    <3>. QED BY <3>1, <3>2
  <2>5. v # None
    <3>1. answers[w][events[w][k].poll] \in Answers /\ answers[w][events[w][k].poll].answered
      BY <1>1, <2>2, EventFacts DEF TellsOf
    <3>2. answers[w][events[w][k].poll].seen \in [leader : {"node1", "node2", Absent}]
      BY <3>1, AnswerShape DEF Shows
    <3>. QED BY <3>1, <3>2 DEF Value, None, Absent
  <2>6. events[w][k].type = "leader_key_deleted" <=> v = Absent
    BY <1>1, <2>2, <2>5
  <2>. QED BY <1>4, <2>3, <2>4, <2>6 DEF ConsulColor
<1>6. CASE past = {}
  <2> DEFINE k == Min(lane)
             p == events[w][k].poll
  <2>1. /\ k \in DOMAIN events[w] /\ p \in DOMAIN answers[w] /\ i < p
        /\ \A l \in DOMAIN events[w] :
              events[w][l].channel = "leader" /\ events[w][l].poll > i => events[w][l].poll >= p
    BY <1>3, <1>6, FirstOfLane
  <2>2. LaneColor(w, from, i, {}) = InitColor(events[w][k], {})
    BY <1>3, <1>6, ColorOf
  <2> HIDE DEF k
  <2>3. PICK v : Current(w, i, "leader") = {v}
    <3>1. i + 1 \in Nat
      BY EventFacts
    <3>2. BeforeIn(component, answers[w], i + 1, "leader") # {}
      BY BeforeIs DEF Current
    <3> DEFINE n == i + 1
    <3>3. n \in Nat /\ BeforeIn(component, answers[w], n, "leader") # {}
      BY <3>1, <3>2
    <3> HIDE DEF n
    <3>4. \E v : BeforeIn(component, answers[w], n, "leader") = {v}
      BY <3>3, OneBefore
    <3>. QED BY <3>4, BeforeIs DEF Current, n
  <2>4. BeforeIn(component, answers[w], p, "leader") = {v}
    <3>1. "leader" \in Channels /\ (component = "haproxy" => AlwaysListed(w))
      BY <1>0
    <3> HIDE DEF p
    <3>. QED BY <2>1, <2>3, <3>1, Upcoming
  <2>5. v # None /\ events[w][k].old = IF v = Absent THEN None ELSE v
    BY <1>1, <2>1, <2>4 DEF Known
  <2>6. v = Absent <=> events[w][k].type = "leader_key_created"
    BY <1>1, <2>1, <2>4, <2>5
  <2>7. InitColor(events[w][k], {}) = IF v = Absent THEN Red ELSE Green
    BY <2>5, <2>6 DEF InitColor
  <2>. QED BY <1>4, <2>2, <2>3, <2>7
<1>. QED BY <1>5, <1>6

\* The statuses last told of HAProxy's servers are those of the aggregate.
LEMMA HaproxyStates ==
    ASSUME NEW w, Watched(w), component = "haproxy", AlwaysListed(w),
           NEW i \in DOMAIN answers[w], NEW from \in 1..i, NEW s \in Channels,
           \E k \in Past(w, from, i) : events[w][k].channel = s
    PROVE  Current(w, i, s) = {ServerStates(w, Past(w, from, i))[s]}
<1> DEFINE past == Past(w, from, i)
           mine == {k \in past : events[w][k].channel = s}
           k == Max(mine)
<1>1. Len(events[w]) \in Nat /\ past \subseteq 1..Len(events[w]) /\ DOMAIN events[w] = 1..Len(events[w])
  BY LaneShape, EventFacts DEF Past
<1>2. k \in mine /\ \A l \in mine : l <= k
  <2>1. mine \in SUBSET (1..Len(events[w])) /\ mine # {}
    BY <1>1
  <2> HIDE DEF mine
  <2>. QED BY <1>1, <2>1, LastPlace
<1>3. ServerStates(w, past)[s] = events[w][k].new
  BY DEF ServerStates
<1> HIDE DEF k
<1>4. k \in DOMAIN events[w] /\ k \in past /\ events[w][k].channel = s /\ s # "timeline"
  BY <1>1, <1>2 DEF Channels
<1>5. Current(w, i, events[w][k].channel) = {Value(answers[w][events[w][k].poll], events[w][k].channel)}
  <2>1. \A l \in Past(w, from, i) : events[w][l].channel = events[w][k].channel => l <= k
    BY <1>2, <1>4
  <2>2. k \in Past(w, from, i) /\ events[w][k].channel # "timeline"
    BY <1>4
  <2>. QED BY <2>1, <2>2, LatestInWindow, SMTT(30)
<1>6. /\ events[w][k].poll \in DOMAIN answers[w]
      /\ TellsOf(component, answers[w][events[w][k].poll], s)
      /\ events[w][k].new = IF Value(answers[w][events[w][k].poll], s) = Absent THEN None
                            ELSE Value(answers[w][events[w][k].poll], s)
  BY <1>4, EventFacts DEF Justified
<1>7. Value(answers[w][events[w][k].poll], s) # Absent
  BY <1>6, NeverAbsent DEF Absent
<1>. QED BY <1>3, <1>4, <1>5, <1>6, <1>7

\* HAProxy: green takes a server that is UP, and hides one that is not only if that
\* one did not change in the window.
LEMMA HaproxyLane ==
    ASSUME NEW w, Watched(w), component = "haproxy", AlwaysListed(w),
           NEW i \in DOMAIN answers[w], NEW from \in 1..i,
           \E j \in 1..i : answers[w][j].answered,
           NEW backend \in SUBSET Channels
    PROVE  LET color  == LaneColor(w, from, i, backend)
               up     == {s \in backend : Current(w, i, s) = {"UP"}}
               silent == {s \in backend : \A k \in WindowEvents(w, from) :
                             events[w][k].channel = s => events[w][k].poll > i}
           IN  /\ color = Green => up # {}
               /\ color \in {Red, Orange} => up \subseteq silent
<1> DEFINE color == LaneColor(w, from, i, backend)
           up == {s \in backend : Current(w, i, s) = {"UP"}}
           silent == {s \in backend : \A k \in WindowEvents(w, from) :
                         events[w][k].channel = s => events[w][k].poll > i}
           lane == LaneEvents(w, from)
           past == Past(w, from, i)
<1>0. Channels = {"server1", "server2"}
  BY DEF Channels
<1>1. /\ \A k \in DOMAIN events[w] : events[w][k].channel \in Channels
      /\ \A k \in DOMAIN events[w] : events[w][k].poll \in Nat
      /\ i \in Nat
  BY EventFacts DEF DatedType
<1>2. lane = WindowEvents(w, from) /\ lane \subseteq DOMAIN events[w]
  BY <1>0, <1>1, LaneShape DEF WindowEvents
<1>3. Green \notin {Red, Orange, NoLane} /\ NoLane \notin {Red, Orange}
  BY DEF Green, Red, Orange, NoLane
<1>4. CASE lane = {}
  <2>1. color = NoLane
    BY <1>2, <1>4 DEF LaneColor
  <2>. QED BY <1>3, <2>1
<1>5. CASE lane # {} /\ past # {}
  <2> DEFINE states == ServerStates(w, past)
             known == backend \cap DOMAIN states
  <2>1. color = AggregateColor(states, backend)
    BY <1>5, ColorOf DEF EventColor
  <2>2. DOMAIN states = {events[w][k].channel : k \in past}
    BY DEF ServerStates
  <2>3. \A s \in known : Current(w, i, s) = {states[s]}
    BY <2>2, HaproxyStates
  <2>4. \A s \in backend : s \notin known => s \in silent
    BY <1>1, <1>2, <2>2 DEF Past
  <2> HIDE DEF states
  <2>5. color = Green => \E s \in known : states[s] = "UP"
    BY <1>3, <2>1 DEF AggregateColor
  <2>6. color \in {Red, Orange} => \A s \in known : states[s] # "UP"
    BY <1>3, <2>1 DEF AggregateColor
  <2> HIDE DEF color, silent
  <2>7. color = Green => up # {}
    BY <2>3, <2>5
  <2>8. color \in {Red, Orange} => up \subseteq silent
    <3> SUFFICES ASSUME color \in {Red, Orange}, NEW s \in up PROVE s \in silent
      OBVIOUS
    <3>1. s \notin known
      BY <2>3, <2>6
    <3>. QED BY <2>4, <3>1
  <2>. QED BY <2>7, <2>8 DEF color, silent
<1>6. CASE lane # {} /\ past = {}
  <2> DEFINE k == Min(lane)
             p == events[w][k].poll
             c == events[w][k].channel
  <2>1. /\ k \in DOMAIN events[w] /\ p \in DOMAIN answers[w] /\ i < p
        /\ \A d : d # "timeline" => \A l \in DOMAIN events[w] :
              events[w][l].channel = d /\ events[w][l].poll > i => events[w][l].poll >= p
    BY <1>6, FirstOfLane
  <2>2. color = AggregateColor([s \in {c} |-> events[w][k].old], backend)
    BY <1>6, ColorOf DEF InitColor
  <2> HIDE DEF k
  <2>3. c \in Channels /\ c # "timeline"
    BY <1>0, <1>1, <2>1
  <2>4. \E v : Current(w, i, c) = {v} /\ v = events[w][k].old
    <3>1. PICK j \in 1..i : answers[w][j].answered
      OBVIOUS
    <3>2. i + 1 \in Nat /\ (i + 1) - 1 = i
      BY <1>1
    <3>3. BeforeIn(component, answers[w], i + 1, c) # {}
      <4> DEFINE E == EarlierIn(component, answers[w], i + 1, c)
      <4>1. j \in E /\ E \in SUBSET (0..i)
        BY <3>1, <3>2 DEF EarlierIn, TellsOf
      <4> HIDE DEF E
      <4>2. \E x \in E : \A y \in E : y <= x
        BY <1>1, <4>1, GreatestElement
      <4>. QED BY <4>2 DEF BeforeIn, E
    <3>4. PICK v : BeforeIn(component, answers[w], i + 1, c) = {v}
      BY <3>2, <3>3, OneBefore
    <3>5. Current(w, i, c) = {v}
      BY <3>4, BeforeIs DEF Current
    <3>6. BeforeIn(component, answers[w], p, c) = {v}
      <4>1. \A l \in DOMAIN events[w] :
              events[w][l].channel = c /\ events[w][l].poll > i => events[w][l].poll >= p
        BY <2>1, <2>3
      <4>2. p \in DOMAIN answers[w] /\ i < p
        BY <2>1
      <4> HIDE DEF p, c
      <4>. QED BY <2>3, <3>5, <4>1, <4>2, Upcoming
    <3>7. Known(component, c, {v}, events[w][k].old)
      <4>1. Known(component, c, BeforeIn(component, answers[w], p, c), events[w][k].old)
        BY <2>1, EventFacts DEF Justified, OldKnown
      <4> HIDE DEF p, c
      <4>. QED BY <3>6, <4>1
    <3>8. v # Absent
      <4>1. v \in BeforeIn(component, answers[w], i + 1, c)
        BY <3>4
      <4>2. \E l \in 1..i : TellsOf(component, answers[w][l], c) /\ v = Value(answers[w][l], c)
        BY <3>2, <4>1 DEF BeforeIn, EarlierIn
      <4>3. 1..i \subseteq DOMAIN answers[w]
        BY EventFacts
      <4>. QED BY <2>3, <4>2, <4>3, NeverAbsent DEF Absent
    <3>. QED BY <3>5, <3>7, <3>8 DEF Known
  <2>5. silent = backend
    BY <1>1, <1>2, <1>6 DEF Past
  <2> DEFINE states == [s \in {c} |-> events[w][k].old]
  <2>6. DOMAIN states = {c} /\ states[c] = events[w][k].old
    OBVIOUS
  <2> HIDE DEF states, c, p
  <2>7. color = Green => c \in backend /\ events[w][k].old = "UP"
    BY <1>3, <2>2, <2>6 DEF AggregateColor, states
  <2> HIDE DEF color, silent
  <2>. QED BY <2>4, <2>5, <2>7 DEF color, silent
<1>. QED BY <1>4, <1>5, <1>6

\* A lane shows the last value told of the role or of the state.
Shown(w, i, c, x, color, ahead) ==
    /\ c \in {"role", "state"}
    /\ Current(w, i, c) = {x}
    /\ color = IF x = "uninitialized" /\ ahead THEN Blue ELSE StateColor(x)

\* In the window it is that of the last event.
LEMMA PatroniPast ==
    ASSUME NEW w, Watched(w), component = "patroni",
           NEW i \in DOMAIN answers[w], NEW from \in 1..i, Past(w, from, i) # {}
    PROVE  \E c, x : Shown(w, i, c, x, LaneColor(w, from, i, {}), FALSE)
<1> DEFINE past == Past(w, from, i)
           k == Max(past)
           c == events[w][k].channel
           x == Value(answers[w][events[w][k].poll], c)
<1>1. k \in past /\ \A l \in past : l <= k
  BY LaneEnds
<1>2. LaneEvents(w, from) # {}
  BY DEF Past
<1>3. LaneColor(w, from, i, {}) = StateColor(events[w][k].new)
  BY <1>2, ColorOf DEF EventColor
<1> HIDE DEF k
<1>4. k \in LaneEvents(w, from) /\ k \in DOMAIN events[w]
  BY <1>1 DEF Past, LaneEvents, WindowEvents
<1>5. c \in {"role", "state"}
  <2>1. c # "timeline"
    BY <1>4, LaneShape
  <2>2. c \in {"role", "state", "timeline"}
    BY <1>4, EventFacts DEF DatedType, Channels
  <2>. QED BY <2>1, <2>2
<1>6. Current(w, i, c) = {x}
  <2>1. component = "haproxy" => AlwaysListed(w)
    OBVIOUS
  <2>2. \A l \in Past(w, from, i) : events[w][l].channel = events[w][k].channel => l <= k
    BY <1>1
  <2>3. k \in Past(w, from, i) /\ events[w][k].channel # "timeline"
    BY <1>1, <1>5
  <2>. QED BY <2>1, <2>2, <2>3, LatestInWindow
<1>7. events[w][k].poll \in DOMAIN answers[w] /\ Justified(component, events[w][k],
          answers[w][events[w][k].poll], BeforeIn(component, answers[w], events[w][k].poll, c))
  BY <1>4, EventFacts
<1>8. x # Absent
  BY <1>5, <1>7, PatroniTells DEF Justified
<1>9. events[w][k].new = x
  BY <1>5, <1>7, <1>8 DEF Justified
<1>. QED BY <1>3, <1>5, <1>6, <1>9 DEF Shown

\* Before it, it is the old value of the first event, which is what the channel had
\* when the window began: a node that could not be reached then comes back as a state.
LEMMA PatroniAhead ==
    ASSUME NEW w, Watched(w), component = "patroni",
           NEW i \in DOMAIN answers[w], NEW from \in 1..i,
           LaneEvents(w, from) # {}, Past(w, from, i) = {}
    PROVE  \E c, x : Shown(w, i, c, x, LaneColor(w, from, i, {}), TRUE)
<1> DEFINE k == Min(LaneEvents(w, from))
           p == events[w][k].poll
           c == events[w][k].channel
           before(j, d) == BeforeIn(component, answers[w], j, d)
<1>1. /\ k \in LaneEvents(w, from) /\ k \in DOMAIN events[w] /\ p \in DOMAIN answers[w] /\ i < p
      /\ \A d : d # "timeline" => \A l \in DOMAIN events[w] :
            events[w][l].channel = d /\ events[w][l].poll > i => events[w][l].poll >= p
  BY FirstOfLane
<1>2. LaneColor(w, from, i, {})
          = IF events[w][k].old \in {None, "uninitialized", ""} THEN Blue ELSE StateColor(events[w][k].old)
  BY ColorOf DEF InitColor
<1> HIDE DEF k
<1>3. c \in {"role", "state"}
  <2>1. c # "timeline"
    BY <1>1, LaneShape
  <2>2. c \in {"role", "state", "timeline"}
    BY <1>1, EventFacts DEF DatedType, Channels
  <2>. QED BY <2>1, <2>2
<1>4. OldKnown(component, c, before(p, c), events[w][k].old)
  BY <1>1, EventFacts DEF Justified
<1>5. /\ DOMAIN answers[w] = 1..Len(answers[w]) /\ Len(answers[w]) \in Nat
      /\ i \in Nat /\ p \in Nat /\ i + 1 \in Nat
  BY <1>1, EventFacts
<1>6. DueOf(component, answers[w], p, c)
  BY <1>1, WasDue
<1> HIDE DEF p, c
\* The state and the role keep the values told last until the first event.
<1>7. ASSUME NEW d \in {"role", "state"}, NEW v, before(i + 1, d) = {v}, NEW q \in DOMAIN answers[w],
             i < q, q <= p
      PROVE  before(q, d) = {v}
  <2>1. Current(w, i, d) = {v}
    BY <1>7, BeforeIs DEF Current
  <2>2. d \in Channels /\ d # "timeline"
    BY DEF Channels
  <2>3. \A l \in DOMAIN events[w] :
            events[w][l].channel = d /\ events[w][l].poll > i => events[w][l].poll >= q
    <3>1. \A l \in DOMAIN events[w] : events[w][l].poll \in Nat
      BY EventFacts
    <3>2. q \in Nat
      BY <1>5
    <3> SUFFICES ASSUME NEW l \in DOMAIN events[w], events[w][l].channel = d, events[w][l].poll > i
                 PROVE  events[w][l].poll >= q
      OBVIOUS
    <3>3. events[w][l].poll >= p
      BY <1>1, <2>2
    <3>. QED BY <1>5, <1>7, <3>1, <3>2, <3>3
  <2>4. component = "haproxy" => AlwaysListed(w)
    OBVIOUS
  <2>5. component = "patroni" => d # "timeline"
    BY <2>2
  <2> HIDE DEF before
  <2>6. BeforeIn(component, answers[w], q, d) = {v}
    BY <1>7, <2>1, <2>2, <2>3, <2>4, <2>5, Upcoming
  <2>. QED BY <2>6 DEF before
\* What poll j told of a channel.
<1>8. ASSUME NEW j \in DOMAIN answers[w], NEW d, TellsOf(component, answers[w][j], d)
      PROVE  before(j + 1, d) = {Value(answers[w][j], d)}
  <2> DEFINE n == j - 1
  <2>1. n \in Nat /\ n + 1 = j /\ n + 2 = j + 1
    BY <1>5
  <2> HIDE DEF n
  <2>2. TellsOf(component, answers[w][n + 1], d)
          => before(n + 2, d) = {Value(answers[w][n + 1], d)}
    BY <2>1, BeforeNext
  <2>. QED BY <1>8, <2>1, <2>2
<1>9. before(i + 1, c) # {}
  <2>1. CASE c = "state"
    BY <1>8, <2>1 DEF TellsOf
  <2>2. CASE c = "role"
    <3> SUFFICES ASSUME before(i + 1, "role") = {} PROVE FALSE
      BY <2>2
    <3>1. ~answers[w][i].answered
      <4>1. ~TellsOf(component, answers[w][i], "role")
        BY <1>8
      <4>. QED BY <4>1 DEF TellsOf
    <3>2. before(i + 1, "state") = {"unreachable"}
      <4>1. TellsOf(component, answers[w][i], "state") /\ Value(answers[w][i], "state") = "unreachable"
        BY <3>1 DEF TellsOf, Value
      <4>. QED BY <1>8, <4>1
    <3>3. before(p, "role") # {}
      <4>1. TellsOf(component, answers[w][p], "role") /\ Value(answers[w][p], "role") # "unreachable"
        <5>1. TellsOf(component, answers[w][p], "role")
          BY <1>6, <2>2 DEF DueOf, DueFrom
        <5>. QED BY <1>1, <5>1, PatroniTells
      <4>2. p # 1
        BY <1>1, <1>5
      <4>. QED BY <1>6, <2>2, <4>1, <4>2 DEF DueOf, DueFrom
    <3>4. PICK j \in 1..(p - 1) : TellsOf(component, answers[w][j], "role")
      BY <3>3 DEF BeforeIn, EarlierIn
    <3>5. j \in DOMAIN answers[w] /\ j < p /\ j + 1 \in DOMAIN answers[w] /\ j \in Nat
      BY <1>1, <1>5
    <3>6. i < j
      <4> SUFFICES ASSUME j <= i PROVE FALSE
        BY <1>5, <3>5
      <4>1. j \in EarlierIn(component, answers[w], i + 1, "role")
        BY <1>5, <3>4, <3>5 DEF EarlierIn
      <4> DEFINE E == EarlierIn(component, answers[w], i + 1, "role")
      <4>2. E \in SUBSET (0..i) /\ E # {}
        BY <1>5, <4>1 DEF EarlierIn
      <4> HIDE DEF E
      <4>3. \E x \in E : \A y \in E : y <= x
        BY <1>5, <4>2, GreatestElement
      <4>4. before(i + 1, "role") # {}
        BY <4>3 DEF BeforeIn, E
      <4>. QED BY <4>4
    <3>7. before(j + 1, "state") = {"unreachable"}
      <4>1. j + 1 <= p /\ i < j + 1
        BY <1>5, <3>5, <3>6
      <4>. QED BY <1>7, <3>2, <3>5, <4>1
    <3>8. before(j + 1, "state") = {Value(answers[w][j], "state")}
      BY <1>8, <3>5 DEF TellsOf
    <3>9. Value(answers[w][j], "state") # "unreachable"
      <4>1. TellsOf(component, answers[w][j], "state") /\ answers[w][j].answered
        BY <3>4 DEF TellsOf
      <4>. QED BY <3>5, <4>1, PatroniTells
    <3>. QED BY <3>7, <3>8, <3>9
  <2>. QED BY <1>3, <2>1, <2>2
<1>10. PICK v : before(i + 1, c) = {v}
  <2> DEFINE n == i + 1
  <2>1. n \in Nat /\ before(n, c) # {}
    BY <1>5, <1>9
  <2> HIDE DEF n
  <2>2. \E v : before(n, c) = {v}
    BY <2>1, OneBefore
  <2>. QED BY <2>2 DEF n
<1>11. before(p, c) = {v}
  <2>1. p \in DOMAIN answers[w] /\ i < p /\ p <= p
    BY <1>1, <1>5
  <2> HIDE DEF before
  <2>. QED BY <1>3, <1>7, <1>10, <2>1
<1>13. v \notin {None, Absent, ""}
  <2>1. v \in before(i + 1, c) /\ (i + 1) - 1 = i
    BY <1>5, <1>10
  <2>2. \E j \in 1..i : TellsOf(component, answers[w][j], c) /\ v = Value(answers[w][j], c)
    BY <2>1 DEF BeforeIn, EarlierIn
  <2>3. 1..i \subseteq DOMAIN answers[w]
    BY <1>5
  <2>. QED BY <1>3, <2>2, <2>3, PatroniTells
<1>12. events[w][k].old = v
  <2> DEFINE b == before(p, c)
             old == events[w][k].old
  <2>1. OldKnown(component, c, b, old) /\ b = {v}
    BY <1>4, <1>11
  <2> HIDE DEF b, old
  <2>2. old = v
    BY <1>13, <2>1 DEF OldKnown, Known
  <2>. QED BY <2>2 DEF old
<1>14. Current(w, i, c) = {v}
  BY <1>10, BeforeIs DEF Current
<1>15. LaneColor(w, from, i, {}) = IF v = "uninitialized" THEN Blue ELSE StateColor(v)
  BY <1>2, <1>12, <1>13
<1>. QED BY <1>3, <1>14, <1>15 DEF Shown

-----------------------------------------------------------------------------
(* The theorems about the lanes. *)

\* In every window of every history of any answers, a lane has the colour of the role or
\* of the state that its node last told, also before the first event.
THEOREM PatroniLanesAreTrue == Spec => []PatroniLaneShowsPrimary
<1>1. IInv => PatroniLaneShowsPrimary
  <2> SUFFICES ASSUME IInv, component = "patroni", NEW w \in Watchers, NEW i \in DOMAIN answers[w],
                      NEW from \in 1..i, LaneEvents(w, from) # {}
               PROVE  LET color == LaneColor(w, from, i, {})
                          told  == Current(w, i, "role") \cup Current(w, i, "state")
                      IN  /\ told = {"primary", "running"} => color = Green
                          /\ \E v \in told :
                                color = IF v = "uninitialized"
                                           /\ (\A k \in LaneEvents(w, from) : events[w][k].poll > i)
                                        THEN Blue ELSE StateColor(v)
    BY DEF PatroniLaneShowsPrimary
  <2> DEFINE color == LaneColor(w, from, i, {})
             told  == Current(w, i, "role") \cup Current(w, i, "state")
             ahead == \A k \in LaneEvents(w, from) : events[w][k].poll > i
  <2>1. Watched(w)
    BY EachWatched
  <2>2. ahead <=> Past(w, from, i) = {}
    <3>1. \A k \in LaneEvents(w, from) : events[w][k].poll \in Nat /\ i \in Nat
      BY <2>1, EventFacts, LaneShape
    <3>. QED BY <3>1 DEF Past
  <2>3. \E c, x : Shown(w, i, c, x, color, ahead)
    <3> HIDE DEF ahead
    <3>1. CASE Past(w, from, i) # {}
      <4>1. \E c, x : Shown(w, i, c, x, color, FALSE)
        BY <2>1, <3>1, PatroniPast
      <4> HIDE DEF color
      <4>. QED BY <2>2, <3>1, <4>1 DEF Shown
    <3>2. CASE Past(w, from, i) = {}
      <4>1. \E c, x : Shown(w, i, c, x, color, TRUE)
        BY <2>1, <3>2, PatroniAhead
      <4> HIDE DEF color
      <4>. QED BY <2>2, <3>2, <4>1 DEF Shown
    <3>. QED BY <3>1, <3>2
  <2> HIDE DEF color, ahead
  <2>4. PICK c, x : Shown(w, i, c, x, color, ahead)
    BY <2>3
  <2>5. x \in told /\ color = IF x = "uninitialized" /\ ahead THEN Blue ELSE StateColor(x)
    BY <2>4 DEF Shown
  <2>6. told = {"primary", "running"} => color = Green
    BY <2>5 DEF StateColor
  <2>. QED BY <2>5, <2>6 DEF color, ahead
<1>. QED BY <1>1, Invariance, PTL

\* The Consul lane is green exactly while there was a leader; the HAProxy lane is green
\* only with a server that is UP, and otherwise hides none that changed in the window.
THEOREM RoutingLanesAreTrue == Spec => []RoutingLanes
<1>1. IInv => RoutingLanes
  <2> SUFFICES ASSUME IInv PROVE RoutingLanes
    OBVIOUS
  <2>1. \A w \in Watchers : Watched(w)
    BY EachWatched
  <2>2. component = "consul" =>
            \A w \in Watchers : \A i \in DOMAIN answers[w] : \A from \in 1..i :
                LaneColor(w, from, i, {}) # NoLane /\ Current(w, i, "leader") # {}
                    => (LaneColor(w, from, i, {}) = Green <=> Current(w, i, "leader") # {Absent})
    BY <2>1, ConsulLane
  <2>3. ASSUME component = "haproxy", NEW w \in Watchers, NEW i \in DOMAIN answers[w],
               NEW from \in 1..i, AlwaysListed(w), \E j \in 1..i : answers[w][j].answered,
               NEW backend \in SUBSET Channels
        PROVE  LET color  == LaneColor(w, from, i, backend)
                   up     == {s \in backend : Current(w, i, s) = {"UP"}}
                   silent == {s \in backend : \A k \in WindowEvents(w, from) :
                                 events[w][k].channel = s => events[w][k].poll > i}
               IN  /\ color = Green => up # {}
                   /\ color \in {Red, Orange} => up \subseteq silent
    BY <2>1, <2>3, HaproxyLane
  <2>. QED BY <2>2, <2>3 DEF RoutingLanes
<1>. QED BY <1>1, Invariance, PTL
=============================================================================
