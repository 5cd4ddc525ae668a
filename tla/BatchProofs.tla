----------------------------- MODULE BatchProofs -----------------------------
(***************************************************************************)
(* Theorems about modules Batch and Reports, for any registry, any command *)
(* line, any scenario list and any outcomes of the iterations.             *)
(***************************************************************************)
EXTENDS Reports, DataFacts

-----------------------------------------------------------------------------
(* The inductive invariant. *)

InLoop == {"compose", "up", "bootstrap", "runner", "collect", "teardown", "cleanup"}

TableRows == [scenario : STRING, iter : Nat, ok : BOOLEAN, measured : BOOLEAN]

CsvRows == [dir : Dirs, session : SUBSET Nat, scenario : STRING, iter : Nat,
            ok : BOOLEAN, measured : BOOLEAN]

TestRuns == [dir : Dirs, scenario : STRING \cup {"unknown"} \cup {l[1] : l \in ScenarioLists},
             session : Nat, iter : Nat, rows : BOOLEAN]

Typed ==
    /\ options \in [filter : Filters, skip : Skips, scenarios : ScenarioLists]
    /\ stale \subseteq Dirs
    /\ pc \in Pcs
    /\ at \in Nat /\ at <= Total
    /\ stacks \subseteq Dirs /\ broken \subseteq Dirs
    /\ tsdb \in BOOLEAN
    /\ exitCode \in {0, 1}

Tables ==
    /\ output \in Seq(TableRows)
    /\ \A i \in DOMAIN output : output[i].iter = i
    /\ statuses \in Seq(Statuses)
    /\ sessions \in Seq(SUBSET Nat)
    /\ \A i \in DOMAIN sessions : \A s \in sessions[i] : s <= i
    /\ csv \in Seq(CsvRows)

\* Folders and runs are numbered by positions reached so far.
NothingFromLater ==
    /\ folders \in [Dirs -> SUBSET (0..at)]
    /\ runs \in Seq(TestRuns)
    /\ \A i \in DOMAIN runs : runs[i].session <= at

\* The loop is at a combination, and a table comes with a session folder.
AtACombination ==
    /\ pc \in InLoop => at >= 1
    /\ pc = "collect" /\ output # <<>> => at \in folders[Current]

\* The table and, for each combination, results.csv list the iterations from the first on.
Listed ==
    /\ \A i \in DOMAIN output :
          i \in DOMAIN options.scenarios /\ output[i].scenario = options.scenarios[i]
    /\ \A r \in DOMAIN csv :
          /\ csv[r].iter \in DOMAIN options.scenarios
          /\ csv[r].scenario = options.scenarios[csv[r].iter]
          /\ \A i \in 1..csv[r].iter :
                \E q \in DOMAIN csv : q <= r /\ csv[q].dir = csv[r].dir /\ csv[q].iter = i
    /\ \A q, r \in DOMAIN csv : q < r /\ csv[q].dir = csv[r].dir => csv[q].iter < csv[r].iter

\* What this batch's driver registered, and in which iteration it can have.
Drivers(run) == run.scenario # "unknown" /\ run.session # Earlier

OfAnIteration(run) ==
    /\ run.iter \in DOMAIN options.scenarios
    /\ run.scenario = options.scenarios[run.iter]

\* Of one test run: in the order of the iterations, of which each has one driver's run.
Follows(a, b) == a.scenario # "unknown" /\ b.scenario # "unknown" => a.iter < b.iter

\* test_runs holds, in order and among the client's, what the driver of each test run of this
\* batch registered, and nothing yet of the one that is to come.
Historied ==
    /\ \A k \in DOMAIN runs : runs[k].session = Earlier => runs[k].dir \in stale
    /\ \A k \in DOMAIN runs : Drivers(runs[k]) =>
          runs[k].dir = RunDirs[runs[k].session] /\ OfAnIteration(runs[k])
    /\ \A j, k \in DOMAIN runs :
          j < k /\ runs[j].session = runs[k].session /\ runs[k].session # Earlier
          => Follows(runs[j], runs[k])
    /\ pc \in {"compose", "up", "bootstrap", "runner"} =>
          \A k \in DOMAIN runs : Drivers(runs[k]) => runs[k].session < at

\* Charts are of iterations of a test run that was started.
ChartsListed ==
    \A c \in charts :
       /\ c.session \in 1..at
       /\ c.iter \in DOMAIN options.scenarios
       /\ c.scenario = options.scenarios[c.iter]

IInv ==
    /\ Typed /\ Tables /\ NothingFromLater /\ AtACombination /\ StacksAccounted /\ SessionsAreOwn
    /\ Listed /\ Historied /\ ChartsListed

-----------------------------------------------------------------------------
(* Two operators of the community modules. *)

\* What FlattenSeq makes of the first sequences.
Flattens(ss, n, f) ==
    \A i \in 1..n : f[i] = IF i = 1 THEN ss[i] ELSE f[i - 1] \o ss[i]

\* There is a function that does.
LEMMA FlattensExists ==
    ASSUME NEW U, NEW ss \in Seq(Seq(U)), NEW n \in Nat, n <= Len(ss)
    PROVE  \E f \in [1..n -> Seq(U)] : Flattens(ss, n, f)
<1> DEFINE Good(m) == \E f \in [1..m -> Seq(U)] : Flattens(ss, m, f)
           Bad == {m \in Nat : m <= Len(ss) /\ ~Good(m)}
<1>1. ASSUME Bad # {} PROVE FALSE
  <2>1. PICK m \in Bad : \A k \in Bad : m <= k
    <3>1. Bad \in SUBSET Nat
      OBVIOUS
    <3> HIDE DEF Bad
    <3>. QED BY <1>1, <3>1, LeastElement
  <2>2. m \in Nat /\ m <= Len(ss) /\ ~Good(m)
    BY <2>1
  <2>3. ASSUME m = 0 PROVE FALSE
    <3>1. [i \in 1..0 |-> <<>>] \in [1..0 -> Seq(U)]
      OBVIOUS
    <3>2. Flattens(ss, 0, [i \in 1..0 |-> <<>>])
      BY DEF Flattens
    <3>. QED BY <2>2, <2>3, <3>1, <3>2
  <2>4. ASSUME m # 0 PROVE FALSE
    <3>1. m - 1 \in Nat /\ ~(m <= m - 1) /\ m - 1 <= Len(ss)
      BY <2>2, <2>4
    <3>2. Good(m - 1)
      BY <2>1, <3>1
    <3>3. PICK f \in [1..(m - 1) -> Seq(U)] : Flattens(ss, m - 1, f)
      BY <3>2
    <3>4. \A i \in 1..m : ss[i] \in Seq(U)
      BY <2>2
    <3> DEFINE last == IF m = 1 THEN ss[m] ELSE f[m - 1] \o ss[m]
    <3>5. last \in Seq(U)
      <4>1. ss[m] \in Seq(U)
        BY <2>2, <2>4, <3>4
      <4>2. ASSUME m # 1 PROVE f[m - 1] \o ss[m] \in Seq(U)
        <5>1. f[m - 1] \in Seq(U)
          BY <2>2, <2>4, <4>2
        <5> DEFINE a == f[m - 1]
                   b == ss[m]
        <5>2. a \in Seq(U) /\ b \in Seq(U)
          BY <5>1, <4>1
        <5> HIDE DEF a, b
        <5>3. a \o b \in Seq(U)
          BY <5>2
        <5>. QED BY <5>3 DEF a, b
      <4>. QED BY <4>1, <4>2
    <3> HIDE DEF last
    <3> DEFINE g == [i \in 1..m |-> IF i = m THEN last ELSE f[i]]
    <3>6. g \in [1..m -> Seq(U)]
      BY <2>2, <3>5
    <3>7. Flattens(ss, m, g)
      <4>1. ASSUME NEW i \in 1..m, i # m
            PROVE  g[i] = IF i = 1 THEN ss[i] ELSE g[i - 1] \o ss[i]
        <5>1. i \in 1..(m - 1) /\ g[i] = f[i]
          BY <2>2, <4>1
        <5>2. i # 1 => g[i - 1] = f[i - 1]
          BY <2>2, <4>1
        <5>. QED BY <5>1, <5>2, <3>3 DEF Flattens
      <4>2. g[m] = IF m = 1 THEN ss[m] ELSE g[m - 1] \o ss[m]
        <5>1. g[m] = last
          BY <2>2, <2>4
        <5>2. m # 1 => g[m - 1] = f[m - 1]
          BY <2>2, <2>4
        <5>. QED BY <5>1, <5>2 DEF last
      <4> HIDE DEF g
      <4>. QED BY <4>1, <4>2 DEF Flattens
    <3> HIDE DEF g
    <3>. QED BY <2>2, <3>6, <3>7
  <2>. QED BY <2>3, <2>4
<1>2. n \notin Bad
  BY <1>1
<1>. QED BY <1>2

\* It yields sequences over the same elements.
LEMMA FlattensType ==
    ASSUME NEW U, NEW ss \in Seq(Seq(U)), NEW f, Flattens(ss, Len(ss), f),
           NEW n \in 1..Len(ss)
    PROVE  f[n] \in Seq(U)
<1> DEFINE Bad == {i \in 1..Len(ss) : f[i] \notin Seq(U)}
<1>1. ASSUME Bad # {} PROVE FALSE
  <2>1. PICK i \in Bad : \A k \in Bad : i <= k
    <3>1. Bad \in SUBSET Nat
      OBVIOUS
    <3> HIDE DEF Bad
    <3>. QED BY <1>1, <3>1, LeastElement
  <2>2. i \in 1..Len(ss) /\ f[i] \notin Seq(U)
    BY <2>1
  <2>3. ss[i] \in Seq(U)
    BY <2>2
  <2>4. i # 1
    BY <2>2, <2>3 DEF Flattens
  <2>5. i - 1 \in 1..Len(ss) /\ ~(i <= i - 1)
    BY <2>2, <2>4
  <2>6. f[i - 1] \in Seq(U)
    BY <2>1, <2>5
  <2>7. f[i] = f[i - 1] \o ss[i]
    BY <2>2, <2>4 DEF Flattens
  <2> DEFINE a == f[i - 1]
             b == ss[i]
  <2>8. a \in Seq(U) /\ b \in Seq(U)
    BY <2>3, <2>6
  <2> HIDE DEF a, b
  <2>9. a \o b \in Seq(U)
    BY <2>8
  <2>. QED BY <2>2, <2>7, <2>9 DEF a, b
<1>. QED BY <1>1

\* FlattenSeq is one.
LEMMA FlattenSeqIs ==
    ASSUME NEW U, NEW ss \in Seq(Seq(U)), Len(ss) # 0
    PROVE  \E f : Flattens(ss, Len(ss), f) /\ FlattenSeq(ss) = f[Len(ss)]
<1> DEFINE flatten[i \in 1..Len(ss)] == IF i = 1 THEN ss[i] ELSE flatten[i-1] \o ss[i]
<1>1. FlattenSeq(ss) = flatten[Len(ss)]
  BY DEF FlattenSeq
<1>2. flatten = CHOOSE f : f = [i \in 1..Len(ss) |-> IF i = 1 THEN ss[i] ELSE f[i-1] \o ss[i]]
  BY Zenon
<1> HIDE DEF flatten
<1>3. PICK f \in [1..Len(ss) -> Seq(U)] : Flattens(ss, Len(ss), f)
  BY FlattensExists
<1>4. f = [i \in 1..Len(ss) |-> IF i = 1 THEN ss[i] ELSE f[i-1] \o ss[i]]
  BY <1>3 DEF Flattens
<1>5. flatten = [i \in 1..Len(ss) |-> IF i = 1 THEN ss[i] ELSE flatten[i-1] \o ss[i]]
  BY <1>2, <1>4, Zenon
<1>6. Flattens(ss, Len(ss), flatten)
  BY <1>5, Zenon DEF Flattens
<1>. QED BY <1>1, <1>6

\* Flattening keeps to the elements of the sequences.
LEMMA FlattenSeqType ==
    ASSUME NEW U, NEW ss \in Seq(Seq(U))
    PROVE  FlattenSeq(ss) \in Seq(U)
<1>1. CASE Len(ss) = 0
  BY <1>1 DEF FlattenSeq
<1>2. CASE Len(ss) # 0
  <2>1. PICK f : Flattens(ss, Len(ss), f) /\ FlattenSeq(ss) = f[Len(ss)]
    BY <1>2, FlattenSeqIs
  <2>2. Len(ss) \in 1..Len(ss)
    BY <1>2
  <2>. QED BY <2>1, <2>2, FlattensType
<1>. QED BY <1>1, <1>2

\* One iteration's runs: of two, one is the client's.
OneIteration(s, i) ==
    /\ \A j \in DOMAIN s : s[j].iter = i
    /\ \A j, k \in DOMAIN s : j < k => s[j].scenario = "unknown" \/ s[k].scenario = "unknown"

\* The runs of the iterations up to the n-th, in their order.
InOrder(s, n) ==
    /\ \A j \in DOMAIN s : s[j].iter <= n
    /\ \A j, k \in DOMAIN s : j < k => Follows(s[j], s[k])

\* The runs of one more iteration keep the order.
LEMMA ConcatInOrder ==
    ASSUME NEW U, \A u \in U : u.iter \in Nat, NEW s \in Seq(U), NEW t \in Seq(U),
           NEW n \in Nat, NEW i \in Nat, n < i, InOrder(s, n), OneIteration(t, i)
    PROVE  InOrder(s \o t, i)
<1> DEFINE st == s \o t
<1>1. ASSUME NEW j \in DOMAIN st
      PROVE  \/ j \in DOMAIN s /\ st[j] = s[j]
             \/ j \notin DOMAIN s /\ j - Len(s) \in DOMAIN t /\ st[j] = t[j - Len(s)]
  OBVIOUS
<1>2. st \in Seq(U) /\ \A j \in DOMAIN st : j \in Nat
  OBVIOUS
<1>3. Len(s) \in Nat /\ DOMAIN s = 1..Len(s)
  OBVIOUS
<1> HIDE DEF st
<1>4. ASSUME NEW j \in DOMAIN st
      PROVE  /\ j \in DOMAIN s => st[j].iter \in Nat /\ st[j].iter <= n
             /\ j \notin DOMAIN s => st[j].iter = i
  <2>1. j \in DOMAIN s => s[j] \in U
    OBVIOUS
  <2>2. j \in DOMAIN s => s[j].iter \in Nat
    BY <2>1
  <2>. QED BY <1>1, <2>2 DEF InOrder, OneIteration
<1>5. \A j \in DOMAIN st : st[j].iter <= i
  BY <1>4
<1>6. ASSUME NEW j \in DOMAIN st, NEW k \in DOMAIN st, j < k PROVE Follows(st[j], st[k])
  <2>1. CASE j \in DOMAIN s /\ k \in DOMAIN s
    BY <1>1, <1>6, <2>1 DEF InOrder
  <2>2. CASE j \in DOMAIN s /\ k \notin DOMAIN s
    <3>1. st[j].iter \in Nat /\ st[j].iter <= n /\ st[k].iter = i
      BY <1>4, <2>2
    <3>. QED BY <3>1 DEF Follows
  <2>3. CASE j \notin DOMAIN s /\ k \notin DOMAIN s
    <3>1. st[j].iter = i /\ st[k].iter = i
      BY <1>4, <2>3
    <3>2. st[j].scenario = "unknown" \/ st[k].scenario = "unknown"
      <4>1. /\ st[k] = t[k - Len(s)] /\ k - Len(s) \in DOMAIN t
            /\ st[j] = t[j - Len(s)] /\ j - Len(s) \in DOMAIN t
        BY <1>1, <2>3
      <4>2. j - Len(s) < k - Len(s)
        BY <1>2, <1>3, <1>6
      <4>. QED BY <4>1, <4>2 DEF OneIteration
    <3>. QED BY <3>1, <3>2 DEF Follows
  <2>4. k \in DOMAIN s => j \in DOMAIN s
    BY <1>2, <1>3, <1>6, <1>1
  <2>. QED BY <2>1, <2>2, <2>3, <2>4
<1>. QED BY <1>5, <1>6 DEF InOrder, st

\* Flattening one sequence per iteration yields them in order.
LEMMA FlattensInOrder ==
    ASSUME NEW U, \A u \in U : u.iter \in Nat, NEW ss \in Seq(Seq(U)),
           NEW f, Flattens(ss, Len(ss), f), \A i \in 1..Len(ss) : OneIteration(ss[i], i),
           NEW n \in 1..Len(ss)
    PROVE  InOrder(f[n], n)
<1> DEFINE Bad == {i \in 1..Len(ss) : ~InOrder(f[i], i)}
<1>1. ASSUME Bad # {} PROVE FALSE
  <2>1. PICK i \in Bad : \A k \in Bad : i <= k
    <3>1. Bad \in SUBSET Nat
      OBVIOUS
    <3> HIDE DEF Bad
    <3>. QED BY <1>1, <3>1, LeastElement
  <2>2. i \in 1..Len(ss) /\ ~InOrder(f[i], i)
    BY <2>1
  <2>3. ss[i] \in Seq(U) /\ OneIteration(ss[i], i)
    BY <2>2
  <2>4. i # 1
    <3>1. ASSUME i = 1 PROVE FALSE
      <4>1. f[i] = ss[i]
        BY <2>2, <3>1 DEF Flattens
      <4>2. InOrder(ss[i], i)
        BY <2>2, <2>3 DEF InOrder, OneIteration, Follows
      <4>. QED BY <2>2, <4>1, <4>2
    <3>. QED BY <3>1
  <2>5. i - 1 \in 1..Len(ss) /\ i - 1 < i /\ ~(i <= i - 1) /\ i - 1 \in Nat /\ i \in Nat
    BY <2>2, <2>4
  <2>6. InOrder(f[i - 1], i - 1)
    BY <2>1, <2>5
  <2>7. f[i - 1] \in Seq(U)
    BY <2>5, FlattensType
  <2>8. f[i] = f[i - 1] \o ss[i]
    BY <2>2, <2>4 DEF Flattens
  <2> DEFINE a == f[i - 1]
             b == ss[i]
             m == i - 1
  <2>9. a \in Seq(U) /\ b \in Seq(U) /\ m \in Nat /\ m < i /\ InOrder(a, m) /\ OneIteration(b, i)
    BY <2>3, <2>5, <2>6, <2>7
  <2> HIDE DEF a, b, m
  <2>10. InOrder(a \o b, i)
    BY <2>5, <2>9, ConcatInOrder
  <2>. QED BY <2>2, <2>8, <2>10 DEF a, b
<1>. QED BY <1>1

\* So does FlattenSeq.
LEMMA FlattenSeqInOrder ==
    ASSUME NEW U, \A u \in U : u.iter \in Nat, NEW ss \in Seq(Seq(U)),
           \A i \in 1..Len(ss) : OneIteration(ss[i], i)
    PROVE  \A j, k \in DOMAIN FlattenSeq(ss) : j < k => Follows(FlattenSeq(ss)[j], FlattenSeq(ss)[k])
<1>1. CASE Len(ss) = 0
  <2>1. FlattenSeq(ss) = <<>>
    BY <1>1 DEF FlattenSeq
  <2>. QED BY <2>1
<1>2. CASE Len(ss) # 0
  <2>1. PICK f : Flattens(ss, Len(ss), f) /\ FlattenSeq(ss) = f[Len(ss)]
    BY <1>2, FlattenSeqIs
  <2>2. Len(ss) \in 1..Len(ss)
    BY <1>2
  <2>3. InOrder(f[Len(ss)], Len(ss))
    BY <2>1, <2>2, FlattensInOrder
  <2>. QED BY <2>1, <2>3 DEF InOrder
<1>. QED BY <1>1, <1>2

\* SetToSeq lists elements of a finite set.
LEMMA SetToSeqType ==
    ASSUME NEW S, IsFiniteSet(S)
    PROVE  /\ Cardinality(S) \in Nat
           /\ SetToSeq(S) \in [1..Cardinality(S) -> S]
<1>1. Cardinality(S) \in Nat
  BY FS_CardinalityType
<1>2. PICK f \in [1..Cardinality(S) -> S] : IsInjective(f)
  BY FS_CardinalityType DEF ExistsBijection, Bijection, Injection, IsInjective
<1>. QED BY <1>1, <1>2 DEF SetToSeq

-----------------------------------------------------------------------------
(* What is run. *)

\* The k-th combination that is run is one of the registry.
LEMMA RunDirsType ==
    /\ Total \in Nat
    /\ RunDirs \in [1..Total -> Dirs]
<1>1. Len(Registry) \in Nat /\ DOMAIN Registry = 1..Len(Registry)
  BY BatchAssumption
<1>2. Chosen \in SUBSET (1..Len(Registry))
  BY <1>1 DEF Chosen
<1>3. IsFiniteSet(Chosen)
  <2>1. IsFiniteSet(1..Len(Registry))
    BY <1>1, FS_Interval
  <2>. QED BY <1>2, <2>1, FS_Subset
<1>4. Total \in Nat
  BY <1>3, FS_CardinalityType DEF Total
<1>5. ASSUME NEW k \in 1..Total PROVE Registry[Kth(k)].dir \in Dirs
  <2>1. \E i \in Chosen : Cardinality({j \in Chosen : j <= i}) = k
    BY <1>1, <1>2, KthElement DEF Total
  <2>2. Kth(k) \in Chosen
    BY <2>1 DEF Kth
  <2>. QED BY <1>1, <1>2, <2>2 DEF Dirs
<1>. QED BY <1>4, <1>5 DEF RunDirs, Total

\* No combination is run twice.
LEMMA RunDirsDiffer ==
    ASSUME NEW i \in 1..Total, NEW j \in 1..Total, RunDirs[i] = RunDirs[j]
    PROVE  i = j
<1>1. Len(Registry) \in Nat /\ DOMAIN Registry = 1..Len(Registry)
  BY BatchAssumption
<1>2. Chosen \in SUBSET (1..Len(Registry))
  BY <1>1 DEF Chosen
<1>3. ASSUME NEW k \in 1..Total
      PROVE  Kth(k) \in Chosen /\ Cardinality({x \in Chosen : x <= Kth(k)}) = k
  <2>1. \E x \in Chosen : Cardinality({y \in Chosen : y <= x}) = k
    BY <1>1, <1>2, KthElement DEF Total
  <2>. QED BY <2>1 DEF Kth
<1>4. Registry[Kth(i)].dir = Registry[Kth(j)].dir
  BY DEF RunDirs, Total
<1>5. Kth(i) \in DOMAIN Registry /\ Kth(j) \in DOMAIN Registry
  BY <1>1, <1>2, <1>3
<1>6. Kth(i) = Kth(j)
  BY <1>4, <1>5, BatchAssumption
<1>. QED BY <1>3, <1>6

\* The command line decides what is run.
LEMMA RunDirsFixed ==
    ASSUME options' = options
    PROVE  RunDirs' = RunDirs /\ Total' = Total
<1>1. Chosen' = Chosen
  BY DEF Chosen, ShouldRun
<1>2. Total' = Total
  BY <1>1 DEF Total
<1>3. RunDirs' = RunDirs
  BY <1>1 DEF RunDirs, Kth
<1>. QED BY <1>2, <1>3

\* No step changes the command line.
LEMMA ConfigFixed ==
    ASSUME [Next]_vars
    PROVE  options' = options /\ stale' = stale /\ RunDirs' = RunDirs /\ Total' = Total
<1>1. config' = config
  BY Zenon DEF Next, vars, config, Preflight, PreflightFails, NextCombo, Skip, DownStale, Up, UpFails,
     BootstrapReady, BootstrapTimeout, RunnerFinishes, RunnerDies, Collect, TearDown,
     NoCleanup, Cleanup, CleanupAborts, Verdict, ClientRegisters, TsdbGone
<1>2. options' = options /\ stale' = stale
  BY <1>1 DEF config
<1>. QED BY <1>2, RunDirsFixed

\* What is current in the loop.
LEMMA CurrentType ==
    ASSUME Typed, AtACombination, pc \in InLoop
    PROVE  Current \in Dirs /\ at \in 1..Total
  BY RunDirsType DEF Typed, AtACombination, Current

-----------------------------------------------------------------------------
(* The steps. *)

\* Types of the script's variables.
LEMMA TypedStep ==
    ASSUME Typed, AtACombination, [Next]_vars
    PROVE  Typed'
<1>1. options' = options /\ stale' = stale /\ RunDirs' = RunDirs /\ Total' = Total
  BY ConfigFixed
<1>2. Total \in Nat
  BY RunDirsType
<1>3. pc' \in Pcs /\ exitCode' \in {0, 1} /\ tsdb' \in BOOLEAN
  <2>1. pc' \in Pcs
    BY DEF Typed, Pcs, Goto, End, Next, vars, outcome, docker, disk, Preflight, PreflightFails,
       NextCombo, Skip, DownStale, Up, UpFails, BootstrapReady, BootstrapTimeout, RunnerFinishes,
       RunnerDies, Collect, TearDown, NoCleanup, Cleanup, CleanupAborts, Verdict, ClientRegisters, TsdbGone
  <2>2. exitCode' \in {0, 1}
    BY DEF Typed, Record, End, Next, vars, outcome, docker, disk, Preflight, PreflightFails,
       NextCombo, Skip, DownStale, Up, UpFails, BootstrapReady, BootstrapTimeout, RunnerFinishes,
       RunnerDies, Collect, TearDown, NoCleanup, Cleanup, CleanupAborts, Verdict, ClientRegisters, TsdbGone
  <2>3. tsdb' = tsdb \/ tsdb' = FALSE
    BY Zenon DEF Next, vars, docker, Preflight, PreflightFails,
       NextCombo, Skip, DownStale, Up, UpFails, BootstrapReady, BootstrapTimeout, RunnerFinishes,
       RunnerDies, Collect, TearDown, NoCleanup, Cleanup, CleanupAborts, Verdict, ClientRegisters, TsdbGone
  <2>4. tsdb' \in BOOLEAN
    BY <2>3, Zenon DEF Typed
  <2>. QED BY <2>1, <2>2, <2>4
<1>4. at' \in Nat /\ at' <= Total
  <2>1. CASE NextCombo
    BY <2>1, <1>2 DEF NextCombo, Typed
  <2>2. CASE ~NextCombo
    <3>1. at' = at
      BY <2>2 DEF Next, vars, Preflight, PreflightFails, Skip, DownStale, Up, UpFails,
         BootstrapReady, BootstrapTimeout, RunnerFinishes, RunnerDies, Collect, TearDown,
         NoCleanup, Cleanup, CleanupAborts, Verdict, ClientRegisters, TsdbGone
    <3>. QED BY <3>1 DEF Typed
  <2>. QED BY <2>1, <2>2
<1>5. stacks' \subseteq Dirs /\ broken' \subseteq Dirs
  <2>1. ASSUME Up \/ UpFails \/ DownStale \/ BootstrapTimeout \/ TearDown
        PROVE  stacks' \subseteq Dirs /\ broken' \subseteq Dirs
    <3>1. Current \in Dirs
      BY <2>1, CurrentType DEF InLoop, Up, UpFails, DownStale, BootstrapTimeout, TearDown
    <3>. QED BY <2>1, <3>1 DEF Typed, Down, Up, UpFails, DownStale, BootstrapTimeout, TearDown
  <2>2. ASSUME ~(Up \/ UpFails \/ DownStale \/ BootstrapTimeout \/ TearDown)
        PROVE  stacks' = stacks /\ broken' = broken
    BY <2>2 DEF Next, vars, docker, Preflight, PreflightFails, NextCombo, Skip,
       BootstrapReady, RunnerFinishes, RunnerDies, Collect,
       NoCleanup, Cleanup, CleanupAborts, Verdict, ClientRegisters, TsdbGone
  <2>. QED BY <2>1, <2>2 DEF Typed
<1>6. Dirs' = Dirs
  BY DEF Dirs
<1>. QED BY <1>1, <1>3, <1>4, <1>5 DEF Typed, Dirs

\* The rows of a table are rows.
LEMMA TableType ==
    ASSUME Typed, NEW its \in [DOMAIN options.scenarios -> IterationResults]
    PROVE  /\ Table(its) \in Seq(TableRows)
           /\ \A i \in DOMAIN Table(its) : Table(its)[i].iter = i
<1>1. options.scenarios \in Seq(STRING)
  BY BatchAssumption DEF Typed
<1>2. IterationResults \subseteq AllOutcomes
  <2>1. NothingStored \in AllOutcomes
    BY DEF NothingStored, AllOutcomes
  <2>. QED BY <2>1, BatchAssumption DEF IterationResults
<1>3. ASSUME NEW i \in DOMAIN its
      PROVE  [scenario |-> options.scenarios[i], iter |-> i, ok |-> its[i].ok,
              measured |-> its[i].measured] \in TableRows
  BY <1>1, <1>2 DEF TableRows, AllOutcomes
<1>. QED BY <1>1, <1>3 DEF Table

\* The rows of results.csv are rows.
LEMMA CsvRowType ==
    ASSUME IInv, pc = "collect", NEW i \in DOMAIN output
    PROVE  CsvRow(output[i]) \in CsvRows
<1>1. output[i] \in TableRows
  BY DEF IInv, Tables
<1>2. Current \in Dirs
  BY CurrentType DEF IInv, InLoop
<1>3. SessionFound \in SUBSET Nat
  BY <1>2 DEF IInv, Typed, NothingFromLater, SessionFound
<1>. QED BY <1>1, <1>2, <1>3 DEF CsvRow, CsvRows, TableRows

\* What the test run of the current combination may register.
OwnRuns == {r \in TestRuns : /\ r.session = at /\ r.dir = Current
                             /\ r.scenario # "unknown" => OfAnIteration(r)}

\* The client's part of the runs of an iteration.
ClientsOnly(s) == \A j \in DOMAIN s : s[j].scenario = "unknown"

\* To the runs of an iteration, further ones of the client's can be added.
LEMMA ConcatOneIteration ==
    ASSUME NEW U, NEW s \in Seq(U), NEW t \in Seq(U), NEW i,
           OneIteration(s, i), OneIteration(t, i), ClientsOnly(s) \/ ClientsOnly(t)
    PROVE  s \o t \in Seq(U) /\ OneIteration(s \o t, i)
<1> DEFINE st == s \o t
           n  == Len(s)
<1>1. ASSUME NEW j \in DOMAIN st
      PROVE  /\ j \in Nat
             /\ \/ j \in DOMAIN s /\ st[j] = s[j] /\ j <= n
                \/ j - n \in DOMAIN t /\ st[j] = t[j - n] /\ j > n
  OBVIOUS
<1>2. st \in Seq(U) /\ n \in Nat
  OBVIOUS
<1> HIDE DEF st, n
<1>3. \A j \in DOMAIN st : st[j].iter = i
  BY <1>1 DEF OneIteration
<1>4. ASSUME NEW j \in DOMAIN st, NEW k \in DOMAIN st, j < k
      PROVE  st[j].scenario = "unknown" \/ st[k].scenario = "unknown"
  <2>1. CASE j <= n /\ k <= n
    <3>1. j \in DOMAIN s /\ st[j] = s[j] /\ k \in DOMAIN s /\ st[k] = s[k]
      BY <1>1, <1>2, <2>1
    <3>. QED BY <1>4, <3>1 DEF OneIteration
  <2>2. CASE j > n /\ k > n
    <3>1. /\ j - n \in DOMAIN t /\ st[j] = t[j - n]
          /\ k - n \in DOMAIN t /\ st[k] = t[k - n]
      BY <1>1, <1>2, <2>2
    <3>2. j - n < k - n
      BY <1>1, <1>2, <1>4
    <3>. QED BY <3>1, <3>2 DEF OneIteration
  <2>3. CASE j <= n /\ k > n
    <3>1. j \in DOMAIN s /\ st[j] = s[j] /\ k - n \in DOMAIN t /\ st[k] = t[k - n]
      BY <1>1, <1>2, <2>3
    <3>. QED BY <3>1 DEF ClientsOnly
  <2>. QED BY <1>1, <1>2, <1>4, <2>1, <2>2, <2>3
<1>. QED BY <1>2, <1>3, <1>4 DEF OneIteration, st

\* The runs of one iteration are runs of the current combination, at most one the driver's.
LEMMA RunsOfIterationType ==
    ASSUME IInv, pc = "runner", NEW i \in Nat, i >= 1, i <= Len(options.scenarios),
           NEW it \in IterationResults
    PROVE  /\ RunsOfIteration(i, it) \in Seq(OwnRuns)
           /\ OneIteration(RunsOfIteration(i, it), i)
<1>1. Current \in Dirs /\ at \in Nat
  BY CurrentType DEF IInv, InLoop, Typed
<1>2. options.scenarios[i] \in STRING /\ i \in DOMAIN options.scenarios
  BY BatchAssumption DEF IInv, Typed
<1>3. it.rows \in BOOLEAN /\ it.before \in Seq(BOOLEAN) /\ it.after \in Seq(BOOLEAN)
  <2>1. NothingStored \in AllOutcomes
    BY DEF NothingStored, AllOutcomes
  <2>2. it \in AllOutcomes
    BY <2>1, BatchAssumption DEF IterationResults
  <2>. QED BY <2>2 DEF AllOutcomes
<1> DEFINE driver == [dir |-> Current, scenario |-> options.scenarios[i], session |-> at,
                      iter |-> i, rows |-> it.rows]
           clients(own) == [j \in DOMAIN own |-> ClientRun(Current, i, own[j])]
           first == clients(it.before)
           second == IF it.registered THEN <<driver>> ELSE <<>>
           third == clients(it.after)
<1>4. driver \in OwnRuns /\ driver.iter = i
  BY <1>1, <1>2, <1>3 DEF TestRuns, OwnRuns, OfAnIteration
<1>5. ASSUME NEW rows \in BOOLEAN
      PROVE  /\ ClientRun(Current, i, rows) \in OwnRuns
             /\ ClientRun(Current, i, rows).iter = i
             /\ ClientRun(Current, i, rows).scenario = "unknown"
  BY <1>1 DEF ClientRun, TestRuns, OwnRuns
<1>6. ASSUME NEW own \in Seq(BOOLEAN)
      PROVE  clients(own) \in Seq(OwnRuns) /\ OneIteration(clients(own), i) /\ ClientsOnly(clients(own))
  <2> DEFINE s == clients(own)
  <2>1. s \in Seq(OwnRuns)
    BY <1>5
  <2>2. \A j \in DOMAIN s : s[j].iter = i /\ s[j].scenario = "unknown"
    BY <1>5
  <2> HIDE DEF s
  <2>3. OneIteration(s, i) /\ ClientsOnly(s)
    BY <2>2 DEF OneIteration, ClientsOnly
  <2>. QED BY <2>1, <2>3 DEF s
<1>7. RunsOfIteration(i, it) = first \o second \o third
  BY DEF RunsOfIteration
<1> HIDE DEF driver, clients
<1>8. second \in Seq(OwnRuns) /\ OneIteration(second, i)
  <2>1. <<>> \in Seq(OwnRuns) /\ OneIteration(<<>>, i)
    BY DEF OneIteration
  <2>2. <<driver>> \in Seq(OwnRuns) /\ OneIteration(<<driver>>, i)
    BY <1>4 DEF OneIteration
  <2>. QED BY <2>1, <2>2
<1>9. /\ first \in Seq(OwnRuns) /\ OneIteration(first, i) /\ ClientsOnly(first)
      /\ third \in Seq(OwnRuns) /\ OneIteration(third, i) /\ ClientsOnly(third)
  BY <1>3, <1>6
<1> HIDE DEF first, second, third
<1>10. first \o second \in Seq(OwnRuns) /\ OneIteration(first \o second, i)
  BY <1>8, <1>9, ConcatOneIteration
<1> DEFINE both == first \o second
<1> HIDE DEF both
<1>11. both \o third \in Seq(OwnRuns) /\ OneIteration(both \o third, i)
  <2>1. both \in Seq(OwnRuns) /\ OneIteration(both, i)
    BY <1>10 DEF both
  <2>. QED BY <1>9, <2>1, ConcatOneIteration
<1>. QED BY <1>7, <1>11 DEF both

\* So are those of a test run, and they are in order.
LEMMA RegisteredType ==
    ASSUME IInv, pc = "runner", NEW n \in Nat, n <= Len(options.scenarios),
           NEW its, DOMAIN its = 1..n, \A i \in 1..n : its[i] \in IterationResults
    PROVE  /\ Registered(its) \in Seq(TestRuns)
           /\ \A i \in DOMAIN Registered(its) : Registered(its)[i] \in OwnRuns
           /\ \A j, k \in DOMAIN Registered(its) :
                 j < k => Follows(Registered(its)[j], Registered(its)[k])
<1> DEFINE ss == [i \in 1..n |-> RunsOfIteration(i, its[i])]
<1>1. ASSUME NEW i \in 1..n
      PROVE  RunsOfIteration(i, its[i]) \in Seq(OwnRuns) /\ OneIteration(RunsOfIteration(i, its[i]), i)
  BY RunsOfIterationType
<1>2. ss \in Seq(Seq(OwnRuns)) /\ Len(ss) = n /\ \A i \in 1..n : OneIteration(ss[i], i)
  BY <1>1
<1>3. Registered(its) = FlattenSeq(ss)
  BY DEF Registered
<1> HIDE DEF ss
<1>4. Registered(its) \in Seq(OwnRuns)
  BY <1>2, <1>3, FlattenSeqType
<1>5. OwnRuns \subseteq TestRuns /\ \A u \in OwnRuns : u.iter \in Nat
  BY DEF OwnRuns, TestRuns
<1>6. ASSUME NEW i \in DOMAIN Registered(its) PROVE Registered(its)[i] \in OwnRuns
  BY <1>4
<1>7. Registered(its) \in Seq(TestRuns)
  BY <1>4, <1>5
<1>8. \A j, k \in DOMAIN Registered(its) :
         j < k => Follows(Registered(its)[j], Registered(its)[k])
  <2>1. \A i \in 1..Len(ss) : OneIteration(ss[i], i)
    BY <1>2
  <2>. QED BY <1>2, <1>3, <1>5, <2>1, FlattenSeqInOrder
<1>. QED BY <1>6, <1>7, <1>8

\* The tables, the arrays and the CSV keep their shape.
LEMMA TablesStep ==
    ASSUME IInv, [Next]_vars
    PROVE  Tables'
<1>1. CsvRows' = CsvRows
  BY DEF CsvRows, Dirs
<1>2. ASSUME UNCHANGED <<output, statuses, sessions, csv>> PROVE Tables'
  BY <1>1, <1>2 DEF IInv, Tables
<1>3. ASSUME NEW status \in Statuses, NEW session \in SUBSET (0..at), Record(status, session),
             Len(sessions) = at - 1
      PROVE  /\ statuses' \in Seq(Statuses)
             /\ sessions' \in Seq(SUBSET Nat)
             /\ \A i \in DOMAIN sessions' : \A s \in sessions'[i] : s <= i
  <2>1. at \in Nat /\ session \subseteq Nat
    BY DEF IInv, Typed
  <2>2. statuses \in Seq(Statuses) /\ sessions \in Seq(SUBSET Nat)
    BY DEF IInv, Tables
  <2>3. statuses' \in Seq(Statuses) /\ sessions' \in Seq(SUBSET Nat)
    BY <1>3, <2>1, <2>2 DEF Record
  <2>4. ASSUME NEW i \in DOMAIN sessions', NEW s \in sessions'[i] PROVE s <= i
    <3>1. \/ (i \in DOMAIN sessions /\ sessions'[i] = sessions[i])
          \/ (i = at /\ sessions'[i] = session)
      BY <1>3, <2>1, <2>2 DEF Record
    <3>2. ASSUME i \in DOMAIN sessions, sessions'[i] = sessions[i] PROVE s <= i
      BY <2>4, <3>2 DEF IInv, Tables
    <3>3. ASSUME i = at, sessions'[i] = session PROVE s <= i
      <4>1. s \in session
        BY <2>4, <3>3
      <4>2. s \in 0..at
        BY <4>1
      <4>. QED BY <2>1, <3>3, <4>2
    <3>. QED BY <3>1, <3>2, <3>3
  <2>. QED BY <2>3, <2>4
<1>4. ASSUME Skip \/ UpFails \/ BootstrapTimeout PROVE Tables'
  <2>1. Len(sessions) = at - 1 /\ UNCHANGED <<output, csv>>
    BY <1>4 DEF IInv, SessionsAreOwn, Skip, UpFails, BootstrapTimeout
  <2>2. \E status \in Statuses : Record(status, {})
    BY <1>4 DEF Statuses, Skip, UpFails, BootstrapTimeout
  <2>3. {} \in SUBSET (0..at)
    OBVIOUS
  <2>4. /\ statuses' \in Seq(Statuses)
        /\ sessions' \in Seq(SUBSET Nat)
        /\ \A i \in DOMAIN sessions' : \A s \in sessions'[i] : s <= i
    BY <1>3, <2>1, <2>2, <2>3
  <2>. QED BY <1>1, <2>1, <2>4 DEF IInv, Tables
<1>5. ASSUME RunnerFinishes \/ RunnerDies PROVE Tables'
  <2>1. UNCHANGED <<statuses, sessions, csv>>
    BY <1>5 DEF RunnerFinishes, RunnerDies, outcome
  <2>2. output' \in Seq(TableRows) /\ \A i \in DOMAIN output' : output'[i].iter = i
    <3>1. ASSUME RunnerFinishes
          PROVE  output' \in Seq(TableRows) /\ \A i \in DOMAIN output' : output'[i].iter = i
      BY <3>1, TableType DEF IInv, RunnerFinishes
    <3>2. ASSUME RunnerDies
          PROVE  output' \in Seq(TableRows) /\ \A i \in DOMAIN output' : output'[i].iter = i
      BY <3>2 DEF RunnerDies
    <3>. QED BY <1>5, <3>1, <3>2
  <2>. QED BY <1>1, <2>1, <2>2 DEF IInv, Tables
<1>6. ASSUME Collect PROVE Tables'
  <2>1. pc = "collect" /\ Len(sessions) = at - 1 /\ output' = <<>>
    BY <1>6 DEF Collect, IInv, SessionsAreOwn
  <2>2. SessionFound \in SUBSET (0..at)
    BY <2>1, CurrentType DEF IInv, InLoop, NothingFromLater, SessionFound
  <2>3. \E status \in Statuses : Record(status, SessionFound)
    BY <1>6 DEF Collect, Statuses
  <2>4. /\ statuses' \in Seq(Statuses)
        /\ sessions' \in Seq(SUBSET Nat)
        /\ \A i \in DOMAIN sessions' : \A s \in sessions'[i] : s <= i
    BY <1>3, <2>1, <2>2, <2>3
  <2>5. csv' \in Seq(CsvRows)
    <3> DEFINE rows == [i \in DOMAIN output |-> CsvRow(output[i])]
    <3>1. rows \in Seq(CsvRows)
      BY <2>1, CsvRowType DEF IInv, Tables
    <3>2. csv \in Seq(CsvRows) /\ csv' = csv \o rows
      BY <1>6 DEF Collect, IInv, Tables
    <3> HIDE DEF rows
    <3>. QED BY <3>1, <3>2
  <2>. QED BY <1>1, <2>1, <2>4, <2>5 DEF Tables
<1>7. ASSUME ~(Skip \/ UpFails \/ BootstrapTimeout \/ RunnerFinishes \/ RunnerDies \/ Collect)
      PROVE  UNCHANGED <<output, statuses, sessions, csv>>
  BY <1>7 DEF Next, vars, outcome, End, Preflight, PreflightFails, NextCombo, DownStale, Up,
     BootstrapReady, TearDown, NoCleanup, Cleanup, CleanupAborts, Verdict, ClientRegisters, TsdbGone
<1>. QED BY <1>2, <1>4, <1>5, <1>6, <1>7

\* A test run appends to test_runs what the iterations it went through registered.
LEMMA RunsGrow ==
    ASSUME IInv, RunnerFinishes \/ RunnerDies
    PROVE  /\ pc = "runner" /\ pc' = "collect" /\ at' = at
           /\ runs' = runs \/ \E n \in Nat :
                 /\ n <= Len(options.scenarios)
                 /\ \E its \in [1..n -> IterationResults] : runs' = runs \o Registered(its)
<1>0. pc = "runner" /\ pc' = "collect" /\ at' = at
  BY DEF RunnerFinishes, RunnerDies, Goto
<1> SUFFICES runs' = runs \/ \E n \in Nat :
                 /\ n <= Len(options.scenarios)
                 /\ \E its \in [1..n -> IterationResults] : runs' = runs \o Registered(its)
  BY <1>0
<1>1. options.scenarios \in Seq(STRING)
  BY BatchAssumption DEF IInv, Typed
<1>2. CASE RunnerFinishes
  <2>1. PICK its \in [DOMAIN options.scenarios -> IterationResults] :
          runs' = runs \o Registered(its)
    BY <1>2 DEF RunnerFinishes
  <2>2. DOMAIN options.scenarios = 1..Len(options.scenarios) /\ Len(options.scenarios) \in Nat
    BY <1>1
  <2>3. its \in [1..Len(options.scenarios) -> IterationResults]
    BY <2>1, <2>2
  <2>4. Len(options.scenarios) <= Len(options.scenarios)
    BY <2>2
  <2>. QED BY <2>1, <2>2, <2>3, <2>4, Zenon
<1>3. CASE RunnerDies
  <2>1. runs' = runs \/ \E n \in 0..(Len(options.scenarios) - 1) :
           \E its \in [1..n -> IterationResults] :
              runs' = runs \o Registered(its)
    BY <1>3 DEF RunnerDies, disk
  <2>2. ASSUME NEW n \in 0..(Len(options.scenarios) - 1),
               NEW its \in [1..n -> IterationResults]
        PROVE  n \in Nat /\ n <= Len(options.scenarios) /\ its \in [1..n -> IterationResults]
    <3>1. Len(options.scenarios) \in Nat
      BY <1>1
    <3>. QED BY <3>1
  <2>3. ASSUME NEW n \in 0..(Len(options.scenarios) - 1),
               NEW its \in [1..n -> IterationResults],
               runs' = runs \o Registered(its)
        PROVE  \E m \in Nat :
                 /\ m <= Len(options.scenarios)
                 /\ \E r \in [1..m -> IterationResults] : runs' = runs \o Registered(r)
    BY <2>2, <2>3
  <2>4. ASSUME \E n \in 0..(Len(options.scenarios) - 1) :
                  \E its \in [1..n -> IterationResults] :
                     runs' = runs \o Registered(its)
        PROVE  \E m \in Nat :
                 /\ m <= Len(options.scenarios)
                 /\ \E r \in [1..m -> IterationResults] : runs' = runs \o Registered(r)
    <3>1. PICK n \in 0..(Len(options.scenarios) - 1) :
             \E its \in [1..n -> IterationResults] :
                runs' = runs \o Registered(its)
      BY <2>4, Zenon
    <3>2. PICK its \in [1..n -> IterationResults] :
             runs' = runs \o Registered(its)
      BY <3>1, Zenon
    <3>. QED BY <2>3, <3>2, Zenon
  <2>. QED BY <2>1, <2>4, Zenon
<1>. QED BY <1>2, <1>3, Zenon

\* Nothing carries the number of a position that is still to come.
LEMMA NothingFromLaterStep ==
    ASSUME IInv, [Next]_vars
    PROVE  NothingFromLater'
<1>1. TestRuns' = TestRuns /\ Dirs' = Dirs
  BY DEF TestRuns, Dirs
<1>2. at \in Nat
  BY DEF IInv, Typed
<1>3. ASSUME UNCHANGED disk, at' \in Nat, at' >= at PROVE NothingFromLater'
  <2>1. \A S \in SUBSET (0..at) : S \in SUBSET (0..at')
    BY <1>2, <1>3
  <2>2. folders \in [Dirs -> SUBSET (0..at)]
    BY DEF IInv, NothingFromLater
  <2>3. folders' \in [Dirs -> SUBSET (0..at')]
    BY <1>3, <2>1, <2>2 DEF disk
  <2>4. runs' = runs /\ runs \in Seq(TestRuns) /\ \A i \in DOMAIN runs : runs[i].session <= at
    BY <1>3 DEF IInv, NothingFromLater, disk
  <2>5. ASSUME NEW i \in DOMAIN runs PROVE runs[i].session <= at'
    <3>1. runs[i] \in TestRuns
      BY <2>4
    <3>2. runs[i].session \in Nat
      BY <3>1 DEF TestRuns
    <3>. QED BY <1>2, <1>3, <2>4, <3>2
  <2>. QED BY <1>1, <2>3, <2>4, <2>5 DEF NothingFromLater
<1>4. ASSUME RunnerFinishes \/ RunnerDies PROVE NothingFromLater'
  <2>1. at' = at /\ pc = "runner" /\ Current \in Dirs
    BY <1>4, CurrentType DEF RunnerFinishes, RunnerDies, IInv, InLoop
  <2>2. folders' \in [Dirs -> SUBSET (0..at)]
    <3>1. at \in 0..at
      BY <1>2
    <3>2. folders' = folders \/ folders' = [folders EXCEPT ![Current] = @ \cup {at}]
      BY <1>4 DEF RunnerFinishes, RunnerDies, disk
    <3>. QED BY <2>1, <3>1, <3>2 DEF IInv, NothingFromLater
  <2>3. runs' = runs \/ \E n \in Nat :
           /\ n <= Len(options.scenarios)
           /\ \E its \in [1..n -> IterationResults] : runs' = runs \o Registered(its)
    BY <1>4, RunsGrow
  <2>4. runs' \in Seq(TestRuns) /\ \A i \in DOMAIN runs' : runs'[i].session <= at
    <3>1. runs \in Seq(TestRuns) /\ \A i \in DOMAIN runs : runs[i].session <= at
      BY DEF IInv, NothingFromLater
    <3>2. ASSUME NEW more \in Seq(TestRuns), \A i \in DOMAIN more : more[i].session = at,
                 runs' = runs \o more
          PROVE  runs' \in Seq(TestRuns) /\ \A i \in DOMAIN runs' : runs'[i].session <= at
      <4>1. runs' \in Seq(TestRuns)
        BY <3>1, <3>2
      <4>2. ASSUME NEW i \in DOMAIN runs' PROVE runs'[i].session <= at
        <5>1. \/ i \in DOMAIN runs /\ runs'[i] = runs[i]
              \/ i - Len(runs) \in DOMAIN more /\ runs'[i] = more[i - Len(runs)]
          BY <3>1, <3>2
        <5>. QED BY <1>2, <3>1, <3>2, <5>1
      <4>. QED BY <4>1, <4>2
    <3>3. ASSUME NEW n \in Nat, n <= Len(options.scenarios), NEW its \in [1..n -> IterationResults]
          PROVE  /\ Registered(its) \in Seq(TestRuns)
                 /\ \A i \in DOMAIN Registered(its) : Registered(its)[i].session = at
      BY <2>1, <3>3, RegisteredType DEF OwnRuns
    <3>. QED BY <2>3, <3>1, <3>2, <3>3
  <2>. QED BY <1>1, <2>1, <2>2, <2>4 DEF NothingFromLater
<1>5. ASSUME ClientRegisters PROVE NothingFromLater'
  <2>1. at' = at /\ folders' = folders
    BY <1>5 DEF ClientRegisters
  <2>2. PICK dir \in stacks, rows \in BOOLEAN : runs' = Append(runs, ClientRun(dir, 0, rows))
    BY <1>5 DEF ClientRegisters
  <2>3. ClientRun(dir, 0, rows) \in TestRuns /\ ClientRun(dir, 0, rows).session = at
    BY <1>2, <2>2 DEF ClientRun, TestRuns, IInv, Typed
  <2>4. runs \in Seq(TestRuns) /\ \A i \in DOMAIN runs : runs[i].session <= at
    BY DEF IInv, NothingFromLater
  <2> DEFINE run == ClientRun(dir, 0, rows)
  <2> HIDE DEF run
  <2>5. run \in TestRuns /\ run.session = at /\ runs' = Append(runs, run)
    BY <2>2, <2>3 DEF run
  <2>6. runs' \in Seq(TestRuns) /\ \A i \in DOMAIN runs' : runs'[i].session <= at
    BY <1>2, <2>4, <2>5
  <2>. QED BY <1>1, <2>1, <2>6 DEF IInv, NothingFromLater
<1>6. ASSUME ~(RunnerFinishes \/ RunnerDies \/ ClientRegisters)
      PROVE  UNCHANGED disk /\ at' \in Nat /\ at' >= at
  <2>1. UNCHANGED disk /\ (at' = at \/ at' = at + 1)
    BY <1>6, Zenon DEF Next, vars, disk, Preflight, PreflightFails, NextCombo, Skip, DownStale, Up,
       UpFails, BootstrapReady, BootstrapTimeout, Collect, TearDown,
       NoCleanup, Cleanup, CleanupAborts, Verdict, TsdbGone
  <2>. QED BY <1>2, <2>1
<1>. QED BY <1>3, <1>4, <1>5, <1>6

\* Inside the loop there is a combination; a table comes from a session.
LEMMA AtACombinationStep ==
    ASSUME IInv, [Next]_vars
    PROVE  AtACombination'
<1>1. options' = options /\ RunDirs' = RunDirs
  BY ConfigFixed
<1>2. at \in Nat
  BY DEF IInv, Typed
<1>3. pc' \in InLoop => at' >= 1
  <2>1. ASSUME NextCombo PROVE at' >= 1
    BY <1>2, <2>1 DEF NextCombo
  <2>2. ASSUME ~NextCombo, pc' \in InLoop PROVE pc \in InLoop /\ at' = at
    BY <2>2 DEF InLoop, Goto, End, Next, vars, Preflight, PreflightFails, Skip, DownStale, Up,
       UpFails, BootstrapReady, BootstrapTimeout, RunnerFinishes, RunnerDies, Collect, TearDown,
       NoCleanup, Cleanup, CleanupAborts, Verdict, ClientRegisters, TsdbGone
  <2>. QED BY <2>1, <2>2 DEF IInv, AtACombination
<1>4. ASSUME pc' = "collect", output' # <<>> PROVE at' \in (folders[Current])'
  <2>1. \/ RunnerFinishes
        \/ UNCHANGED vars
    BY <1>4 DEF Goto, End, Next, Preflight, PreflightFails, NextCombo, Skip, DownStale, Up,
       UpFails, BootstrapReady, BootstrapTimeout, RunnerDies, Collect, TearDown,
       NoCleanup, Cleanup, CleanupAborts, Verdict, ClientRegisters, TsdbGone
  <2>2. ASSUME RunnerFinishes PROVE at' \in (folders[Current])'
    <3>1. Current \in Dirs /\ at' = at
      BY <2>2, CurrentType DEF RunnerFinishes, IInv, InLoop
    <3>2. Current' = Current
      BY <1>1, <3>1 DEF Current
    <3>3. folders' = [folders EXCEPT ![Current] = @ \cup {at}]
      BY <2>2 DEF RunnerFinishes
    <3>4. DOMAIN folders = Dirs
      BY DEF IInv, NothingFromLater
    <3>. QED BY <3>1, <3>2, <3>3, <3>4
  <2>3. ASSUME UNCHANGED vars PROVE at' \in (folders[Current])'
    <3>1. Current' = Current
      BY <1>1, <2>3 DEF Current, vars
    <3>. QED BY <1>4, <2>3, <3>1 DEF vars, IInv, AtACombination
  <2>. QED BY <2>1, <2>2, <2>3
<1>. QED BY <1>3, <1>4 DEF AtACombination

\* What a passing run stored its rows under is its own position.
LEMMA OwnSession ==
    ASSUME IInv, pc = "collect", output # <<>>
    PROVE  SessionFound = {at}
<1>1. Current \in Dirs /\ at \in folders[Current]
  BY CurrentType DEF IInv, InLoop, AtACombination
<1>2. folders[Current] \subseteq 0..at /\ at \in Nat
  BY <1>1 DEF IInv, NothingFromLater, Typed
<1>3. ASSUME NEW s \in SessionFound PROVE s = at
  BY <1>1, <1>2 DEF SessionFound
<1>4. at \in SessionFound
  BY <1>1, <1>2 DEF SessionFound
<1>. QED BY <1>3, <1>4

\* Where the script is decides how long the two arrays are.
Recorded(p) == IF p \in {"compose", "up", "bootstrap", "runner", "collect"} THEN at - 1 ELSE at

\* The arrays grow together, and what they say is about the same combination.
LEMMA SessionsStep ==
    ASSUME IInv, [Next]_vars
    PROVE  SessionsAreOwn'
<1>1. RunDirs' = RunDirs
  BY ConfigFixed
<1>2. at \in Nat
  BY DEF IInv, Typed
<1>3. /\ statuses \in Seq(Statuses) /\ sessions \in Seq(SUBSET Nat) /\ csv \in Seq(CsvRows)
  BY DEF IInv, Tables
<1>4. /\ Len(statuses) = Len(sessions)
      /\ Len(statuses) = Recorded(pc)
      /\ \A r \in DOMAIN csv : \E i \in DOMAIN statuses :
            csv[r].dir = RunDirs[i] /\ csv[r].session = {i}
      /\ \A i \in DOMAIN statuses : statuses[i] = "PASSED" =>
            /\ sessions[i] = {i}
            /\ \E r \in DOMAIN csv : csv[r].dir = RunDirs[i] /\ csv[r].ok
  BY DEF IInv, SessionsAreOwn, Recorded
<1>5. ASSUME UNCHANGED <<statuses, sessions, csv>>, Recorded(pc)' = Recorded(pc)
      PROVE  SessionsAreOwn'
  BY <1>1, <1>4, <1>5 DEF SessionsAreOwn, Recorded
<1>6. ASSUME Skip \/ UpFails \/ BootstrapTimeout PROVE SessionsAreOwn'
  <2>1. PICK status \in Statuses \ {"PASSED"} : Record(status, {})
    BY <1>6 DEF Statuses, Skip, UpFails, BootstrapTimeout
  <2>2. Len(statuses) = at - 1 /\ at' = at /\ csv' = csv /\ pc' = "cleanup"
    BY <1>6 DEF IInv, SessionsAreOwn, Goto, Skip, UpFails, BootstrapTimeout
  <2>3. /\ Len(statuses') = at /\ Len(sessions') = at
        /\ statuses'[at] = status
        /\ \A i \in DOMAIN statuses : i \in DOMAIN statuses' /\ statuses'[i] = statuses[i]
                                     /\ sessions'[i] = sessions[i]
        /\ \A i \in DOMAIN statuses' : i \in DOMAIN statuses \/ i = at
    <3>1. status \in Statuses /\ {} \in SUBSET Nat
      BY <2>1
    <3>2. Len(statuses) + 1 = at /\ Len(sessions) + 1 = at
      BY <1>2, <1>4, <2>2
    <3>3. DOMAIN statuses = DOMAIN sessions
      <4>1. DOMAIN statuses = 1..Len(statuses)
        BY <1>3
      <4>2. DOMAIN sessions = 1..Len(sessions)
        BY <1>3
      <4>. QED BY <1>4, <4>1, <4>2
    <3>4. statuses' = Append(statuses, status) /\ sessions' = Append(sessions, {})
      BY <2>1 DEF Record
    <3>. QED BY <1>3, <3>1, <3>2, <3>3, <3>4, AppendShape
  <2>4. \A r \in DOMAIN csv : \E i \in DOMAIN statuses' :
            csv[r].dir = RunDirs[i] /\ csv[r].session = {i}
    BY <1>4, <2>3
  <2>5. \A i \in DOMAIN statuses' : statuses'[i] = "PASSED" =>
            /\ sessions'[i] = {i}
            /\ \E r \in DOMAIN csv : csv[r].dir = RunDirs[i] /\ csv[r].ok
    BY <1>4, <2>1, <2>3
  <2>. QED BY <1>1, <2>2, <2>3, <2>4, <2>5 DEF SessionsAreOwn
<1>7. ASSUME Collect PROVE SessionsAreOwn'
  <2> DEFINE status == IF Passes(output) THEN "PASSED" ELSE "FAILED"
             rows == [i \in DOMAIN output |-> CsvRow(output[i])]
  <2>1. /\ pc = "collect" /\ Len(statuses) = at - 1 /\ at' = at /\ pc' = "teardown"
        /\ Record(status, SessionFound) /\ csv' = csv \o rows
    BY <1>7 DEF IInv, SessionsAreOwn, Goto, Collect
  <2>2. status = "PASSED" => Passes(output)
    OBVIOUS
  <2> HIDE DEF status
  <2>3. /\ Len(statuses') = at /\ Len(sessions') = at
        /\ statuses'[at] = status /\ sessions'[at] = SessionFound
        /\ \A i \in DOMAIN statuses : i \in DOMAIN statuses' /\ statuses'[i] = statuses[i]
                                     /\ sessions'[i] = sessions[i]
        /\ \A i \in DOMAIN statuses' : i \in DOMAIN statuses \/ i = at
        /\ at \in DOMAIN statuses'
    <3>1. status \in Statuses /\ SessionFound \in SUBSET Nat
      <4>1. status \in Statuses
        BY DEF status, Statuses
      <4>2. SessionFound \in SUBSET Nat
        BY <2>1, CurrentType DEF IInv, InLoop, NothingFromLater, SessionFound
      <4>. QED BY <4>1, <4>2
    <3>2. Len(statuses) + 1 = at /\ Len(sessions) + 1 = at
      BY <1>2, <1>4, <2>1
    <3>3. DOMAIN statuses = DOMAIN sessions
      <4>1. DOMAIN statuses = 1..Len(statuses)
        BY <1>3
      <4>2. DOMAIN sessions = 1..Len(sessions)
        BY <1>3
      <4>. QED BY <1>4, <4>1, <4>2
    <3>4. statuses' = Append(statuses, status) /\ sessions' = Append(sessions, SessionFound)
      BY <2>1 DEF Record
    <3>. QED BY <1>3, <3>1, <3>2, <3>3, <3>4, AppendShape
  <2>4. output \in Seq(TableRows)
    BY DEF IInv, Tables
  <2>5. rows \in Seq(CsvRows) /\ DOMAIN rows = DOMAIN output
    BY <2>1, <2>4, CsvRowType
  <2>6. \A i \in DOMAIN output : rows[i].dir = Current /\ rows[i].session = SessionFound
                               /\ rows[i].ok = output[i].ok
    BY DEF CsvRow
  <2> HIDE DEF rows
  <2>7. /\ \A r \in DOMAIN csv : r \in DOMAIN csv' /\ csv'[r] = csv[r]
        /\ \A r \in DOMAIN csv' : \/ r \in DOMAIN csv
                                 \/ (r - Len(csv) \in DOMAIN output /\ csv'[r] = rows[r - Len(csv)])
        /\ \A i \in DOMAIN output : Len(csv) + i \in DOMAIN csv' /\ csv'[Len(csv) + i] = rows[i]
    BY <1>3, <2>1, <2>4, <2>5
  <2>8. output # <<>> => SessionFound = {at}
    BY <2>1, OwnSession
  <2>9. ASSUME NEW r \in DOMAIN csv'
        PROVE  \E i \in DOMAIN statuses' : csv'[r].dir = RunDirs[i] /\ csv'[r].session = {i}
    <3>1. CASE r \in DOMAIN csv
      BY <1>4, <2>3, <2>7, <3>1
    <3>2. CASE r - Len(csv) \in DOMAIN output /\ csv'[r] = rows[r - Len(csv)]
      <4>1. output # <<>>
        BY <2>4, <3>2
      <4>2. csv'[r].dir = RunDirs[at] /\ csv'[r].session = {at}
        BY <2>6, <2>8, <3>2, <4>1 DEF Current
      <4>. QED BY <2>3, <4>2
    <3>. QED BY <2>7, <3>1, <3>2
  <2>10. ASSUME NEW i \in DOMAIN statuses', statuses'[i] = "PASSED"
         PROVE  /\ sessions'[i] = {i}
                /\ \E r \in DOMAIN csv' : csv'[r].dir = RunDirs[i] /\ csv'[r].ok
    <3>1. CASE i \in DOMAIN statuses
      BY <1>4, <2>3, <2>7, <2>10, <3>1
    <3>2. CASE i = at
      <4>1. PICK j \in DOMAIN output : output[j].ok
        BY <2>2, <2>3, <2>10, <3>2 DEF Passes
      <4>2. output # <<>>
        BY <2>4, <4>1
      <4>3. csv'[Len(csv) + j].dir = RunDirs[at] /\ csv'[Len(csv) + j].ok
        BY <2>6, <2>7, <4>1 DEF Current
      <4>. QED BY <2>3, <2>7, <2>8, <3>2, <4>1, <4>2, <4>3
    <3>. QED BY <2>3, <3>1, <3>2
  <2>. QED BY <1>1, <2>1, <2>3, <2>9, <2>10 DEF SessionsAreOwn
<1>8. ASSUME ~(Skip \/ UpFails \/ BootstrapTimeout \/ Collect)
      PROVE  UNCHANGED <<statuses, sessions, csv>> /\ Recorded(pc)' = Recorded(pc)
  <2>1. UNCHANGED <<statuses, sessions, csv>>
    BY <1>8, Zenon DEF Next, vars, outcome, End, Preflight, PreflightFails, NextCombo, DownStale, Up,
       BootstrapReady, RunnerFinishes, RunnerDies, TearDown, NoCleanup, Cleanup, CleanupAborts,
       Verdict, ClientRegisters, TsdbGone
  <2>2. Recorded(pc)' = Recorded(pc)
    BY <1>2, <1>8 DEF Recorded, Goto, End, Next, vars, Preflight, PreflightFails, NextCombo,
       DownStale, Up, BootstrapReady, RunnerFinishes, RunnerDies, TearDown, NoCleanup, Cleanup,
       CleanupAborts, Verdict, ClientRegisters, TsdbGone
  <2>. QED BY <2>1, <2>2
<1>. QED BY <1>5, <1>6, <1>7, <1>8

\* Where a step leaves the turns of the combinations.
Turned(p) == IF p = "compose" THEN at - 1 ELSE at

\* Which stacks are up changes only with docker compose, on the current one.
LEMMA StacksStep ==
    ASSUME IInv, [Next]_vars
    PROVE  StacksAccounted'
<1>1. RunDirs' = RunDirs /\ stale' = stale
  BY ConfigFixed
<1>2. at \in Nat
  BY DEF IInv, Typed
<1> DEFINE waiting(n) == stale \ {RunDirs[i] : i \in 1..n}
           held(p) == IF p \in {"bootstrap", "runner", "collect", "teardown"} THEN {Current} ELSE {}
<1>3. stacks \subseteq waiting(Turned(pc)) \cup broken \cup held(pc)
  BY DEF IInv, StacksAccounted, Turned
<1>4. ASSUME stacks' \subseteq waiting(Turned(pc)') \cup broken' \cup held(pc)'
      PROVE  StacksAccounted'
  BY <1>1, <1>4 DEF StacksAccounted, Turned
<1>5. at' = at => Current' = Current
  BY <1>1 DEF Current
<1>6. pc \in InLoop => at >= 1 /\ Current \in {RunDirs[i] : i \in 1..at}
  BY <1>2 DEF IInv, AtACombination, Current
<1>7. pc = "compose" => waiting(at - 1) \subseteq waiting(at) \cup {Current}
  BY <1>2, <1>6 DEF InLoop, Current
<1> HIDE DEF waiting
<1>8. ASSUME Skip PROVE StacksAccounted'
  <2>1. at' = at /\ pc = "compose" /\ pc' = "cleanup" /\ Current \notin stale /\ UNCHANGED docker
    BY <1>8 DEF Skip, Goto
  <2>2. waiting(at - 1) \subseteq waiting(at)
    BY <1>7, <2>1 DEF waiting
  <2>. QED BY <1>3, <1>4, <2>1, <2>2 DEF Turned, docker
<1>9. ASSUME DownStale PROVE StacksAccounted'
  BY <1>3, <1>4, <1>7, <1>9 DEF DownStale, Down, Goto, Turned
<1>10. ASSUME Up PROVE StacksAccounted'
  BY <1>3, <1>4, <1>5, <1>10 DEF Up, Goto, Turned
<1>11. ASSUME UpFails PROVE StacksAccounted'
  BY <1>3, <1>4, <1>11 DEF UpFails, Goto, Turned
<1>12. ASSUME BootstrapTimeout PROVE StacksAccounted'
  BY <1>3, <1>4, <1>12 DEF BootstrapTimeout, Down, Goto, Turned
<1>13. ASSUME TearDown PROVE StacksAccounted'
  BY <1>3, <1>4, <1>13 DEF TearDown, Down, Goto, Turned
<1>14. ASSUME NextCombo PROVE StacksAccounted'
  <2>1. pc = "next" /\ pc' = "compose" /\ at' = at + 1 /\ UNCHANGED docker
    BY <1>14 DEF NextCombo, Goto
  <2>. QED BY <1>2, <1>3, <1>4, <2>1 DEF Turned, docker
<1>15. ASSUME BootstrapReady \/ RunnerFinishes \/ RunnerDies \/ Collect PROVE StacksAccounted'
  <2>1. at' = at /\ UNCHANGED <<stacks, broken>>
    BY <1>15 DEF BootstrapReady, RunnerFinishes, RunnerDies, Collect, docker
  <2>2. /\ pc \in {"bootstrap", "runner", "collect", "teardown"}
        /\ pc' \in {"bootstrap", "runner", "collect", "teardown"}
    BY <1>15 DEF BootstrapReady, RunnerFinishes, RunnerDies, Collect, Goto
  <2>. QED BY <1>3, <1>4, <1>5, <2>1, <2>2 DEF Turned
<1>16. ASSUME Preflight \/ PreflightFails \/ NoCleanup \/ Cleanup \/ CleanupAborts \/ Verdict
       PROVE  StacksAccounted'
  <2>1. at' = at /\ UNCHANGED <<stacks, broken>>
    BY <1>16 DEF Preflight, PreflightFails, NoCleanup, Cleanup, CleanupAborts, Verdict, docker
  <2>2. /\ pc \in {"preflight", "cleanup", "next"}
        /\ pc' \in {"next", "done"}
    BY <1>16 DEF Preflight, PreflightFails, NoCleanup, Cleanup, CleanupAborts, Verdict, Goto, End
  <2>. QED BY <1>3, <1>4, <2>1, <2>2 DEF Turned
<1>17. ASSUME ClientRegisters \/ TsdbGone \/ UNCHANGED vars PROVE StacksAccounted'
  <2>1. at' = at /\ pc' = pc /\ UNCHANGED <<stacks, broken>>
    BY <1>17 DEF ClientRegisters, docker, TsdbGone, vars
  <2>. QED BY <1>3, <1>4, <1>5, <2>1 DEF Turned
<1>. QED BY <1>8, <1>9, <1>10, <1>11, <1>12, <1>13, <1>14, <1>15, <1>16, <1>17 DEF Next

\* The table and the CSV go on listing the iterations in order.
LEMMA ListedStep ==
    ASSUME IInv, [Next]_vars
    PROVE  Listed'
<1>1. options' = options
  BY ConfigFixed
<1>2. ASSUME UNCHANGED <<output, csv>> PROVE Listed'
  BY <1>1, <1>2 DEF IInv, Listed
<1>3. ASSUME UNCHANGED csv,
             \A i \in DOMAIN output' :
                i \in DOMAIN options.scenarios /\ output'[i].scenario = options.scenarios[i]
      PROVE  Listed'
  BY <1>1, <1>3 DEF IInv, Listed
<1>4. ASSUME RunnerFinishes PROVE Listed'
  <2>1. PICK its \in [DOMAIN options.scenarios -> IterationResults] : output' = Table(its)
    BY <1>4 DEF RunnerFinishes
  <2>2. csv' = csv
    BY <1>4 DEF RunnerFinishes, outcome
  <2>3. \A i \in DOMAIN output' :
           i \in DOMAIN options.scenarios /\ output'[i].scenario = options.scenarios[i]
    BY <2>1 DEF Table
  <2>. QED BY <1>3, <2>2, <2>3
<1>5. ASSUME RunnerDies PROVE Listed'
  <2>1. csv' = csv /\ output' = <<>>
    BY <1>5 DEF RunnerDies, outcome
  <2>2. \A i \in DOMAIN output' :
           i \in DOMAIN options.scenarios /\ output'[i].scenario = options.scenarios[i]
    BY <2>1
  <2>. QED BY <1>3, <2>1, <2>2
<1>6. ASSUME Collect PROVE Listed'
  <2> DEFINE rows == [i \in DOMAIN output |-> CsvRow(output[i])]
             n == Len(csv)
  <2>1. /\ pc = "collect" /\ Len(statuses) = at - 1 /\ output' = <<>> /\ csv' = csv \o rows
        /\ output \in Seq(TableRows) /\ csv \in Seq(CsvRows) /\ statuses \in Seq(Statuses)
    BY <1>6 DEF IInv, SessionsAreOwn, Tables, Collect
  <2>2. rows \in Seq(CsvRows) /\ DOMAIN rows = DOMAIN output
    BY <2>1, CsvRowType
  <2>3. ASSUME NEW i \in DOMAIN output
        PROVE  /\ rows[i].dir = Current /\ rows[i].iter = i
               /\ i \in DOMAIN options.scenarios /\ rows[i].scenario = options.scenarios[i]
    BY <2>3 DEF CsvRow, IInv, Tables, Listed
  <2>4. n \in Nat /\ DOMAIN csv = 1..n /\ \A i \in DOMAIN output : i \in Nat /\ i >= 1
    BY <2>1
  <2> HIDE DEF rows, n
  <2>5. ASSUME NEW r \in DOMAIN csv'
        PROVE  \/ r \in 1..n /\ csv'[r] = csv[r]
               \/ r \in Nat /\ r > n /\ r - n \in DOMAIN output /\ csv'[r] = rows[r - n]
    BY <2>1, <2>2, <2>4 DEF n
  <2>6. ASSUME NEW i \in DOMAIN output PROVE n + i \in DOMAIN csv' /\ csv'[n + i] = rows[i]
    BY <2>1, <2>2, <2>4 DEF n
  <2>7. ASSUME NEW r \in 1..n PROVE r \in DOMAIN csv' /\ csv'[r] = csv[r]
    BY <2>1, <2>2, <2>4 DEF n
  <2>8. ASSUME NEW r \in 1..n PROVE csv[r].dir # Current
    <3>1. PICK i \in DOMAIN statuses : csv[r].dir = RunDirs[i]
      BY <2>4 DEF IInv, SessionsAreOwn
    <3>2. at \in 1..Total /\ Total \in Nat
      BY <2>1, CurrentType, RunDirsType DEF IInv, InLoop
    <3>3. i \in 1..Total /\ i # at
      BY <2>1, <3>2
    <3>. QED BY <3>1, <3>2, <3>3, RunDirsDiffer DEF Current
  <2>9. ASSUME NEW r \in DOMAIN csv', r > n
        PROVE  /\ csv'[r].dir = Current /\ csv'[r].iter = r - n
               /\ r - n \in DOMAIN options.scenarios /\ csv'[r].scenario = options.scenarios[r - n]
    BY <2>3, <2>4, <2>5, <2>9
  <2>10. \A r \in DOMAIN csv' :
           /\ csv'[r].iter \in DOMAIN options.scenarios
           /\ csv'[r].scenario = options.scenarios[csv'[r].iter]
    <3>1. ASSUME NEW r \in 1..n
          PROVE  /\ csv[r].iter \in DOMAIN options.scenarios
                 /\ csv[r].scenario = options.scenarios[csv[r].iter]
      BY <2>4 DEF IInv, Listed
    <3>. QED BY <2>5, <2>9, <3>1
  <2>11. ASSUME NEW r \in DOMAIN csv', NEW i \in 1..csv'[r].iter
         PROVE  \E q \in DOMAIN csv' : q <= r /\ csv'[q].dir = csv'[r].dir /\ csv'[q].iter = i
    <3>1. CASE r \in 1..n
      <4>1. csv'[r] = csv[r]
        BY <2>7, <3>1
      <4>2. PICK q \in DOMAIN csv : q <= r /\ csv[q].dir = csv[r].dir /\ csv[q].iter = i
        BY <2>4, <3>1, <4>1 DEF IInv, Listed
      <4>. QED BY <2>4, <2>7, <4>1, <4>2
    <3>2. CASE r \notin 1..n
      <4>1. r \in Nat /\ r > n /\ r - n \in DOMAIN output
        BY <2>5, <3>2
      <4>2. csv'[r].iter = r - n /\ csv'[r].dir = Current
        BY <2>9, <4>1
      <4>3. i \in Nat /\ i >= 1 /\ i <= r - n
        BY <2>4, <4>1, <4>2
      <4>4. i \in DOMAIN output
        BY <2>1, <4>1, <4>3
      <4>5. n + i \in DOMAIN csv' /\ csv'[n + i].dir = Current /\ csv'[n + i].iter = i
        BY <2>3, <2>6, <4>4
      <4>6. n + i <= r
        BY <2>4, <4>1, <4>3
      <4>. QED BY <4>2, <4>5, <4>6
    <3>. QED BY <3>1, <3>2
  <2>12. ASSUME NEW q \in DOMAIN csv', NEW r \in DOMAIN csv', q < r, csv'[q].dir = csv'[r].dir
         PROVE  csv'[q].iter < csv'[r].iter
    <3>1. CASE q \in 1..n /\ r \in 1..n
      BY <2>4, <2>7, <2>12, <3>1 DEF IInv, Listed
    <3>2. CASE q \in 1..n /\ r \notin 1..n
      <4>1. csv'[r].dir = Current
        BY <2>5, <2>9, <3>2
      <4>2. csv'[q].dir # Current
        BY <2>7, <2>8, <3>2
      <4>. QED BY <2>12, <4>1, <4>2
    <3>3. CASE q \notin 1..n /\ r \notin 1..n
      <4>1. q \in Nat /\ q > n /\ r \in Nat /\ r > n
        BY <2>5, <3>3
      <4>2. csv'[q].iter = q - n /\ csv'[r].iter = r - n
        BY <2>9, <4>1
      <4>. QED BY <2>4, <2>12, <4>1, <4>2
    <3>4. r \in 1..n => q \in 1..n
      <4>1. q \in Nat /\ r \in Nat /\ (q \in 1..n \/ q > n)
        BY <2>4, <2>5
      <4>2. q \in 1..n => q \in Nat /\ q >= 1
        BY <2>4
      <4>. QED BY <2>4, <2>12, <4>1, <4>2
    <3>. QED BY <3>1, <3>2, <3>3, <3>4
  <2>13. \A i \in DOMAIN output' :
           i \in DOMAIN options.scenarios /\ output'[i].scenario = options.scenarios[i]
    BY <2>1
  <2>. QED BY <1>1, <2>10, <2>11, <2>12, <2>13 DEF Listed
<1>7. ASSUME ~(RunnerFinishes \/ RunnerDies \/ Collect) PROVE UNCHANGED <<output, csv>>
  BY <1>7, Zenon DEF Next, vars, outcome, End, Record, Preflight, PreflightFails, NextCombo, Skip,
     DownStale, Up, UpFails, BootstrapReady, BootstrapTimeout, TearDown, NoCleanup, Cleanup,
     CleanupAborts, Verdict, ClientRegisters, TsdbGone
<1>. QED BY <1>2, <1>4, <1>5, <1>6, <1>7

\* A test run appends to test_runs what it registers, under a number nothing has yet.
LEMMA HistoriedStep ==
    ASSUME IInv, [Next]_vars
    PROVE  Historied'
<1>1. options' = options /\ stale' = stale /\ RunDirs' = RunDirs
  BY ConfigFixed
<1>2. at \in Nat /\ runs \in Seq(TestRuns) /\ \A k \in DOMAIN runs : runs[k].session <= at
  BY DEF IInv, Typed, NothingFromLater
<1>3. ASSUME NEW k \in DOMAIN runs PROVE runs[k].session \in Nat
  <2>1. runs[k] \in TestRuns
    BY <1>2
  <2>. QED BY <2>1 DEF TestRuns
<1>4. ASSUME UNCHANGED runs,
             pc' \in {"compose", "up", "bootstrap", "runner"} =>
                 \A k \in DOMAIN runs : Drivers(runs[k]) => runs[k].session < at'
      PROVE  Historied'
  BY <1>1, <1>4 DEF IInv, Historied, OfAnIteration, Drivers, Earlier
<1>5. ASSUME RunnerFinishes \/ RunnerDies PROVE Historied'
  <2>1. /\ pc = "runner" /\ pc' = "collect" /\ at' = at
        /\ runs' = runs \/ \E n \in Nat :
              /\ n <= Len(options.scenarios)
              /\ \E its \in [1..n -> IterationResults] : runs' = runs \o Registered(its)
    BY <1>5, RunsGrow
  <2>2. ASSUME NEW more \in Seq(TestRuns), \A i \in DOMAIN more : more[i] \in OwnRuns,
               \A j, k \in DOMAIN more : j < k => Follows(more[j], more[k]), runs' = runs \o more
        PROVE  Historied'
    <3> DEFINE n == Len(runs)
    <3>1. n \in Nat /\ DOMAIN runs = 1..n
      BY <1>2
    <3>2. ASSUME NEW k \in DOMAIN runs'
          PROVE  \/ k \in 1..n /\ runs'[k] = runs[k]
                 \/ k \in Nat /\ k > n /\ k - n \in DOMAIN more /\ runs'[k] = more[k - n]
      BY <1>2, <2>2
    <3> HIDE DEF n
    <3>3. ASSUME NEW k \in 1..n
          PROVE  /\ Drivers(runs[k]) => runs[k].session < at
                 /\ runs[k].session \in Nat
                 /\ runs[k].session = Earlier => runs[k].dir \in stale
                 /\ Drivers(runs[k]) =>
                       runs[k].dir = RunDirs[runs[k].session] /\ OfAnIteration(runs[k])
      BY <1>3, <2>1, <3>1 DEF IInv, Historied
    <3>4. ASSUME NEW i \in DOMAIN more
          PROVE  /\ more[i].session = at /\ at # Earlier
                 /\ more[i].dir = RunDirs[more[i].session]
                 /\ Drivers(more[i]) => OfAnIteration(more[i])
      <4>1. at >= 1
        BY <2>1 DEF IInv, AtACombination, InLoop
      <4>. QED BY <1>2, <2>2, <4>1 DEF OwnRuns, Drivers, Current, Earlier
    <3>5. ASSUME NEW k \in DOMAIN runs'
          PROVE  /\ runs'[k].session = Earlier => runs'[k].dir \in stale
                 /\ Drivers(runs'[k]) =>
                       runs'[k].dir = RunDirs[runs'[k].session] /\ OfAnIteration(runs'[k])
      BY <3>2, <3>3, <3>4
    <3>6. ASSUME NEW j \in DOMAIN runs', NEW k \in DOMAIN runs', j < k,
                 runs'[j].session = runs'[k].session, runs'[k].session # Earlier
          PROVE  Follows(runs'[j], runs'[k])
      <4>1. CASE j \in 1..n /\ k \in 1..n
        <5>1. runs'[j] = runs[j] /\ runs'[k] = runs[k]
          BY <3>1, <3>2, <4>1
        <5>. QED BY <3>1, <3>6, <4>1, <5>1 DEF IInv, Historied
      <4>2. CASE j \notin 1..n /\ k \notin 1..n
        <5>1. /\ j - n \in DOMAIN more /\ runs'[j] = more[j - n] /\ j \in Nat
              /\ k - n \in DOMAIN more /\ runs'[k] = more[k - n] /\ k \in Nat
          BY <3>2, <4>2
        <5>2. j - n < k - n
          BY <3>1, <3>6, <5>1
        <5>. QED BY <2>2, <5>1, <5>2
      <4>3. CASE j \in 1..n /\ k \notin 1..n
        <5>1. runs'[j] = runs[j] /\ k - n \in DOMAIN more /\ runs'[k] = more[k - n]
          BY <3>1, <3>2, <4>3
        <5>2. /\ Drivers(runs[j]) => runs[j].session < at
              /\ runs[j].session \in Nat /\ more[k - n].session = at
          BY <3>3, <3>4, <4>3, <5>1
        <5>3. ~Drivers(runs[j])
          BY <1>2, <3>6, <5>1, <5>2
        <5>4. runs[j].session # Earlier
          BY <3>6, <5>1
        <5>. QED BY <5>1, <5>3, <5>4 DEF Drivers, Follows
      <4>4. k \in 1..n => j \in 1..n
        <5>1. j \in Nat /\ (j \in 1..n \/ j > n)
          BY <3>1, <3>2
        <5>. QED BY <3>1, <3>6, <5>1
      <4>. QED BY <4>1, <4>2, <4>3, <4>4
    <3>. QED BY <1>1, <2>1, <3>5, <3>6 DEF Historied, OfAnIteration, Drivers
  <2>3. CASE runs' = runs
    BY <1>4, <2>1, <2>3
  <2>4. ASSUME NEW n \in Nat, n <= Len(options.scenarios), NEW its \in [1..n -> IterationResults],
               runs' = runs \o Registered(its)
        PROVE  Historied'
    <3>1. /\ Registered(its) \in Seq(TestRuns)
          /\ \A i \in DOMAIN Registered(its) : Registered(its)[i] \in OwnRuns
          /\ \A j, k \in DOMAIN Registered(its) :
                j < k => Follows(Registered(its)[j], Registered(its)[k])
      BY <2>1, <2>4, RegisteredType
    <3>. QED BY <2>2, <2>4, <3>1
  <2>. QED BY <2>1, <2>3, <2>4
<1>6. ASSUME NextCombo PROVE Historied'
  <2>1. at' = at + 1 /\ runs' = runs
    BY <1>6 DEF NextCombo, disk
  <2>2. \A k \in DOMAIN runs : runs[k].session < at'
    BY <1>2, <1>3, <2>1
  <2>. QED BY <1>4, <2>1, <2>2
<1>7. ASSUME ClientRegisters PROVE Historied'
  <2> DEFINE n == Len(runs)
  <2>1. /\ at' = at /\ pc' = pc /\ pc = "bootstrap" /\ at >= 1
        /\ n \in Nat /\ DOMAIN runs = 1..n
    BY <1>2, <1>7 DEF ClientRegisters, IInv, AtACombination, InLoop
  <2>2. PICK dir \in stacks, rows \in BOOLEAN : runs' = Append(runs, ClientRun(dir, 0, rows))
    BY <1>7 DEF ClientRegisters
  <2> DEFINE run == ClientRun(dir, 0, rows)
  <2>3. run.session = at /\ run.scenario = "unknown" /\ run.session # Earlier
    BY <1>2, <2>1 DEF ClientRun, Earlier
  <2> HIDE DEF run
  <2>4. runs' = Append(runs, run)
    BY <2>2 DEF run
  <2>5. ASSUME NEW k \in DOMAIN runs'
        PROVE  /\ k \in Nat
               /\ \/ k \in 1..n /\ runs'[k] = runs[k]
                  \/ k = n + 1 /\ runs'[k] = run
    BY <1>2, <2>1, <2>4
  <2> HIDE DEF n
  <2>6. ASSUME NEW k \in 1..n
        PROVE  /\ runs[k].session = Earlier => runs[k].dir \in stale
               /\ Drivers(runs[k]) =>
                     /\ runs[k].dir = RunDirs[runs[k].session] /\ OfAnIteration(runs[k])
                     /\ runs[k].session < at
    BY <2>1 DEF IInv, Historied
  <2>7. ASSUME NEW k \in DOMAIN runs'
        PROVE  /\ runs'[k].session = Earlier => runs'[k].dir \in stale
               /\ Drivers(runs'[k]) =>
                     /\ runs'[k].dir = RunDirs[runs'[k].session] /\ OfAnIteration(runs'[k])
                     /\ runs'[k].session < at
    BY <2>3, <2>5, <2>6 DEF Drivers
  <2>8. ASSUME NEW j \in DOMAIN runs', NEW k \in DOMAIN runs', j < k,
               runs'[j].session = runs'[k].session, runs'[k].session # Earlier
        PROVE  Follows(runs'[j], runs'[k])
    <3>1. CASE j \in 1..n /\ k \in 1..n
      BY <2>1, <2>5, <2>8, <3>1 DEF IInv, Historied
    <3>2. CASE k \notin 1..n \/ j \notin 1..n
      BY <2>3, <2>5, <3>2 DEF Follows
    <3>. QED BY <3>1, <3>2
  <2>. QED BY <1>1, <2>1, <2>7, <2>8 DEF Historied, OfAnIteration, Drivers
<1>8. ASSUME ~(RunnerFinishes \/ RunnerDies \/ NextCombo \/ ClientRegisters) PROVE Historied'
  <2>1. UNCHANGED <<runs, at>>
    BY <1>8, Zenon DEF Next, vars, disk, Preflight, PreflightFails, Skip, DownStale, Up, UpFails,
       BootstrapReady, BootstrapTimeout, Collect, TearDown, NoCleanup, Cleanup,
       CleanupAborts, Verdict, TsdbGone
  <2>2. pc' \in {"compose", "up", "bootstrap", "runner"} => pc \in {"compose", "up", "bootstrap", "runner"}
    BY <1>8 DEF Goto, End, Next, vars, Preflight, PreflightFails, Skip, DownStale, Up, UpFails,
       BootstrapReady, BootstrapTimeout, Collect, TearDown, NoCleanup, Cleanup,
       CleanupAborts, Verdict, TsdbGone
  <2>3. pc \in {"compose", "up", "bootstrap", "runner"} =>
           \A k \in DOMAIN runs : Drivers(runs[k]) => runs[k].session < at
    BY DEF IInv, Historied
  <2>. QED BY <1>4, <2>1, <2>2, <2>3
<1>. QED BY <1>5, <1>6, <1>7, <1>8

\* Charts are made of iterations the current test run went through.
LEMMA ChartsListedStep ==
    ASSUME IInv, [Next]_vars
    PROVE  ChartsListed'
<1>1. options' = options
  BY ConfigFixed
<1>2. at \in Nat /\ options.scenarios \in Seq(STRING)
  BY BatchAssumption DEF IInv, Typed
<1>3. ASSUME NEW made, charts' = charts \cup made, at' \in Nat, at' >= at,
             \A c \in made : /\ c.session \in 1..at
                             /\ c.iter \in DOMAIN options.scenarios
                             /\ c.scenario = options.scenarios[c.iter]
      PROVE  ChartsListed'
  BY <1>1, <1>2, <1>3 DEF IInv, ChartsListed
<1>4. ASSUME RunnerFinishes \/ RunnerDies PROVE ChartsListed'
  <2>1. at' = at /\ at \in 1..at
    BY <1>2, <1>4 DEF RunnerFinishes, RunnerDies, IInv, AtACombination, InLoop
  <2>2. ASSUME NEW its, DOMAIN its \subseteq DOMAIN options.scenarios, NEW c \in Charted(its)
        PROVE  /\ c.session \in 1..at
               /\ c.iter \in DOMAIN options.scenarios
               /\ c.scenario = options.scenarios[c.iter]
    BY <2>1, <2>2 DEF Charted
  <2>3. CASE RunnerFinishes
    <3>1. PICK its \in [DOMAIN options.scenarios -> IterationResults] :
             charts' = charts \cup Charted(its)
      BY <2>3 DEF RunnerFinishes
    <3>2. DOMAIN its \subseteq DOMAIN options.scenarios
      BY <3>1
    <3>. QED BY <1>2, <1>3, <2>1, <2>2, <3>1, <3>2, SMTT(30)
  <2>4. CASE RunnerDies
    <3>1. CASE charts' = charts
      <4>1. charts' = charts \cup {}
        BY <3>1
      <4>. QED BY <1>2, <1>3, <2>1, <4>1
    <3>2. CASE \E n \in 0..(Len(options.scenarios) - 1) :
                  \E its \in [1..n -> IterationResults] : charts' = charts \cup Charted(its)
      <4>1. PICK n \in 0..(Len(options.scenarios) - 1) :
               \E its \in [1..n -> IterationResults] : charts' = charts \cup Charted(its)
        BY <3>2
      <4>2. PICK its \in [1..n -> IterationResults] : charts' = charts \cup Charted(its)
        BY <4>1
      <4>3. DOMAIN its \subseteq DOMAIN options.scenarios
        BY <1>2
      <4>. QED BY <1>2, <1>3, <2>1, <2>2, <4>2, <4>3
    <3>3. \/ charts' = charts
          \/ \E n \in 0..(Len(options.scenarios) - 1) :
                \E its \in [1..n -> IterationResults] : charts' = charts \cup Charted(its)
      BY <2>4, Zenon DEF RunnerDies, disk
    <3>. QED BY <3>1, <3>2, <3>3
  <2>. QED BY <1>4, <2>3, <2>4
<1>5. ASSUME ~(RunnerFinishes \/ RunnerDies) PROVE ChartsListed'
  <2>1. charts' = charts /\ (at' = at \/ at' = at + 1)
    BY <1>5, Zenon DEF Next, vars, disk, Preflight, PreflightFails, NextCombo, Skip, DownStale, Up,
       UpFails, BootstrapReady, BootstrapTimeout, Collect, TearDown,
       NoCleanup, Cleanup, CleanupAborts, Verdict, ClientRegisters, TsdbGone
  <2>2. at' \in Nat /\ at' >= at
    BY <1>2, <2>1
  <2>. QED BY <1>1, <1>2, <2>1, <2>2 DEF IInv, ChartsListed
<1>. QED BY <1>4, <1>5

-----------------------------------------------------------------------------
(* The theorems. *)

\* The script starts with what earlier batches left.
LEMMA InitInv == Init => IInv
<1> SUFFICES ASSUME Init PROVE IInv
  OBVIOUS
<1>1. Total \in Nat
  BY RunDirsType
<1>2. Typed
  BY <1>1 DEF Init, Typed, Pcs
<1>3. Tables
  BY DEF Init, Tables
<1>4. folders \in [Dirs -> SUBSET (0..at)]
  BY DEF Init, Earlier
<1>5. /\ runs \in Seq(TestRuns) /\ \A i \in DOMAIN runs : runs[i].session <= at
      /\ \A i \in DOMAIN runs :
            runs[i].session = Earlier /\ runs[i].dir \in stale
  <2> DEFINE old(c) == [dir |-> c, scenario |-> options.scenarios[1], session |-> Earlier,
                        iter |-> 1, rows |-> TRUE]
             S == {old(c) : c \in stale}
  <2>1. IsFiniteSet(S)
    <3>1. IsFiniteSet(DOMAIN Registry)
      <4>1. Len(Registry) \in Nat /\ DOMAIN Registry = 1..Len(Registry)
        BY BatchAssumption
      <4>. QED BY <4>1, FS_Interval
    <3>2. IsFiniteSet(Dirs)
      <4> DEFINE f == [i \in DOMAIN Registry |-> Registry[i].dir]
      <4>1. Dirs = {f[i] : i \in DOMAIN Registry}
        BY DEF Dirs
      <4>2. DOMAIN f = DOMAIN Registry
        OBVIOUS
      <4> HIDE DEF f
      <4>. QED BY <3>1, <4>1, <4>2, FiniteImage
    <3>3. IsFiniteSet(stale)
      BY <3>2, FS_Subset DEF Init
    <3> DEFINE f == [c \in stale |-> old(c)]
    <3>4. S = {f[c] : c \in stale}
      OBVIOUS
    <3>5. DOMAIN f = stale
      OBVIOUS
    <3> HIDE DEF f, S
    <3>. QED BY <3>3, <3>4, <3>5, FiniteImage
  <2>2. /\ S \subseteq TestRuns
        /\ \A r \in S : r.session = Earlier /\ r.dir \in stale
    <3>1. stale \subseteq Dirs /\ options.scenarios[1] \in STRING \cup {l[1] : l \in ScenarioLists}
      BY DEF Init
    <3>2. ASSUME NEW c \in stale PROVE old(c) \in TestRuns
      BY <3>1 DEF TestRuns, Earlier
    <3>. QED BY <3>2
  <2>3. runs = SetToSeq(S)
    BY DEF Init
  <2> HIDE DEF S
  <2>4. Cardinality(S) \in Nat /\ runs \in [1..Cardinality(S) -> S]
    BY <2>1, <2>3, SetToSeqType
  <2>5. runs \in Seq(TestRuns)
    BY <2>2, <2>4
  <2>6. \A i \in DOMAIN runs :
           runs[i].session = Earlier /\ runs[i].dir \in stale
    BY <2>2, <2>4
  <2>. QED BY <2>5, <2>6 DEF Init, Earlier
<1>6. AtACombination
  BY DEF Init, AtACombination, InLoop
<1>7. StacksAccounted
  BY DEF Init, StacksAccounted
<1>8. SessionsAreOwn
  BY DEF Init, SessionsAreOwn
<1>9. Listed
  BY DEF Init, Listed
<1>10. Historied /\ ChartsListed
  BY <1>5 DEF Init, Historied, Drivers, ChartsListed
<1>. QED BY <1>2, <1>3, <1>4, <1>5, <1>6, <1>7, <1>8, <1>9, <1>10 DEF IInv, NothingFromLater

\* The inductive invariant holds in every state of every batch.
THEOREM Invariance == Spec => []IInv
<1>1. IInv /\ [Next]_vars => IInv'
  <2> SUFFICES ASSUME IInv, [Next]_vars PROVE IInv'
    OBVIOUS
  <2>1. Typed'
    BY TypedStep DEF IInv
  <2>2. Tables' /\ NothingFromLater' /\ AtACombination'
    BY TablesStep, NothingFromLaterStep, AtACombinationStep
  <2>3. StacksAccounted' /\ SessionsAreOwn'
    BY StacksStep, SessionsStep
  <2>4. Listed' /\ Historied' /\ ChartsListed'
    BY ListedStep, HistoriedStep, ChartsListedStep
  <2>. QED BY <2>1, <2>2, <2>3, <2>4 DEF IInv
<1>. QED BY InitInv, <1>1, PTL DEF Spec

\* Every variable has its type, for any registry.
THEOREM TypeCorrect == Spec => []TypeOK
<1>1. IInv => TypeOK
  <2> SUFFICES ASSUME IInv PROVE TypeOK
    OBVIOUS
  <2>1. Total \in Nat /\ at \in Nat /\ at <= Total
    BY RunDirsType DEF IInv, Typed
  <2>2. at \in 0..Total /\ folders \in [Dirs -> SUBSET (0..Total)]
    BY <2>1 DEF IInv, NothingFromLater
  <2>3. \A i \in DOMAIN statuses : statuses[i] \in Statuses
    BY DEF IInv, Tables
  <2>4. ASSUME NEW i \in DOMAIN sessions PROVE sessions[i] \subseteq 0..i
    <3>1. sessions[i] \subseteq Nat /\ i \in Nat /\ \A s \in sessions[i] : s <= i
      BY DEF IInv, Tables
    <3>. QED BY <3>1
  <2>5. ASSUME NEW i \in DOMAIN csv PROVE csv[i].dir \in Dirs
    <3>1. csv[i] \in CsvRows
      BY DEF IInv, Tables
    <3>. QED BY <3>1 DEF CsvRows
  <2>6. ASSUME NEW i \in DOMAIN runs PROVE runs[i].dir \in Dirs /\ runs[i].session \in 0..at
    <3>1. runs[i] \in TestRuns /\ runs[i].session <= at
      BY DEF IInv, NothingFromLater
    <3>. QED BY <2>1, <3>1 DEF TestRuns
  <2>7. /\ options.filter \in Filters /\ options.skip \in Skips
        /\ options.scenarios \in ScenarioLists /\ stale \subseteq Dirs
        /\ pc \in Pcs /\ stacks \subseteq Dirs /\ broken \subseteq Dirs
        /\ tsdb \in BOOLEAN /\ exitCode \in {0, 1}
    BY DEF IInv, Typed
  <2>8. \A i \in DOMAIN output : output[i].iter = i
    BY DEF IInv, Tables
  <2>9. \A c \in charts : c.session \in 1..at
    BY DEF IInv, ChartsListed
  <2>. QED BY <2>2, <2>3, <2>4, <2>5, <2>6, <2>7, <2>8, <2>9 DEF TypeOK
<1>. QED BY Invariance, <1>1, PTL

\* What runs next to a combination that is being measured was left there by an
\* earlier batch or by a compose command that failed.
THEOREM StacksAreAccounted == Spec => []StacksAccounted
<1>1. IInv => StacksAccounted
  BY DEF IInv
<1>. QED BY Invariance, <1>1, PTL

\* A row of results.csv, and a combination that passed, come with the session
\* their own test run made.
THEOREM SessionsBelong == Spec => []SessionsAreOwn
<1>1. IInv => SessionsAreOwn
  BY DEF IInv
<1>. QED BY Invariance, <1>1, PTL

-----------------------------------------------------------------------------
(* The reports. *)

\* A selection of runs is a finite set of numbers, and a run that comes later in it is
\* of higher rank; there is one run of each rank.
LEMMA Ranks ==
    ASSUME IInv, NEW P \in SUBSET DOMAIN runs
    PROVE  /\ P \in SUBSET Nat /\ IsFiniteSet(P)
           /\ \A k \in P : Rank(P, k) \in Nat
           /\ \A j, k \in P : j < k => Rank(P, j) < Rank(P, k)
           /\ \A j, k \in P : Rank(P, j) = Rank(P, k) => j = k
<1>1. Len(runs) \in Nat /\ DOMAIN runs = 1..Len(runs)
  BY DEF IInv, NothingFromLater
<1>2. P \in SUBSET Nat /\ IsFiniteSet(P)
  <2>1. P \in SUBSET (1..Len(runs)) /\ IsFiniteSet(1..Len(runs))
    BY <1>1, FS_Interval
  <2>2. IsFiniteSet(P)
    BY <2>1, FS_Subset
  <2>. QED BY <1>1, <2>2
<1>3. ASSUME NEW j \in P, NEW k \in P
      PROVE  Rank(P, j) \in Nat /\ (j < k => Rank(P, j) < Rank(P, k))
  BY <1>2, LaterCountsMore DEF Rank
<1>4. ASSUME NEW j \in P, NEW k \in P, Rank(P, j) = Rank(P, k) PROVE j = k
  <2>1. j \in Nat /\ k \in Nat /\ Rank(P, j) \in Nat
    BY <1>2, <1>3
  <2>2. ~(j < k) /\ ~(k < j)
    BY <1>3, <1>4, <2>1
  <2>. QED BY <2>1, <2>2
<1>. QED BY <1>2, <1>3, <1>4

\* The rows of a scenario list its iterations from the first one on.
Iterations(scenario) == {i \in DOMAIN options.scenarios : options.scenarios[i] = scenario}

IterationsUpTo(scenario, c) == {i \in Iterations(scenario) : i <= c}

\* So the place of a row among those of its scenario is that of its iteration.
LEMMA RowsAreIterations ==
    ASSUME IInv, NEW r \in DOMAIN csv
    PROVE  /\ csv[r].iter \in Iterations(csv[r].scenario)
           /\ IsFiniteSet(RowsUpTo(r))
           /\ {csv[q].iter : q \in RowsUpTo(r)} = IterationsUpTo(csv[r].scenario, csv[r].iter)
           /\ Cardinality(RowsUpTo(r)) = Cardinality(IterationsUpTo(csv[r].scenario, csv[r].iter))
<1>1. Len(csv) \in Nat /\ DOMAIN csv = 1..Len(csv) /\ \A q \in DOMAIN csv : csv[q].iter \in Nat
  <2>1. csv \in Seq(CsvRows)
    BY DEF IInv, Tables
  <2>2. \A q \in DOMAIN csv : csv[q] \in CsvRows
    BY <2>1
  <2>3. \A q \in DOMAIN csv : csv[q].iter \in Nat
    BY <2>2 DEF CsvRows
  <2>. QED BY <2>1, <2>3
<1>2. /\ options.scenarios \in Seq(STRING)
      /\ \A i \in DOMAIN options.scenarios : i \in Nat /\ i >= 1
  BY BatchAssumption DEF IInv, Typed
<1>3. /\ \A q \in DOMAIN csv :
            /\ csv[q].iter \in DOMAIN options.scenarios
            /\ csv[q].scenario = options.scenarios[csv[q].iter]
            /\ \A i \in 1..csv[q].iter :
                  \E p \in DOMAIN csv : p <= q /\ csv[p].dir = csv[q].dir /\ csv[p].iter = i
      /\ \A q, p \in DOMAIN csv : q < p /\ csv[q].dir = csv[p].dir => csv[q].iter < csv[p].iter
  BY DEF IInv, Listed
<1>4. csv[r].iter \in Iterations(csv[r].scenario)
  BY <1>3 DEF Iterations
<1>5. /\ IsFiniteSet(RowsUpTo(r))
      /\ \A q \in RowsUpTo(r) : /\ q \in DOMAIN csv /\ q \in Nat /\ q <= r
                                /\ csv[q].dir = csv[r].dir /\ csv[q].scenario = csv[r].scenario
  <2>0. r \in Nat /\ RowsUpTo(r) \in SUBSET (1..r)
    BY <1>1 DEF RowsUpTo
  <2>1. RowsUpTo(r) \in SUBSET (1..r) /\ IsFiniteSet(1..r) /\ r \in Nat
    BY <2>0, FS_Interval
  <2>2. IsFiniteSet(RowsUpTo(r))
    BY <2>1, FS_Subset
  <2>. QED BY <1>1, <2>1, <2>2 DEF RowsUpTo
<1>6. ASSUME NEW q \in RowsUpTo(r)
      PROVE  csv[q].iter \in IterationsUpTo(csv[r].scenario, csv[r].iter)
  <2>1. q \in DOMAIN csv /\ q <= r /\ csv[q].dir = csv[r].dir /\ csv[q].scenario = csv[r].scenario
    BY <1>5
  <2>2. csv[q].iter <= csv[r].iter
    <3>1. CASE q = r
      BY <1>1, <3>1
    <3>2. CASE q < r
      <4>1. csv[q].iter < csv[r].iter
        BY <1>3, <2>1, <3>2
      <4>. QED BY <1>1, <2>1, <4>1
    <3>. QED BY <1>1, <2>1, <3>1, <3>2
  <2>. QED BY <1>3, <2>1, <2>2 DEF IterationsUpTo, Iterations
<1>7. ASSUME NEW i \in IterationsUpTo(csv[r].scenario, csv[r].iter)
      PROVE  \E q \in RowsUpTo(r) : csv[q].iter = i
  <2>1. i \in 1..csv[r].iter /\ options.scenarios[i] = csv[r].scenario
    BY <1>1, <1>2 DEF IterationsUpTo, Iterations
  <2>2. PICK q \in DOMAIN csv : q <= r /\ csv[q].dir = csv[r].dir /\ csv[q].iter = i
    BY <1>3, <2>1
  <2>3. q \in RowsUpTo(r)
    BY <1>1, <1>3, <2>1, <2>2 DEF RowsUpTo
  <2>. QED BY <2>2, <2>3
<1>8. \A p, q \in RowsUpTo(r) : csv[p].iter = csv[q].iter => p = q
  <2> SUFFICES ASSUME NEW p \in RowsUpTo(r), NEW q \in RowsUpTo(r), csv[p].iter = csv[q].iter
               PROVE  p = q
    OBVIOUS
  <2>1. /\ p \in DOMAIN csv /\ p \in Nat /\ q \in DOMAIN csv /\ q \in Nat
        /\ csv[p].dir = csv[q].dir /\ csv[p].iter \in Nat
    BY <1>1, <1>5
  <2>2. ~(p < q) /\ ~(q < p)
    BY <1>3, <2>1
  <2>. QED BY <2>1, <2>2
<1>9. {csv[q].iter : q \in RowsUpTo(r)} = IterationsUpTo(csv[r].scenario, csv[r].iter)
  BY <1>6, <1>7
<1>10. Cardinality({csv[q].iter : q \in RowsUpTo(r)}) = Cardinality(RowsUpTo(r))
  <2> DEFINE f == [q \in RowsUpTo(r) |-> csv[q].iter]
             T == {csv[q].iter : q \in RowsUpTo(r)}
  <2>1. T = {f[q] : q \in RowsUpTo(r)}
    OBVIOUS
  <2>2. DOMAIN f = RowsUpTo(r) /\ \A x, y \in RowsUpTo(r) : f[x] = f[y] => x = y
    BY <1>8
  <2>3. Cardinality(T) = Cardinality(RowsUpTo(r))
    <3> HIDE DEF f, T
    <3>. QED BY <1>5, <2>1, <2>2, ImageSize
  <2>. QED BY <2>3
<1>. QED BY <1>4, <1>5, <1>9, <1>10

\* In a combination without earlier runs, the runs of a scenario are of one test run, in the
\* order of their iterations.
LEMMA RunsAreIterations ==
    ASSUME IInv, NEW dir, dir \notin stale, NEW scenario, scenario # "unknown"
    PROVE  /\ \A k \in RunsOf(dir, scenario) :
                 runs[k].session # Earlier /\ runs[k].iter \in Iterations(scenario)
           /\ \A j, k \in RunsOf(dir, scenario) : j < k => runs[j].iter < runs[k].iter
<1>1. ASSUME NEW k \in RunsOf(dir, scenario)
      PROVE  /\ runs[k].session # Earlier /\ runs[k].iter \in Iterations(scenario)
             /\ k \in DOMAIN runs /\ runs[k].scenario = scenario
             /\ runs[k].session \in 1..Total /\ RunDirs[runs[k].session] = dir
  <2>1. k \in DOMAIN runs /\ runs[k].dir = dir /\ runs[k].scenario = scenario
    BY DEF RunsOf
  <2>2. runs[k].session # Earlier
    BY <2>1 DEF IInv, Historied
  <2>3. runs[k].dir = RunDirs[runs[k].session] /\ OfAnIteration(runs[k])
    BY <2>1, <2>2 DEF IInv, Historied, Drivers
  <2>4. runs[k].session \in Nat /\ runs[k].session <= at
    <3>1. runs[k] \in TestRuns
      BY <2>1 DEF IInv, NothingFromLater
    <3>. QED BY <2>1, <3>1 DEF IInv, NothingFromLater, TestRuns
  <2>5. at \in Nat /\ at <= Total /\ Total \in Nat
    BY RunDirsType DEF IInv, Typed
  <2>6. runs[k].session \in 1..Total
    BY <2>2, <2>4, <2>5 DEF Earlier
  <2>7. runs[k].iter \in Iterations(scenario)
    BY <2>1, <2>3 DEF OfAnIteration, Iterations
  <2>. QED BY <2>1, <2>2, <2>3, <2>6, <2>7
<1>2. ASSUME NEW j \in RunsOf(dir, scenario), NEW k \in RunsOf(dir, scenario), j < k
      PROVE  runs[j].iter < runs[k].iter
  <2>1. runs[j].session = runs[k].session
    BY <1>1, RunDirsDiffer
  <2>2. Follows(runs[j], runs[k])
    BY <1>1, <1>2, <2>1 DEF IInv, Historied
  <2>. QED BY <1>1, <2>2 DEF Follows
<1>. QED BY <1>1, <1>2

\* Beside a row stands a run of its scenario and of its iteration, a later one only
\* when one is missing.
LEMMA RowsWithRuns ==
    ASSUME IInv, NEW r \in DOMAIN csv, csv[r].dir \notin stale,
           NEW k \in RunsOf(csv[r].dir, csv[r].scenario)
    PROVE  LET all  == RunsOf(csv[r].dir, csv[r].scenario)
               rows == Cardinality(RowsUpTo(r))
           IN  /\ Rank(all, k) \in Nat /\ rows \in Nat /\ runs[k].iter \in Nat /\ csv[r].iter \in Nat
               /\ runs[k].iter < csv[r].iter => Rank(all, k) < rows
               /\ {csv[q].iter : q \in RowsUpTo(r)} \subseteq RegisteredIters(csv[r].dir, csv[r].scenario)
                     => /\ runs[k].iter > csv[r].iter => Rank(all, k) > rows
                        /\ runs[k].iter = csv[r].iter => Rank(all, k) = rows
<1> DEFINE dir      == csv[r].dir
           scenario == csv[r].scenario
           all      == RunsOf(dir, scenario)
           I        == Iterations(scenario)
           c        == csv[r].iter
           f        == [j \in all |-> runs[j].iter]
<1>1. all \in SUBSET DOMAIN runs
  BY DEF RunsOf
<1>2. all \in SUBSET Nat /\ IsFiniteSet(all)
  <2> HIDE DEF all
  <2>. QED BY <1>1, Ranks
<1>3. I \in SUBSET Nat /\ IsFiniteSet(I) /\ scenario # "unknown"
  <2>1. options.scenarios \in Seq(STRING) /\ \A i \in DOMAIN options.scenarios : options.scenarios[i] # "unknown"
    BY BatchAssumption DEF IInv, Typed
  <2>2. DOMAIN options.scenarios = 1..Len(options.scenarios) /\ Len(options.scenarios) \in Nat
    BY <2>1
  <2>3. I \in SUBSET (1..Len(options.scenarios)) /\ IsFiniteSet(1..Len(options.scenarios))
    BY <2>2, FS_Interval DEF Iterations
  <2>4. scenario # "unknown"
    BY <2>1 DEF IInv, Listed
  <2>. QED BY <2>2, <2>3, <2>4, FS_Subset
<1>4. c \in I /\ Cardinality(RowsUpTo(r)) = Cardinality({i \in I : i <= c})
      /\ {csv[q].iter : q \in RowsUpTo(r)} = {i \in I : i <= c}
  BY RowsAreIterations DEF IterationsUpTo
<1>5. /\ \A j \in all : runs[j].session # Earlier /\ runs[j].iter \in I
      /\ \A i, j \in all : i < j => runs[i].iter < runs[j].iter
  BY <1>3, RunsAreIterations
<1>6. RegisteredIters(dir, scenario) = {f[j] : j \in all}
  BY <1>5 DEF RegisteredIters
<1>7. k \in all /\ f \in [all -> I] /\ f[k] = runs[k].iter /\ \A i, j \in all : i < j => f[i] < f[j]
  BY <1>5
<1>8. f[k] \in Nat /\ c \in Nat
  BY <1>3, <1>4, <1>7
<1> HIDE DEF I, c, f, all
<1> DEFINE place  == Cardinality(PartUpTo(all, k))
           number == Cardinality(PartUpTo(I, c))
           listed == {csv[q].iter : q \in RowsUpTo(r)}
<1>9. k \in all /\ c \in I /\ IsFiniteSet(all) /\ IsFiniteSet(I) /\ all \in SUBSET Nat
      /\ I \in SUBSET Nat /\ f \in [all -> I]
  BY <1>2, <1>3, <1>4, <1>7
<1>10. /\ place \in Nat /\ number \in Nat
       /\ f[k] < c => place < number
       /\ PartUpTo(I, c) \subseteq ValuesOn(f, all)
             => (f[k] > c => place > number) /\ (f[k] = c => place = number)
  <2>1. \A i, j \in all : i < j => f[i] < f[j]
    BY <1>7
  <2>. QED BY ONLY <1>9, <2>1, Pairing
<1>11. place = Rank(all, k) /\ number = Cardinality(RowsUpTo(r))
  BY <1>4 DEF Rank, PartUpTo
<1>12. /\ listed = PartUpTo(I, c)
       /\ RegisteredIters(dir, scenario) = ValuesOn(f, all)
  BY <1>4, <1>6 DEF PartUpTo, ValuesOn
<1> HIDE DEF place, number, listed
<1>13. /\ Rank(all, k) \in Nat /\ Cardinality(RowsUpTo(r)) \in Nat
       /\ runs[k].iter < c => Rank(all, k) < Cardinality(RowsUpTo(r))
       /\ listed \subseteq RegisteredIters(dir, scenario)
             => /\ runs[k].iter > c => Rank(all, k) > Cardinality(RowsUpTo(r))
                /\ runs[k].iter = c => Rank(all, k) = Cardinality(RowsUpTo(r))
  BY <1>7, <1>10, <1>11, <1>12
<1>14. /\ all = RunsOf(csv[r].dir, csv[r].scenario) /\ c = csv[r].iter
       /\ runs[k].iter \in Nat /\ csv[r].iter \in Nat
  BY <1>7, <1>8 DEF c, all
<1>. QED BY <1>13, <1>14 DEF listed

\* What a row of the batch report is shown with is of its scenario and, with every run there,
\* of its iteration, except that the timeline leaves out the rows without a downtime.
THEOREM RowsMeetTheirRuns == Spec => []BatchReportPairs
<1>1. IInv => BatchReportPairs
  <2> SUFFICES ASSUME IInv, NEW r \in DOMAIN csv, csv[r].dir \notin stale
               PROVE  LET registered == RegisteredIters(csv[r].dir, csv[r].scenario)
                          upTo       == {csv[q].iter : q \in RowsUpTo(r)}
                      IN  /\ \A k \in TableRun(r) :
                                /\ runs[k].scenario = csv[r].scenario
                                /\ runs[k].iter >= csv[r].iter
                                /\ upTo \subseteq registered => runs[k].iter = csv[r].iter
                          /\ csv[r].measured /\ upTo \subseteq registered => \A k \in TimelineRun(r) :
                                /\ runs[k].iter <= csv[r].iter
                                /\ runs[k].iter < csv[r].iter <=> MeasuredUpTo(r) # RowsUpTo(r)
    BY DEF BatchReportPairs
  <2> DEFINE registered == RegisteredIters(csv[r].dir, csv[r].scenario)
             upTo       == {csv[q].iter : q \in RowsUpTo(r)}
             all        == RunsOf(csv[r].dir, csv[r].scenario)
             rows       == Cardinality(RowsUpTo(r))
             c          == csv[r].iter
  <2>1. ASSUME NEW k \in all
        PROVE  /\ Rank(all, k) \in Nat /\ rows \in Nat /\ runs[k].iter \in Nat /\ c \in Nat
               /\ runs[k].iter < c => Rank(all, k) < rows
               /\ upTo \subseteq registered
                     => /\ runs[k].iter > c => Rank(all, k) > rows
                        /\ runs[k].iter = c => Rank(all, k) = rows
               /\ runs[k].scenario = csv[r].scenario
    BY RowsWithRuns DEF RunsOf
  <2>2. IsFiniteSet(RowsUpTo(r)) /\ MeasuredUpTo(r) \in SUBSET RowsUpTo(r)
    BY RowsAreIterations DEF MeasuredUpTo
  <2>3. /\ Cardinality(MeasuredUpTo(r)) <= rows /\ Cardinality(MeasuredUpTo(r)) \in Nat
        /\ Cardinality(MeasuredUpTo(r)) = rows <=> MeasuredUpTo(r) = RowsUpTo(r)
    BY <2>2, PartSize
  <2>4. TableRun(r) = {k \in all : Rank(all, k) = rows}
    BY DEF TableRun, Nth
  <2>5. TimelineRun(r) = {k \in all : Rank(all, k) = Cardinality(MeasuredUpTo(r))}
    BY DEF TimelineRun, Nth
  <2> HIDE DEF registered, upTo, all, rows, c
  <2>6. ASSUME NEW k \in TableRun(r)
        PROVE  /\ runs[k].scenario = csv[r].scenario /\ runs[k].iter >= c
               /\ upTo \subseteq registered => runs[k].iter = c
    BY <2>1, <2>4
  <2>7. ASSUME upTo \subseteq registered, NEW k \in TimelineRun(r)
        PROVE  runs[k].iter <= c /\ (runs[k].iter < c <=> MeasuredUpTo(r) # RowsUpTo(r))
    BY <2>1, <2>3, <2>5, <2>7
  <2>. QED BY <2>6, <2>7 DEF registered, upTo, c
<1>. QED BY Invariance, <1>1, PTL

\* Two lists of runs, one taken from the other, side by side: the n-th is the same run
\* as long as none was left out.
LEMMA SideBySide ==
    ASSUME IInv, NEW all \in SUBSET DOMAIN runs, NEW rows \in SUBSET all, NEW k \in rows
    PROVE  \E j \in all :
              /\ Nth(all, Rank(rows, k)) = {j} /\ j <= k
              /\ j = k <=> \A i \in all : i <= k => i \in rows
<1> DEFINE upTo    == {i \in all : i <= k}
           listed  == {i \in rows : i <= k}
           n       == Rank(rows, k)
<1>1. all \in SUBSET Nat /\ IsFiniteSet(all) /\ k \in all /\ rows \in SUBSET DOMAIN runs
  BY Ranks
<1>2. /\ IsFiniteSet(upTo) /\ Cardinality(all) \in Nat /\ Rank(all, k) \in Nat
      /\ Rank(all, k) <= Cardinality(all)
  <2>1. upTo \in SUBSET all
    OBVIOUS
  <2>2. Rank(all, k) = Cardinality(upTo)
    BY DEF Rank
  <2> HIDE DEF upTo
  <2>. QED BY <1>1, <2>1, <2>2, PartSize
<1>3. n \in Nat /\ n <= Rank(all, k) /\ (n = Rank(all, k) <=> listed = upTo)
  <2>1. listed \in SUBSET upTo
    OBVIOUS
  <2>2. Rank(all, k) = Cardinality(upTo) /\ n = Cardinality(listed)
    BY DEF Rank
  <2> HIDE DEF upTo, listed, n
  <2>. QED BY <1>2, <2>1, <2>2, PartSize
<1>4. n # 0
  <2>1. k \in listed
    BY <1>1
  <2>2. IsFiniteSet(listed) /\ n = Cardinality(listed)
    <3>1. listed \in SUBSET all
      OBVIOUS
    <3>2. n = Cardinality(listed)
      BY DEF Rank
    <3> HIDE DEF listed, n
    <3>. QED BY <1>1, <3>1, <3>2, PartSize
  <2> HIDE DEF listed, n
  <2>. QED BY <2>1, <2>2, FS_EmptySet
<1>5. Len(runs) \in Nat /\ all \in SUBSET (1..Len(runs))
  BY DEF IInv, NothingFromLater
<1>6. PICK j \in all : Rank(all, j) = n
  <2>1. n \in 1..Cardinality(all)
    BY <1>2, <1>3, <1>4
  <2> HIDE DEF n
  <2>. QED BY <1>5, <2>1, KthElement DEF Rank
<1> HIDE DEF n
<1>7. /\ Rank(all, j) \in Nat
      /\ k < j => Rank(all, k) < Rank(all, j)
      /\ \A i \in all : Rank(all, i) = Rank(all, j) => i = j
      /\ j < k => Rank(all, j) < Rank(all, k)
  BY <1>1, Ranks
<1>8. Nth(all, n) = {j}
  BY <1>6, <1>7 DEF Nth
<1>9. j <= k
  BY <1>1, <1>2, <1>3, <1>6, <1>7
<1>10. j = k <=> listed = upTo
  BY <1>1, <1>2, <1>3, <1>6, <1>7
<1>11. listed = upTo <=> \A i \in all : i <= k => i \in rows
  OBVIOUS
<1>. QED BY <1>8, <1>9, <1>10, <1>11 DEF n

\* In the report from the database a row stands beside its own run or, when a run of its
\* scenario before it has no row of the client's, beside an earlier one.
THEOREM RowsMeetRunsOfTheDatabase == Spec => []DbReportPairs
<1>1. IInv => DbReportPairs
  <2> SUFFICES ASSUME IInv, NEW dir \in Dirs, NEW scenario \in ReportScenarios
               PROVE  LET all  == RunsOf(dir, scenario)
                          rows == DbRows(dir, scenario)
                      IN  \A k \in rows : \E j \in all :
                             /\ DbTableRun(dir, scenario, Rank(rows, k)) = {j}
                             /\ j <= k
                             /\ j = k <=> \A i \in all : i <= k => runs[i].rows
    BY DEF DbReportPairs
  <2> DEFINE all  == RunsOf(dir, scenario)
             rows == DbRows(dir, scenario)
  <2>1. /\ all \in SUBSET DOMAIN runs /\ rows \in SUBSET all
        /\ \A i \in all : runs[i].rows <=> i \in rows
        /\ \A n : DbTableRun(dir, scenario, n) = Nth(all, n)
    BY DEF RunsOf, DbRows, DbTableRun
  <2> HIDE DEF all, rows
  <2>2. ASSUME NEW k \in rows
        PROVE  \E j \in all :
                  /\ DbTableRun(dir, scenario, Rank(rows, k)) = {j}
                  /\ j <= k
                  /\ j = k <=> \A i \in all : i <= k => runs[i].rows
    <3>1. PICK j \in all :
             /\ Nth(all, Rank(rows, k)) = {j} /\ j <= k
             /\ j = k <=> \A i \in all : i <= k => i \in rows
      BY <2>1, SideBySide
    <3>. QED BY <2>1, <3>1
  <2>. QED BY <2>2 DEF all, rows
<1>. QED BY Invariance, <1>1, PTL

\* The driver's runs of a session up to one of them, when all are there: as many as iterations.
LEMMA OwnRunsUpTo ==
    ASSUME IInv, NEW s, s # Earlier, NEW shown \in SUBSET DOMAIN runs, NEW k \in shown,
           runs[k].session = s, ~IsClients(k),
           \A i \in 1..runs[k].iter : \E j \in shown :
              j <= k /\ runs[j].session = s /\ ~IsClients(j) /\ runs[j].iter = i
    PROVE  LET own == {j \in shown : j <= k /\ runs[j].session = s /\ ~IsClients(j)}
           IN  Cardinality(own) = runs[k].iter
<1> DEFINE own == {j \in shown : j <= k /\ runs[j].session = s /\ ~IsClients(j)}
           f   == [j \in own |-> runs[j].iter]
           T   == {f[j] : j \in own}
<1>1. shown \in SUBSET Nat /\ IsFiniteSet(own) /\ own \in SUBSET shown /\ k \in own
  <2>1. shown \in SUBSET Nat /\ IsFiniteSet(shown) /\ own \in SUBSET shown
    BY Ranks
  <2>2. k \in own
    BY <2>1
  <2> HIDE DEF own
  <2>. QED BY <2>1, <2>2, PartSize
<1>2. s # Earlier
  OBVIOUS
<1>3. \A j \in own : runs[j].iter \in Nat /\ runs[j].iter >= 1
  <2>1. ASSUME NEW j \in own PROVE runs[j].iter \in DOMAIN options.scenarios
    BY <1>2 DEF IInv, Historied, Drivers, IsClients, OfAnIteration
  <2>2. options.scenarios \in Seq(STRING)
    BY BatchAssumption DEF IInv, Typed
  <2>3. \A i \in DOMAIN options.scenarios : i \in Nat /\ i >= 1
    BY <2>2
  <2>. QED BY <2>1, <2>3
<1>4. ASSUME NEW i \in own, NEW j \in own, i < j PROVE runs[i].iter < runs[j].iter
  <2>1. Follows(runs[i], runs[j])
    BY <1>2, <1>4 DEF IInv, Historied
  <2>. QED BY <2>1 DEF Follows, IsClients
<1>5. \A i, j \in own : f[i] = f[j] => i = j
  <2> SUFFICES ASSUME NEW i \in own, NEW j \in own, f[i] = f[j] PROVE i = j
    OBVIOUS
  <2>1. i \in Nat /\ j \in Nat /\ runs[i].iter = runs[j].iter /\ runs[i].iter \in Nat
    BY <1>1, <1>3
  <2>2. ~(i < j) /\ ~(j < i)
    BY <1>4, <2>1
  <2>. QED BY <2>1, <2>2
<1>6. T = 1..runs[k].iter
  <2>1. ASSUME NEW j \in own PROVE f[j] \in 1..runs[k].iter
    <3>1. j < k \/ j = k
      BY <1>1
    <3>2. runs[j].iter \in Nat /\ runs[j].iter >= 1 /\ runs[k].iter \in Nat
      BY <1>1, <1>3
    <3>3. runs[j].iter <= runs[k].iter
      BY <1>1, <1>4, <3>1, <3>2
    <3>. QED BY <3>2, <3>3
  <2>2. ASSUME NEW i \in 1..runs[k].iter PROVE \E j \in own : f[j] = i
    <3>1. PICK j \in shown : j <= k /\ runs[j].session = s /\ ~IsClients(j) /\ runs[j].iter = i
      OBVIOUS
    <3>. QED BY <3>1
  <2>3. T \subseteq 1..runs[k].iter
    BY <2>1
  <2>4. 1..runs[k].iter \subseteq T
    BY <2>2
  <2>. QED BY <2>3, <2>4
<1>7. Cardinality(T) = Cardinality(own)
  <2>1. DOMAIN f = own
    OBVIOUS
  <2> HIDE DEF f, own
  <2>. QED BY <1>1, <1>5, <2>1, ImageSize
<1>8. runs[k].iter \in Nat
  BY <1>1, <1>3
<1>. QED BY <1>6, <1>7, <1>8, UpToSize

\* Beside a run of the driver the report of a session shows its own charts, or those of a
\* later iteration when other runs stand before it.
THEOREM ChartsMeetTheirRuns == Spec => []SessionReportCharts
<1>1. IInv => SessionReportCharts
  <2> SUFFICES ASSUME IInv, NEW s \in {c.session : c \in charts}, NEW sameDay \in BOOLEAN,
                      NEW k \in RunsOfTheDay(RunDirs[s], sameDay),
                      NEW chart \in ChartsBeside(s, Rank(RunsOfTheDay(RunDirs[s], sameDay), k), runs[k])
               PROVE  LET shown  == RunsOfTheDay(RunDirs[s], sameDay)
                          run    == runs[k]
                          before == {j \in shown : j < k}
                          own(j) == runs[j].session = s /\ ~IsClients(j)
                      IN  /\ ~IsClients(k)
                          /\ run.dir = RunDirs[s]
                          /\ run.session = Earlier => sameDay
                          /\ own(k) /\ (\A i \in 1..run.iter : \E j \in before \cup {k} :
                                           own(j) /\ runs[j].iter = i)
                             => /\ chart.iter >= run.iter
                                /\ chart.iter = run.iter <=> \A j \in before : own(j)
    BY DEF SessionReportCharts
  <2> DEFINE shown  == RunsOfTheDay(RunDirs[s], sameDay)
             before == {j \in shown : j < k}
             mine   == {j \in shown : j <= k /\ runs[j].session = s /\ ~IsClients(j)}
             upTo   == {j \in shown : j <= k}
  <2>0. s # Earlier
    BY DEF IInv, ChartsListed, Earlier
  <2>1. /\ shown \in SUBSET DOMAIN runs /\ k \in shown
        /\ runs[k].dir = RunDirs[s] /\ (runs[k].session = Earlier => sameDay)
    BY DEF RunsOfTheDay
  <2>2. chart.iter = Rank(shown, k) /\ chart.scenario = runs[k].scenario
    BY DEF ChartsBeside
  <2>3. ~IsClients(k)
    <3>1. chart.iter \in DOMAIN options.scenarios /\ chart.scenario = options.scenarios[chart.iter]
      BY DEF ChartsBeside, IInv, ChartsListed
    <3>2. \A i \in DOMAIN options.scenarios : options.scenarios[i] # "unknown"
      BY BatchAssumption DEF IInv, Typed
    <3>3. chart.scenario # "unknown"
      BY <3>1, <3>2
    <3>. QED BY <2>2, <3>3 DEF IsClients
  <2>4. shown \in SUBSET Nat /\ IsFiniteSet(shown) /\ Rank(shown, k) = Cardinality(upTo)
    <3> HIDE DEF shown
    <3>. QED BY <2>1, Ranks DEF Rank
  <2>5. ASSUME runs[k].session = s,
               \A i \in 1..runs[k].iter : \E j \in before \cup {k} :
                  (runs[j].session = s /\ ~IsClients(j)) /\ runs[j].iter = i
        PROVE  /\ chart.iter >= runs[k].iter
               /\ chart.iter = runs[k].iter
                     <=> \A j \in before : runs[j].session = s /\ ~IsClients(j)
    <3> HIDE DEF shown
    <3>1. k \in Nat /\ \A j \in before \cup {k} : j \in shown /\ j <= k
      BY <2>1, <2>4
    <3>2. \A i \in 1..runs[k].iter : \E j \in shown :
             j <= k /\ runs[j].session = s /\ ~IsClients(j) /\ runs[j].iter = i
      BY <2>5, <3>1
    <3>3. Cardinality(mine) = runs[k].iter
      BY <2>0, <2>1, <2>3, <2>5, <3>2, OwnRunsUpTo
    <3>4. mine \in SUBSET upTo /\ upTo \in SUBSET shown
      OBVIOUS
    <3>5. mine = upTo <=> \A j \in before : runs[j].session = s /\ ~IsClients(j)
      <4>1. \A j \in shown : j <= k <=> j \in before \/ j = k
        BY <2>1, <2>4
      <4>. QED BY <2>1, <2>3, <2>5, <4>1
    <3> HIDE DEF mine, upTo, before
    <3>6. IsFiniteSet(upTo)
      BY <2>4, <3>4, PartSize
    <3>7. /\ Cardinality(mine) <= Cardinality(upTo) /\ Cardinality(upTo) \in Nat
          /\ Cardinality(mine) = Cardinality(upTo) <=> mine = upTo
          /\ Cardinality(mine) \in Nat
      BY <3>4, <3>6, PartSize
    <3>. QED BY <2>2, <2>4, <3>3, <3>5, <3>7
  <2>. QED BY <2>1, <2>3, <2>5
<1>. QED BY Invariance, <1>1, PTL
=============================================================================
