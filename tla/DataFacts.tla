------------------------------ MODULE DataFacts ------------------------------
(***************************************************************************)
(* Facts about numbers, finite sets and sequences that several of the      *)
(* proofs need.  Nothing here is about the program.                        *)
(***************************************************************************)
EXTENDS Integers, Sequences, FiniteSets, FiniteSetTheorems, WellFoundedInduction, TLAPS

-----------------------------------------------------------------------------
(* Least and greatest elements. *)

\* A set of natural numbers that is not empty has a least element.
LEMMA LeastElement ==
    ASSUME NEW T \in SUBSET Nat, T # {}
    PROVE  \E x \in T : \A y \in T : x <= y
<1> DEFINE R == OpToRel(<, Nat)
<1>1. IsWellFoundedOn(R, Nat)
  BY NatLessThanWellFounded
<1>2. \A x, y \in Nat : x < y => <<x, y>> \in R
  BY DEF OpToRel
<1> HIDE DEF R
<1>3. PICK x \in T : \A y \in T : ~(<<y, x>> \in R)
  BY <1>1, WFMin
<1>4. ASSUME NEW y \in T PROVE x <= y
  <2>1. ~(y < x)
    BY <1>2, <1>3
  <2>. QED BY <2>1
<1>. QED BY <1>4

\* With a bound, it has a greatest one.
LEMMA GreatestElement ==
    ASSUME NEW n \in Nat, NEW T \in SUBSET (0..n), T # {}
    PROVE  \E x \in T : \A y \in T : y <= x
<1> DEFINE M == {n - y : y \in T}
<1>1. M \in SUBSET Nat
  OBVIOUS
<1>1a. M # {}
  OBVIOUS
<1>2. PICK m \in M : \A k \in M : m <= k
  <2> HIDE DEF M
  <2>. QED BY <1>1, <1>1a, LeastElement
<1>3. PICK x \in T : m = n - x
  BY <1>2
<1>4. \A y \in T : n - x <= n - y
  BY <1>2, <1>3
<1>. QED BY <1>4

\* Counting from the least, every number up to its size counts an element.
LEMMA KthElement ==
    ASSUME NEW n \in Nat, NEW S \in SUBSET (1..n), NEW k \in 1..Cardinality(S)
    PROVE  \E i \in S : Cardinality({j \in S : j <= i}) = k
<1> DEFINE UpTo(m) == {j \in S : j <= m}
           T == {m \in Nat : Cardinality(UpTo(m)) >= k}
<1>1. IsFiniteSet(S) /\ \A m \in Nat : IsFiniteSet(UpTo(m)) /\ Cardinality(UpTo(m)) \in Nat
  <2>1. IsFiniteSet(1..n)
    BY FS_Interval
  <2>2. IsFiniteSet(S)
    BY <2>1, FS_Subset
  <2>3. ASSUME NEW m \in Nat PROVE IsFiniteSet(UpTo(m))
    BY <2>2, FS_Subset
  <2>. QED BY <2>2, <2>3, FS_CardinalityType
<1>2. n \in T
  <2>1. UpTo(n) = S
    <3>1. \A j \in S : j <= n
      OBVIOUS
    <3>. QED BY <3>1
  <2>2. Cardinality(S) \in Nat
    BY <1>1, FS_CardinalityType
  <2>. QED BY <2>1, <2>2
<1>3. PICK m \in T : \A x \in T : m <= x
  <2>1. T \in SUBSET Nat /\ T # {}
    BY <1>2
  <2> HIDE DEF T
  <2>. QED BY <2>1, LeastElement
<1>4. m \in Nat /\ Cardinality(UpTo(m)) >= k
  BY <1>3
<1>5. m # 0
  <2>1. UpTo(0) = {}
    <3>1. \A j \in S : ~(j <= 0)
      OBVIOUS
    <3>. QED BY <3>1
  <2>2. Cardinality(UpTo(0)) = 0
    BY <2>1, FS_EmptySet
  <2>. QED BY <1>4, <2>2
<1>6. Cardinality(UpTo(m - 1)) < k
  <2>1. m - 1 \in Nat /\ ~(m <= m - 1)
    BY <1>4, <1>5
  <2>2. ~(Cardinality(UpTo(m - 1)) >= k)
    BY <1>3, <2>1
  <2>3. Cardinality(UpTo(m - 1)) \in Nat
    BY <1>1, <2>1
  <2> HIDE DEF UpTo
  <2>. QED BY <2>2, <2>3
<1>7. m \in S
  <2>1. ASSUME m \notin S PROVE FALSE
    <3>1. UpTo(m) = UpTo(m - 1)
      <4>1. \A j \in S : j <= m <=> j <= m - 1
        BY <1>4, <2>1
      <4>. QED BY <4>1
    <3>2. Cardinality(UpTo(m)) \in Nat
      BY <1>1, <1>4
    <3> HIDE DEF UpTo
    <3>. QED BY <1>4, <1>6, <3>1, <3>2
  <2>. QED BY <2>1
<1>8. Cardinality(UpTo(m)) = Cardinality(UpTo(m - 1)) + 1
  <2>1. UpTo(m) = UpTo(m - 1) \cup {m}
    <3>1. \A j \in S : j <= m <=> j <= m - 1 \/ j = m
      BY <1>4
    <3>2. m <= m
      BY <1>4
    <3>. QED BY <1>7, <3>1, <3>2
  <2>2. m \notin UpTo(m - 1)
    BY <1>4
  <2>3. m - 1 \in Nat
    BY <1>4, <1>5
  <2>4. IsFiniteSet(UpTo(m - 1))
    BY <1>1, <2>3
  <2> HIDE DEF UpTo
  <2>. QED BY <2>1, <2>2, <2>4, FS_AddElement
<1>9. Cardinality(UpTo(m)) \in Nat /\ Cardinality(UpTo(m - 1)) \in Nat
  <2>1. m - 1 \in Nat
    BY <1>4, <1>5
  <2>. QED BY <1>1, <1>4, <2>1
<1>10. Cardinality(UpTo(m)) = k
  <2> HIDE DEF UpTo
  <2>. QED BY <1>4, <1>6, <1>8, <1>9
<1>. QED BY <1>7, <1>10

\* The size of an initial interval.
LEMMA UpToSize ==
    ASSUME NEW n \in Nat
    PROVE  IsFiniteSet(1..n) /\ Cardinality(1..n) = n
<1>1. IsFiniteSet(1..n)
  BY FS_Interval
<1>2. Cardinality(1..n) = IF 1 > n THEN 0 ELSE n - 1 + 1
  BY FS_Interval
<1>3. (IF 1 > n THEN 0 ELSE n - 1 + 1) = n
  OBVIOUS
<1>. QED BY <1>1, <1>2, <1>3

\* A quotient is no larger than what is divided.
LEMMA QuotientBound ==
    ASSUME NEW x \in Nat, NEW n \in Nat \ {0}
    PROVE  x \div n \in Nat /\ x \div n <= x
<1> DEFINE q == x \div n
           r == x % n
<1>1. q \in Int /\ r \in Int /\ x = n * q + r /\ 0 <= r /\ r < n
  OBVIOUS
<1>2. q >= 0
  <2> HIDE DEF q, r
  <2>1. ASSUME q <= 0 - 1 PROVE FALSE
    <3>1. n * q <= 0 - n
      BY <1>1, <2>1
    <3>. QED BY <1>1, <3>1
  <2>. QED BY <1>1, <2>1
<1>3. q <= x
  <2> HIDE DEF q, r
  <2>1. q <= n * q
    BY <1>1, <1>2
  <2>. QED BY <1>1, <2>1
<1>. QED BY <1>1, <1>2, <1>3

\* The values of a function on a finite set.
LEMMA FiniteImage ==
    ASSUME NEW S, IsFiniteSet(S), NEW f, DOMAIN f = S
    PROVE  IsFiniteSet({f[x] : x \in S})
<1> DEFINE T == {f[x] : x \in S}
           g == [x \in S |-> f[x]]
<1>1. g \in Surjection(S, T)
  BY DEF Surjection
<1>. QED BY <1>1, FS_Surjection

-----------------------------------------------------------------------------
(* Sequences. *)

\* One element more.
LEMMA AppendShape ==
    ASSUME NEW S, NEW s \in Seq(S), NEW e \in S
    PROVE  /\ Append(s, e) \in Seq(S)
           /\ Len(Append(s, e)) = Len(s) + 1
           /\ Append(s, e)[Len(s) + 1] = e
           /\ \A i \in DOMAIN s : i \in DOMAIN Append(s, e) /\ Append(s, e)[i] = s[i]
           /\ \A i \in DOMAIN Append(s, e) : i \in DOMAIN s \/ i = Len(s) + 1
           /\ Len(s) + 1 \in DOMAIN Append(s, e)
  OBVIOUS
-----------------------------------------------------------------------------
(* Counting. *)

\* A part of a finite set is smaller, or the whole.
LEMMA PartSize ==
    ASSUME NEW S, IsFiniteSet(S), NEW T \in SUBSET S
    PROVE  /\ IsFiniteSet(T) /\ Cardinality(S) \in Nat /\ Cardinality(T) \in Nat
           /\ Cardinality(T) <= Cardinality(S)
           /\ Cardinality(T) = Cardinality(S) <=> T = S
<1>1. IsFiniteSet(T) /\ Cardinality(T) <= Cardinality(S)
      /\ (Cardinality(S) = Cardinality(T) => S = T)
  BY FS_Subset
<1>2. Cardinality(S) \in Nat /\ Cardinality(T) \in Nat
  BY <1>1, FS_CardinalityType
<1>. QED BY <1>1, <1>2

\* There are as many values as arguments when no two arguments share one.
LEMMA ImageSize ==
    ASSUME NEW S, IsFiniteSet(S), NEW f, DOMAIN f = S, \A x, y \in S : f[x] = f[y] => x = y
    PROVE  /\ IsFiniteSet({f[x] : x \in S})
           /\ Cardinality({f[x] : x \in S}) = Cardinality(S)
<1> DEFINE T == {f[x] : x \in S}
           g == [x \in S |-> f[x]]
<1>1. g \in Surjection(S, T)
  BY DEF Surjection
<1>2. g \in Injection(S, T)
  BY DEF Injection, IsInjective
<1>. QED BY <1>1, <1>2, FS_Surjection

\* Later elements of a finite set of numbers have more of them up to themselves.
LEMMA LaterCountsMore ==
    ASSUME NEW S \in SUBSET Nat, IsFiniteSet(S), NEW j \in S, NEW k \in S
    PROVE  /\ Cardinality({i \in S : i <= j}) \in Nat
           /\ j < k => Cardinality({i \in S : i <= j}) < Cardinality({i \in S : i <= k})
<1> DEFINE below == {i \in S : i <= j}
           upTo  == {i \in S : i <= k}
<1>1. IsFiniteSet(upTo) /\ IsFiniteSet(below) /\ Cardinality(below) \in Nat
  <2>1. upTo \in SUBSET S /\ below \in SUBSET S
    OBVIOUS
  <2> HIDE DEF below, upTo
  <2>. QED BY <2>1, PartSize
<1>2. ASSUME j < k PROVE below \in SUBSET upTo /\ below # upTo
  <2>1. ASSUME NEW i \in below PROVE i \in upTo
    BY <1>2
  <2>2. k \in upTo /\ k \notin below
    BY <1>2
  <2>. QED BY <2>1, <2>2
<1>3. ASSUME j < k PROVE Cardinality(below) < Cardinality(upTo)
  <2> HIDE DEF below, upTo
  <2>1. /\ Cardinality(upTo) \in Nat /\ Cardinality(below) <= Cardinality(upTo)
        /\ Cardinality(below) = Cardinality(upTo) <=> below = upTo
    BY <1>1, <1>2, <1>3, PartSize
  <2>. QED BY <1>1, <1>2, <1>3, <2>1
<1>. QED BY <1>1, <1>3

\* The numbers of a set up to one of them, and what a function gives on a set.
PartUpTo(S, n) == {j \in S : j <= n}

ValuesOn(f, S) == {f[j] : j \in S}

\* Increasing numbers f, given to some places, out of the numbers in I: how many places
\* there are up to k, and how many numbers in I up to c.
LEMMA Pairing ==
    ASSUME NEW S \in SUBSET Nat, IsFiniteSet(S), NEW I \in SUBSET Nat, IsFiniteSet(I),
           NEW f \in [S -> I], \A i, j \in S : i < j => f[i] < f[j],
           NEW k \in S, NEW c \in I
    PROVE  LET place  == Cardinality(PartUpTo(S, k))
               number == Cardinality(PartUpTo(I, c))
           IN  /\ place \in Nat /\ number \in Nat
               /\ f[k] < c => place < number
               /\ PartUpTo(I, c) \subseteq ValuesOn(f, S)
                     => (f[k] > c => place > number) /\ (f[k] = c => place = number)
<1> DEFINE places    == {j \in S : j <= k}
           given     == {f[j] : j \in places}
           numbers   == {i \in I : i <= c}
           upToOwn   == {i \in I : i <= f[k]}
<1>1. /\ IsFiniteSet(places) /\ IsFiniteSet(numbers) /\ IsFiniteSet(upToOwn)
      /\ Cardinality(places) \in Nat /\ Cardinality(numbers) \in Nat
  <2>1. places \in SUBSET S /\ numbers \in SUBSET I /\ upToOwn \in SUBSET I
    OBVIOUS
  <2> HIDE DEF places, numbers, upToOwn
  <2>. QED BY <2>1, PartSize
<1>2. f[k] \in I /\ f[k] \in Nat /\ c \in Nat /\ k \in Nat
  OBVIOUS
<1>3. \A i, j \in S : f[i] = f[j] => i = j
  <2> SUFFICES ASSUME NEW i \in S, NEW j \in S, f[i] = f[j] PROVE i = j
    OBVIOUS
  <2>1. i \in Nat /\ j \in Nat /\ f[i] \in Nat
    OBVIOUS
  <2>2. ~(i < j) /\ ~(j < i)
    BY <2>1
  <2>. QED BY <2>1, <2>2
<1>4. Cardinality(given) = Cardinality(places) /\ IsFiniteSet(given)
  <2> DEFINE g == [j \in places |-> f[j]]
  <2>1. given = {g[j] : j \in places}
    OBVIOUS
  <2>2. DOMAIN g = places /\ \A x, y \in places : g[x] = g[y] => x = y
    BY <1>3
  <2> HIDE DEF g, given, places
  <2>. QED BY <1>1, <2>1, <2>2, ImageSize
<1>5. given \in SUBSET upToOwn
  <2> SUFFICES ASSUME NEW j \in places PROVE f[j] \in I /\ f[j] <= f[k]
    OBVIOUS
  <2>1. j \in S /\ j <= k /\ j \in Nat /\ f[j] \in Nat
    OBVIOUS
  <2>2. j < k \/ j = k
    BY <1>2, <2>1
  <2>3. j < k => f[j] < f[k]
    BY <2>1
  <2>. QED BY <1>2, <2>1, <2>2, <2>3
<1>6. /\ Cardinality(upToOwn) \in Nat /\ Cardinality(places) <= Cardinality(upToOwn)
  <2> HIDE DEF given, upToOwn, places
  <2>. QED BY <1>1, <1>4, <1>5, PartSize
<1>7. ASSUME f[k] < c PROVE Cardinality(places) < Cardinality(numbers)
  <2>1. upToOwn \in SUBSET numbers /\ upToOwn # numbers
    <3>1. ASSUME NEW i \in upToOwn PROVE i \in numbers
      BY <1>2, <1>7
    <3>2. c \in numbers /\ c \notin upToOwn
      BY <1>2, <1>7
    <3>. QED BY <3>1, <3>2
  <2> HIDE DEF upToOwn, numbers, places
  <2>2. /\ Cardinality(upToOwn) <= Cardinality(numbers)
        /\ Cardinality(upToOwn) = Cardinality(numbers) <=> upToOwn = numbers
    BY <1>1, <2>1, PartSize
  <2>. QED BY <1>1, <1>6, <2>1, <2>2
<1>8. ASSUME numbers \subseteq {f[j] : j \in S}, f[k] >= c
      PROVE  numbers \in SUBSET given
  <2> SUFFICES ASSUME NEW i \in numbers PROVE i \in given
    OBVIOUS
  <2>1. PICK j \in S : i = f[j]
    BY <1>8
  <2>2. i <= c /\ i \in Nat /\ j \in Nat
    BY <2>1
  <2>3. ~(k < j)
    BY <1>2, <1>8, <2>1, <2>2
  <2>4. j <= k
    BY <1>2, <2>2, <2>3
  <2>. QED BY <2>1, <2>4
<1>9. ASSUME numbers \subseteq {f[j] : j \in S}, f[k] > c
      PROVE  Cardinality(places) > Cardinality(numbers)
  <2>1. numbers \in SUBSET given
    <3>1. f[k] >= c
      BY <1>2, <1>9
    <3>. QED BY <1>8, <1>9, <3>1
  <2>2. numbers # given
    <3>1. f[k] \in given
      BY <1>2
    <3>2. f[k] \notin numbers
      BY <1>2, <1>9
    <3>. QED BY <3>1, <3>2
  <2> HIDE DEF given, numbers, places
  <2>3. /\ Cardinality(numbers) <= Cardinality(given)
        /\ Cardinality(numbers) = Cardinality(given) <=> numbers = given
    BY <1>4, <2>1, PartSize
  <2>. QED BY <1>1, <1>4, <2>2, <2>3
<1>10. ASSUME numbers \subseteq {f[j] : j \in S}, f[k] = c
       PROVE  Cardinality(places) = Cardinality(numbers)
  <2>1. numbers \in SUBSET given
    <3>1. f[k] >= c
      BY <1>2, <1>10
    <3>. QED BY <1>8, <1>10, <3>1
  <2>2. upToOwn = numbers
    BY <1>10
  <2> HIDE DEF given, numbers, places, upToOwn
  <2>3. Cardinality(numbers) <= Cardinality(given)
    BY <1>4, <2>1, PartSize
  <2>. QED BY <1>1, <1>4, <1>6, <2>2, <2>3
<1>11. /\ places = PartUpTo(S, k) /\ numbers = PartUpTo(I, c)
       /\ {f[j] : j \in S} = ValuesOn(f, S)
  BY DEF PartUpTo, ValuesOn
<1> HIDE DEF places, numbers
<1>. QED BY <1>1, <1>7, <1>9, <1>10, <1>11
=============================================================================
