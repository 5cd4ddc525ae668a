---------------------------- MODULE EmitterProofs ----------------------------
(***************************************************************************)
(* Theorems about module Emitter, for every batch size, every number of    *)
(* events and every number of failed flushes.                              *)
(***************************************************************************)
EXTENDS Emitter, TLAPS

-----------------------------------------------------------------------------
(* Elements of sequences. *)

\* Appending an element adds it to the range.
LEMMA RangeAppend ==
    ASSUME NEW S, NEW s \in Seq(S), NEW e \in S
    PROVE  Range(Append(s, e)) = Range(s) \cup {e}
<1> DEFINE a == Append(s, e)
<1>1. /\ DOMAIN a = 1..(Len(s) + 1)
      /\ \A i \in 1..Len(s) : a[i] = s[i]
      /\ a[Len(s) + 1] = e
      /\ DOMAIN s = 1..Len(s)
      /\ Len(s) \in Nat
  OBVIOUS
<1>2. ASSUME NEW x \in Range(a) PROVE x \in Range(s) \cup {e}
  <2>1. PICK i \in DOMAIN a : x = a[i]  BY <1>2 DEF Range
  <2>2. i \in 1..Len(s) \/ i = Len(s) + 1  BY <1>1, <2>1
  <2>. QED  BY <1>1, <2>1, <2>2 DEF Range
<1>3. ASSUME NEW x \in Range(s) PROVE x \in Range(a)
  <2>1. PICK i \in DOMAIN s : x = s[i]  BY <1>3 DEF Range
  <2>2. i \in DOMAIN a /\ a[i] = x  BY <1>1, <2>1
  <2>. QED  BY <2>2 DEF Range
<1>4. e \in Range(a)
  <2>1. Len(s) + 1 \in DOMAIN a  BY <1>1
  <2>. QED  BY <1>1, <2>1 DEF Range
<1>. QED  BY <1>2, <1>3, <1>4

\* The range of a concatenation is the union of the ranges.
LEMMA RangeConcat ==
    ASSUME NEW S, NEW s \in Seq(S), NEW t \in Seq(S)
    PROVE  Range(s \o t) = Range(s) \cup Range(t)
<1> DEFINE c == s \o t
<1>1. /\ DOMAIN c = 1..(Len(s) + Len(t))
      /\ \A i \in 1..Len(s) : c[i] = s[i]
      /\ \A i \in 1..Len(t) : c[Len(s) + i] = t[i]
      /\ DOMAIN s = 1..Len(s)  /\ Len(s) \in Nat
      /\ DOMAIN t = 1..Len(t)  /\ Len(t) \in Nat
  OBVIOUS
<1>2. ASSUME NEW x \in Range(c) PROVE x \in Range(s) \cup Range(t)
  <2>1. PICK i \in DOMAIN c : x = c[i]  BY <1>2 DEF Range
  <2>2. CASE i \in 1..Len(s)
    BY <1>1, <2>1, <2>2 DEF Range
  <2>3. CASE i \notin 1..Len(s)
    <3>1. i - Len(s) \in 1..Len(t) /\ i = Len(s) + (i - Len(s))
      BY <1>1, <2>1, <2>3
    <3>2. x = t[i - Len(s)]  BY <1>1, <2>1, <3>1
    <3>. QED  BY <1>1, <3>1, <3>2 DEF Range
  <2>. QED  BY <2>2, <2>3
<1>3. ASSUME NEW x \in Range(s) PROVE x \in Range(c)
  <2>1. PICK i \in DOMAIN s : x = s[i]  BY <1>3 DEF Range
  <2>2. i \in DOMAIN c /\ c[i] = x  BY <1>1, <2>1
  <2>. QED  BY <2>2 DEF Range
<1>4. ASSUME NEW x \in Range(t) PROVE x \in Range(c)
  <2>1. PICK i \in DOMAIN t : x = t[i]  BY <1>4 DEF Range
  <2>2. Len(s) + i \in DOMAIN c /\ c[Len(s) + i] = x  BY <1>1, <2>1
  <2>. QED  BY <2>2 DEF Range
<1>. QED  BY <1>2, <1>3, <1>4

\* The empty sequence has no elements.
LEMMA RangeEmpty == Range(<<>>) = {}
  BY DEF Range

\* A number up to n + 1 is up to n, or n + 1.
LEMMA LeqSucc == \A i, n \in Nat : i <= n + 1 => i <= n \/ i = n + 1
  OBVIOUS

\* A new row adds its event to the table.
LEMMA RangeAppendRow ==
    ASSUME TypeOK, NEW e \in Nat
    PROVE  Range(Append(rows, e)) = Range(rows) \cup {e}
<1>1. rows \in Seq(Nat)
  BY DEF TypeOK
<1>. QED  BY <1>1, RangeAppend

\* What a thread inserts next is an event number.
LEMMA NextRowIsNat ==
    ASSUME TypeOK, NEW t \in Threads, written[t] < Len(batch[t])
    PROVE  batch[t][written[t] + 1] \in Nat
<1>1. batch[t] \in Seq(Nat) /\ written[t] \in Nat
  BY DEF TypeOK
<1>2. written[t] + 1 \in 1..Len(batch[t])
  BY <1>1
<1>. QED  BY <1>1, <1>2

\* What a thread inserts next has been emitted.
LEMMA NextRowIsEvent ==
    ASSUME IInv, NEW t \in Threads, written[t] < Len(batch[t])
    PROVE  /\ batch[t][written[t] + 1] \in Nat
           /\ batch[t][written[t] + 1] \in Events
<1>1. TypeOK
  BY DEF IInv
<1>2. batch[t] \in Seq(Nat) /\ written[t] \in Nat
  BY <1>1 DEF TypeOK
<1>3. written[t] + 1 \in DOMAIN batch[t]
  BY <1>2
<1>4. batch[t][written[t] + 1] \in InMemory
  BY <1>3 DEF InMemory, Range, Threads
<1>. QED  BY <1>1, <1>4, NextRowIsNat DEF IInv, OnlyEmitted

-----------------------------------------------------------------------------
\* The initial state is well typed.
LEMMA TypeCorrectInit ==
    ASSUME Init
    PROVE  TypeOK
<1> USE EmitterAssumption DEF TypeOK, Threads, CallerPc, FlusherPc
<1>1. <<>> \in Seq(Nat)
  OBVIOUS
<1>2. batch \in [Threads -> Seq(Nat)] /\ buffer \in Seq(Nat) /\ rows \in Seq(Nat)
  BY <1>1 DEF Init
<1>3. pc["caller"] = "idle" /\ pc["flusher"] = "loop"
  BY DEF Init
<1>4. pc \in [Threads -> CallerPc \cup FlusherPc] /\ written \in [Threads -> Nat]
  BY DEF Init
<1>. QED  BY <1>2, <1>3, <1>4 DEF Init

\* Every step keeps the types.
LEMMA TypeCorrectStep ==
    ASSUME TypeOK, [Next]_vars
    PROVE  TypeOK'
<1> USE EmitterAssumption DEF TypeOK, Threads, CallerPc, FlusherPc
<1>1. CASE Emit  BY <1>1 DEF Emit, Goto
<1>2. CASE Stop  BY <1>2 DEF Stop, Goto
<1>3. CASE Kill  BY <1>3 DEF Kill, Goto
<1>4. CASE CheckBatch  BY <1>4 DEF CheckBatch, Goto
<1>5. CASE Joined  BY <1>5 DEF Joined, Goto
<1>6. CASE JoinTimeout  BY <1>6 DEF JoinTimeout, Goto
<1>7. CASE Exit  BY <1>7 DEF Exit, Goto
<1>8. CASE LoopTest  BY <1>8 DEF LoopTest, Goto
<1>9. CASE WaitOver  BY <1>9 DEF WaitOver, Goto
<1>10. ASSUME NEW t \in Threads, Flush(t) PROVE TypeOK'
  <2>1. CASE FlushEmpty(t)  BY <2>1 DEF FlushEmpty, Goto, Resume
  <2>2. CASE FlushDiscard(t)  BY <2>2 DEF FlushDiscard, Goto, Resume
  <2>3. CASE FlushTake(t)  BY <2>3 DEF FlushTake, Goto, FlushesAt
  <2>4. CASE InsertRow(t)
    BY <2>4, NextRowIsNat, SMTT(30) DEF InsertRow
  <2>5. CASE FlushDone(t)  BY <2>5 DEF FlushDone, Goto, Resume
  <2>. QED  BY <1>10, <2>1, <2>2, <2>3, <2>4, <2>5 DEF Flush
<1>11. ASSUME NEW t \in Threads, FlushFail(t) PROVE TypeOK'
  <2>1. rows' \in Seq(Nat)
    <3>1. batch[t][written[t] + 1] \in Nat
      BY <1>11, NextRowIsNat DEF FlushFail
    <3>2. rows' = rows \/ rows' = Append(rows, batch[t][written[t] + 1])
      BY <1>11 DEF FlushFail
    <3>3. ASSUME NEW e \in Nat PROVE Append(rows, e) \in Seq(Nat)
      OBVIOUS
    <3>. QED  BY <3>1, <3>2, <3>3
  <2>2. buffer' \in Seq(Nat) /\ batch' \in [Threads -> Seq(Nat)]
    BY <1>11 DEF FlushFail, PutBack
  <2>3. /\ pc' \in [Threads -> CallerPc \cup FlusherPc]
        /\ pc'["caller"] \in CallerPc
        /\ pc'["flusher"] \in FlusherPc
    BY <1>11 DEF FlushFail, Goto, Resume
  <2>4. /\ emitted' \in Nat /\ written' \in [Threads -> Nat] /\ failures' \in Nat
        /\ stopping' \in BOOLEAN /\ unclean' \in BOOLEAN /\ connected' \in BOOLEAN
    BY <1>11 DEF FlushFail
  <2>. QED  BY <2>1, <2>2, <2>3, <2>4
<1>12. CASE UNCHANGED vars  BY <1>12 DEF vars
<1>. QED  BY <1>1, <1>2, <1>3, <1>4, <1>5, <1>6, <1>7, <1>8, <1>9, <1>10, <1>11, <1>12
          DEF Next, CallerStep, FlusherStep

\* Every variable keeps its type (emitter.py, class Emitter).
THEOREM TypeCorrect == Spec => []TypeOK
<1>1. Init => TypeOK
  BY TypeCorrectInit
<1>2. TypeOK /\ [Next]_vars => TypeOK'
  BY TypeCorrectStep
<1>. QED  BY <1>1, <1>2, PTL DEF Spec

-----------------------------------------------------------------------------
(* The inductive invariant, one lemma per kind of step. *)

\* A step that moves no event and lets no batch go.
Still ==
    /\ UNCHANGED <<connected, emitted, buffer, batch, written, rows>>
    /\ \A t \in Threads : pc[t] \in MayHold => pc'[t] \in MayHold

\* A still step disturbs only the order of the shutdown.
LEMMA StillStep ==
    ASSUME IInv, Still, TypeOK', ShutdownOrder'
    PROVE  IInv'
<1>1. OnlyEmitted' /\ NothingDropped'
  BY DEF IInv, OnlyEmitted, NothingDropped, InMemory, Events, Still
<1>2. BatchHeld'
  BY DEF IInv, BatchHeld, HeldBy, Still
<1>. QED  BY <1>1, <1>2 DEF IInv

\* emit() adds the new event to the buffer.
LEMMA EmitStep ==
    ASSUME IInv, Emit, TypeOK'
    PROVE  IInv'
<1> USE DEF IInv, TypeOK, Threads
<1>1. emitted + 1 \in Nat /\ buffer \in Seq(Nat)
  OBVIOUS
<1>2. Range(buffer)' = Range(buffer) \cup {emitted + 1}
  <2>1. buffer' = Append(buffer, emitted + 1)
    BY DEF Emit
  <2>2. Range(Append(buffer, emitted + 1)) = Range(buffer) \cup {emitted + 1}
    BY ONLY <1>1, RangeAppend
  <2>. QED  BY ONLY <2>1, <2>2
<1>3. Events' = Events \cup {emitted + 1}
  BY DEF Emit, Events
<1>4. OnlyEmitted' /\ NothingDropped'
  BY <1>2, <1>3 DEF Emit, OnlyEmitted, NothingDropped, InMemory
<1>5. pc' = [pc EXCEPT !["caller"] = "check"] /\ pc["caller"] = "idle"
  BY DEF Emit, Goto
<1>6. BatchHeld'
  BY <1>5 DEF Emit, BatchHeld, HeldBy, MayHold, InsertsAt
<1>7. ShutdownOrder'
  BY <1>5 DEF Emit, ShutdownOrder
<1>. QED  BY <1>4, <1>6, <1>7

\* flush() moves the buffer into the thread's batch.
LEMMA TakeStep ==
    ASSUME IInv, NEW t \in Threads, FlushTake(t), TypeOK'
    PROVE  IInv'
<1> USE DEF IInv, TypeOK, Threads
<1>1. batch[t] = <<>>
  BY DEF FlushTake, FlushesAt, BatchHeld, HeldBy, MayHold, InsertsAt
<1>2. /\ Range(batch'[t]) = Range(buffer)
      /\ \A u \in Threads \ {t} : batch'[u] = batch[u]
      /\ Range(buffer') = {}
      /\ Range(batch[t]) = {}
  BY <1>1, RangeEmpty DEF FlushTake
<1>3. InMemory' = InMemory
  BY <1>2 DEF InMemory
<1>4. OnlyEmitted' /\ NothingDropped'
  BY <1>3 DEF FlushTake, OnlyEmitted, NothingDropped, Events
<1>5. /\ pc'[t] = (IF pc[t] = "flush" THEN "insert" ELSE "finalInsert")
      /\ \A u \in Threads \ {t} : pc'[u] = pc[u]
      /\ pc[t] \in {"flush", "finalFlush"}
  BY DEF FlushTake, Goto, FlushesAt
<1>6. BatchHeld'
  <2>1. ASSUME NEW u \in Threads, u # t PROVE HeldBy(u)'
    <3>1. pc'[u] = pc[u] /\ batch'[u] = batch[u] /\ UNCHANGED <<written, rows>>
      BY <1>2, <1>5, <2>1 DEF FlushTake
    <3>. QED  BY <3>1 DEF BatchHeld, HeldBy
  <2>2. HeldBy(t)'
    <3>1. pc'[t] \in MayHold
      BY <1>5 DEF MayHold, InsertsAt
    <3>2. written[t] = 0 /\ written' = written
      BY <1>5 DEF BatchHeld, HeldBy, MayHold, InsertsAt, FlushTake
    <3>. QED  BY <3>1, <3>2 DEF HeldBy, FlushTake
  <2>. QED  BY <2>1, <2>2 DEF BatchHeld
<1>7. ShutdownOrder'
  BY <1>5 DEF FlushTake, ShutdownOrder
<1>. QED  BY <1>4, <1>6, <1>7

\* Without a database the buffer is dropped.
LEMMA DiscardStep ==
    ASSUME IInv, NEW t \in Threads, FlushDiscard(t), TypeOK'
    PROVE  IInv'
<1> USE DEF IInv, TypeOK, Threads
<1>1. /\ pc'[t] = Resume(t)
      /\ \A u \in Threads \ {t} : pc'[u] = pc[u]
      /\ pc[t] \in {"flush", "finalFlush"}
  BY DEF FlushDiscard, Goto, FlushesAt
<1>2. InMemory' \subseteq InMemory
  BY RangeEmpty DEF FlushDiscard, InMemory
<1>3. OnlyEmitted' /\ NothingDropped'
  BY <1>2 DEF FlushDiscard, OnlyEmitted, NothingDropped, Events
<1>4. BatchHeld'
  BY <1>1 DEF FlushDiscard, BatchHeld, HeldBy, MayHold, InsertsAt
<1>5. ShutdownOrder'
  BY <1>1 DEF FlushDiscard, ShutdownOrder, Resume
<1>. QED  BY <1>3, <1>4, <1>5

\* One INSERT: the row's event stays in the batch until the batch is done.
LEMMA InsertStep ==
    ASSUME IInv, NEW t \in Threads, InsertRow(t), TypeOK'
    PROVE  IInv'
<1> USE DEF IInv, TypeOK, Threads
<1> DEFINE e == batch[t][written[t] + 1]
<1>1. e \in Nat
  BY NextRowIsNat DEF InsertRow
<1>2. e \in Range(batch[t])
  <2>1. written[t] + 1 \in DOMAIN batch[t]
    BY DEF InsertRow
  <2>. QED  BY <2>1 DEF Range
<1>3. Range(rows)' = Range(rows) \cup {e}
  <2>1. rows \in Seq(Nat) /\ rows' = Append(rows, e)
    BY DEF InsertRow
  <2> HIDE DEF e
  <2>. QED  BY ONLY <1>1, <2>1, RangeAppend
<1>4. OnlyEmitted' /\ NothingDropped'
  <2>1. /\ InMemory' = InMemory /\ Events' = Events /\ e \in InMemory
        /\ connected' = connected
    BY <1>2 DEF InsertRow, InMemory, Events
  <2>. QED  BY <1>3, <2>1 DEF OnlyEmitted, NothingDropped
<1>5. ASSUME NEW u \in Threads PROVE HeldBy(u)'
  <2>1. /\ pc'[u] = pc[u] /\ batch'[u] = batch[u]
        /\ Range(rows) \subseteq Range(rows)'
    BY <1>3 DEF InsertRow
  <2>2. CASE u # t
    <3>1. written'[u] = written[u]
      BY <2>2 DEF InsertRow
    <3>. QED  BY <2>1, <3>1 DEF BatchHeld, HeldBy
  <2>3. CASE u = t
    <3>1. written'[u] = written[u] + 1 /\ e \in Range(rows)'
      BY <1>3, <2>3 DEF InsertRow
    <3>2. pc'[u] \in MayHold
      BY <2>1, <2>3 DEF InsertRow, MayHold
    <3>3. ASSUME NEW i \in 1..Len(batch[u]), i <= written[u] + 1
          PROVE  batch[u][i] \in Range(rows)'
      <4>1. CASE i <= written[u]
        BY <2>1, <4>1 DEF BatchHeld, HeldBy
      <4>2. CASE i = written[u] + 1
        <5>1. batch[u][i] = e
          BY <2>3, <4>2
        <5>. QED  BY ONLY <3>1, <5>1
      <4>3. i \in Nat /\ written[u] \in Nat
        BY SMTT(30)
      <4>4. i <= written[u] \/ i = written[u] + 1
        BY <3>3, <4>3, LeqSucc
      <4>. QED  BY <4>1, <4>2, <4>4
    <3>. QED  BY <2>1, <3>1, <3>2, <3>3 DEF HeldBy
  <2>. QED  BY <2>2, <2>3
<1>6. ShutdownOrder'
  BY DEF InsertRow, ShutdownOrder
<1>. QED  BY <1>4, <1>5, <1>6 DEF BatchHeld

\* A finished batch can be forgotten: all of it is in the table.
LEMMA DoneStep ==
    ASSUME IInv, NEW t \in Threads, FlushDone(t), TypeOK'
    PROVE  IInv'
<1> USE DEF IInv, TypeOK, Threads
<1>1. Range(batch[t]) \subseteq Range(rows)
  <2>1. /\ DOMAIN batch[t] = 1..Len(batch[t])
        /\ \A i \in 1..Len(batch[t]) : i <= written[t]
    BY DEF FlushDone
  <2>2. ASSUME NEW i \in DOMAIN batch[t] PROVE batch[t][i] \in Range(rows)
    BY <2>1 DEF BatchHeld, HeldBy
  <2>. QED  BY <2>2 DEF Range
<1>2. /\ Range(batch'[t]) = {}
      /\ \A u \in Threads \ {t} : batch'[u] = batch[u] /\ written'[u] = written[u]
  BY RangeEmpty DEF FlushDone
<1>3. InMemory' \subseteq InMemory /\ InMemory \subseteq InMemory' \cup Range(rows)
  BY <1>1, <1>2 DEF FlushDone, InMemory
<1>4. OnlyEmitted' /\ NothingDropped'
  BY <1>3 DEF FlushDone, OnlyEmitted, NothingDropped, Events
<1>5. /\ pc'[t] = Resume(t)
      /\ \A u \in Threads \ {t} : pc'[u] = pc[u]
      /\ pc[t] \in {"insert", "finalInsert"}
  BY DEF FlushDone, Goto, InsertsAt
<1>6. ASSUME NEW u \in Threads PROVE HeldBy(u)'
  <2>1. CASE u # t
    BY <1>2, <1>5, <2>1 DEF BatchHeld, HeldBy, FlushDone
  <2>2. CASE u = t
    <3>1. batch'[u] = <<>> /\ written'[u] = 0
      BY <2>2 DEF FlushDone
    <3>. QED  BY <3>1 DEF HeldBy
  <2>. QED  BY <2>1, <2>2
<1>7. ShutdownOrder'
  <2>1. buffer' = buffer /\ unclean' = unclean
    BY DEF FlushDone
  <2>. QED  BY <2>1, <1>5 DEF ShutdownOrder, Resume
<1>. QED  BY <1>4, <1>6, <1>7 DEF BatchHeld

\* A failed flush hands its whole batch back to the buffer.
LEMMA FailStep ==
    ASSUME IInv, NEW t \in Threads, FlushFail(t), TypeOK'
    PROVE  IInv'
<1> USE DEF IInv, TypeOK, Threads
<1> DEFINE e == batch[t][written[t] + 1]
<1>1. e \in Nat
  BY NextRowIsNat DEF FlushFail
<1>2. e \in Range(batch[t])
  <2>1. written[t] + 1 \in DOMAIN batch[t]
    BY DEF FlushFail
  <2>. QED  BY <2>1 DEF Range
<1>3. Range(rows)' = Range(rows) \/ Range(rows)' = Range(rows) \cup {e}
  <2>1. rows' = rows \/ rows' = Append(rows, e)
    BY DEF FlushFail
  <2>2. Range(Append(rows, e)) = Range(rows) \cup {e}
    BY <1>1, RangeAppendRow
  <2>. QED  BY <2>1, <2>2
<1>4. Range(buffer)' = Range(batch[t]) \cup Range(buffer)
  BY RangeConcat DEF FlushFail, PutBack
<1>5. /\ Range(batch'[t]) = {}
      /\ \A u \in Threads \ {t} : batch'[u] = batch[u] /\ written'[u] = written[u]
  BY RangeEmpty DEF FlushFail
<1>6. InMemory' = InMemory /\ Events' = Events
  BY <1>4, <1>5 DEF InMemory, Events, FlushFail
<1>7. OnlyEmitted' /\ NothingDropped'
  <2>1. e \in InMemory /\ connected' = connected
    BY <1>2 DEF InMemory, FlushFail
  <2>. QED  BY <1>3, <1>6, <2>1 DEF OnlyEmitted, NothingDropped
<1>8. /\ pc'[t] = Resume(t)
      /\ \A u \in Threads \ {t} : pc'[u] = pc[u]
      /\ pc[t] \in {"insert", "finalInsert"}
  BY DEF FlushFail, Goto, InsertsAt
<1>9. ASSUME NEW u \in Threads PROVE HeldBy(u)'
  <2>1. CASE u # t
    BY <1>3, <1>5, <1>8, <2>1 DEF BatchHeld, HeldBy
  <2>2. CASE u = t
    <3>1. batch'[u] = <<>> /\ written'[u] = 0
      BY <2>2 DEF FlushFail
    <3>. QED  BY <3>1 DEF HeldBy
  <2>. QED  BY <2>1, <2>2
<1>10. ShutdownOrder'
  <2>1. unclean' = (unclean \/ pc[t] = "finalInsert")
    BY DEF FlushFail
  <2>. QED  BY <2>1, <1>8 DEF ShutdownOrder, Resume, FlushFail
<1>. QED  BY <1>7, <1>9, <1>10 DEF BatchHeld

\* The inductive invariant holds in every reachable state.
THEOREM Invariance == Spec => []IInv
<1> USE DEF Threads
<1>1. Init => IInv
  <2> SUFFICES ASSUME Init PROVE IInv
    OBVIOUS
  <2>1. TypeOK
    BY TypeCorrectInit
  <2>2. OnlyEmitted /\ NothingDropped
    BY RangeEmpty DEF Init, OnlyEmitted, NothingDropped, InMemory, Events
  <2>3. BatchHeld
    BY DEF Init, BatchHeld, HeldBy
  <2>4. ShutdownOrder
    BY DEF Init, ShutdownOrder
  <2>. QED  BY <2>1, <2>2, <2>3, <2>4 DEF IInv
<1>2. IInv /\ [Next]_vars => IInv'
  <2> SUFFICES ASSUME IInv, [Next]_vars PROVE IInv'
    OBVIOUS
  <2>1. TypeOK /\ TypeOK'
    BY TypeCorrectStep DEF IInv
  <2> USE <2>1
  <2>2. CASE Emit  BY <2>2, EmitStep
  <2>3. CASE Stop
    <3>1. Still  BY <2>3 DEF Stop, Goto, Still, MayHold, InsertsAt, TypeOK
    <3>2. ShutdownOrder'  BY <2>3 DEF Stop, Goto, ShutdownOrder, IInv, TypeOK
    <3>. QED  BY <3>1, <3>2, StillStep
  <2>4. CASE Kill
    <3>1. Still  BY <2>4 DEF Kill, Goto, Still, MayHold, InsertsAt, TypeOK
    <3>2. ShutdownOrder'  BY <2>4 DEF Kill, ShutdownOrder
    <3>. QED  BY <3>1, <3>2, StillStep
  <2>5. CASE CheckBatch
    <3>1. Still  BY <2>5 DEF CheckBatch, Goto, Still, MayHold, InsertsAt, TypeOK
    <3>2. ShutdownOrder'  BY <2>5 DEF CheckBatch, Goto, ShutdownOrder, IInv, TypeOK
    <3>. QED  BY <3>1, <3>2, StillStep
  <2>6. CASE Joined
    <3>1. Still  BY <2>6 DEF Joined, Goto, Still, MayHold, InsertsAt, TypeOK
    <3>2. ShutdownOrder'  BY <2>6 DEF Joined, Goto, ShutdownOrder, IInv, TypeOK
    <3>. QED  BY <3>1, <3>2, StillStep
  <2>7. CASE JoinTimeout
    <3>1. Still  BY <2>7 DEF JoinTimeout, Goto, Still, MayHold, InsertsAt, TypeOK
    <3>2. ShutdownOrder'  BY <2>7 DEF JoinTimeout, ShutdownOrder
    <3>. QED  BY <3>1, <3>2, StillStep
  <2>8. CASE Exit
    <3>1. Still  BY <2>8 DEF Exit, Goto, Still, MayHold, InsertsAt, TypeOK
    <3>2. ShutdownOrder'  BY <2>8 DEF Exit, Goto, ShutdownOrder, IInv, TypeOK
    <3>. QED  BY <3>1, <3>2, StillStep
  <2>9. CASE LoopTest
    <3>1. Still  BY <2>9 DEF LoopTest, Goto, Still, MayHold, InsertsAt, TypeOK
    <3>2. ShutdownOrder'  BY <2>9 DEF LoopTest, Goto, ShutdownOrder, IInv, TypeOK
    <3>. QED  BY <3>1, <3>2, StillStep
  <2>10. CASE WaitOver
    <3>1. Still  BY <2>10 DEF WaitOver, Goto, Still, MayHold, InsertsAt, TypeOK
    <3>2. ShutdownOrder'  BY <2>10 DEF WaitOver, Goto, ShutdownOrder, IInv, TypeOK
    <3>. QED  BY <3>1, <3>2, StillStep
  <2>11. ASSUME NEW t \in Threads, Flush(t) PROVE IInv'
    <3>1. CASE FlushEmpty(t)
      <4>1. Still
        BY <3>1 DEF FlushEmpty, Goto, Still, MayHold, InsertsAt, FlushesAt, TypeOK
      <4>2. ShutdownOrder'
        BY <3>1 DEF FlushEmpty, FlushesAt, Resume, Goto, ShutdownOrder, IInv, TypeOK
      <4>. QED  BY <4>1, <4>2, StillStep
    <3>2. CASE FlushDiscard(t)  BY <3>2, DiscardStep
    <3>3. CASE FlushTake(t)  BY <3>3, TakeStep
    <3>4. CASE InsertRow(t)  BY <3>4, InsertStep
    <3>5. CASE FlushDone(t)  BY <3>5, DoneStep
    <3>. QED  BY <2>11, <3>1, <3>2, <3>3, <3>4, <3>5 DEF Flush
  <2>12. ASSUME NEW t \in Threads, FlushFail(t) PROVE IInv'
    BY <2>12, FailStep
  <2>13. CASE UNCHANGED vars
    <3>1. Still /\ ShutdownOrder'
      BY <2>13 DEF vars, Still, ShutdownOrder, IInv
    <3>. QED  BY <3>1, StillStep
  <2>. QED  BY <2>2, <2>3, <2>4, <2>5, <2>6, <2>7, <2>8, <2>9, <2>10, <2>11, <2>12, <2>13
            DEF Next, CallerStep, FlusherStep
<1>. QED  BY <1>1, <1>2, PTL DEF Spec

\* No interleaving of the two flushes, and no failure, drops an event
\* (emitter.py flush()): for every batch size and number of events.
THEOREM NothingIsDropped == Spec => []NothingDropped
<1>1. IInv => NothingDropped
  BY DEF IInv
<1>. QED  BY <1>1, Invariance, PTL

\* A joined flush thread and an empty buffer leave nothing in memory.
LEMMA DrainedOnStop == IInv => StopDrains
<1> SUFFICES ASSUME IInv, connected, pc["caller"] \in {"stopped", "exited"}, ~unclean
             PROVE  Events \subseteq Range(rows)
  BY DEF StopDrains
<1>1. buffer = <<>> /\ pc["flusher"] = "done"
  BY DEF IInv, ShutdownOrder
<1>2. batch["flusher"] = <<>> /\ batch["caller"] = <<>>
  BY <1>1 DEF IInv, BatchHeld, HeldBy, MayHold, InsertsAt, Threads
<1>3. InMemory = {}
  BY <1>1, <1>2, RangeEmpty DEF InMemory
<1>. QED  BY <1>3 DEF IInv, NothingDropped

\* After a shutdown that went well every event is a row (emitter.py stop()).
THEOREM StopDrainsBuffer == Spec => []StopDrains
<1>. QED  BY DrainedOnStop, Invariance, PTL

-----------------------------------------------------------------------------
(* The emitter implements the at-least-once log. *)

\* Every step of the emitter is a step of the log, or moves no log variable.
LEMMA LogStep ==
    ASSUME IInv, [Next]_vars
    PROVE  [Log!Next]_(Log!logVars)
<1> USE DEF IInv, Log!logVars, Threads
<1>1. CASE Emit
  <2>1. Log!Accept
    BY <1>1 DEF Emit, Goto, Running, Log!Accept, TypeOK
  <2>. QED  BY <2>1 DEF Log!Next
<1>2. CASE Stop
  BY <1>2 DEF Stop, Goto, Running, TypeOK
<1>3. CASE Kill
  <2>1. Log!Crash
    BY <1>3 DEF Kill, Goto, Running, Log!Crash, TypeOK
  <2>. QED  BY <2>1 DEF Log!Next
<1>4. CASE CheckBatch
  BY <1>4 DEF CheckBatch, Goto, Running, TypeOK
<1>5. CASE Joined
  BY <1>5 DEF Joined, Goto, Running, TypeOK
<1>6. CASE JoinTimeout
  <2>1. Log!Fault
    BY <1>6 DEF JoinTimeout, Goto, Running, Log!Fault, TypeOK
  <2>. QED  BY <2>1 DEF Log!Next
<1>7. CASE Exit
  <2>1. unclean \/ ~connected \/ Range(rows) = 1..emitted
    <3>1. IInv => StopDrains
      BY DrainedOnStop
    <3>. QED  BY <1>7, <3>1 DEF Exit, StopDrains, OnlyEmitted, Events
  <2>2. Log!Close
    BY <1>7, <2>1 DEF Exit, Goto, Running, Log!Close, TypeOK
  <2>. QED  BY <2>2 DEF Log!Next
<1>8. CASE LoopTest
  BY <1>8 DEF LoopTest, Goto, Running, TypeOK
<1>9. CASE WaitOver
  BY <1>9 DEF WaitOver, Goto, Running, TypeOK
<1>10. ASSUME NEW t \in Threads, Flush(t)
       PROVE  [Log!Next]_(Log!logVars)
  <2>1. CASE FlushEmpty(t)
    BY <2>1 DEF FlushEmpty, FlushesAt, Resume, Goto, Running, TypeOK
  <2>2. CASE FlushDiscard(t)
    BY <2>2 DEF FlushDiscard, FlushesAt, Resume, Goto, Running, TypeOK
  <2>3. CASE FlushTake(t)
    BY <2>3 DEF FlushTake, FlushesAt, Goto, Running, TypeOK
  <2>4. CASE InsertRow(t)
    <3> DEFINE e == batch[t][written[t] + 1]
    <3>1. e \in Nat /\ e \in Events
      BY <2>4, NextRowIsEvent DEF InsertRow
    <3>2. Range(rows)' = Range(rows) \cup {e}
      BY <2>4, <3>1, RangeAppendRow DEF InsertRow
    <3>3. Log!Store
      BY <2>4, <3>1, <3>2 DEF InsertRow, Running, Events, Log!Store
    <3>. QED  BY <3>3 DEF Log!Next
  <2>5. CASE FlushDone(t)
    BY <2>5 DEF FlushDone, InsertsAt, Resume, Goto, Running, TypeOK
  <2>. QED  BY <1>10, <2>1, <2>2, <2>3, <2>4, <2>5 DEF Flush
<1>11. ASSUME NEW t \in Threads, FlushFail(t)
       PROVE  [Log!Next]_(Log!logVars)
  <2> DEFINE e == batch[t][written[t] + 1]
  <2>1. e \in Nat /\ e \in Events
    BY <1>11, NextRowIsEvent DEF FlushFail
  <2>2. Range(rows)' = Range(rows) \/ Range(rows)' = Range(rows) \cup {e}
    <3>1. rows' = rows \/ rows' = Append(rows, e)
      BY <1>11 DEF FlushFail
    <3>2. Range(Append(rows, e)) = Range(rows) \cup {e}
      BY <2>1, RangeAppendRow
    <3>. QED  BY <3>1, <3>2
  <2>3. Running /\ Running' /\ emitted' = emitted /\ connected' = connected
    BY <1>11 DEF FlushFail, InsertsAt, Resume, Goto, Running, TypeOK
  <2>4. unclean' = unclean \/ unclean' = TRUE
    BY <1>11 DEF FlushFail, TypeOK
  <2>5. CASE unclean' = TRUE
    <3>1. Log!Fault
      BY <2>1, <2>2, <2>3, <2>5 DEF Log!Fault, Events
    <3>. QED  BY <3>1 DEF Log!Next
  <2>6. CASE unclean' = unclean
    <3>1. CASE Range(rows)' = Range(rows)
      BY <2>3, <2>6, <3>1
    <3>2. CASE Range(rows)' = Range(rows) \cup {e}
      <4>1. Log!Store
        BY <2>1, <2>3, <2>6, <3>2 DEF Log!Store, Events
      <4>. QED  BY <4>1 DEF Log!Next
    <3>. QED  BY <2>2, <3>1, <3>2
  <2>. QED  BY <2>4, <2>5, <2>6
<1>12. CASE UNCHANGED vars
  BY <1>12 DEF vars, Running
<1>. QED  BY <1>1, <1>2, <1>3, <1>4, <1>5, <1>6, <1>7, <1>8, <1>9, <1>10, <1>11, <1>12
          DEF Next, CallerStep, FlusherStep

\* The emitter implements EventLog: whatever the batch size, the events, the
\* failures and the interleaving, and with or without a database.
THEOREM EmitterImplementsLog == Spec => ImplementsLog
<1>1. Init => Log!Init
  BY RangeEmpty DEF Init, Log!Init, Running, Threads
<1>2. IInv /\ [Next]_vars => [Log!Next]_(Log!logVars)
  BY LogStep
<1>. QED  BY <1>1, <1>2, Invariance, PTL DEF Spec, ImplementsLog, Log!Spec

-----------------------------------------------------------------------------
(* One copy of each event in memory. *)

\* A sequence without repetitions, and sequences without common elements.
Once(s) == \A i, j \in DOMAIN s : s[i] = s[j] => i = j
Disjoint(s, t) == Range(s) \cap Range(t) = {}

\* Appending what is not there yet repeats nothing.
LEMMA OnceAppend ==
    ASSUME NEW S, NEW s \in Seq(S), NEW e \in S, Once(s), e \notin Range(s)
    PROVE  Once(Append(s, e))
<1> DEFINE a == Append(s, e)
<1>1. /\ DOMAIN a = 1..(Len(s) + 1)
      /\ \A i \in 1..Len(s) : a[i] = s[i]
      /\ a[Len(s) + 1] = e
      /\ DOMAIN s = 1..Len(s)
      /\ Len(s) \in Nat
  OBVIOUS
<1>2. \A i \in DOMAIN a : i \in 1..Len(s) \/ i = Len(s) + 1
  BY <1>1
<1>3. \A i \in 1..Len(s) : a[i] # e
  BY <1>1 DEF Range
<1> HIDE DEF a
<1>4. Once(a)
  BY <1>1, <1>2, <1>3 DEF Once
<1>. QED  BY <1>4 DEF a

\* Concatenating disjoint sequences repeats nothing.
LEMMA OnceConcat ==
    ASSUME NEW S, NEW s \in Seq(S), NEW t \in Seq(S), Once(s), Once(t), Disjoint(s, t)
    PROVE  Once(s \o t)
<1> DEFINE c == s \o t
<1>1. /\ DOMAIN c = 1..(Len(s) + Len(t))
      /\ \A i \in 1..Len(s) : c[i] = s[i]
      /\ \A i \in 1..Len(t) : c[Len(s) + i] = t[i]
      /\ DOMAIN s = 1..Len(s)  /\ Len(s) \in Nat
      /\ DOMAIN t = 1..Len(t)  /\ Len(t) \in Nat
  OBVIOUS
<1> HIDE DEF c
<1>2. ASSUME NEW i \in DOMAIN c
      PROVE  \/ i \in 1..Len(s) /\ c[i] = s[i]
             \/ i - Len(s) \in 1..Len(t) /\ c[i] = t[i - Len(s)]
  <2>1. CASE i \in 1..Len(s)
    BY <1>1, <2>1
  <2>2. CASE i \notin 1..Len(s)
    <3>1. i - Len(s) \in 1..Len(t) /\ i = Len(s) + (i - Len(s))
      BY <1>1, <2>2
    <3>. QED  BY <1>1, <3>1
  <2>. QED  BY <2>1, <2>2
<1>3. \A i \in 1..Len(s), j \in 1..Len(t) : s[i] # t[j]
  BY <1>1 DEF Disjoint, Range
<1>4. ASSUME NEW i \in DOMAIN c, NEW j \in DOMAIN c, c[i] = c[j] PROVE i = j
  <2>1. i \in Int /\ j \in Int /\ Len(s) \in Int
    BY <1>1
  <2>2. CASE i \in 1..Len(s) /\ j \in 1..Len(s)
    BY <1>1, <1>4, <2>2 DEF Once
  <2>3. CASE i - Len(s) \in 1..Len(t) /\ j - Len(s) \in 1..Len(t) /\ c[i] = t[i - Len(s)] /\ c[j] = t[j - Len(s)]
    <3>1. i - Len(s) = j - Len(s)
      BY <1>1, <1>4, <2>3 DEF Once
    <3>. QED  BY <2>1, <3>1
  <2>. QED  BY <1>2, <1>3, <1>4, <2>2, <2>3
<1>5. Once(c)
  BY <1>4 DEF Once
<1>. QED  BY <1>5 DEF c

\* The same of the three places an event can be in, for both threads.
LEMMA ApartIsOneCopy ==
    OneCopyInMemory <=> /\ Once(buffer)
                        /\ \A t \in Threads : Once(batch[t]) /\ Disjoint(batch[t], buffer)
                        /\ Disjoint(batch["caller"], batch["flusher"])
  BY DEF OneCopyInMemory, Once, Disjoint

\* Every step keeps one copy.
LEMMA OneCopyStep ==
    ASSUME IInv, OneCopyInMemory, [Next]_vars
    PROVE  OneCopyInMemory'
<1> USE ApartIsOneCopy DEF IInv, TypeOK, Threads
<1>0. /\ buffer \in Seq(Nat) /\ \A t \in Threads : batch[t] \in Seq(Nat)
      /\ Once(<<>>) /\ \A s : Disjoint(s, <<>>) /\ Disjoint(<<>>, s)
  BY RangeEmpty DEF Once, Disjoint
<1>a. ASSUME Once(buffer'),
             \A t \in Threads : Once(batch'[t]) /\ Disjoint(batch'[t], buffer'),
             Disjoint(batch'["caller"], batch'["flusher"])
      PROVE  OneCopyInMemory'
  BY ONLY <1>a DEF OneCopyInMemory, Once, Disjoint, Threads
<1>b. ASSUME NEW t \in Threads, batch' = [batch EXCEPT ![t] = <<>>], Once(buffer'),
             \A u \in Threads \ {t} : Disjoint(batch[u], buffer')
      PROVE  OneCopyInMemory'
  <2>1. batch'[t] = <<>> /\ \A u \in Threads \ {t} : batch'[u] = batch[u]
    BY <1>b
  <2>2. \A u \in Threads : Once(batch'[u]) /\ Disjoint(batch'[u], buffer')
    BY <1>0, <1>b, <2>1
  <2>3. Disjoint(batch'["caller"], batch'["flusher"])
    BY <1>0, <2>1
  <2>. QED  BY ONLY <1>a, <1>b, <2>2, <2>3
<1>1. CASE Emit
  <2>1. buffer' = Append(buffer, emitted + 1) /\ batch' = batch /\ emitted + 1 \in Nat
    BY <1>1 DEF Emit
  <2>2. emitted + 1 \notin InMemory
    BY DEF OnlyEmitted, Events
  <2>3. Once(buffer')
    BY <1>0, <2>1, <2>2, OnceAppend DEF InMemory
  <2>4. Range(buffer') = Range(buffer) \cup {emitted + 1}
    BY ONLY <1>0, <2>1, RangeAppend
  <2>5. \A t \in Threads : Disjoint(batch[t], buffer')
    BY <2>2, <2>4 DEF Disjoint, InMemory
  <2>. QED  BY <1>a, <2>1, <2>3, <2>5
<1>2. ASSUME NEW t \in Threads, FlushDiscard(t) PROVE OneCopyInMemory'
  BY <1>0, <1>2, <1>a DEF FlushDiscard
<1>3. ASSUME NEW t \in Threads, FlushTake(t) PROVE OneCopyInMemory'
  <2>1. /\ batch'[t] = buffer /\ buffer' = <<>>
        /\ \A u \in Threads \ {t} : batch'[u] = batch[u]
    BY <1>3 DEF FlushTake
  <2>2. \A u \in Threads : Once(batch'[u]) /\ Disjoint(batch'[u], buffer')
    BY <1>0, <2>1
  <2>3. Disjoint(batch'["caller"], batch'["flusher"])
    BY <2>1 DEF Disjoint
  <2>. QED  BY <1>0, <1>a, <2>1, <2>2, <2>3
<1>4. ASSUME NEW t \in Threads, FlushDone(t) PROVE OneCopyInMemory'
  BY <1>4, <1>b DEF FlushDone
<1>5. ASSUME NEW t \in Threads, FlushFail(t) PROVE OneCopyInMemory'
  <2>1. buffer' = batch[t] \o buffer /\ batch' = [batch EXCEPT ![t] = <<>>]
    BY <1>5 DEF FlushFail, PutBack
  <2>2. Once(buffer')
    BY <1>0, <2>1, OnceConcat
  <2>3. Range(buffer') = Range(batch[t]) \cup Range(buffer)
    BY <1>0, <2>1, RangeConcat
  <2>4. \A u \in Threads \ {t} : Disjoint(batch[u], buffer')
    BY <2>3 DEF Disjoint
  <2>. QED  BY ONLY <1>5, <1>b, <2>1, <2>2, <2>4
<1>6. CASE buffer' = buffer /\ batch' = batch
  BY <1>a, <1>6
<1>7. \/ Emit
      \/ \E t \in Threads : FlushDiscard(t) \/ FlushTake(t) \/ FlushDone(t) \/ FlushFail(t)
      \/ buffer' = buffer /\ batch' = batch
  BY DEF Next, vars, CallerStep, FlusherStep, Flush, CheckBatch, FlushEmpty, InsertRow, LoopTest,
         WaitOver, Stop, Joined, JoinTimeout, Exit, Kill
<1>. QED  BY <1>1, <1>2, <1>3, <1>4, <1>5, <1>6, <1>7

\* The two threads never hold the same event, and a batch that is put back is
\* not doubled (emitter.py flush()).
THEOREM OneCopy == Spec => []OneCopyInMemory
<1>1. Init => OneCopyInMemory
  BY RangeEmpty DEF Init, OneCopyInMemory, Threads
<1>2. IInv /\ OneCopyInMemory /\ [Next]_vars => OneCopyInMemory'
  BY OneCopyStep
<1>. QED  BY <1>1, <1>2, Invariance, PTL DEF Spec
=============================================================================
