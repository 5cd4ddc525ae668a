-------------------------- MODULE CallbacksProofs --------------------------
(***************************************************************************)
(* Theorems about module Callbacks, for any nodes, any of the three        *)
(* combinations and any number of failures.                                *)
(***************************************************************************)
EXTENDS Callbacks, FiniteSetTheorems, TLAPS

-----------------------------------------------------------------------------
(* The inductive invariant. *)

Empty == <<>>

AtMostOne(S) == S = {} \/ \E x \in S : S = {x}

Typed ==
    /\ combo \in Combos
    /\ machine \in [Nodes -> {"up", "frozen", "stopped"}]
    /\ role \in [Nodes -> {"primary", "replica"}]
    /\ leader \subseteq Nodes /\ AtMostOne(leader)
    /\ DOMAIN todo = Nodes
    /\ address \subseteq Nodes /\ told \subseteq Nodes
    /\ checked \subseteq Nodes /\ missed \subseteq Nodes
    /\ combo = "04" => AtMostOne(told)
    /\ changes \in Nat /\ changes <= MaxChanges

\* What a callback for a role may have left to do: all of it, its second
\* command, nothing.
Rest(r) ==
    CASE combo = "04" -> IF r = "primary" THEN {<<"bind", "arp">>, <<"arp">>, Empty}
                                          ELSE {<<"unbind">>, Empty}
      [] combo = "05" -> IF r = "primary" THEN {<<"bind", "announce">>, <<"announce">>, Empty}
                                          ELSE {<<"withdraw", "unbind">>, <<"unbind">>, Empty}
      [] combo = "09" -> IF r = "primary" THEN {<<"ready">>, Empty} ELSE {<<"maint">>, Empty}

\* What a callback has done on a node that missed none of its commands.
HasBound(n) ==
    IF role[n] = "primary" THEN n \in address \/ todo[n] = Script("primary")
    ELSE n \notin address \/ todo[n] \in {<<"withdraw", "unbind">>, <<"unbind">>}

HasRouted(n) ==
    IF role[n] = "primary" THEN n \in told \/ todo[n] # Empty
    ELSE n \notin told \/ todo[n] = Script("replica")

HasOpened(n) == role[n] = "primary" => n \in told \/ todo[n] # Empty

Accounted(n) ==
    /\ todo[n] \in Rest(role[n])
    /\ machine[n] = "stopped" =>
          role[n] = "replica" /\ todo[n] = Empty /\ n \notin address /\ n \notin missed
    /\ machine[n] # "stopped" /\ n \notin missed =>
          /\ combo \in {"04", "05"} => HasBound(n)
          /\ combo = "05" => HasRouted(n)
          /\ combo = "09" => HasOpened(n)
    /\ combo = "09" => n \notin address

AllAccounted == \A n \in Nodes : Accounted(n)

IInv == Typed /\ AllAccounted

-----------------------------------------------------------------------------
(* The scripts. *)

\* The combination is one of the three.
LEMMA ThreeCombos == Typed => combo \in {"04", "05", "09"}
  BY CallbacksAssumption DEF Typed

\* What each script does on each role.
LEMMA ScriptValues ==
    /\ combo = "04" => Script("primary") = <<"bind", "arp">> /\ Script("replica") = <<"unbind">>
    /\ combo = "05" => /\ Script("primary") = <<"bind", "announce">>
                       /\ Script("replica") = <<"withdraw", "unbind">>
    /\ combo = "09" => Script("primary") = <<"ready">> /\ Script("replica") = <<"maint">>
  BY DEF Script

\* What is left of each script.
LEMMA RestValues ==
    /\ combo = "04" => /\ Rest("primary") = {<<"bind", "arp">>, <<"arp">>, Empty}
                       /\ Rest("replica") = {<<"unbind">>, Empty}
    /\ combo = "05" => /\ Rest("primary") = {<<"bind", "announce">>, <<"announce">>, Empty}
                       /\ Rest("replica") = {<<"withdraw", "unbind">>, <<"unbind">>, Empty}
    /\ combo = "09" => /\ Rest("primary") = {<<"ready">>, Empty}
                       /\ Rest("replica") = {<<"maint">>, Empty}
  BY DEF Rest

\* Sequences of two commands, one, and none, taken apart.
LEMMA TakenApart ==
    /\ \A a, b : Head(<<a, b>>) = a /\ Tail(<<a, b>>) = <<b>> /\ <<a, b>> # Empty
    /\ \A a : Head(<<a>>) = a /\ Tail(<<a>>) = Empty /\ <<a>> # Empty
    /\ \A a, b, c : <<a, b>> # <<c>>
    /\ Len(Empty) = 0 /\ (\A a : Len(<<a>>) = 1) /\ (\A a, b : Len(<<a, b>>) = 2)
  BY DEF Empty

\* A script is something to do, a node's rest of one is two commands at most,
\* and what follows its first command is again such a rest.
LEMMA RestFollows ==
    ASSUME Typed, NEW r \in {"primary", "replica"}
    PROVE  /\ Script(r) \in Rest(r) /\ Script(r) # Empty /\ Empty \in Rest(r)
           /\ \A s \in Rest(r) : Len(s) <= 2
           /\ \A s \in Rest(r) : s # Empty => Tail(s) \in Rest(r)
<1>1. combo \in {"04", "05", "09"}
  BY ThreeCombos
<1>2. \/ \E a : Rest(r) = {<<a>>, Empty}
      \/ \E a, b : Rest(r) = {<<a, b>>, <<b>>, Empty}
  BY <1>1, RestValues
<1>3. ASSUME NEW s \in Rest(r) PROVE Len(s) <= 2 /\ (s # Empty => Tail(s) \in Rest(r))
  <2>1. CASE \E a : Rest(r) = {<<a>>, Empty}
    <3>1. PICK a : Rest(r) = {<<a>>, Empty}
      BY <2>1
    <3>2. s = <<a>> \/ s = Empty
      BY <1>3, <3>1
    <3>3. CASE s = <<a>>
      <4>1. Len(s) = 1 /\ Tail(s) = Empty
        BY <3>3, TakenApart
      <4>. QED  BY <3>1, <4>1
    <3>4. CASE s = Empty
      <4>1. Len(s) = 0
        BY <3>4, TakenApart
      <4>. QED  BY <3>4, <4>1
    <3>. QED  BY <3>2, <3>3, <3>4
  <2>2. CASE \E a, b : Rest(r) = {<<a, b>>, <<b>>, Empty}
    <3>1. PICK a, b : Rest(r) = {<<a, b>>, <<b>>, Empty}
      BY <2>2
    <3>2. s = <<a, b>> \/ s = <<b>> \/ s = Empty
      BY <1>3, <3>1
    <3>3. CASE s = <<a, b>>
      <4>1. Len(s) = 2 /\ Tail(s) = <<b>>
        BY <3>3, TakenApart
      <4>. QED  BY <3>1, <4>1
    <3>4. CASE s = <<b>>
      <4>1. Len(s) = 1 /\ Tail(s) = Empty
        BY <3>4, TakenApart
      <4>. QED  BY <3>1, <4>1
    <3>5. CASE s = Empty
      <4>1. Len(s) = 0
        BY <3>5, TakenApart
      <4>. QED  BY <3>5, <4>1
    <3>. QED  BY <3>2, <3>3, <3>4, <3>5
  <2>. QED  BY <1>2, <2>1, <2>2
<1>4. Script(r) \in Rest(r) /\ Script(r) # Empty /\ Empty \in Rest(r)
  BY <1>1, ScriptValues, RestValues, TakenApart
<1>. QED  BY <1>3, <1>4

\* What a command does to the node's own address and to the network.
LEMMA EffectValues ==
    ASSUME NEW n, NEW c, Effect(n, c)
    PROVE  /\ c = "bind" => address' = address \cup {n} /\ told' = told
           /\ c = "unbind" => address' = address \ {n} /\ told' = told
           /\ c = "arp" => address' = address /\ told' = {n}
           /\ c \in {"announce", "ready"} => address' = address /\ told' = told \cup {n}
           /\ c \in {"withdraw", "maint"} => address' = address /\ told' = told \ {n}
  BY DEF Effect

\* What is left on a node that has something left to do.
LEMMA WhatIsLeft ==
    ASSUME IInv, NEW n \in Nodes, todo[n] # Empty
    PROVE  \/ combo = "04" /\ role[n] = "primary" /\ todo[n] \in {<<"bind", "arp">>, <<"arp">>}
           \/ combo = "04" /\ role[n] = "replica" /\ todo[n] = <<"unbind">>
           \/ combo = "05" /\ role[n] = "primary" /\ todo[n] \in {<<"bind", "announce">>, <<"announce">>}
           \/ combo = "05" /\ role[n] = "replica" /\ todo[n] \in {<<"withdraw", "unbind">>, <<"unbind">>}
           \/ combo = "09" /\ role[n] = "primary" /\ todo[n] = <<"ready">>
           \/ combo = "09" /\ role[n] = "replica" /\ todo[n] = <<"maint">>
<1>1. combo \in {"04", "05", "09"} /\ role[n] \in {"primary", "replica"} /\ todo[n] \in Rest(role[n])
  BY ThreeCombos DEF IInv, Typed, AllAccounted, Accounted
<1>. QED  BY <1>1, RestValues

-----------------------------------------------------------------------------
(* One node of a step, and the others. *)

\* A node the step leaves alone stays accounted for.  What the LAN believes
\* in 04 is not accounted for, nor what is told of a node that is stopped.
LEMMA Untouched ==
    ASSUME NEW n \in Nodes, Accounted(n), combo' = combo,
           machine'[n] = "stopped" <=> machine[n] = "stopped",
           role'[n] = role[n], todo'[n] = todo[n],
           n \in address' <=> n \in address, n \in missed' <=> n \in missed,
           \/ n \in told' <=> n \in told
           \/ combo = "04"
           \/ machine[n] = "stopped"
    PROVE  Accounted(n)'
<1>1. Script("primary")' = Script("primary") /\ Script("replica")' = Script("replica")
  BY DEF Script
<1>2. Rest(role[n])' = Rest(role[n])
  BY DEF Rest
<1>3. HasBound(n)' <=> HasBound(n)
  BY <1>1 DEF HasBound
<1>4. (n \in told' <=> n \in told) => (HasRouted(n)' <=> HasRouted(n)) /\ (HasOpened(n)' <=> HasOpened(n))
  BY <1>1 DEF HasRouted, HasOpened
<1>. QED  BY <1>2, <1>3, <1>4 DEF Accounted

\* A node that is called for its role has all of the callback before it.
LEMMA Called ==
    ASSUME IInv, NEW n \in Nodes, NEW r \in {"primary", "replica"}, combo' = combo,
           role'[n] = r, todo'[n] = Script(r), machine'[n] # "stopped", address' = address
    PROVE  Accounted(n)'
<1>1. Script("primary")' = Script("primary") /\ Script("replica")' = Script("replica")
  BY DEF Script
<1>2. todo'[n] \in Rest(r)' /\ todo'[n] # Empty
  <2>1. Rest(r)' = Rest(r)
    BY DEF Rest
  <2>. QED  BY <2>1, RestFollows DEF IInv
<1>3. combo \in {"04", "05"} => HasBound(n)'
  BY <1>1, ScriptValues DEF HasBound
<1>4. HasRouted(n)' /\ HasOpened(n)'
  BY <1>1, <1>2 DEF HasRouted, HasOpened
<1>5. combo = "09" => n \notin address'
  BY DEF IInv, AllAccounted, Accounted
<1>. QED  BY <1>2, <1>3, <1>4, <1>5 DEF Accounted

\* A command that works leaves its node accounted for.
LEMMA CommandHere ==
    ASSUME IInv, NEW n \in Nodes, Command(n)
    PROVE  Accounted(n)' /\ (combo = "04" => told' = told \/ told' = {n})
<1>1. /\ combo' = combo /\ role' = role /\ machine' = machine /\ missed' = missed
      /\ todo[n] # Empty /\ todo'[n] = Tail(todo[n])
      /\ Effect(n, Head(todo[n])) /\ machine[n] = "up"
  BY DEF Command, patroni, Up, Empty, IInv, Typed
<1>2. Script("primary")' = Script("primary") /\ Script("replica")' = Script("replica")
  BY <1>1 DEF Script
<1>3. todo'[n] \in Rest(role[n])'
  <2>1. role[n] \in {"primary", "replica"} /\ todo[n] \in Rest(role[n]) /\ Rest(role[n])' = Rest(role[n])
    BY <1>1 DEF IInv, Typed, AllAccounted, Accounted, Rest
  <2>. QED  BY <1>1, <2>1, RestFollows DEF IInv
<1>4. /\ n \notin missed /\ combo \in {"04", "05"} => HasBound(n)
      /\ n \notin missed /\ combo = "05" => HasRouted(n)
      /\ combo = "09" => n \notin address
  BY <1>1 DEF IInv, AllAccounted, Accounted
<1> DEFINE Here == /\ n \notin missed /\ combo \in {"04", "05"} => HasBound(n)'
                   /\ n \notin missed /\ combo = "05" => HasRouted(n)'
                   /\ n \notin missed /\ combo = "09" => HasOpened(n)'
                   /\ combo = "09" => n \notin address'
                   /\ combo = "04" => told' = told \/ told' = {n}
<1>5. ASSUME combo = "04", role[n] = "primary", todo[n] = <<"bind", "arp">> PROVE Here
  <2>1. address' = address \cup {n} /\ told' = told
    BY <1>1, <1>5, TakenApart, EffectValues
  <2>. QED  BY <1>1, <1>5, <2>1 DEF HasBound
<1>6. ASSUME combo = "04", role[n] = "primary", todo[n] = <<"arp">> PROVE Here
  <2>1. address' = address /\ told' = {n}
    BY <1>1, <1>6, TakenApart, EffectValues
  <2>. QED  BY <1>1, <1>4, <1>6, <2>1, ScriptValues, TakenApart DEF HasBound
<1>7. ASSUME combo = "04", role[n] = "replica", todo[n] = <<"unbind">> PROVE Here
  <2>1. address' = address \ {n} /\ told' = told
    BY <1>1, <1>7, TakenApart, EffectValues
  <2>. QED  BY <1>1, <1>7, <2>1 DEF HasBound
<1>8. ASSUME combo = "05", role[n] = "primary", todo[n] = <<"bind", "announce">> PROVE Here
  <2>1. address' = address \cup {n} /\ told' = told /\ todo'[n] = <<"announce">>
    BY <1>1, <1>8, TakenApart, EffectValues
  <2>. QED  BY <1>1, <1>8, <2>1, TakenApart DEF HasBound, HasRouted
<1>9. ASSUME combo = "05", role[n] = "primary", todo[n] = <<"announce">> PROVE Here
  <2>1. address' = address /\ told' = told \cup {n}
    BY <1>1, <1>9, TakenApart, EffectValues
  <2>2. todo[n] # Script("primary")
    BY <1>9, ScriptValues, TakenApart
  <2>. QED  BY <1>1, <1>4, <1>9, <2>1, <2>2 DEF HasBound, HasRouted
<1>10. ASSUME combo = "05", role[n] = "replica", todo[n] = <<"withdraw", "unbind">> PROVE Here
  <2>1. address' = address /\ told' = told \ {n} /\ todo'[n] = <<"unbind">>
    BY <1>1, <1>10, TakenApart, EffectValues
  <2>. QED  BY <1>1, <1>10, <2>1 DEF HasBound, HasRouted
<1>11. ASSUME combo = "05", role[n] = "replica", todo[n] = <<"unbind">> PROVE Here
  <2>1. address' = address \ {n} /\ told' = told
    BY <1>1, <1>11, TakenApart, EffectValues
  <2>2. todo[n] # Script("replica")
    BY <1>11, ScriptValues, TakenApart
  <2>. QED  BY <1>1, <1>4, <1>11, <2>1, <2>2 DEF HasBound, HasRouted
<1>12. ASSUME combo = "09", role[n] = "primary", todo[n] = <<"ready">> PROVE Here
  <2>1. address' = address /\ told' = told \cup {n}
    BY <1>1, <1>12, TakenApart, EffectValues
  <2>. QED  BY <1>1, <1>4, <1>12, <2>1 DEF HasOpened
<1>13. ASSUME combo = "09", role[n] = "replica", todo[n] = <<"maint">> PROVE Here
  <2>1. address' = address /\ told' = told \ {n}
    BY <1>1, <1>13, TakenApart, EffectValues
  <2>. QED  BY <1>1, <1>4, <1>13, <2>1 DEF HasOpened
<1>14. Here
  BY <1>1, <1>5, <1>6, <1>7, <1>8, <1>9, <1>10, <1>11, <1>12, <1>13, WhatIsLeft
<1>. QED  BY <1>1, <1>3, <1>14 DEF Accounted

\* A command that works leaves the other nodes as they are; in 04 it may turn
\* the LAN away from them.
LEMMA CommandElsewhere ==
    ASSUME IInv, NEW n \in Nodes, Command(n), NEW m \in Nodes \ {n}
    PROVE  Accounted(m)'
<1>1. /\ combo' = combo /\ role' = role /\ machine' = machine /\ missed' = missed
      /\ todo[n] # Empty /\ todo'[m] = todo[m]
      /\ Effect(n, Head(todo[n]))
  BY DEF Command, patroni, Empty, IInv, Typed
<1>2. Head(todo[n]) \in {"bind", "unbind", "arp", "announce", "ready", "withdraw", "maint"}
      /\ (Head(todo[n]) = "arp" => combo = "04")
  <2>1. \/ combo = "04" /\ Head(todo[n]) \in {"bind", "arp", "unbind"}
        \/ combo = "05" /\ Head(todo[n]) \in {"bind", "announce", "withdraw", "unbind"}
        \/ combo = "09" /\ Head(todo[n]) \in {"ready", "maint"}
    BY <1>1, WhatIsLeft, TakenApart
  <2>. QED  BY <2>1
<1>3. (m \in address' <=> m \in address) /\ ((m \in told' <=> m \in told) \/ combo = "04")
  BY <1>1, <1>2, EffectValues
<1>4. Accounted(m)
  BY DEF IInv, AllAccounted
<1>. QED  BY <1>1, <1>3, <1>4, Untouched

-----------------------------------------------------------------------------
(* Every step. *)

\* Every step keeps every node accounted for.
LEMMA AccountedStep ==
    ASSUME IInv, [Next]_vars
    PROVE  AllAccounted'
<1> USE DEF patroni, network, Call, Up
<1>0. /\ \A n \in Nodes : Accounted(n)
      /\ machine \in [Nodes -> {"up", "frozen", "stopped"}]
      /\ role \in [Nodes -> {"primary", "replica"}]
      /\ DOMAIN todo = Nodes
  BY DEF IInv, Typed, AllAccounted
<1>1. ASSUME NEW n \in Nodes, Command(n) PROVE AllAccounted'
  <2>1. \A m \in Nodes \ {n} : Accounted(m)'
    BY <1>1, CommandElsewhere
  <2>. QED  BY <1>1, <2>1, CommandHere DEF AllAccounted
<1>2. ASSUME NEW n \in Nodes, CommandFails(n) PROVE AllAccounted'
  <2>1. ASSUME NEW m \in Nodes \ {n} PROVE Accounted(m)'
    BY <1>0, <1>2, Untouched DEF CommandFails
  <2>2. Accounted(n)'
    <3>1. /\ role'[n] = role[n] /\ combo' = combo /\ machine'[n] = "up" /\ n \in missed'
          /\ todo[n] # Empty /\ todo'[n] = Tail(todo[n]) /\ address' = address
      BY <1>0, <1>2 DEF CommandFails, Empty
    <3>2. todo'[n] \in Rest(role[n])'
      <4>1. Rest(role[n])' = Rest(role[n])
        BY <3>1 DEF Rest
      <4>2. todo[n] \in Rest(role[n]) /\ role[n] \in {"primary", "replica"}
        BY <1>0 DEF Accounted
      <4>. QED  BY <3>1, <4>1, <4>2, RestFollows DEF IInv
    <3>. QED  BY <1>0, <3>1, <3>2 DEF Accounted
  <2>. QED  BY <2>1, <2>2 DEF AllAccounted
<1>3. ASSUME NEW n \in Nodes, Promote(n) PROVE AllAccounted'
  <2>1. ASSUME NEW m \in Nodes \ {n} PROVE Accounted(m)'
    BY <1>0, <1>3, Untouched DEF Promote
  <2>2. Accounted(n)'
    <3>1. /\ combo' = combo /\ role'[n] = "primary" /\ todo'[n] = Script("primary")
          /\ machine'[n] # "stopped" /\ address' = address
      BY <1>0, <1>3 DEF Promote
    <3>. QED  BY <3>1, Called
  <2>. QED  BY <2>1, <2>2 DEF AllAccounted
<1>4. ASSUME NEW n \in Nodes, Demote(n) \/ DemoteStale(n) PROVE AllAccounted'
  <2>1. ASSUME NEW m \in Nodes \ {n} PROVE Accounted(m)'
    BY <1>0, <1>4, Untouched DEF Demote, DemoteStale
  <2>2. Accounted(n)'
    <3>1. /\ combo' = combo /\ role'[n] = "replica" /\ todo'[n] = Script("replica")
          /\ machine'[n] # "stopped" /\ address' = address
      BY <1>0, <1>4 DEF Demote, DemoteStale
    <3>. QED  BY <3>1, Called
  <2>. QED  BY <2>1, <2>2 DEF AllAccounted
<1>5. ASSUME NEW n \in Nodes, Stop(n) PROVE AllAccounted'
  <2>1. ASSUME NEW m \in Nodes \ {n} PROVE Accounted(m)'
    BY <1>0, <1>5, Untouched DEF Stop
  <2>2. Accounted(n)'
    <3>1. /\ combo' = combo /\ role'[n] = "replica" /\ todo'[n] = Empty
          /\ machine'[n] = "stopped" /\ n \notin address' /\ n \notin missed'
      BY <1>0, <1>5 DEF Stop, Empty
    <3>2. Empty \in Rest("replica")'
      <4>1. Rest("replica")' = Rest("replica")
        BY <3>1 DEF Rest
      <4>. QED  BY <4>1, RestFollows DEF IInv
    <3>. QED  BY <3>1, <3>2 DEF Accounted
  <2>. QED  BY <2>1, <2>2 DEF AllAccounted
<1>6. ASSUME NEW n \in Nodes, Start(n) PROVE AllAccounted'
  <2>1. ASSUME NEW m \in Nodes \ {n} PROVE Accounted(m)'
    BY <1>0, <1>6, Untouched DEF Start
  <2>2. Accounted(n)'
    <3>1. /\ combo' = combo /\ role'[n] = "replica" /\ machine'[n] = "up"
          /\ address' = address /\ told' = told /\ n \notin address
          /\ combo = "05" => n \notin told
          /\ todo'[n] = IF combo = "04" THEN Script("replica") ELSE Empty
      BY <1>0, <1>6 DEF Start, Empty, Accounted
    <3>2. todo'[n] \in Rest("replica")'
      <4>1. Rest("replica")' = Rest("replica")
        BY <3>1 DEF Rest
      <4>. QED  BY <3>1, <4>1, RestFollows DEF IInv
    <3>. QED  BY <3>1, <3>2 DEF Accounted, HasBound, HasRouted, HasOpened
  <2>. QED  BY <2>1, <2>2 DEF AllAccounted
<1>7. ASSUME NEW n \in Nodes, Freeze(n) \/ Thaw(n) PROVE AllAccounted'
  <2>1. ASSUME NEW m \in Nodes PROVE Accounted(m)'
    BY <1>0, <1>7, Untouched DEF Freeze, Thaw
  <2>. QED  BY <2>1 DEF AllAccounted
<1>8. ASSUME NEW n \in Nodes, HoldTimeExpires(n) PROVE AllAccounted'
  <2>1. ASSUME NEW m \in Nodes PROVE Accounted(m)'
    BY <1>0, <1>8, Untouched DEF HoldTimeExpires
  <2>. QED  BY <2>1 DEF AllAccounted
<1>9. ASSUME NEW n \in Nodes, HealthCheck(n) PROVE AllAccounted'
  <2>1. ASSUME NEW m \in Nodes PROVE Accounted(m)'
    BY <1>0, <1>9, Untouched DEF HealthCheck
  <2>. QED  BY <2>1 DEF AllAccounted
<1>10. CASE LockExpires \/ ArpExpires \/ UNCHANGED vars
  <2>1. ASSUME NEW m \in Nodes PROVE Accounted(m)'
    BY <1>0, <1>10, Untouched DEF LockExpires, ArpExpires, vars
  <2>. QED  BY <2>1 DEF AllAccounted
<1>. QED  BY <1>1, <1>2, <1>3, <1>4, <1>5, <1>6, <1>7, <1>8, <1>9, <1>10 DEF Next

\* Every step keeps the types.
LEMMA TypedStep ==
    ASSUME IInv, [Next]_vars
    PROVE  Typed'
<1> USE DEF patroni, network, Call, Up, Typed, IInv
<1>0. MaxChanges \in Nat /\ \A n : AtMostOne({n}) /\ AtMostOne({})
  BY CallbacksAssumption DEF AtMostOne
<1>1. ASSUME NEW n \in Nodes, Command(n) PROVE Typed'
  <2>1. address' \subseteq Nodes /\ told' \subseteq Nodes
    BY <1>1 DEF Command, Effect
  <2>2. combo = "04" => AtMostOne(told)'
    <3>1. combo = "04" => told' = told \/ told' = {n}
      BY <1>1, CommandHere
    <3>. QED  BY <1>0, <3>1
  <2>. QED  BY <1>1, <2>1, <2>2 DEF Command
<1>2. ASSUME NEW n \in Nodes, CommandFails(n) PROVE Typed'
  BY <1>2 DEF CommandFails
<1>3. ASSUME NEW n \in Nodes, Promote(n) PROVE Typed'
  BY <1>0, <1>3 DEF Promote
<1>4. ASSUME NEW n \in Nodes, Demote(n) PROVE Typed'
  <2>1. /\ leader' = {} /\ AtMostOne(leader')
        /\ role' \in [Nodes -> {"primary", "replica"}]
        /\ DOMAIN todo' = Nodes
    BY <1>0, <1>4 DEF Demote
  <2>2. changes' \in Nat /\ changes' <= MaxChanges
    BY <1>0, <1>4 DEF Demote
  <2>. QED  BY <1>4, <2>1, <2>2 DEF Demote
<1>5. ASSUME NEW n \in Nodes, DemoteStale(n) PROVE Typed'
  BY <1>5 DEF DemoteStale
<1>6. ASSUME NEW n \in Nodes, Stop(n) PROVE Typed'
  <2>1. /\ machine' \in [Nodes -> {"up", "frozen", "stopped"}]
        /\ role' \in [Nodes -> {"primary", "replica"}]
        /\ DOMAIN todo' = Nodes
    BY <1>6 DEF Stop
  <2>2. changes' \in Nat /\ changes' <= MaxChanges
    BY <1>0, <1>6 DEF Stop
  <2>. QED  BY <1>6, <2>1, <2>2 DEF Stop
<1>7. ASSUME NEW n \in Nodes, Start(n) PROVE Typed'
  BY <1>7 DEF Start
<1>8. ASSUME NEW n \in Nodes, Freeze(n) PROVE Typed'
  BY <1>0, <1>8 DEF Freeze
<1>9. ASSUME NEW n \in Nodes, Thaw(n) PROVE Typed'
  BY <1>9 DEF Thaw
<1>10. ASSUME NEW n \in Nodes, HoldTimeExpires(n) PROVE Typed'
  BY <1>10 DEF HoldTimeExpires
<1>11. ASSUME NEW n \in Nodes, HealthCheck(n) PROVE Typed'
  BY <1>11 DEF HealthCheck
<1>12. CASE LockExpires
  BY <1>0, <1>12 DEF LockExpires
<1>13. CASE ArpExpires
  BY <1>0, <1>13 DEF ArpExpires
<1>14. CASE UNCHANGED vars
  BY <1>14 DEF vars
<1>. QED  BY <1>1, <1>2, <1>3, <1>4, <1>5, <1>6, <1>7, <1>8, <1>9, <1>10, <1>11, <1>12, <1>13, <1>14
          DEF Next

-----------------------------------------------------------------------------
(* The theorems. *)

\* The invariant holds when the cluster has bootstrapped.
LEMMA IInvInit == Init => IInv
<1> SUFFICES ASSUME Init PROVE IInv
  OBVIOUS
<1>1. PICK p \in Nodes :
         /\ leader = {p}
         /\ role = [n \in Nodes |-> IF n = p THEN "primary" ELSE "replica"]
         /\ \/ /\ todo = [n \in Nodes |-> IF n = p THEN Script("primary") ELSE <<>>]
               /\ missed = {}
            \/ /\ combo # "04"
               /\ todo = [n \in Nodes |-> <<>>]
               /\ missed = IF combo = "05" THEN {p} ELSE {}
  BY DEF Init
<1>2. /\ combo \in Combos /\ machine = [n \in Nodes |-> "up"] /\ address = {} /\ changes = 0
      /\ told = IF combo = "09" THEN Nodes ELSE {}
      /\ checked = IF combo = "09" THEN Nodes ELSE {}
  BY DEF Init
<1>3. Typed
  BY <1>1, <1>2, CallbacksAssumption DEF Typed, AtMostOne
<1>4. ASSUME NEW n \in Nodes PROVE Accounted(n)
  <2>1. combo \in {"04", "05", "09"} /\ role[n] \in {"primary", "replica"} /\ machine[n] = "up"
    BY <1>2, <1>3, ThreeCombos DEF Typed
  <2>2. todo[n] \in Rest(role[n])
    BY <1>1, <1>3, RestFollows DEF Empty
  <2>3. CASE n = p
    BY <1>1, <1>2, <2>1, <2>2, <2>3, RestFollows, <1>3 DEF Accounted, HasBound, HasRouted, HasOpened
  <2>4. CASE n # p
    BY <1>1, <1>2, <2>1, <2>2, <2>4 DEF Accounted, HasBound, HasRouted, HasOpened
  <2>. QED  BY <2>3, <2>4
<1>. QED  BY <1>3, <1>4 DEF IInv, AllAccounted

\* The invariant is inductive.
THEOREM Invariance == Spec => []IInv
<1>1. IInv /\ [Next]_vars => IInv'
  BY TypedStep, AccountedStep DEF IInv
<1>. QED  BY IInvInit, <1>1, PTL DEF Spec

\* The type invariant: one holder of the leader lock at most, two commands left
\* at most, and in 04 one station the LAN sends the address to.
THEOREM TypeCorrect == Spec => []TypeOK
<1>1. IInv => TypeOK
  <2> SUFFICES ASSUME IInv PROVE TypeOK
    OBVIOUS
  <2>1. ASSUME NEW S, AtMostOne(S) PROVE Cardinality(S) <= 1
    <3>1. CASE S = {}
      BY <3>1, FS_EmptySet
    <3>2. ASSUME NEW x, S = {x} PROVE Cardinality(S) <= 1
      <4>1. Cardinality({x}) = 1
        BY FS_Singleton
      <4>. QED  BY <3>2, <4>1
    <3>. QED  BY <2>1, <3>1, <3>2 DEF AtMostOne
  <2>2. \A n \in Nodes : Len(todo[n]) <= 2
    BY RestFollows DEF IInv, Typed, AllAccounted, Accounted
  <2>3. combo = "09" => address = {}
    BY DEF IInv, Typed, AllAccounted, Accounted
  <2>4. changes \in 0..MaxChanges
    BY CallbacksAssumption DEF IInv, Typed
  <2>. QED  BY <2>1, <2>2, <2>3, <2>4 DEF IInv, Typed, TypeOK
<1>. QED  BY <1>1, Invariance, PTL

\* Whatever the order in which the callbacks of several nodes run, a node whose
\* callback is through stands as its role says, and a connection that does not
\* reach the holder of the lock is explained by the state of the node it reaches.
THEOREM HoldersAreAccounted == Spec => []HoldersAccounted
<1>1. IInv => HoldersAccounted
  <2> SUFFICES ASSUME IInv PROVE HoldersAccounted
    OBVIOUS
  <2>1. combo \in {"04", "05", "09"} /\ \A n \in Nodes : role[n] \in {"primary", "replica"}
    BY ThreeCombos DEF IInv, Typed
  <2>2. ASSUME NEW n \in Settled
        PROVE  /\ combo # "09" => (n \in address <=> role[n] = "primary")
               /\ combo = "05" => (n \in told <=> role[n] = "primary")
               /\ combo = "09" /\ role[n] = "primary" => n \in told
    <3>1. /\ n \in Nodes /\ machine[n] # "stopped" /\ n \notin missed /\ todo[n] = Empty
          /\ Accounted(n) /\ role[n] \in {"primary", "replica"}
      BY <2>1, <2>2 DEF Settled, Up, Empty, IInv, AllAccounted
    <3>2. /\ Script("primary") # Empty /\ Script("replica") # Empty
          /\ <<"withdraw", "unbind">> # Empty /\ <<"unbind">> # Empty
      BY RestFollows, TakenApart DEF IInv
    <3>. QED  BY <2>1, <3>1, <3>2 DEF Accounted, HasBound, HasRouted, HasOpened
  <2>3. ASSUME NEW n \in Traffic \ leader, Up(n), role[n] # "primary", n \in Settled
        PROVE  combo = "09" /\ n \notin Answering
    BY <2>2, <2>3 DEF Traffic, Answering
  <2>. QED  BY <2>2, <2>3 DEF HoldersAccounted
<1>. QED  BY <1>1, Invariance, PTL
=============================================================================
