------------------------------ MODULE Callbacks ------------------------------
(***************************************************************************)
(* The routing layers whose program is in this repository: the callbacks   *)
(* Patroni runs on a change of role.                                       *)
(*   04  vip_callback.sh: a floating address and a gratuitous ARP          *)
(*   05  bgp_callback.sh: the address on lo and a route to announce        *)
(*   09  haproxy_callback.sh: the state of the node's server in HAProxy    *)
(* Each runs on its own node, command after command, once; a command that  *)
(* fails is passed over ("|| true") and nothing tries it again.            *)
(*                                                                         *)
(* Patroni with the leader lock, the LAN, the BGP router and HAProxy are   *)
(* not in this repository and are modelled from how the scripts and the    *)
(* configurations use them.                                                *)
(***************************************************************************)
EXTENDS Integers, Sequences, FiniteSets, Functions

CONSTANTS
    Nodes,      \* the Patroni nodes
    Combos,     \* which of "04", "05", "09"
    MaxChanges  \* bound: nodes stopped, frozen or demoted in a run

ASSUME CallbacksAssumption ==
    /\ Nodes # {}
    /\ Combos \subseteq {"04", "05", "09"}
    /\ MaxChanges \in Nat

VARIABLES
    combo,    \* the combination under test
    machine,  \* of each node: up, frozen (docker pause) or stopped
    role,     \* the role Patroni on each node gave it last
    leader,   \* the holder of the leader lock, at most one
    todo,     \* commands left of the callback running on each node
    address,  \* nodes with the address on an interface
    told,     \* 04: where the LAN sends the address; 05: routes; 09: servers not in maint
    checked,  \* 09: servers whose health check stands at UP
    missed,   \* nodes that lack a command of their last callback
    changes   \* stops, freezes and demotions so far

vars == <<combo, machine, role, leader, todo, address, told, checked, missed, changes>>

patroni == <<machine, role, leader>>
network == <<address, told, checked>>

Up(n) == machine[n] = "up"

\* What answers GET /primary with 200.
Answering == {n \in Nodes : Up(n) /\ role[n] = "primary"}

\* Mistakes: a demotion in 04 leaves the address; 05 announces a route to an
\* address it has not bound.
ScriptLeaves(r) ==
    CASE combo = "04" -> IF r = "primary" THEN <<"bind", "arp">> ELSE <<"arp">>
      [] combo = "05" -> IF r = "primary" THEN <<"bind", "announce">> ELSE <<"withdraw", "unbind">>
      [] combo = "09" -> IF r = "primary" THEN <<"ready">> ELSE <<"maint">>

ScriptUnbound(r) ==
    CASE combo = "04" -> IF r = "primary" THEN <<"bind", "arp">> ELSE <<"unbind">>
      [] combo = "05" -> IF r = "primary" THEN <<"announce">> ELSE <<"withdraw">>
      [] combo = "09" -> IF r = "primary" THEN <<"ready">> ELSE <<"maint">>

\* The action argument is not looked at, only the role.
Script(r) ==
    CASE combo = "04" -> IF r = "primary" THEN <<"bind", "arp">> ELSE <<"unbind">>
      [] combo = "05" -> IF r = "primary" THEN <<"bind", "announce">> ELSE <<"withdraw", "unbind">>
      [] combo = "09" -> IF r = "primary" THEN <<"ready">> ELSE <<"maint">>

\* The cluster has bootstrapped.  04 binds the address of the first primary with
\* vip_post_init.sh, the same two commands; whether the others are called for it
\* is Patroni's affair.  haproxy.cfg lists every server, none in maint.
Init ==
    /\ combo \in Combos
    /\ machine = [n \in Nodes |-> "up"]
    /\ \E p \in Nodes :
          /\ leader = {p}
          /\ role = [n \in Nodes |-> IF n = p THEN "primary" ELSE "replica"]
          /\ \/ todo = [n \in Nodes |-> IF n = p THEN Script("primary") ELSE <<>>]
                /\ missed = {}
             \/ /\ combo # "04"
                /\ todo = [n \in Nodes |-> <<>>]
                /\ missed = IF combo = "05" THEN {p} ELSE {}
    /\ address = {}
    /\ told = IF combo = "09" THEN Nodes ELSE {}
    /\ checked = IF combo = "09" THEN Nodes ELSE {}
    /\ changes = 0

-----------------------------------------------------------------------------
(* The scripts. *)

\* A newer callback ends the one that still runs.
Call(n, r) ==
    /\ todo' = [todo EXCEPT ![n] = Script(r)]
    /\ missed' = missed \ {n}

\* Mistake: an announcement leaves the former one standing.
EffectArpAdds(n, command) ==
    /\ address' = CASE command = "bind"   -> address \cup {n}
                    [] command = "unbind" -> address \ {n}
                    [] OTHER              -> address
    /\ told' = CASE command \in {"arp", "announce", "ready"} -> told \cup {n}
                 [] command \in {"withdraw", "maint"}        -> told \ {n}
                 [] OTHER                                    -> told

Effect(n, command) ==
    /\ address' = CASE command = "bind"   -> address \cup {n}
                    [] command = "unbind" -> address \ {n}
                    [] OTHER              -> address
    /\ told' = CASE command = "arp"                   -> {n}
                 [] command \in {"announce", "ready"} -> told \cup {n}
                 [] command \in {"withdraw", "maint"} -> told \ {n}
                 [] OTHER                             -> told

Command(n) ==
    /\ Up(n)
    /\ todo[n] # <<>>
    /\ Effect(n, Head(todo[n]))
    /\ todo' = [todo EXCEPT ![n] = Tail(@)]
    /\ UNCHANGED <<combo, patroni, checked, missed, changes>>

\* No such address, no FIFO, HAProxy not reachable within 5 s.
CommandFails(n) ==
    /\ Up(n)
    /\ todo[n] # <<>>
    /\ todo' = [todo EXCEPT ![n] = Tail(@)]
    /\ missed' = missed \cup {n}
    /\ UNCHANGED <<combo, patroni, network, changes>>

-----------------------------------------------------------------------------
(* Patroni and the containers. *)

Promote(n) ==
    /\ Up(n)
    /\ leader = {}
    /\ role[n] = "replica"
    /\ leader' = {n}
    /\ role' = [role EXCEPT ![n] = "primary"]
    /\ Call(n, "primary")
    /\ UNCHANGED <<combo, machine, network, changes>>

\* A primary gives up its role with the lock, as in a switchover.
Demote(n) ==
    /\ Up(n)
    /\ leader = {n} /\ role[n] = "primary"
    /\ changes < MaxChanges /\ changes' = changes + 1
    /\ leader' = {}
    /\ role' = [role EXCEPT ![n] = "replica"]
    /\ Call(n, "replica")
    /\ UNCHANGED <<combo, machine, network>>

\* It finds that it lost the lock while it was frozen.
DemoteStale(n) ==
    /\ Up(n)
    /\ n \notin leader /\ role[n] = "primary"
    /\ role' = [role EXCEPT ![n] = "replica"]
    /\ Call(n, "replica")
    /\ UNCHANGED <<combo, machine, leader, network, changes>>

\* The container ends, and its network with it, without a demotion.  (04 calls
\* on_stop; what that changes goes with the container.)
Stop(n) ==
    /\ machine[n] # "stopped"
    /\ changes < MaxChanges /\ changes' = changes + 1
    /\ machine' = [machine EXCEPT ![n] = "stopped"]
    /\ role' = [role EXCEPT ![n] = "replica"]
    /\ todo' = [todo EXCEPT ![n] = <<>>]
    /\ missed' = missed \ {n}
    /\ address' = address \ {n}
    /\ UNCHANGED <<combo, leader, told, checked>>

\* Only 04 is called for a start.  Bound: not within the TTL of the lock nor the
\* hold time of the route.
Start(n) ==
    /\ machine[n] = "stopped"
    /\ n \notin leader
    /\ combo = "05" => n \notin told
    /\ machine' = [machine EXCEPT ![n] = "up"]
    /\ todo' = [todo EXCEPT ![n] = IF combo = "04" THEN Script("replica") ELSE <<>>]
    /\ UNCHANGED <<combo, role, leader, network, missed, changes>>

Freeze(n) ==
    /\ Up(n)
    /\ changes < MaxChanges /\ changes' = changes + 1
    /\ machine' = [machine EXCEPT ![n] = "frozen"]
    /\ UNCHANGED <<combo, role, leader, todo, network, missed>>

Thaw(n) ==
    /\ machine[n] = "frozen"
    /\ machine' = [machine EXCEPT ![n] = "up"]
    /\ UNCHANGED <<combo, role, leader, todo, network, missed, changes>>

\* TTL, or the release of a clean stop.
LockExpires ==
    /\ \E n \in leader : ~Up(n)
    /\ leader' = {}
    /\ UNCHANGED <<combo, machine, role, todo, network, missed, changes>>

-----------------------------------------------------------------------------
(* The network. *)

\* A neighbour asks again; every holder answers, a frozen one too: its kernel runs.
ArpExpires ==
    /\ combo = "04"
    /\ \E n \in address : told' = {n}
    /\ UNCHANGED <<combo, patroni, todo, address, checked, missed, changes>>

\* The ExaBGP beside a frozen node is another container and keeps its session.
HoldTimeExpires(n) ==
    /\ combo = "05"
    /\ n \in told /\ machine[n] = "stopped"
    /\ told' = told \ {n}
    /\ UNCHANGED <<combo, patroni, todo, address, checked, missed, changes>>

\* fall 3 or rise 2 checks of GET /primary.
HealthCheck(n) ==
    /\ combo = "09"
    /\ checked' = IF n \in Answering THEN checked \cup {n} ELSE checked \ {n}
    /\ UNCHANGED <<combo, patroni, todo, address, told, missed, changes>>

Next ==
    \/ LockExpires \/ ArpExpires
    \/ \E n \in Nodes :
          \/ Command(n) \/ CommandFails(n)
          \/ Promote(n) \/ Demote(n) \/ DemoteStale(n)
          \/ Stop(n) \/ Start(n) \/ Freeze(n) \/ Thaw(n)
          \/ HoldTimeExpires(n) \/ HealthCheck(n)

Spec == Init /\ [][Next]_vars

\* Scripts run, Patroni promotes and demotes, timers expire, health checks go on,
\* and what was taken out is brought back, as the driver does after an iteration.
Fairness ==
    /\ WF_vars(LockExpires) /\ WF_vars(ArpExpires)
    /\ WF_vars(\E n \in Nodes : Promote(n))
    /\ \A n \in Nodes :
          /\ WF_vars(Command(n) \/ CommandFails(n))
          /\ WF_vars(DemoteStale(n)) /\ WF_vars(Start(n)) /\ WF_vars(Thaw(n))
          /\ WF_vars(HoldTimeExpires(n)) /\ WF_vars(HealthCheck(n))

FairSpec == Spec /\ Fairness

-----------------------------------------------------------------------------
(* Properties *)

TypeOK ==
    /\ combo \in Combos
    /\ machine \in [Nodes -> {"up", "frozen", "stopped"}]
    /\ role \in [Nodes -> {"primary", "replica"}]
    /\ leader \subseteq Nodes /\ Cardinality(leader) <= 1
    /\ \A n \in Nodes : Len(todo[n]) <= 2
    /\ UNION {address, told, checked, missed} \subseteq Nodes
    /\ combo = "04" => Cardinality(told) <= 1
    /\ combo = "09" => address = {}
    /\ changes \in 0..MaxChanges

\* Where new connections of the client end up.
Traffic == IF combo = "09" THEN told \cap checked ELSE told \cap address

\* Nodes whose last callback, if there was one, is through and complete.
Settled == {n \in Nodes : Up(n) /\ todo[n] = <<>> /\ n \notin missed}

\* Callbacks of the old and the new primary run on their nodes in any order.
\* Still, on a node whose callback is through the routing layer stands as its role
\* says (in 09 a replica may be left open, to the health check); so a connection
\* that does not reach the holder of the lock reaches a node that is frozen or
\* stopped, has not noticed that it lost the lock, has its callback before it or
\* lacks a command of it, or, in 09, has not failed its health check yet.
HoldersAccounted ==
    /\ \A n \in Settled :
          /\ combo # "09" => (n \in address <=> role[n] = "primary")
          /\ combo = "05" => (n \in told <=> role[n] = "primary")
          /\ combo = "09" /\ role[n] = "primary" => n \in told
    /\ \A n \in Traffic \ leader :
          \/ ~Up(n) \/ role[n] = "primary" \/ n \notin Settled
          \/ combo = "09" /\ n \notin Answering

\* Once nothing is taken out any more and callbacks stop failing, the routing
\* layer ends up at the primary and stays there: the timers of the network make
\* up for every order of callbacks, but nothing makes up for a failed one.
TrafficReturns == <>[](missed = {}) => <>[](leader # {} /\ Traffic = leader)
=============================================================================
