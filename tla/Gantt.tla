--------------------------------- MODULE Gantt ---------------------------------
(***************************************************************************)
(* The lanes of the failover Gantt chart, build_gantt_chart of             *)
(* tool/charts/generate_charts.py, drawn from the events that an observer  *)
(* (module Observer) stored.  The chart knows only the events of its       *)
(* window; what was on a lane before the first of them it guesses from     *)
(* their old values.                                                       *)
(*                                                                         *)
(* The time of an event is the poll that found it.  A window begins at any *)
(* poll (load_run_data) and ends at the last row of the run.               *)
(***************************************************************************)
EXTENDS Observer, FiniteSetsExt

CONSTANTS UpWords, DownWords    \* texts that begin with "up" and "down"

Green  == "#2ecc71"   \* primary, running, UP, leader present
Blue   == "#3498db"   \* replica
Red    == "#e74c3c"   \* stopped, DOWN, no leader, no server UP
Gray   == "#95a5a6"   \* unreachable, and what has no colour
Orange == "#f39c12"   \* starting; no server of the primary backend known
NoLane == "none"

\* STATE_COLORS and get_state_color(); what is known of PostgreSQL's log is left out.
StateColor(value) ==
    CASE value \in {"primary", "running", "UP", "ok", "bound"} -> Green
      [] value \in {"replica", "streaming"}                    -> Blue
      [] value \in {"stopped", "DOWN", "fail", ""}             -> Red
      [] value \in {"starting", "creating replica"}            -> Orange
      [] value = "unreachable"                                 -> Gray
      [] OTHER -> IF value \in UpWords THEN Green
                  ELSE IF value \in DownWords THEN Red ELSE Gray

\* The events of the window, by their place in the watcher's history.
WindowEvents(w, from) == {k \in DOMAIN events[w] : events[w][k].poll >= from}

\* The events a lane is drawn from; timeline changes are markers.
LaneEvents(w, from) == {k \in WindowEvents(w, from) : events[w][k].type # "timeline_change"}

\* get_consul_color()
ConsulColor(e) == IF e.type = "leader_key_deleted" THEN Red ELSE Green

\* The last status of each server in these events.
ServerStates(w, past) ==
    [s \in {events[w][k].channel : k \in past} |->
        events[w][Max({k \in past : events[w][k].channel = s})].new]

\* Mistake: one server DOWN is enough.
AllUpColor(states, backend) ==
    LET known == backend \cap DOMAIN states
    IN  IF known = {} THEN Orange
        ELSE IF \A s \in known : states[s] = "UP" THEN Green ELSE Red

\* _haproxy_aggregate_color(): `backend` are the servers of primary_backend.
AggregateColor(states, backend) ==
    LET known == backend \cap DOMAIN states
    IN  IF known = {} THEN Orange
        ELSE IF \E s \in known : states[s] = "UP" THEN Green ELSE Red

\* The bar from the last of these events on.
EventColor(w, past, backend) ==
    LET last == events[w][Max(past)] IN
    CASE component = "haproxy" -> AggregateColor(ServerStates(w, past), backend)
      [] component = "consul"  -> ConsulColor(last)
      [] OTHER                 -> StateColor(last.new)

\* Mistake: the first event's new value is drawn back to the window's start.
InitColorNew(first, backend) == StateColor(first.new)

\* The bar from the start of the window to the first event.  The old value of a
\* created key is empty, that of a key or node seen first "none".
InitColor(first, backend) ==
    CASE component = "haproxy" -> AggregateColor([s \in {first.channel} |-> first.old], backend)
      [] component = "consul"  -> IF first.type = "leader_key_created" THEN Red ELSE Green
      [] OTHER                 ->
            IF first.old \in {None, "uninitialized", ""} THEN Blue ELSE StateColor(first.old)

\* What the chart of the window from poll `from` shows at poll i.  A node with
\* nothing but timeline changes gets one bar, as a replica.
LaneColor(w, from, i, backend) ==
    LET lane == LaneEvents(w, from)
        past == {k \in lane : events[w][k].poll <= i}
    IN  IF lane = {} THEN IF WindowEvents(w, from) # {} THEN Blue ELSE NoLane
        ELSE IF past = {} THEN InitColor(events[w][Min(lane)], backend)
        ELSE EventColor(w, past, backend)

-----------------------------------------------------------------------------
(* Properties *)

\* The value last told of a channel at poll i, in a set.
Current(w, i, c) == ValueBefore(w, i + 1, c)

\* Whether the servers of HAProxy were in the statistics of every answer.
AlwaysListed(w) ==
    \A j \in DOMAIN answers[w] : answers[w][j].answered => answers[w][j].seen.server1 # Absent

\* The colour of a Patroni lane, in any window that has a role or state event of the
\* node, is that of the role or of the state the node last told, before the first event
\* of the window too and however often it was lost in between; an uninitialized node is
\* drawn as a replica before that event.  So a node that is primary and running is
\* green, and a lane is grey only for one that cannot be reached or whose role or state
\* has no colour (generate_charts.py:366-384 and 411-447).  Which of the two is drawn is
\* left open: a replica that starts running is green as well.
PatroniLaneShowsPrimary ==
    component = "patroni" =>
        \A w \in Watchers : \A i \in DOMAIN answers[w] : \A from \in 1..i :
            LaneEvents(w, from) # {} =>
                LET color == LaneColor(w, from, i, {})
                    told  == Current(w, i, "role") \cup Current(w, i, "state")
                IN  /\ told = {"primary", "running"} => color = Green
                    /\ \E v \in told :
                          color = IF v = "uninitialized" /\ (\A k \in LaneEvents(w, from) : events[w][k].poll > i)
                                  THEN Blue ELSE StateColor(v)

\* The Consul lane is green exactly while the last answer had a leader, also
\* before the first event of the window.  The HAProxy lane is never green without
\* a server of the primary backend that was last seen UP, and is not green
\* although one is UP only when that server has not changed since the window
\* began: the aggregate starts empty (generate_charts.py:67-70 and 392-436).
\* This is about servers that were in the statistics of every answer; one that was
\* missing comes back without an event (haproxy_watcher.py:92), and the old value of
\* its next change is not what it was when the window began.
RoutingLanes ==
    /\ component = "consul" =>
          \A w \in Watchers : \A i \in DOMAIN answers[w] : \A from \in 1..i :
              LET color == LaneColor(w, from, i, {})
              IN  color # NoLane /\ Current(w, i, "leader") # {}
                  => (color = Green <=> Current(w, i, "leader") # {Absent})
    /\ component = "haproxy" =>
          \A w \in Watchers : \A i \in DOMAIN answers[w] : \A from \in 1..i :
              AlwaysListed(w) /\ (\E j \in 1..i : answers[w][j].answered)
              => \A backend \in SUBSET Channels :
                    LET color  == LaneColor(w, from, i, backend)
                        up     == {s \in backend : Current(w, i, s) = {"UP"}}
                        silent == {s \in backend : \A k \in WindowEvents(w, from) :
                                      events[w][k].channel = s => events[w][k].poll > i}
                    IN  /\ color = Green => up # {}
                        /\ color \in {Red, Orange} => up \subseteq silent
=============================================================================
