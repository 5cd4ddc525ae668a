------------------------------ MODULE MCObserver ------------------------------
(***************************************************************************)
(* Values of WATCHER_TARGETS: not set, two nodes among entries that are    *)
(* none, and no valid entry at all.  Answers of Patroni: on both timelines, *)
(* and without one while PostgreSQL is down; roles and states with a       *)
(* colour and without.                                                     *)
(***************************************************************************)
EXTENDS Gantt

Targets == {<<>>, <<"node1", Malformed, "node2", Blank>>, <<Malformed>>}

Node(role, state, timeline) == [role |-> role, state |-> state, timeline |-> timeline]

Nodes == {Node("primary", "running", "1"), Node("replica", "running", "2"),
          Node("replica", "stopping", "1"), Node("uninitialized", "stopped", Absent)}
=============================================================================
