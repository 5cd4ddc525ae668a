------------------------------- MODULE MCBatch -------------------------------
(***************************************************************************)
(* Two combinations that share a number, as 06-haproxy-rest-polling and    *)
(* its tuned variant do, and what may become of an iteration.              *)
(***************************************************************************)
EXTENDS Reports

TwoCombos == <<[dir |-> "06", num |-> "06"], [dir |-> "06t", num |-> "06"]>>

FilterChoices == {{"06"}}
SkipChoices   == {{}, {"06"}}

RepeatedOrAll == {<<"hard_stop", "hard_stop">>, <<"hard_stop", "switchover">>}

Fine == [registered |-> TRUE, rows |-> TRUE, ok |-> TRUE, measured |-> TRUE, charted |-> TRUE,
         before |-> <<>>, after |-> <<TRUE>>]

\* The client's INSERT came first, the driver's was refused and the charts fail; a
\* failover before the driver's run, and no recovery, row or downtime of its own.
SomeOutcomes ==
    {Fine,
     [Fine EXCEPT !.registered = FALSE, !.charted = FALSE, !.before = <<TRUE>>, !.after = <<>>],
     [Fine EXCEPT !.rows = FALSE, !.ok = FALSE, !.measured = FALSE, !.before = <<FALSE>>]}
=============================================================================
