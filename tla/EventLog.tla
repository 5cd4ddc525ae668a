------------------------------ MODULE EventLog ------------------------------
(***************************************************************************)
(* What an event emitter promises its watcher: an at-least-once log.       *)
(* Events are accepted in order, accepted events become rows of the        *)
(* observer_events table, a row is never taken back, and the log may only  *)
(* close with an accepted event unstored when something went wrong while   *)
(* it was shutting down, or when there is no table to store it in.  Module *)
(* Emitter shows the buffer, the two flushing threads and the retry of     *)
(* tool/observers/core/emitter.py implementing it.                         *)
(***************************************************************************)
EXTENDS Naturals

VARIABLES durable,    \* there is a table to store events in
          accepted,   \* number of events accepted; they are 1..accepted
          stored,     \* the accepted events that have at least one row
          unclean,    \* the shutdown was abnormal
          open        \* the process that owns the log still runs

logVars == <<durable, accepted, stored, unclean, open>>

Init ==
    /\ durable \in BOOLEAN
    /\ accepted = 0
    /\ stored = {}
    /\ unclean = FALSE
    /\ open = TRUE

Accept ==
    /\ open
    /\ accepted' = accepted + 1
    /\ UNCHANGED <<durable, stored, unclean, open>>

Store ==
    /\ open
    /\ \E e \in 1..accepted : stored' = stored \cup {e}
    /\ UNCHANGED <<durable, accepted, unclean, open>>

\* A write that fails during the shutdown may still have reached the table.
Fault ==
    /\ open
    /\ unclean' = TRUE
    /\ stored' = stored \/ \E e \in 1..accepted : stored' = stored \cup {e}
    /\ UNCHANGED <<durable, accepted, open>>

Close ==
    /\ open
    /\ unclean \/ ~durable \/ stored = 1..accepted
    /\ open' = FALSE
    /\ UNCHANGED <<durable, accepted, stored, unclean>>

\* The process is killed: nobody promises anything.
Crash ==
    /\ open
    /\ open' = FALSE
    /\ unclean' = TRUE
    /\ UNCHANGED <<durable, accepted, stored>>

Next == Accept \/ Store \/ Fault \/ Close \/ Crash

Spec == Init /\ [][Next]_logVars
=============================================================================
