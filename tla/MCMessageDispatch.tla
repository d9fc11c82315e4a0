------------------------- MODULE MCMessageDispatch -------------------------
(* An instance of the dispatch for TLC. *)
EXTENDS MessageDispatch

\* Bound: every restart costs a message, so that a run with two restarts has
\* two messages left.
MessagesPerRestart ==
    \A m \in Messages : task[m] # "none" => m + restarts <= NumMessages
=============================================================================
