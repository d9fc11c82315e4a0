-------------------------- MODULE MCIncidentWorkflow --------------------------
(* Instances of the workflow for TLC. *)
EXTENDS IncidentWorkflow

CONSTANTS ack, look, close, other

\* Three posts to one incident, one to another.
MCIncidentOf == [p \in Posts |-> IF p = other THEN 2 ELSE 1]
MCTargetOf == [p \in Posts |-> IF p = look THEN "investigating"
                               ELSE IF p = close THEN "resolved" ELSE "acknowledged"]
=============================================================================
