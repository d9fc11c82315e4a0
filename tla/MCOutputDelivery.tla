-------------------------- MODULE MCOutputDelivery --------------------------
(* An instance of the output delivery for TLC. *)
EXTENDS OutputDelivery, TLC

CONSTANTS a1, a2, b1, x, y

\* Two outputs of one section and one of another.
MCOutputs == {a1, a2, b1}
MCIdOf == a1 :> x @@ a2 :> x @@ b1 :> y

\* Bound: one output at most is sent by a task that is left running.
OneLeftRunning == Cardinality(left) <= 1

Symmetry == Permutations({a1, a2})
=============================================================================
