---------------------------- MODULE MCProcessor ----------------------------
(* An instance of the processor for TLC. *)
EXTENDS Processor, TLC

CONSTANTS north, south, first, second, other, broken

\* The second content adds a fiber and a section beyond the channels of the first
\* fiber, and the other one is without the first fiber.  The broken one has another
\* list of sections, and a pipeline that cannot be built.
MCFibersOf == first :> {north} @@ second :> {north, south} @@ other :> {south} @@ broken :> {north}
MCSectionsOf == first :> {1, 2} @@ second :> {1, 2, 3} @@ other :> {1} @@ broken :> {2, 3}
MCChannelStart == [c \in Configs |-> [s \in Sections |-> s - 1]]
MCChannels == north :> 2 @@ south :> 1
MCFiberOf == [m \in Messages |-> IF m = 1 THEN south ELSE north]
=============================================================================
