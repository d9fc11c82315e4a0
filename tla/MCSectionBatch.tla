--------------------------- MODULE MCSectionBatch ---------------------------
(* Instances of the AI engine's section batches for TLC. *)
EXTENDS SectionBatch, TLC

CONSTANTS a1, a2, b1, FiberA, FiberB

\* Two sections of one fiber.
OneFiber == (a1 :> FiberA) @@ (a2 :> FiberA)

\* A fiber of two sections, and one of a single section.
TwoFibers == OneFiber @@ (b1 :> FiberB)

\* Bound: the single section of fiber B fills one window at most, and behaviours
\* longer than five messages are those of fiber A alone, its sections kept together
\* and every message decodable.  Both of them can then fill a second window, at
\* Window + Step messages each.
LongIfAligned ==
    /\ received[b1] <= Window
    /\ polled <= 5 \/ (aligned /\ received[a1] + received[a2] = polled)
=============================================================================
