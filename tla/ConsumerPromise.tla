--------------------------- MODULE ConsumerPromise ---------------------------
(***************************************************************************)
(* What a pipeline service promises the partition it reads, however it     *)
(* buffers, interleaves and retries: it takes messages in order, finishes  *)
(* only messages it has taken, and commits only the offset after a message *)
(* it has finished.  The committed offset may move backward, and another   *)
(* life of the service continues from it; what is not promised is that     *)
(* every message below it was finished.                                    *)
(***************************************************************************)
EXTENDS Integers

CONSTANT NumMessages \* messages in the partition

VARIABLES position,  \* offset of the next message the service will be given
          committed, \* committed offset of the group
          finished   \* messages handled successfully, as far as the service knows

promiseVars == <<position, committed, finished>>

Taken == 1..(position - 1)

Init ==
    /\ position = 1
    /\ committed = 1
    /\ finished = {}

Take ==
    /\ position <= NumMessages
    /\ position' = position + 1
    /\ UNCHANGED <<committed, finished>>

\* Some messages are finished, or none; a finished message is committed, or none.
Finish ==
    /\ finished \subseteq finished'
    /\ finished' \ finished \subseteq Taken
    /\ committed' \in {committed} \cup {m + 1 : m \in finished'}
    /\ UNCHANGED position

\* The process ends and forgets.
Stop ==
    /\ finished' \subseteq finished
    /\ UNCHANGED <<position, committed>>

Resume ==
    /\ position' = committed
    /\ UNCHANGED <<committed, finished>>

Next == Take \/ Finish \/ Stop \/ Resume

Spec == Init /\ [][Next]_promiseVars
=============================================================================
