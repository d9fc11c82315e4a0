------------------------ MODULE OutputDeliveryProofs ------------------------
(* Proofs about module OutputDelivery, for any outputs and ids. *)
EXTENDS OutputDelivery, TLAPS

\* The module's parts are well-typed in every reachable state.
THEOREM OutputTypeCorrect == Spec => []TypeOK
<1>1. Init => TypeOK
  BY OutputAssumption DEF Init, TypeOK
<1>2. TypeOK /\ [Next]_vars => TypeOK'
  <2> SUFFICES ASSUME TypeOK, [Next]_vars PROVE TypeOK'
    OBVIOUS
  <2> USE OutputAssumption DEF TypeOK, ending
  <2>1. ASSUME NEW m \in Outputs, Begin(m) PROVE TypeOK'
    BY <2>1 DEF Begin
  <2>2. ASSUME NEW m \in Outputs, Task(m) PROVE TypeOK'
    <3>1. CASE Refuse(m)
      BY <3>1 DEF Refuse
    <3>2. CASE RefusedByProducer(m)
      BY <3>2 DEF RefusedByProducer, Register, Rivals, InFlight
    <3>3. CASE Produce(m)
      BY <3>3 DEF Produce, Register, Rivals, InFlight
    <3>4. CASE ClearBatch(m)
      BY <3>4 DEF ClearBatch
    <3>5. CASE KeepBatch(m)
      BY <3>5 DEF KeepBatch
    <3> QED
      BY <2>2, <3>1, <3>2, <3>3, <3>4, <3>5 DEF Task
  <2>3. ASSUME NEW m \in Outputs, Producer(m) PROVE TypeOK'
    <3>1. CASE FlushThreadEnds(m)
      BY <3>1 DEF FlushThreadEnds, InFlight
    <3>2. CASE Resolve(m)
      BY <3>2 DEF Resolve
    <3>3. CASE Delivered(m)
      BY <3>3 DEF Delivered
    <3>4. CASE DeliveryFailed(m)
      BY <3>4 DEF DeliveryFailed
    <3> QED
      BY <2>3, <3>1, <3>2, <3>3, <3>4 DEF Producer
  <2>4. ASSUME NEW m \in Outputs, WriteLetter(m) PROVE TypeOK'
    BY <2>4 DEF WriteLetter
  <2>5. CASE CancelTasks
    BY <2>5 DEF CancelTasks, Live
  <2>6. CASE Shutdown
    <3>1. CASE ConsumerClosed
      BY <3>1 DEF ConsumerClosed, sending
    <3>2. CASE ConsumerCloseFails
      BY <3>2 DEF ConsumerCloseFails, sending, ending
    <3>3. CASE FinalFlushEnds
      BY <3>3 DEF FinalFlushEnds, sending, InFlight
    <3>4. CASE PoolsDown
      BY <3>4 DEF PoolsDown, sending, ending
    <3>5. CASE Exit
      BY <3>5 DEF Exit, ending, Live
    <3> QED
      BY <2>6, <3>1, <3>2, <3>3, <3>4, <3>5 DEF Shutdown
  <2>7. CASE UNCHANGED vars
    BY <2>7 DEF vars, sending, ending
  <2> QED
    BY <2>1, <2>2, <2>3, <2>4, <2>5, <2>6, <2>7 DEF Next
<1> QED
  BY <1>1, <1>2, PTL DEF Spec

-----------------------------------------------------------------------------
(* Letters.  An output enters the producer and the pending entries once, and  *)
(* two outputs of an id in the producer together are both in the history.     *)

SentOnce ==
    \A m \in Outputs :
        stage[m] \in {"none", "serializing"} =>
            wire[m] = "none" /\ letter[m] = "none" /\ pending[IdOf[m]] # m

\* The entry of an id is of that id, and has no letter yet.
EntryIsFresh ==
    \A i \in Ids : pending[i] # None => IdOf[pending[i]] = i /\ letter[pending[i]] = "none"

\* An entry stands for its output or for one that overwrote it.
EntryIsOwned ==
    \A m \in InFlight :
        /\ m \notin shared => pending[IdOf[m]] = m
        /\ pending[IdOf[m]] \in {m, None} \cup shared

RivalsShared ==
    \A m, k \in InFlight : m # k /\ IdOf[m] = IdOf[k] => m \in shared

LetterIsForFailed ==
    \A m \in Outputs \ shared : (letter[m] # "none") = (wire[m] = "failed")

LettersInv ==
    /\ TypeOK
    /\ SentOnce
    /\ EntryIsFresh
    /\ EntryIsOwned
    /\ RivalsShared
    /\ LetterIsForFailed

\* Everything the letters depend on.
letterVars == <<stage, wire, pending, letter, shared>>

LEMMA LettersUnchanged ==
    ASSUME LettersInv, UNCHANGED letterVars, TypeOK'
    PROVE  LettersInv'
  BY DEF LettersInv, letterVars, SentOnce, EntryIsFresh, EntryIsOwned, RivalsShared,
         LetterIsForFailed, InFlight

LEMMA LettersStageOnly ==
    ASSUME LettersInv, TypeOK', UNCHANGED <<wire, pending, letter, shared>>,
           \A m \in Outputs : stage'[m] \in {"none", "serializing"} =>
                                  stage[m] \in {"none", "serializing"}
    PROVE  LettersInv'
  BY DEF LettersInv, SentOnce, EntryIsFresh, EntryIsOwned, RivalsShared,
         LetterIsForFailed, InFlight

\* Taking an output over, or failing to after its entry was made.
LEMMA LettersRegister ==
    ASSUME LettersInv, TypeOK', NEW m \in Outputs, Register(m), letter' = letter,
           stage'[m] \notin {"none", "serializing"},
           \A k \in Outputs \ {m} : stage'[k] = stage[k],
           \A k \in Outputs \ {m} : wire'[k] = wire[k],
           wire'[m] \in {"none", "queued"}
    PROVE  LettersInv'
<1> USE OutputAssumption DEF LettersInv, TypeOK, Register, Rivals, InFlight
<1>0. wire[m] = "none" /\ letter[m] = "none" /\ pending[IdOf[m]] # m /\ IdOf[m] \in Ids
  BY DEF SentOnce
<1>1. SentOnce'
  BY <1>0 DEF SentOnce
<1>2. EntryIsFresh'
  BY <1>0 DEF EntryIsFresh
<1>3. EntryIsOwned'
  <2> SUFFICES ASSUME NEW k \in InFlight'
               PROVE  /\ k \notin shared' => pending'[IdOf[k]] = k
                      /\ pending'[IdOf[k]] \in {k, None} \cup shared'
    BY DEF EntryIsOwned
  <2>1. CASE k = m
    BY <2>1, <1>0
  <2>2. CASE k # m
    <3>1. k \in InFlight
      BY <2>2
    <3>2. CASE IdOf[k] = IdOf[m]
      <4>1. k \in Rivals(m)
        BY <3>1, <3>2, <2>2
      <4> QED
        BY <4>1, <3>2, <1>0
    <3>3. CASE IdOf[k] # IdOf[m]
      BY <3>1, <3>3 DEF EntryIsOwned
    <3> QED
      BY <3>2, <3>3
  <2> QED
    BY <2>1, <2>2
<1>4. RivalsShared'
  <2> SUFFICES ASSUME NEW k \in InFlight', NEW j \in InFlight', k # j, IdOf[k] = IdOf[j]
               PROVE  k \in shared'
    BY DEF RivalsShared
  <2>1. CASE k = m
    <3>1. j \in Rivals(m)
      BY <2>1
    <3> QED
      BY <3>1, <2>1
  <2>2. CASE j = m
    <3>1. k \in Rivals(m)
      BY <2>2
    <3> QED
      BY <3>1
  <2>3. CASE k # m /\ j # m
    BY <2>3 DEF RivalsShared
  <2> QED
    BY <2>1, <2>2, <2>3
<1>5. LetterIsForFailed'
  BY <1>0 DEF LetterIsForFailed
<1> QED
  BY <1>1, <1>2, <1>3, <1>4, <1>5

\* A callback takes the entry of its id out.
LEMMA LettersServed ==
    ASSUME LettersInv, TypeOK', NEW m \in Outputs, Delivered(m) \/ DeliveryFailed(m)
    PROVE  LettersInv'
<1> USE OutputAssumption DEF LettersInv, TypeOK, Delivered, DeliveryFailed, InFlight
<1> DEFINE original == pending[IdOf[m]]
<1>0. /\ m \in InFlight
      /\ IdOf[m] \in Ids
      /\ pending' = [pending EXCEPT ![IdOf[m]] = None]
      /\ UNCHANGED <<stage, shared>>
      /\ \A k \in Outputs \ {m} : wire'[k] = wire[k]
      /\ wire'[m] \in {"delivered", "failed"}
      /\ \A k \in Outputs : k # original => letter'[k] = letter[k]
  OBVIOUS
<1>1. m \notin shared => original = m
  BY <1>0 DEF EntryIsOwned
<1>2. original # m => original \in shared \cup {None}
  BY <1>0 DEF EntryIsOwned
<1>3. SentOnce'
  BY <1>0 DEF SentOnce, EntryIsFresh
<1>4. EntryIsFresh'
  BY <1>0 DEF EntryIsFresh
<1>5. EntryIsOwned'
  <2> SUFFICES ASSUME NEW k \in InFlight'
               PROVE  /\ k \notin shared' => pending'[IdOf[k]] = k
                      /\ pending'[IdOf[k]] \in {k, None} \cup shared'
    BY DEF EntryIsOwned
  <2>1. k # m /\ k \in InFlight
    BY <1>0
  <2>2. CASE IdOf[k] = IdOf[m]
    <3>1. k \in shared
      BY <1>0, <2>1, <2>2 DEF RivalsShared
    <3> QED
      BY <3>1, <2>2, <1>0
  <2>3. CASE IdOf[k] # IdOf[m]
    BY <2>1, <2>3, <1>0 DEF EntryIsOwned
  <2> QED
    BY <2>2, <2>3
<1>6. RivalsShared'
  BY <1>0 DEF RivalsShared
<1>7. LetterIsForFailed'
  <2> SUFFICES ASSUME NEW k \in Outputs \ shared'
               PROVE  (letter'[k] # "none") = (wire'[k] = "failed")
    BY DEF LetterIsForFailed
  <2>1. CASE k # m
    <3>1. k # original
      BY <1>0, <1>2, <2>1
    <3> QED
      BY <3>1, <2>1, <1>0 DEF LetterIsForFailed
  <2>2. CASE k = m
    <3>1. original = m
      BY <2>2, <1>0, <1>1
    <3>2. letter[m] = "none"
      BY <3>1, <1>0 DEF EntryIsFresh
    <3>3. CASE Delivered(m)
      BY <3>2, <3>3, <2>2
    <3>4. CASE DeliveryFailed(m)
      BY <3>1, <3>4, <2>2
    <3> QED
      BY <3>3, <3>4
  <2> QED
    BY <2>1, <2>2
<1> QED
  BY <1>3, <1>4, <1>5, <1>6, <1>7

LEMMA LettersStep == LettersInv /\ TypeOK' /\ [Next]_vars => LettersInv'
<1> SUFFICES ASSUME LettersInv, TypeOK', [Next]_vars PROVE LettersInv'
  OBVIOUS
<1>1. ASSUME NEW m \in Outputs, Begin(m) PROVE LettersInv'
  BY <1>1, LettersStageOnly DEF Begin, LettersInv, TypeOK
<1>2. ASSUME NEW m \in Outputs, Task(m) PROVE LettersInv'
  <2>1. CASE Refuse(m)
    BY <2>1, LettersStageOnly DEF Refuse, LettersInv, TypeOK
  <2>2. CASE RefusedByProducer(m)
    <3>1. Register(m)
      BY <2>2 DEF RefusedByProducer
    <3>2. wire[m] = "none"
      BY <3>1 DEF Register, LettersInv, SentOnce
    <3>3. /\ letter' = letter
          /\ stage'[m] \notin {"none", "serializing"}
          /\ \A k \in Outputs \ {m} : stage'[k] = stage[k] /\ wire'[k] = wire[k]
          /\ wire'[m] \in {"none", "queued"}
      BY <2>2, <3>2 DEF RefusedByProducer, LettersInv, TypeOK
    <3> QED
      BY <3>1, <3>3, LettersRegister
  <2>3. CASE Produce(m)
    <3>1. Register(m)
      BY <2>3 DEF Produce
    <3>2. /\ letter' = letter
          /\ stage'[m] \notin {"none", "serializing"}
          /\ \A k \in Outputs \ {m} : stage'[k] = stage[k] /\ wire'[k] = wire[k]
          /\ wire'[m] \in {"none", "queued"}
      BY <2>3 DEF Produce, LettersInv, TypeOK
    <3> QED
      BY <3>1, <3>2, LettersRegister
  <2>4. CASE ClearBatch(m)
    BY <2>4, LettersStageOnly DEF ClearBatch, LettersInv, TypeOK
  <2>5. CASE KeepBatch(m)
    BY <2>5, LettersStageOnly DEF KeepBatch, LettersInv, TypeOK
  <2> QED
    BY <1>2, <2>1, <2>2, <2>3, <2>4, <2>5 DEF Task
<1>3. ASSUME NEW m \in Outputs, Producer(m) PROVE LettersInv'
  <2>1. CASE FlushThreadEnds(m)
    BY <2>1, LettersUnchanged DEF FlushThreadEnds, letterVars
  <2>2. CASE Resolve(m)
    BY <2>2 DEF Resolve, LettersInv, TypeOK, SentOnce, EntryIsFresh, EntryIsOwned,
                RivalsShared, LetterIsForFailed, InFlight
  <2>3. CASE Delivered(m) \/ DeliveryFailed(m)
    BY <2>3, LettersServed
  <2> QED
    BY <1>3, <2>1, <2>2, <2>3 DEF Producer
<1>4. ASSUME NEW m \in Outputs, WriteLetter(m) PROVE LettersInv'
  <2> USE <1>4 DEF WriteLetter, LettersInv, TypeOK
  <2>1. SentOnce' /\ RivalsShared'
    BY DEF SentOnce, RivalsShared, InFlight
  <2>2. EntryIsFresh'
    BY DEF EntryIsFresh
  <2>3. EntryIsOwned'
    BY DEF EntryIsOwned, InFlight
  <2>4. LetterIsForFailed'
    BY DEF LetterIsForFailed
  <2> QED
    BY <2>1, <2>2, <2>3, <2>4
<1>5. CASE CancelTasks
  BY <1>5, LettersStageOnly DEF CancelTasks, LettersInv, TypeOK, Live
<1>6. CASE Shutdown
  <2>1. CASE ConsumerClosed \/ ConsumerCloseFails \/ FinalFlushEnds \/ PoolsDown
    BY <2>1, LettersUnchanged
       DEF ConsumerClosed, ConsumerCloseFails, FinalFlushEnds, PoolsDown, sending, letterVars
  <2>2. CASE Exit
    BY <2>2 DEF Exit, LettersInv, TypeOK, SentOnce, EntryIsFresh, EntryIsOwned,
                RivalsShared, LetterIsForFailed, InFlight, Live
  <2> QED
    BY <1>6, <2>1, <2>2 DEF Shutdown
<1>7. CASE UNCHANGED vars
  BY <1>7, LettersUnchanged DEF vars, sending, letterVars
<1> QED
  BY <1>1, <1>2, <1>3, <1>4, <1>5, <1>6, <1>7 DEF Next

\* However many outputs of a section are under way, an output that shared its id
\* with none of them has a dead letter exactly when its delivery failed.
THEOREM LettersKnown == Spec => []LettersAreKnown
<1>1. Init => LettersInv
  BY OutputAssumption DEF Init, LettersInv, TypeOK, SentOnce, EntryIsFresh, EntryIsOwned,
         RivalsShared, LetterIsForFailed, InFlight
<1>2. LettersInv => LettersAreKnown
  BY DEF LettersInv, EntryIsOwned, LetterIsForFailed, LettersAreKnown, InFlight
<1> QED
  BY <1>1, <1>2, LettersStep, OutputTypeCorrect, PTL DEF Spec

-----------------------------------------------------------------------------
(* The batch.  A flush that has ended leaves nothing in the producer that is  *)
(* not in stranded, and what is appended before its task goes on is added.    *)

BacklogInv ==
    /\ TypeOK
    /\ InFlight \subseteq batch \cup stranded
    /\ (\E k \in Outputs : Flushed(k)) => InFlight \subseteq stranded

LEMMA BacklogStep == BacklogInv /\ TypeOK' /\ [Next]_vars => BacklogInv'
<1> SUFFICES ASSUME BacklogInv, TypeOK', [Next]_vars PROVE BacklogInv'
  OBVIOUS
<1> USE DEF BacklogInv, TypeOK, InFlight, Flushed
<1>1. ASSUME NEW m \in Outputs, Begin(m) PROVE BacklogInv'
  BY <1>1 DEF Begin
<1>2. ASSUME NEW m \in Outputs, Task(m) PROVE BacklogInv'
  <2>1. CASE Refuse(m)
    BY <2>1 DEF Refuse
  <2>2. CASE RefusedByProducer(m)
    BY <2>2 DEF RefusedByProducer, Register
  <2>3. CASE Produce(m)
    BY <2>3 DEF Produce, Register
  <2>4. CASE ClearBatch(m)
    BY <2>4 DEF ClearBatch
  <2>5. CASE KeepBatch(m)
    BY <2>5 DEF KeepBatch
  <2> QED
    BY <1>2, <2>1, <2>2, <2>3, <2>4, <2>5 DEF Task
<1>3. ASSUME NEW m \in Outputs, Producer(m) PROVE BacklogInv'
  <2>1. CASE FlushThreadEnds(m)
    BY <2>1 DEF FlushThreadEnds
  <2>2. CASE Resolve(m)
    BY <2>2 DEF Resolve
  <2>3. CASE Delivered(m)
    BY <2>3 DEF Delivered
  <2>4. CASE DeliveryFailed(m)
    BY <2>4 DEF DeliveryFailed
  <2> QED
    BY <1>3, <2>1, <2>2, <2>3, <2>4 DEF Producer
<1>4. ASSUME NEW m \in Outputs, WriteLetter(m) PROVE BacklogInv'
  BY <1>4 DEF WriteLetter
<1>5. CASE CancelTasks
  BY <1>5 DEF CancelTasks
<1>6. CASE Shutdown
  <2>1. CASE ConsumerClosed \/ ConsumerCloseFails \/ FinalFlushEnds \/ PoolsDown
    BY <2>1 DEF ConsumerClosed, ConsumerCloseFails, FinalFlushEnds, PoolsDown, sending
  <2>2. CASE Exit
    BY <2>2 DEF Exit
  <2> QED
    BY <1>6, <2>1, <2>2 DEF Shutdown
<1>7. CASE UNCHANGED vars
  BY <1>7 DEF vars, sending
<1> QED
  BY <1>1, <1>2, <1>3, <1>4, <1>5, <1>6, <1>7 DEF Next

\* Although the batch is cleared after an await, an output still in the producer
\* is counted towards the next flush, or a flush gave it up or came before it.
THEOREM BacklogKnown == Spec => []BacklogIsKnown
<1>1. Init => BacklogInv
  BY OutputAssumption DEF Init, BacklogInv, TypeOK, InFlight, Flushed
<1>2. BacklogInv => BacklogIsKnown
  BY DEF BacklogInv, BacklogIsKnown
<1> QED
  BY <1>1, <1>2, BacklogStep, OutputTypeCorrect, PTL DEF Spec

-----------------------------------------------------------------------------
(* The end of the process.  After the cancellation only the tasks in left have *)
(* anything to send, so that what enters the producer after the final flush is *)
(* theirs; what was in it then is in abandoned.                                *)

EndInv ==
    /\ TypeOK
    /\ phase # "up" => Live \subseteq left
    /\ phase = "ended" => Live = {}
    /\ phase = "up" => late = {}
    /\ phase \in {"up", "closing"} => ~closed
    /\ late \subseteq left
    /\ phase \in AfterFinalFlush \cup {"ended"} /\ closed => InFlight \subseteq abandoned \cup late

LEMMA EndStep == EndInv /\ TypeOK' /\ [Next]_vars => EndInv'
<1> SUFFICES ASSUME EndInv, TypeOK', [Next]_vars PROVE EndInv'
  OBVIOUS
<1> USE DEF EndInv, TypeOK, InFlight, Live, AfterFinalFlush
<1>1. ASSUME NEW m \in Outputs, Begin(m) PROVE EndInv'
  BY <1>1 DEF Begin, ending
<1>2. ASSUME NEW m \in Outputs, Task(m) PROVE EndInv'
  <2>1. CASE Refuse(m)
    BY <2>1 DEF Refuse, ending
  <2>2. CASE RefusedByProducer(m)
    BY <2>2 DEF RefusedByProducer, Register, ending
  <2>3. CASE Produce(m)
    <3>1. /\ stage[m] = "serializing" /\ stage'[m] \in {"flushing", "sent"}
          /\ \A k \in Outputs \ {m} : stage'[k] = stage[k] /\ wire'[k] = wire[k]
          /\ UNCHANGED <<phase, left, abandoned, closed>>
          /\ late' = IF phase \in AfterFinalFlush THEN late \cup {m} ELSE late
      BY <2>3 DEF Produce, Register
    <3>2. CASE phase = "up"
      BY <3>1, <3>2
    <3>3. CASE phase # "up"
      <4>1. m \in left /\ Live' \subseteq Live
        BY <3>1, <3>3
      <4>2. InFlight' \subseteq InFlight \cup {m}
        BY <3>1
      <4>3. phase # "ended"
        BY <3>1
      <4> QED
        BY <3>1, <3>3, <4>1, <4>2, <4>3
    <3> QED
      BY <3>2, <3>3
  <2>4. CASE ClearBatch(m)
    BY <2>4 DEF ClearBatch, ending
  <2>5. CASE KeepBatch(m)
    BY <2>5 DEF KeepBatch, ending
  <2> QED
    BY <1>2, <2>1, <2>2, <2>3, <2>4, <2>5 DEF Task
<1>3. ASSUME NEW m \in Outputs, Producer(m) PROVE EndInv'
  <2>1. CASE FlushThreadEnds(m)
    BY <2>1 DEF FlushThreadEnds, ending
  <2>2. CASE Resolve(m)
    BY <2>2 DEF Resolve, ending
  <2>3. CASE Delivered(m)
    BY <2>3 DEF Delivered, ending
  <2>4. CASE DeliveryFailed(m)
    BY <2>4 DEF DeliveryFailed, ending
  <2> QED
    BY <1>3, <2>1, <2>2, <2>3, <2>4 DEF Producer
<1>4. ASSUME NEW m \in Outputs, WriteLetter(m) PROVE EndInv'
  BY <1>4 DEF WriteLetter, ending
<1>5. CASE CancelTasks
  BY <1>5 DEF CancelTasks
<1>6. CASE Shutdown
  <2>1. CASE ConsumerClosed
    BY <2>1 DEF ConsumerClosed, sending
  <2>2. CASE ConsumerCloseFails
    BY <2>2 DEF ConsumerCloseFails, sending, ending
  <2>3. CASE FinalFlushEnds
    BY <2>3 DEF FinalFlushEnds, sending
  <2>4. CASE PoolsDown
    BY <2>4 DEF PoolsDown, sending, ending
  <2>5. CASE Exit
    BY <2>5 DEF Exit, ending
  <2> QED
    BY <1>6, <2>1, <2>2, <2>3, <2>4, <2>5 DEF Shutdown
<1>7. CASE UNCHANGED vars
  BY <1>7 DEF vars, sending, ending
<1> QED
  BY <1>1, <1>2, <1>3, <1>4, <1>5, <1>6, <1>7 DEF Next

\* However many tasks are left running and whatever they send while the process
\* shuts down, one that closed its consumer in time leaves in the producer only
\* what the final flush gave up on, or what those tasks produced after it.
THEOREM EndAccounted == Spec => []EndIsAccounted
<1>1. Init => EndInv
  BY OutputAssumption DEF Init, EndInv, TypeOK, InFlight, Live, AfterFinalFlush
<1>2. EndInv => EndIsAccounted
  BY DEF EndInv, EndIsAccounted, AfterFinalFlush
<1> QED
  BY <1>1, <1>2, EndStep, OutputTypeCorrect, PTL DEF Spec
=============================================================================
