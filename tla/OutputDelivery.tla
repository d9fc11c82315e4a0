--------------------------- MODULE OutputDelivery ---------------------------
(***************************************************************************)
(* What becomes of an output after the handler: _internal_send and         *)
(* _on_delivery of shared/message_ops.py, add_message of persistent_dlq.py *)
(* and the end of the shutdown in service_base.py and kafka_setup.py.  An  *)
(* output is serialized, entered in _pending_deliveries under its id and   *)
(* handed to the producer; its delivery callback runs only inside a flush, *)
(* which a full batch starts in a thread; a failed delivery takes the      *)
(* pending entry of the id to the dead letter queue.                       *)
(*                                                                         *)
(* Any number of tasks send at once.  The id of an output is the key of    *)
(* its section, so that consecutive outputs share it.                      *)
(*                                                                         *)
(* The dead letter queue is configured and enabled, as in both deployed    *)
(* services.  _on_delivery tests for the entry and takes it out in two     *)
(* steps, one here: they differ only for two outputs of one id served by   *)
(* two flushes at once, where the second removal raises.  A letter is      *)
(* written when the queue's own producer has it.                           *)
(***************************************************************************)
EXTENDS Naturals, FiniteSets

CONSTANTS Outputs,
          Ids,
          IdOf,           \* message.id
          FlushThreshold, \* producer_flush_threshold
          None            \* no entry

ASSUME OutputAssumption ==
    /\ IdOf \in [Outputs -> Ids]
    /\ FlushThreshold \in Nat \ {0}
    /\ None \notin Outputs

VARIABLES stage,    \* where the task that sends an output stands
          wire,     \* the output in the producer
          pending,  \* _pending_deliveries
          batch,    \* _message_batch
          flushers, \* the tasks whose flush is running in its thread
          letter,   \* the dead letter of an output
          phase,    \* the shutdown sequence
          shared,   \* history: outputs in the producer together with one of the same id
          stranded, \* history: outputs a batch flush gave up on, or that came too late for it
          left,     \* history: outputs of tasks that ran on when the others were cancelled
          late,     \* history: outputs produced after the final flush
          abandoned, \* history: outputs the final flush gave up on
          closed    \* history: the consumer was closed in time

sending == <<stage, wire, pending, batch, flushers, letter, shared, stranded>>
ending == <<left, late, abandoned, closed>>
vars == <<sending, phase, ending>>

InFlight == {m \in Outputs : wire[m] \in {"queued", "acked", "error"}}
Flushed(m) == stage[m] = "flushing" /\ m \notin flushers
Live == {m \in Outputs : stage[m] \in {"none", "serializing", "flushing"}}
AfterFinalFlush == {"flushing_letters", "pools_down"}

TypeOK ==
    /\ stage \in [Outputs -> {"none", "serializing", "flushing", "sent", "refused", "cut"}]
    /\ wire \in [Outputs -> {"none", "queued", "acked", "error", "delivered", "failed"}]
    /\ pending \in [Ids -> Outputs \cup {None}]
    /\ batch \subseteq Outputs
    /\ flushers \subseteq Outputs
    /\ letter \in [Outputs -> {"none", "scheduled", "written", "lost"}]
    /\ phase \in {"up", "closing", "final_flush", "flushing_letters", "pools_down", "ended"}
    /\ shared \subseteq Outputs
    /\ stranded \subseteq Outputs
    /\ left \subseteq Outputs
    /\ late \subseteq Outputs
    /\ abandoned \subseteq Outputs
    /\ closed \in BOOLEAN

Init ==
    /\ stage = [m \in Outputs |-> "none"]
    /\ wire = [m \in Outputs |-> "none"]
    /\ pending = [i \in Ids |-> None]
    /\ batch = {}
    /\ flushers = {}
    /\ letter = [m \in Outputs |-> "none"]
    /\ phase = "up"
    /\ shared = {}
    /\ stranded = {}
    /\ left = {}
    /\ late = {}
    /\ abandoned = {}
    /\ closed = FALSE

-----------------------------------------------------------------------------
(* Sending: _internal_send, _send_avro_message, _handle_batched_flush *)

\* Once the tasks are cancelled, only those left running have more to send.
Begin(m) ==
    /\ phase # "ended"
    /\ stage[m] = "none"
    /\ stage' = [stage EXCEPT ![m] = "serializing"]
    /\ UNCHANGED <<wire, pending, batch, flushers, letter, phase, shared, stranded, ending>>

\* Serialization raises, or the output id is unknown: _send_avro_message returns
\* False, which neither the retry nor the breaker around it takes for a failure.
Refuse(m) ==
    /\ stage[m] = "serializing"
    /\ stage' = [stage EXCEPT ![m] = "refused"]
    /\ UNCHANGED <<wire, pending, batch, flushers, letter, phase, shared, stranded, ending>>

Rivals(m) == {k \in InFlight \ {m} : IdOf[k] = IdOf[m]}

\* Mutant: the entry of an earlier output of the same id is kept.
RegisterFirst(m) ==
    /\ stage[m] = "serializing"
    /\ pending' = [pending EXCEPT ![IdOf[m]] = IF @ = None THEN m ELSE @]
    /\ shared' = IF Rivals(m) = {} THEN shared ELSE shared \cup Rivals(m) \cup {m}

\* The entry is made before the output is handed over, whatever entry there is.
Register(m) ==
    /\ stage[m] = "serializing"
    /\ pending' = [pending EXCEPT ![IdOf[m]] = m]
    /\ shared' = IF Rivals(m) = {} THEN shared ELSE shared \cup Rivals(m) \cup {m}

\* The producer's queue is full: the entry stays.
RefusedByProducer(m) ==
    /\ Register(m)
    /\ stage' = [stage EXCEPT ![m] = "refused"]
    /\ UNCHANGED <<wire, batch, flushers, letter, phase, stranded, ending>>

\* Handed over, appended to the batch and the batch tested, without an await
\* between.  The interval since the last flush may have run out at any time.  With
\* the thread pools down a flush that is due raises, and the batch is kept.
Produce(m) ==
    /\ Register(m)
    /\ wire' = [wire EXCEPT ![m] = "queued"]
    /\ batch' = batch \cup {m}
    /\ \/ /\ phase # "pools_down"
          /\ stage' = [stage EXCEPT ![m] = "flushing"]
          /\ flushers' = flushers \cup {m}
       \/ /\ Cardinality(batch') < FlushThreshold \/ phase = "pools_down"
          /\ stage' = [stage EXCEPT ![m] = "sent"]
          /\ UNCHANGED flushers
    /\ stranded' = IF \E k \in Outputs : Flushed(k) THEN stranded \cup {m} ELSE stranded
    /\ late' = IF phase \in AfterFinalFlush THEN late \cup {m} ELSE late
    /\ UNCHANGED <<letter, phase, left, abandoned, closed>>

\* producer.flush: until the producer is empty, or for its timeout; what is in it
\* then was given up.
FlushThreadEnds(m) ==
    /\ m \in flushers
    /\ flushers' = flushers \ {m}
    /\ stranded' = stranded \cup InFlight
    /\ UNCHANGED <<stage, wire, pending, batch, letter, phase, shared, ending>>

\* Mutant: the batch is cleared without waiting for the thread.
ClearBatchAtOnce(m) ==
    /\ stage[m] = "flushing"
    /\ stage' = [stage EXCEPT ![m] = "sent"]
    /\ batch' = {}
    /\ UNCHANGED <<wire, pending, flushers, letter, phase, shared, stranded, ending>>

\* The task goes on and clears the batch, with what was appended meanwhile.
ClearBatch(m) ==
    /\ Flushed(m)
    /\ stage' = [stage EXCEPT ![m] = "sent"]
    /\ batch' = {}
    /\ UNCHANGED <<wire, pending, flushers, letter, phase, shared, stranded, ending>>

\* The flush raised: the batch is kept.
KeepBatch(m) ==
    /\ Flushed(m)
    /\ stage' = [stage EXCEPT ![m] = "sent"]
    /\ UNCHANGED <<wire, pending, batch, flushers, letter, phase, shared, stranded, ending>>

-----------------------------------------------------------------------------
(* Delivery: the broker, and the callback _on_delivery *)

\* The broker acknowledges the output or the producer gives it up.
Resolve(m) ==
    /\ phase # "ended"
    /\ wire[m] = "queued"
    /\ \E result \in {"acked", "error"} : wire' = [wire EXCEPT ![m] = result]
    /\ UNCHANGED <<stage, pending, batch, flushers, letter, phase, shared, stranded, ending>>

\* Callbacks are called by the threads that flush.
Serving == flushers # {} \/ phase = "final_flush"

Delivered(m) ==
    /\ Serving
    /\ wire[m] = "acked"
    /\ wire' = [wire EXCEPT ![m] = "delivered"]
    /\ pending' = [pending EXCEPT ![IdOf[m]] = None]
    /\ UNCHANGED <<stage, batch, flushers, letter, phase, shared, stranded, ending>>

\* Mutant: a letter also when no entry is found.
DeliveryFailedUnguarded(m) ==
    /\ Serving
    /\ wire[m] = "error"
    /\ wire' = [wire EXCEPT ![m] = "failed"]
    /\ LET original == pending[IdOf[m]]
       IN  letter' = [k \in Outputs \cup {original} |->
                        IF k = original THEN "scheduled" ELSE letter[k]]
    /\ pending' = [pending EXCEPT ![IdOf[m]] = None]
    /\ UNCHANGED <<stage, batch, flushers, phase, shared, stranded, ending>>

\* The letter is written for the entry found under the id.
DeliveryFailed(m) ==
    /\ Serving
    /\ wire[m] = "error"
    /\ wire' = [wire EXCEPT ![m] = "failed"]
    /\ LET original == pending[IdOf[m]]
       IN  letter' = [k \in Outputs |-> IF k = original THEN "scheduled" ELSE letter[k]]
    /\ pending' = [pending EXCEPT ![IdOf[m]] = None]
    /\ UNCHANGED <<stage, batch, flushers, phase, shared, stranded, ending>>

\* handle_dead_letter runs on the event loop; add_message swallows its errors.
WriteLetter(m) ==
    /\ phase # "ended"
    /\ letter[m] = "scheduled"
    /\ \E result \in {"written", "lost"} : letter' = [letter EXCEPT ![m] = result]
    /\ UNCHANGED <<stage, wire, pending, batch, flushers, phase, shared, stranded, ending>>

-----------------------------------------------------------------------------
(* Shutdown: service_base.shutdown and _close_kafka_clients *)

\* After the drain, or its timeout, the service's loops are cancelled, and with
\* them the sends they await.  The AI engine's window tasks are in no list, the
\* processor's message tasks are cancelled only if the poll loop was gathering
\* them: any of the others may be left running.  A thread that flushes goes on.
CancelTasks ==
    /\ phase = "up"
    /\ phase' = "closing"
    /\ \E cut \in SUBSET Live :
          /\ stage' = [m \in Outputs |-> IF m \in cut THEN "cut" ELSE stage[m]]
          /\ left' = Live \ cut
    /\ UNCHANGED <<wire, pending, batch, flushers, letter, shared, stranded, late, abandoned,
                   closed>>

\* Mutant: the producer is not flushed.
ConsumerClosedOnly ==
    /\ phase = "closing"
    /\ phase' = "flushing_letters"
    /\ closed' = TRUE
    /\ UNCHANGED <<sending, left, late, abandoned>>

ConsumerClosed ==
    /\ phase = "closing"
    /\ phase' = "final_flush"
    /\ closed' = TRUE
    /\ UNCHANGED <<sending, left, late, abandoned>>

\* It times out or raises.  One try block holds both: the producer is not flushed.
ConsumerCloseFails ==
    /\ phase = "closing"
    /\ phase' = "flushing_letters"
    /\ UNCHANGED <<sending, ending>>

\* The producer is empty, or the flush has timed out.
FinalFlushEnds ==
    /\ phase = "final_flush"
    /\ phase' = "flushing_letters"
    /\ abandoned' = InFlight
    /\ UNCHANGED <<sending, left, late, closed>>

\* The dead letter queue is flushed; then the threads that flush are waited for,
\* which blocks the event loop.
PoolsDown ==
    /\ phase = "flushing_letters"
    /\ flushers = {}
    /\ phase' = "pools_down"
    /\ UNCHANGED <<sending, ending>>

\* The event loop ends and cancels what still runs on it, letters included.
Exit ==
    /\ phase = "pools_down"
    /\ phase' = "ended"
    /\ stage' = [m \in Outputs |-> IF m \in Live THEN "cut" ELSE stage[m]]
    /\ letter' = [m \in Outputs |-> IF letter[m] = "scheduled" THEN "lost" ELSE letter[m]]
    /\ UNCHANGED <<wire, pending, batch, flushers, shared, stranded, ending>>

-----------------------------------------------------------------------------
Task(m) == Refuse(m) \/ RefusedByProducer(m) \/ Produce(m) \/ ClearBatch(m) \/ KeepBatch(m)
Producer(m) == FlushThreadEnds(m) \/ Resolve(m) \/ Delivered(m) \/ DeliveryFailed(m)
Shutdown == ConsumerClosed \/ ConsumerCloseFails \/ FinalFlushEnds \/ PoolsDown \/ Exit

Next ==
    \/ \E m \in Outputs : Begin(m) \/ Task(m) \/ Producer(m) \/ WriteLetter(m)
    \/ CancelTasks
    \/ Shutdown

Spec == Init /\ [][Next]_vars

-----------------------------------------------------------------------------
(* Properties *)

\* Dead letters are addressed by id, yet an output that never was in the producer
\* together with another of its id has a letter exactly when its delivery failed,
\* and until its callback it is the entry of its id.
LettersAreKnown ==
    \A m \in Outputs \ shared :
        /\ (letter[m] # "none") = (wire[m] = "failed")
        /\ m \in InFlight => pending[IdOf[m]] = m

\* The batch that decides on the next flush is cleared after an await, but an
\* output whose callback has not run is counted in it, unless a flush gave the
\* output up or had ended when the output was appended.
BacklogIsKnown == InFlight \subseteq batch \cup stranded

\* A process that closed its consumer in time leaves in the producer only outputs
\* that the final flush gave up on, or that came after it, and those only from tasks
\* that were left running when the others were cancelled: what the drained and the
\* cancelled tasks handed over is not lost, whatever batch flushes gave it up before.
EndIsAccounted ==
    phase = "ended" /\ closed =>
        /\ InFlight \subseteq abandoned \cup late
        /\ late \subseteq left

\* What handle_dead_letter says of itself: it is the failed message that goes to
\* the dead letter queue.
DeadLetterIsTheFailed == \A m \in Outputs : letter[m] # "none" => wire[m] = "failed"
=============================================================================
