--------------------------- MODULE MessageDispatch ---------------------------
(***************************************************************************)
(* How a Transformer or MultiTransformer service takes messages from Kafka *)
(* (shared/service_base.py, message_ops.py, transformer.py, kafka_setup.py *)
(* and persistent_dlq.py): the poll loop starts one task per message, a    *)
(* task holds a permit of the semaphore while its handler runs and its     *)
(* offset is committed or it is dead-lettered, and sends its output after  *)
(* giving the permit back.  The service may crash or be shut down, and is  *)
(* restarted from the committed offset.                                    *)
(*                                                                         *)
(* One partition, whose messages are 1..NumMessages in offset order.  The  *)
(* outcome of a handler, of the breaker and of the message timeout is one  *)
(* choice here; module CircuitBreaker has their detail.                    *)
(*                                                                         *)
(* The poll loop is that of ServiceBase, with which a Transformer, a       *)
(* MultiTransformer or a Consumer runs.  The two services of the pipeline  *)
(* override it: the processor by a batch loop (module Processor), the AI   *)
(* engine by that of the rolling buffers (RollingBuffer, SectionBatch).    *)
(* The processor's tasks are dispatched as here; the semaphore, the commit *)
(* and the shutdown are the same for all.                                  *)
(***************************************************************************)
EXTENDS Integers, Sequences, FiniteSets

CONSTANTS NumMessages,   \* messages in the partition
          MaxConcurrent, \* max_concurrent_messages
          MaxRestarts    \* bound on the restarts of the service

ASSUME SizeAssumption ==
    /\ NumMessages \in Nat
    /\ MaxConcurrent \in Nat \ {0}
    /\ MaxRestarts \in Nat

VARIABLES phase,        \* _running and the shutdown sequence
          poller,       \* the poll loop: before its back-pressure test, or in a poll
          position,     \* next offset the consumer will be given
          task,         \* where each message stands
          committed,    \* committed offset of the group: the first message of the next life
          late_commits, \* commit threads that outlived their timeout
          dlq,          \* messages in the dead letter topic
          restarts

broker == <<committed, dlq>>
vars == <<phase, poller, position, task, committed, late_commits, dlq, restarts>>

Messages == 1..NumMessages
Offsets == 1..(NumMessages + 1)

HoldsPermit == {"running", "committing", "dead_lettering"}
InFlight == {"waiting", "sending"} \cup HoldsPermit
Settled == {"sent", "filtered", "send_failed", "dead", "dlq_failed", "undecodable"}
Cut == {"unsent", "lost"} \* acknowledged, but the process went away: before the send, or earlier

TypeOK ==
    /\ phase \in {"up", "draining", "drained", "down"}
    /\ poller \in {"testing", "polling"}
    /\ position \in Offsets
    /\ task \in [Messages -> {"none"} \cup InFlight \cup Settled \cup Cut]
    /\ committed \in Offsets
    /\ late_commits \subseteq Messages
    /\ dlq \subseteq Messages
    /\ restarts \in 0..MaxRestarts

Init ==
    /\ phase = "up"
    /\ poller = "testing"
    /\ position = 1
    /\ task = [m \in Messages |-> "none"]
    /\ committed = 1
    /\ late_commits = {}
    /\ dlq = {}
    /\ restarts = 0

-----------------------------------------------------------------------------
(* The semaphore.  It wakes its waiters in the order they came.            *)

Permits(t) == {m \in Messages : t[m] \in HoldsPermit}
Waiting(t) == {m \in Messages : t[m] = "waiting"}
PermitFree == Cardinality(Permits(task)) < MaxConcurrent

Alive == phase \in {"up", "draining"}

-----------------------------------------------------------------------------
(* The poll loop *)

\* Mutant: no back-pressure test.
StartPollAlways ==
    /\ phase = "up"
    /\ poller = "testing"
    /\ poller' = "polling"
    /\ UNCHANGED <<phase, position, task, broker, late_commits, restarts>>

\* Back-pressure: poll only if a permit is free now.
StartPoll ==
    /\ phase = "up"
    /\ poller = "testing"
    /\ PermitFree
    /\ poller' = "polling"
    /\ UNCHANGED <<phase, position, task, broker, late_commits, restarts>>

\* The event loop resumes a task that can have its permit before it delivers
\* the result of a poll.
PollResult ==
    /\ Alive
    /\ poller = "polling"
    /\ ~(PermitFree /\ Waiting(task) # {})

\* A message comes back and its task is created.  A poll under way when the
\* shutdown begins still dispatches its message.
Dispatch ==
    /\ PollResult
    /\ position \in Messages
    /\ task' = [task EXCEPT ![position] = "waiting"]
    /\ position' = position + 1
    /\ poller' = "testing"
    /\ UNCHANGED <<phase, broker, late_commits, restarts>>

\* Mutant: the deserialization error ends the poll loop.
SkipUndecodableAndStop ==
    /\ PollResult
    /\ position \in Messages
    /\ task' = [task EXCEPT ![position] = "undecodable"]
    /\ position' = position + 1
    /\ poller' = "ended"
    /\ UNCHANGED <<phase, broker, late_commits, restarts>>

\* A message that cannot be deserialized is logged; the poll returns None.
SkipUndecodable ==
    /\ PollResult
    /\ position \in Messages
    /\ task' = [task EXCEPT ![position] = "undecodable"]
    /\ position' = position + 1
    /\ poller' = "testing"
    /\ UNCHANGED <<phase, broker, late_commits, restarts>>

\* Nothing to read.
EmptyPoll ==
    /\ PollResult
    /\ position = NumMessages + 1
    /\ poller' = "testing"
    /\ UNCHANGED <<phase, position, task, broker, late_commits, restarts>>

-----------------------------------------------------------------------------
(* One message's task: _execute_with_protection and _dispatch *)

Acquire(m) ==
    /\ Alive
    /\ PermitFree
    /\ task[m] = "waiting"
    /\ \A n \in Waiting(task) : m <= n
    /\ task' = [task EXCEPT ![m] = "running"]
    /\ UNCHANGED <<phase, poller, position, broker, late_commits, restarts>>

HandlerReturns(m) ==
    /\ Alive
    /\ task[m] = "running"
    /\ task' = [task EXCEPT ![m] = "committing"]
    /\ UNCHANGED <<phase, poller, position, broker, late_commits, restarts>>

\* Retries exhausted, rejected by the breaker, or timed out.
HandlerFails(m) ==
    /\ Alive
    /\ task[m] = "running"
    /\ task' = [task EXCEPT ![m] = "dead_lettering"]
    /\ UNCHANGED <<phase, poller, position, broker, late_commits, restarts>>

\* add_message swallows its own errors: the caller sees no difference.
DeadLetter(m) ==
    /\ Alive
    /\ task[m] = "dead_lettering"
    /\ \/ /\ dlq' = dlq \cup {m}
          /\ task' = [task EXCEPT ![m] = "dead"]
       \/ /\ task' = [task EXCEPT ![m] = "dlq_failed"]
          /\ UNCHANGED dlq
    /\ UNCHANGED <<phase, poller, position, committed, late_commits, restarts>>

\* The permit is released; a handler that returned nothing has nothing to send.
AfterCommit(m) ==
    \/ task' = [task EXCEPT ![m] = "sending"]
    \/ task' = [task EXCEPT ![m] = "filtered"]

\* Mutant: the offset handed to the commit is incremented once too often.
CommitOneTooFar(m) ==
    /\ Alive
    /\ task[m] = "committing"
    /\ committed' = m + 2
    /\ AfterCommit(m)
    /\ UNCHANGED <<phase, poller, position, late_commits, dlq, restarts>>

\* Committing a message sets the group's offset past it, also when that is
\* lower than what is committed already.
Commit(m) ==
    /\ Alive
    /\ task[m] = "committing"
    /\ committed' = m + 1
    /\ AfterCommit(m)
    /\ UNCHANGED <<phase, poller, position, late_commits, dlq, restarts>>

\* wait_for gives up on the attempt, not on the thread that runs it.
CommitAttemptTimesOut(m) ==
    /\ Alive
    /\ task[m] = "committing"
    /\ m \notin late_commits
    /\ late_commits' = late_commits \cup {m}
    /\ UNCHANGED <<phase, poller, position, task, broker, restarts>>

LateCommitLands(m) ==
    /\ Alive
    /\ m \in late_commits
    /\ committed' = m + 1
    /\ late_commits' = late_commits \ {m}
    /\ UNCHANGED <<phase, poller, position, task, dlq, restarts>>

\* A rebalance error, or the last attempt failed: _commit_message returns
\* False, which the caller ignores.
CommitFails(m) ==
    /\ Alive
    /\ task[m] = "committing"
    /\ AfterCommit(m)
    /\ UNCHANGED <<phase, poller, position, broker, late_commits, restarts>>

\* Outside the semaphore.  A failed send returns False, which _dispatch ignores.
Send(m) ==
    /\ Alive
    /\ task[m] = "sending"
    /\ \/ task' = [task EXCEPT ![m] = "sent"]
       \/ task' = [task EXCEPT ![m] = "send_failed"]
    /\ UNCHANGED <<phase, poller, position, broker, late_commits, restarts>>

-----------------------------------------------------------------------------
(* Shutdown, crash and restart *)

StopAccepting ==
    /\ phase = "up"
    /\ phase' = "draining"
    /\ UNCHANGED <<poller, position, task, broker, late_commits, restarts>>

\* What becomes of the tasks when the process ends: an acknowledged message is
\* not delivered again, the others will be.
Ended ==
    [m \in Messages |->
        CASE m >= committed -> "none"
          [] m < committed /\ task[m] = "sending" -> "unsent"
          [] m < committed /\ task[m] \in InFlight \ {"sending"} -> "lost"
          [] OTHER -> task[m]]

\* Mutant: the drain does not wait for the permits.
DrainAtOnce ==
    /\ phase = "draining"
    /\ phase' = "drained"
    /\ task' = Ended
    /\ late_commits' = {}
    /\ UNCHANGED <<poller, position, broker, restarts>>

\* The drain waits for the permits only; then every task is cancelled.
DrainComplete ==
    /\ phase = "draining"
    /\ Permits(task) = {}
    /\ phase' = "drained"
    /\ task' = Ended
    /\ late_commits' = {}
    /\ UNCHANGED <<poller, position, broker, restarts>>

\* The process dies, or the drain times out and the tasks are cancelled.
Crash ==
    /\ Alive
    /\ phase' = "down"
    /\ task' = Ended
    /\ late_commits' = {}
    /\ UNCHANGED <<poller, position, broker, restarts>>

Restart ==
    /\ phase \in {"drained", "down"}
    /\ restarts < MaxRestarts
    /\ restarts' = restarts + 1
    /\ phase' = "up"
    /\ poller' = "testing"
    /\ position' = committed
    /\ UNCHANGED <<task, broker, late_commits>>

-----------------------------------------------------------------------------
PollLoop == StartPoll \/ Dispatch \/ SkipUndecodable \/ EmptyPoll

\* What moves a message on.
Task(m) ==
    \/ Acquire(m)
    \/ HandlerReturns(m)
    \/ HandlerFails(m)
    \/ DeadLetter(m)
    \/ Commit(m)
    \/ CommitFails(m)
    \/ Send(m)

Next ==
    \/ PollLoop
    \/ \E m \in Messages : Task(m) \/ CommitAttemptTimesOut(m) \/ LateCommitLands(m)
    \/ StopAccepting
    \/ DrainComplete
    \/ Crash
    \/ Restart

Spec == Init /\ [][Next]_vars

\* The event loop runs every task that can go on, handlers return or time out,
\* commits end after max_retries attempts and sends end; nothing forces a crash,
\* a shutdown or a restart.
FairSpec ==
    /\ Spec
    /\ WF_vars(PollLoop)
    /\ \A m \in Messages : WF_vars(Task(m)) /\ WF_vars(LateCommitLands(m))
    /\ WF_vars(DrainComplete)

-----------------------------------------------------------------------------
(* Properties *)

\* The semaphore bounds the handlers, and testing it before the poll bounds the
\* tasks queued behind it to one, although the message arrives after the test.
BackPressure ==
    /\ Cardinality(Permits(task)) <= MaxConcurrent
    /\ Cardinality(Waiting(task)) <= 1

\* Offsets are committed out of order, late and across restarts, but what a
\* restart skips was always handed to the service before.
NothingSkippedUnseen == \A m \in Messages : m < committed => task[m] # "none"

\* A drain that completes cancels no message whose handler had not finished,
\* if the message is acknowledged.
CleanDrainKeepsInput ==
    [][phase' = "drained" /\ phase # "drained" =>
          \A m \in Messages : task'[m] = "lost" => task[m] = "lost"]_vars

\* The handler of m has returned, and m was not lost since.
HandlerReturned(m) ==
    task[m] \in {"committing", "sending", "sent", "filtered", "send_failed", "unsent"}

Promise == INSTANCE ConsumerPromise WITH
    finished <- {m \in Messages : HandlerReturned(m)}

\* The dispatch takes messages in order and commits only messages whose handler has
\* returned, with commits that are late, fail, or overtake each other.
KeepsConsumerPromise == Promise!Spec

\* While the service stays up, every message is read and every task comes to
\* an end: sent, filtered, dead-lettered or reported as failed.
EverythingSettles ==
    <>(phase # "up" \/ \A m \in Messages : task[m] \in Settled)
=============================================================================
