------------------------ MODULE MessageDispatchProofs ------------------------
(***************************************************************************)
(* What holds of the message dispatch for any number of messages, permits  *)
(* and restarts.                                                           *)
(***************************************************************************)
EXTENDS MessageDispatch, TLAPS, FiniteSetTheorems

USE SizeAssumption
    DEF Messages, Offsets, HoldsPermit, InFlight, Settled, Cut, Alive

\* The state keeps its types.
THEOREM TypeCorrect == Spec => []TypeOK
<1>1. Init => TypeOK
  BY DEF Init, TypeOK
<1>2. TypeOK /\ [Next]_vars => TypeOK'
  <2> SUFFICES ASSUME TypeOK, [Next]_vars
               PROVE  TypeOK'
    OBVIOUS
  <2> USE DEF TypeOK
  <2>1. CASE StartPoll
    BY <2>1 DEF StartPoll, broker
  <2>2. CASE Dispatch
    BY <2>2 DEF Dispatch, broker
  <2>3. CASE SkipUndecodable
    BY <2>3 DEF SkipUndecodable, broker
  <2>4. CASE EmptyPoll
    BY <2>4 DEF EmptyPoll, broker
  <2>5. ASSUME NEW m \in Messages, Acquire(m) PROVE TypeOK'
    BY <2>5 DEF Acquire, broker
  <2>6. ASSUME NEW m \in Messages, HandlerReturns(m) \/ HandlerFails(m) PROVE TypeOK'
    BY <2>6 DEF HandlerReturns, HandlerFails, broker
  <2>7. ASSUME NEW m \in Messages, DeadLetter(m) PROVE TypeOK'
    BY <2>7 DEF DeadLetter
  <2>8. ASSUME NEW m \in Messages, Commit(m) PROVE TypeOK'
    BY <2>8 DEF Commit, AfterCommit
  <2>9. ASSUME NEW m \in Messages, CommitAttemptTimesOut(m) \/ LateCommitLands(m) PROVE TypeOK'
    <3>1. CASE CommitAttemptTimesOut(m)
      BY <3>1 DEF CommitAttemptTimesOut, broker
    <3>2. CASE LateCommitLands(m)
      BY <3>2 DEF LateCommitLands
    <3> QED
      BY <2>9, <3>1, <3>2
  <2>10. ASSUME NEW m \in Messages, CommitFails(m) PROVE TypeOK'
    BY <2>10 DEF CommitFails, AfterCommit, broker
  <2>11. ASSUME NEW m \in Messages, Send(m) PROVE TypeOK'
    BY <2>11 DEF Send, broker
  <2>12. CASE StopAccepting
    BY <2>12 DEF StopAccepting, broker
  <2>13. CASE DrainComplete \/ Crash
    BY <2>13 DEF DrainComplete, Crash, Ended, broker
  <2>14. CASE Restart
    BY <2>14 DEF Restart, broker
  <2>15. CASE UNCHANGED vars
    BY <2>15 DEF vars, broker
  <2> QED
    BY <2>1, <2>2, <2>3, <2>4, <2>5, <2>6, <2>7, <2>8, <2>9, <2>10, <2>11, <2>12, <2>13,
       <2>14, <2>15 DEF Next, PollLoop, Task
<1> QED
  BY <1>1, <1>2, PTL DEF Spec

-----------------------------------------------------------------------------
\* In a living process the messages before the position are exactly those that
\* have a task; only they can be committed, now or late.
PositionInv ==
    /\ \A m \in Messages : m < committed => task[m] # "none"
    /\ Alive => /\ committed <= position
                /\ \A m \in Messages : m < position <=> task[m] # "none"
                /\ \A m \in late_commits : m < position
    /\ ~Alive => /\ late_commits = {}
                 /\ \A m \in Messages : m >= committed => task[m] = "none"

\* The semaphore is first come, first served: behind a waiting message nothing
\* has run, so nothing at or behind it is committed.
FifoInv ==
    \A m \in Messages : task[m] = "waiting" =>
        /\ Alive
        /\ committed <= m
        /\ \A n \in Messages : m < n => task[n] \in {"none", "waiting", "undecodable"}
        /\ \A n \in late_commits : n < m

LEMMA PositionStep == TypeOK /\ PositionInv /\ [Next]_vars => PositionInv'
<1> SUFFICES ASSUME TypeOK, PositionInv, [Next]_vars
             PROVE  PositionInv'
  OBVIOUS
<1> USE DEF TypeOK, PositionInv
<1>1. CASE StartPoll \/ EmptyPoll \/ StopAccepting
  BY <1>1 DEF StartPoll, EmptyPoll, StopAccepting, broker
<1>2. CASE Dispatch \/ SkipUndecodable
  <2>1. /\ position \in Messages
        /\ position' = position + 1
        /\ Alive /\ phase' = phase
        /\ UNCHANGED <<committed, late_commits>>
        /\ \E t \in {"waiting", "undecodable"} : task' = [task EXCEPT ![position] = t]
    BY <1>2 DEF Dispatch, SkipUndecodable, PollResult, broker
  <2>2. \A m \in Messages : task'[m] # "none" <=> (m = position \/ task[m] # "none")
    BY <2>1
  <2> QED
    BY <2>1, <2>2
<1>3. ASSUME NEW m \in Messages, Acquire(m) \/ HandlerReturns(m) \/ HandlerFails(m)
      PROVE  PositionInv'
  BY <1>3 DEF Acquire, HandlerReturns, HandlerFails, broker
<1>4. ASSUME NEW m \in Messages, DeadLetter(m) \/ Send(m)
      PROVE  PositionInv'
  BY <1>4 DEF DeadLetter, Send, broker
<1>5. ASSUME NEW m \in Messages, Commit(m)
      PROVE  PositionInv'
  BY <1>5 DEF Commit, AfterCommit
<1>6. ASSUME NEW m \in Messages, CommitFails(m)
      PROVE  PositionInv'
  BY <1>6 DEF CommitFails, AfterCommit, broker
<1>7. ASSUME NEW m \in Messages, CommitAttemptTimesOut(m)
      PROVE  PositionInv'
  BY <1>7 DEF CommitAttemptTimesOut, broker
<1>8. ASSUME NEW m \in Messages, LateCommitLands(m)
      PROVE  PositionInv'
  BY <1>8 DEF LateCommitLands
<1>9. CASE DrainComplete \/ Crash
  <2>1. task' = Ended /\ committed' = committed /\ ~Alive' /\ late_commits' = {}
    BY <1>9 DEF DrainComplete, Crash, broker
  <2>2. ASSUME NEW m \in Messages
        PROVE  task'[m] = "none" <=> m >= committed
    BY <2>1, <2>2 DEF Ended
  <2> QED
    BY <2>1, <2>2
<1>10. CASE Restart
  BY <1>10 DEF Restart, broker
<1>11. CASE UNCHANGED vars
  BY <1>11 DEF vars, broker
<1> QED
  BY <1>1, <1>2, <1>3, <1>4, <1>5, <1>6, <1>7, <1>8, <1>9, <1>10, <1>11
     DEF Next, PollLoop, Task

LEMMA FifoStep == TypeOK /\ PositionInv /\ FifoInv /\ [Next]_vars => FifoInv'
<1> SUFFICES ASSUME TypeOK, PositionInv, FifoInv, [Next]_vars
             PROVE  FifoInv'
  OBVIOUS
<1> USE DEF TypeOK, FifoInv
<1>1. CASE StartPoll \/ EmptyPoll \/ StopAccepting
  BY <1>1 DEF StartPoll, EmptyPoll, StopAccepting, broker
<1>2. CASE Dispatch \/ SkipUndecodable
  <2>1. /\ position \in Messages
        /\ Alive /\ phase' = phase
        /\ UNCHANGED <<committed, late_commits>>
        /\ \A n \in Messages : n # position => task'[n] = task[n]
        /\ task'[position] \in {"waiting", "undecodable"}
    <3>1. CASE Dispatch
      BY <3>1 DEF Dispatch, PollResult, broker
    <3>2. CASE SkipUndecodable
      BY <3>2 DEF SkipUndecodable, PollResult, broker
    <3> QED
      BY <1>2, <3>1, <3>2
  <2>2. /\ committed <= position
        /\ \A n \in Messages : n >= position => task[n] = "none"
        /\ \A n \in late_commits : n < position
    BY <2>1 DEF PositionInv
  <2> QED
    BY <2>1, <2>2
<1>3. ASSUME NEW m \in Messages, Acquire(m)
      PROVE  FifoInv'
  BY <1>3 DEF Acquire, Waiting, broker
<1>4. ASSUME NEW m \in Messages, HandlerReturns(m) \/ HandlerFails(m)
      PROVE  FifoInv'
  BY <1>4 DEF HandlerReturns, HandlerFails, broker
<1>5. ASSUME NEW m \in Messages, DeadLetter(m) \/ Send(m)
      PROVE  FifoInv'
  <2>1. /\ UNCHANGED <<phase, committed, late_commits>>
        /\ \A n \in Messages : n # m => task'[n] = task[n]
        /\ task[m] \in {"dead_lettering", "sending"}
        /\ task'[m] \in Settled
    BY <1>5 DEF DeadLetter, Send, broker
  <2> QED
    BY <2>1
<1>6. ASSUME NEW m \in Messages, Commit(m)
      PROVE  FifoInv'
  BY <1>6 DEF Commit, AfterCommit
<1>7. ASSUME NEW m \in Messages, CommitFails(m)
      PROVE  FifoInv'
  BY <1>7 DEF CommitFails, AfterCommit, broker
<1>8. ASSUME NEW m \in Messages, CommitAttemptTimesOut(m)
      PROVE  FifoInv'
  BY <1>8 DEF CommitAttemptTimesOut, broker
<1>9. ASSUME NEW m \in Messages, LateCommitLands(m)
      PROVE  FifoInv'
  BY <1>9 DEF LateCommitLands
<1>10. CASE DrainComplete \/ Crash
  BY <1>10 DEF DrainComplete, Crash, Ended, broker
<1>11. CASE Restart
  BY <1>11 DEF Restart, broker
<1>12. CASE UNCHANGED vars
  BY <1>12 DEF vars, broker
<1> QED
  BY <1>1, <1>2, <1>3, <1>4, <1>5, <1>6, <1>7, <1>8, <1>9, <1>10, <1>11, <1>12
     DEF Next, PollLoop, Task

LEMMA DispatchInvariant == Spec => [](PositionInv /\ FifoInv)
<1>1. Init => PositionInv /\ FifoInv
  BY DEF Init, PositionInv, FifoInv
<1> QED
  BY <1>1, PositionStep, FifoStep, TypeCorrect, PTL DEF Spec

\* However commits are reordered, delayed or lost, a restart never skips a
\* message the service had not been given.
THEOREM NoMessageSkippedUnseen == Spec => []NothingSkippedUnseen
<1>1. PositionInv => NothingSkippedUnseen
  BY DEF PositionInv, NothingSkippedUnseen
<1> QED
  BY <1>1, DispatchInvariant, PTL

\* A completed drain never cancels an acknowledged message that was still
\* waiting or being handled.
THEOREM CleanDrainCancelsNoInput == Spec => CleanDrainKeepsInput
<1> DEFINE Keeps == phase' = "drained" /\ phase # "drained" =>
                      \A m \in Messages : task'[m] = "lost" => task[m] = "lost"
<1>1. TypeOK /\ FifoInv /\ [Next]_vars => [Keeps]_vars
  <2> SUFFICES ASSUME TypeOK, FifoInv, [Next]_vars,
                      phase' = "drained", phase # "drained",
                      NEW m \in Messages, task'[m] = "lost"
               PROVE  task[m] = "lost"
    OBVIOUS
  <2>1. DrainComplete
    BY DEF Next, PollLoop, Task, StartPoll, Dispatch, SkipUndecodable, EmptyPoll, Acquire,
           HandlerReturns, HandlerFails, DeadLetter, Commit, CommitAttemptTimesOut,
           CommitFails, LateCommitLands, Send, StopAccepting, Crash, Restart, vars
  <2>2. task[m] \notin HoldsPermit
    BY <2>1 DEF DrainComplete, Permits
  <2>3. m < committed => task[m] # "waiting"
    BY DEF FifoInv, TypeOK
  <2>4. task'[m] = Ended[m]
    BY <2>1 DEF DrainComplete
  <2> QED
    BY <2>2, <2>3, <2>4 DEF Ended, TypeOK
<1> QED
  BY <1>1, TypeCorrect, DispatchInvariant, PTL DEF Spec, CleanDrainKeepsInput

-----------------------------------------------------------------------------
(* The dispatch implements ConsumerPromise *)

\* A commit thread that outlives its timeout commits a message whose handler has
\* returned.
LateInv == \A m \in late_commits : HandlerReturned(m)

LEMMA LateStep == TypeOK /\ PositionInv /\ LateInv /\ [Next]_vars => LateInv'
<1> SUFFICES ASSUME TypeOK, PositionInv, LateInv, [Next]_vars
             PROVE  LateInv'
  OBVIOUS
<1> USE DEF TypeOK, LateInv, HandlerReturned
<1>1. CASE StartPoll \/ EmptyPoll \/ StopAccepting
  BY <1>1 DEF StartPoll, EmptyPoll, StopAccepting, broker
<1>2. CASE Dispatch \/ SkipUndecodable
  <2>1. /\ late_commits' = late_commits
        /\ \A n \in Messages : n # position => task'[n] = task[n]
        /\ Alive
    BY <1>2 DEF Dispatch, SkipUndecodable, PollResult, broker
  <2>2. \A m \in late_commits : m \in Messages /\ m # position
    BY <2>1 DEF PositionInv
  <2> QED
    BY <2>1, <2>2
<1>3. ASSUME NEW m \in Messages, Acquire(m) \/ HandlerReturns(m) \/ HandlerFails(m)
      PROVE  LateInv'
  BY <1>3 DEF Acquire, HandlerReturns, HandlerFails, broker
<1>4. ASSUME NEW m \in Messages, DeadLetter(m) \/ Send(m)
      PROVE  LateInv'
  BY <1>4 DEF DeadLetter, Send, broker
<1>5. ASSUME NEW m \in Messages, Commit(m) \/ CommitFails(m)
      PROVE  LateInv'
  BY <1>5 DEF Commit, CommitFails, AfterCommit, broker
<1>6. ASSUME NEW m \in Messages, CommitAttemptTimesOut(m) \/ LateCommitLands(m)
      PROVE  LateInv'
  BY <1>6 DEF CommitAttemptTimesOut, LateCommitLands, broker
<1>7. CASE DrainComplete \/ Crash \/ Restart
  BY <1>7 DEF DrainComplete, Crash, Restart, broker
<1>8. CASE UNCHANGED vars
  BY <1>8 DEF vars, broker
<1> QED
  BY <1>1, <1>2, <1>3, <1>4, <1>5, <1>6, <1>7, <1>8 DEF Next, PollLoop, Task

Finished == {m \in Messages : HandlerReturned(m)}

\* Every step of the dispatch is a step of the promise, or none.
LEMMA PromiseStep ==
    TypeOK /\ PositionInv /\ LateInv /\ [Next]_vars => [Promise!Next]_(Promise!promiseVars)
<1> SUFFICES ASSUME TypeOK, PositionInv, LateInv, [Next]_vars
             PROVE  \/ UNCHANGED <<position, committed, Finished>>
                    \/ Promise!Take \/ Promise!Finish \/ Promise!Stop \/ Promise!Resume
  BY DEF Promise!Next, Promise!promiseVars, Finished
<1> USE DEF TypeOK, HandlerReturned
<1>1. CASE StartPoll \/ EmptyPoll \/ StopAccepting
  BY <1>1 DEF StartPoll, EmptyPoll, StopAccepting, broker, Finished
<1>2. CASE Dispatch \/ SkipUndecodable
  <2>1. /\ position \in Messages /\ position' = position + 1
        /\ committed' = committed
        /\ task[position] = "none"
        /\ \A n \in Messages : n # position => task'[n] = task[n]
        /\ task'[position] \in {"waiting", "undecodable"}
    <3>1. CASE Dispatch
      BY <3>1 DEF Dispatch, PollResult, broker, PositionInv
    <3>2. CASE SkipUndecodable
      BY <3>2 DEF SkipUndecodable, PollResult, broker, PositionInv
    <3> QED
      BY <1>2, <3>1, <3>2
  <2>2. Finished' = Finished
    BY <2>1 DEF Finished
  <2>3. Promise!Take
    BY <2>1, <2>2 DEF Promise!Take, Finished
  <2> QED
    BY <2>3
<1>3. ASSUME NEW m \in Messages, Acquire(m) \/ HandlerFails(m) \/ DeadLetter(m)
      PROVE  UNCHANGED <<position, committed, Finished>>
  BY <1>3 DEF Acquire, HandlerFails, DeadLetter, broker, Finished
<1>4. ASSUME NEW m \in Messages, HandlerReturns(m)
      PROVE  Promise!Finish
  <2>1. UNCHANGED <<position, committed>> /\ Finished' = Finished \cup {m}
    BY <1>4 DEF HandlerReturns, broker, Finished
  <2>2. m \in 1..(position - 1)
    BY <1>4 DEF HandlerReturns, PositionInv
  <2> QED
    BY <2>1, <2>2 DEF Promise!Finish, Promise!Taken, Finished
<1>5. ASSUME NEW m \in Messages, Commit(m) \/ LateCommitLands(m)
      PROVE  Promise!Finish
  <2>1. /\ position' = position /\ committed' = m + 1
        /\ HandlerReturned(m)
        /\ \A n \in Messages : HandlerReturned(n)' <=> HandlerReturned(n)
    BY <1>5 DEF Commit, LateCommitLands, AfterCommit, LateInv
  <2>2. Finished' = Finished /\ m \in Finished
    BY <2>1 DEF Finished
  <2> QED
    BY <2>1, <2>2 DEF Promise!Finish, Finished
<1>6. ASSUME NEW m \in Messages, CommitAttemptTimesOut(m) \/ CommitFails(m) \/ Send(m)
      PROVE  UNCHANGED <<position, committed, Finished>>
  BY <1>6 DEF CommitAttemptTimesOut, CommitFails, AfterCommit, Send, broker, Finished
<1>7. CASE DrainComplete \/ Crash
  <2>1. UNCHANGED <<position, committed>> /\ task' = Ended
    BY <1>7 DEF DrainComplete, Crash, broker
  <2>2. \A m \in Messages : HandlerReturned(m)' => HandlerReturned(m)
    BY <2>1 DEF Ended
  <2>3. Promise!Stop
    BY <2>1, <2>2 DEF Promise!Stop
  <2> QED
    BY <2>3
<1>8. CASE Restart
  BY <1>8 DEF Restart, broker, Promise!Resume
<1>9. CASE UNCHANGED vars
  BY <1>9 DEF vars, broker, Finished
<1> QED
  BY <1>1, <1>2, <1>3, <1>4, <1>5, <1>6, <1>7, <1>8, <1>9 DEF Next, PollLoop, Task

\* For any number of messages, permits and restarts the service commits only
\* messages whose handler has returned, and reads the partition in order.
THEOREM ImplementsConsumerPromise == Spec => KeepsConsumerPromise
<1>1. Init => LateInv /\ Promise!Init
  BY DEF Init, LateInv, Promise!Init, HandlerReturned
<1>2. Spec => []LateInv
  BY <1>1, LateStep, TypeCorrect, DispatchInvariant, PTL DEF Spec
<1> QED
  BY <1>1, <1>2, PromiseStep, TypeCorrect, DispatchInvariant, PTL
     DEF Spec, KeepsConsumerPromise, Promise!Spec

-----------------------------------------------------------------------------
(* Back-pressure *)

\* A poll under way leaves the one waiting task, if there is one, its permit: the
\* loop tested for it, and only that task can have taken it since.
PressureInv ==
    /\ Cardinality(Permits(task)) <= MaxConcurrent
    /\ \A m, n \in Waiting(task) : m = n
    /\ poller = "polling" => PermitFree \/ Waiting(task) = {}

LEMMA PermitsFinite ==
    ASSUME NEW t
    PROVE  IsFiniteSet(Permits(t)) /\ Cardinality(Permits(t)) \in Nat
<1>1. IsFiniteSet(Messages)
  BY FS_Interval
<1>2. Permits(t) \subseteq Messages
  BY DEF Permits
<1> QED
  BY <1>1, <1>2, FS_Subset, FS_CardinalityType

\* A task that gives its permit back leaves more room, a waiting one takes one place.
LEMMA PermitsMonotonic ==
    ASSUME NEW t, NEW u, Permits(u) \subseteq Permits(t)
    PROVE  Cardinality(Permits(u)) <= Cardinality(Permits(t))
BY PermitsFinite, FS_Subset

LEMMA PressureStep == TypeOK /\ PressureInv /\ [Next]_vars => PressureInv'
<1> SUFFICES ASSUME TypeOK, PressureInv, [Next]_vars
             PROVE  PressureInv'
  OBVIOUS
<1> USE DEF TypeOK
<1>a. /\ Cardinality(Permits(task)) \in Nat
      /\ Cardinality(Permits(task')) \in Nat
  BY PermitsFinite
<1>1. ASSUME Permits(task') \subseteq Permits(task),
             Waiting(task') \subseteq Waiting(task),
             poller' = "polling" => poller = "polling" \/ PermitFree
      PROVE  PressureInv'
  <2>1. Cardinality(Permits(task')) <= Cardinality(Permits(task))
    BY <1>1, PermitsMonotonic
  <2> QED
    BY <1>1, <1>a, <2>1 DEF PressureInv, PermitFree
<1>2. CASE StartPoll \/ EmptyPoll \/ StopAccepting
  BY <1>1, <1>2 DEF StartPoll, EmptyPoll, StopAccepting
<1>3. CASE SkipUndecodable
  <2>1. /\ position \in Messages
        /\ task' = [task EXCEPT ![position] = "undecodable"]
        /\ poller' = "testing"
    BY <1>3 DEF SkipUndecodable
  <2>2. Permits(task') \subseteq Permits(task) /\ Waiting(task') \subseteq Waiting(task)
    BY <2>1 DEF Permits, Waiting
  <2> QED
    BY <1>1, <2>1, <2>2
<1>4. CASE Dispatch
  <2>1. /\ position \in Messages
        /\ task' = [task EXCEPT ![position] = "waiting"]
        /\ poller = "polling" /\ poller' = "testing"
        /\ ~(PermitFree /\ Waiting(task) # {})
    BY <1>4 DEF Dispatch, PollResult
  <2>2. Waiting(task) = {}
    BY <2>1 DEF PressureInv
  <2>3. Waiting(task') = {position} /\ Permits(task') \subseteq Permits(task)
    BY <2>1, <2>2 DEF Waiting, Permits
  <2>4. Cardinality(Permits(task')) <= Cardinality(Permits(task))
    BY <2>3, PermitsMonotonic
  <2>5. Cardinality(Permits(task')) <= MaxConcurrent
    BY <1>a, <2>4 DEF PressureInv
  <2>6. \A a, b \in Waiting(task') : a = b
    BY <2>3
  <2> QED
    BY <2>1, <2>5, <2>6 DEF PressureInv
<1>5. ASSUME NEW m \in Messages, Acquire(m) PROVE PressureInv'
  <2>1. /\ PermitFree /\ m \in Waiting(task)
        /\ task' = [task EXCEPT ![m] = "running"]
        /\ poller' = poller
    BY <1>5 DEF Acquire, Waiting
  <2>2. /\ Permits(task') = Permits(task) \cup {m} /\ m \notin Permits(task)
        /\ Waiting(task') = Waiting(task) \ {m}
    BY <2>1 DEF Permits, Waiting
  <2>3. Cardinality(Permits(task')) = Cardinality(Permits(task)) + 1
    BY <2>2, PermitsFinite, FS_AddElement
  <2>4. Waiting(task') = {}
    BY <2>1, <2>2 DEF PressureInv
  <2>5. Cardinality(Permits(task')) <= MaxConcurrent
    BY <1>a, <2>1, <2>3 DEF PermitFree
  <2> QED
    BY <2>4, <2>5 DEF PressureInv
<1>6. ASSUME NEW m \in Messages,
             HandlerReturns(m) \/ HandlerFails(m) \/ DeadLetter(m) \/ Commit(m)
                \/ CommitFails(m) \/ Send(m)
      PROVE  PressureInv'
  <2>1. /\ task[m] \in HoldsPermit \cup {"sending"}
        /\ \A n \in Messages : n # m => task'[n] = task[n]
        /\ task'[m] # "waiting"
        /\ task[m] = "sending" => task'[m] \notin HoldsPermit
        /\ poller' = poller
    BY <1>6 DEF HandlerReturns, HandlerFails, DeadLetter, Commit, CommitFails, Send, AfterCommit
  <2>2. Permits(task') \subseteq Permits(task) /\ Waiting(task') \subseteq Waiting(task)
    BY <2>1 DEF Permits, Waiting
  <2> QED
    BY <1>1, <2>1, <2>2
<1>7. ASSUME NEW m \in Messages, CommitAttemptTimesOut(m) \/ LateCommitLands(m)
      PROVE  PressureInv'
  BY <1>1, <1>7 DEF CommitAttemptTimesOut, LateCommitLands
<1>8. CASE DrainComplete \/ Crash
  <2>1. task' = Ended /\ poller' = poller
    BY <1>8 DEF DrainComplete, Crash
  <2>2. Permits(task') \subseteq Permits(task) /\ Waiting(task') \subseteq Waiting(task)
    BY <2>1 DEF Ended, Permits, Waiting
  <2> QED
    BY <1>1, <2>1, <2>2
<1>9. CASE Restart
  <2>1. task' = task /\ poller' = "testing"
    BY <1>9 DEF Restart
  <2> QED
    BY <1>1, <2>1
<1>10. CASE UNCHANGED vars
  BY <1>1, <1>10 DEF vars
<1> QED
  BY <1>2, <1>3, <1>4, <1>5, <1>6, <1>7, <1>8, <1>9, <1>10 DEF Next, PollLoop, Task

\* For any number of messages and permits: never more handlers than permits, and
\* never more than one task queued behind them.
THEOREM HandlersAreBounded == Spec => []BackPressure
<1>1. Init => PressureInv
  <2> SUFFICES ASSUME Init PROVE PressureInv
    OBVIOUS
  <2>1. Permits(task) = {} /\ Waiting(task) = {}
    BY DEF Init, Permits, Waiting
  <2> QED
    BY <2>1, FS_EmptySet DEF Init, PressureInv
<1>2. PressureInv => BackPressure
  <2> SUFFICES ASSUME PressureInv PROVE Cardinality(Waiting(task)) <= 1
    BY DEF PressureInv, BackPressure
  <2>1. CASE Waiting(task) = {}
    BY <2>1, FS_EmptySet
  <2>2. ASSUME NEW m \in Waiting(task) PROVE Cardinality(Waiting(task)) <= 1
    <3>1. Waiting(task) = {m}
      BY <2>2 DEF PressureInv
    <3> QED
      BY <3>1, FS_Singleton
  <2> QED
    BY <2>1, <2>2
<1>3. Spec => []PressureInv
  BY <1>1, PressureStep, TypeCorrect, PTL DEF Spec
<1> QED
  BY <1>2, <1>3, PTL
=============================================================================
