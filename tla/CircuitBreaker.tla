--------------------------- MODULE CircuitBreaker ---------------------------
(***************************************************************************)
(* The circuit breaker of the pipeline services (shared/circuit_breaker.py)*)
(* with the calls it protects: a message occupies one slot of the service  *)
(* semaphore, its handler runs inside the retry loop, the retry loop runs  *)
(* inside the breaker, and the message timeout cancels all of it           *)
(* (shared/service_base.py, _execute_with_protection).                     *)
(*                                                                         *)
(* The breaker's asyncio lock is only ever held over code that does not    *)
(* await, so entering a call and leaving it are each one step; calls       *)
(* interleave between the two.                                             *)
(***************************************************************************)
EXTENDS Integers, FiniteSets

CONSTANTS Slots,            \* permits of the service semaphore (max_concurrent_messages)
          FailureThreshold, \* circuit_breaker_failure_threshold
          RecoveryTimeout,  \* circuit_breaker_recovery_timeout, in clock ticks
          MaxRetries        \* max_retries of the retry handler

ASSUME ThresholdAssumption == FailureThreshold \in Nat \ {0}
ASSUME TimingAssumption == RecoveryTimeout \in Nat /\ MaxRetries \in Nat

VARIABLES state,                  \* CircuitBreaker.state
          failure_count,          \* counted up to FailureThreshold, the value it is compared with
          since_failure,          \* ticks since last_failure_time (never: None), up to RecoveryTimeout
          half_open_trial_active, \* CircuitBreaker._half_open_trial_active
          pc,                     \* where the message in a slot stands
          attempt,                \* the retry loop's attempt number
          trial,                  \* history: the call was admitted as the half-open trial
          trial_cut,              \* history: the message timeout cancelled a trial
          overtaken               \* history: a call that was no trial ended in the half-open state

breakerVars == <<state, failure_count, since_failure, half_open_trial_active>>
callVars == <<pc, attempt, trial>>
history == <<trial_cut, overtaken>>
vars == <<breakerVars, callVars, history>>

never == -1
Running == {"trying", "backoff"}
Finished == {"ok", "failed", "rejected", "timed_out"}

TypeOK ==
    /\ state \in {"closed", "open", "half_open"}
    /\ failure_count \in 0..FailureThreshold
    /\ since_failure \in (0..RecoveryTimeout) \cup {never}
    /\ half_open_trial_active \in BOOLEAN
    /\ pc \in [Slots -> {"idle"} \cup Running \cup Finished]
    /\ attempt \in [Slots -> 0..MaxRetries]
    /\ trial \in [Slots -> BOOLEAN]
    /\ trial_cut \in BOOLEAN
    /\ overtaken \in BOOLEAN

Init ==
    /\ state = "closed"
    /\ failure_count = 0
    /\ since_failure = never
    /\ half_open_trial_active = FALSE
    /\ pc = [c \in Slots |-> "idle"]
    /\ attempt = [c \in Slots |-> 0]
    /\ trial = [c \in Slots |-> FALSE]
    /\ trial_cut = FALSE
    /\ overtaken = FALSE

-----------------------------------------------------------------------------
(* Entering the breaker *)

\* An open breaker becomes half-open in the call that finds the timeout over.
ShouldAttemptReset == state = "open" /\ since_failure = RecoveryTimeout

\* Mutant: the recovery of an open breaker is forgotten.
AdmitsWithoutRecovery ==
    \/ state = "closed"
    \/ state = "half_open" /\ ~half_open_trial_active

\* Mutant: the flag of the trial is not looked at.
AdmitsAnyInHalfOpen ==
    \/ state = "closed"
    \/ ShouldAttemptReset
    \/ state = "half_open"

Admits ==
    \/ state = "closed"
    \/ ShouldAttemptReset
    \/ state = "half_open" /\ ~half_open_trial_active

Admit(c) ==
    LET isTrial == state # "closed"
    IN  /\ pc[c] = "idle"
        /\ Admits
        /\ state' = IF isTrial THEN "half_open" ELSE state
        /\ half_open_trial_active' = (half_open_trial_active \/ isTrial)
        /\ pc' = [pc EXCEPT ![c] = "trying"]
        /\ attempt' = [attempt EXCEPT ![c] = 0]
        /\ trial' = [trial EXCEPT ![c] = isTrial]
        /\ UNCHANGED <<failure_count, since_failure, history>>

\* The exception is raised before the try: a rejection is not a failure.
Reject(c) ==
    /\ pc[c] = "idle"
    /\ ~Admits
    /\ pc' = [pc EXCEPT ![c] = "rejected"]
    /\ UNCHANGED <<breakerVars, attempt, trial, history>>

-----------------------------------------------------------------------------
(* The retry loop inside the breaker *)

\* Mutant: the retries are not bounded.
RetryAlways(c) ==
    /\ pc[c] = "trying"
    /\ pc' = [pc EXCEPT ![c] = "backoff"]
    /\ attempt' = [attempt EXCEPT ![c] = @ + 1]
    /\ UNCHANGED <<breakerVars, trial, history>>

Retry(c) ==
    /\ pc[c] = "trying"
    /\ attempt[c] < MaxRetries
    /\ pc' = [pc EXCEPT ![c] = "backoff"]
    /\ attempt' = [attempt EXCEPT ![c] = @ + 1]
    /\ UNCHANGED <<breakerVars, trial, history>>

BackoffOver(c) ==
    /\ pc[c] = "backoff"
    /\ pc' = [pc EXCEPT ![c] = "trying"]
    /\ UNCHANGED <<breakerVars, attempt, trial, history>>

-----------------------------------------------------------------------------
(* Leaving the breaker *)

\* Mutant: a success closes the breaker and keeps the count.
OnSuccessKeepsCount ==
    /\ state' = "closed"
    /\ UNCHANGED <<failure_count, since_failure>>

OnSuccess ==
    /\ failure_count' = 0
    /\ state' = "closed"
    /\ UNCHANGED since_failure

\* Mutant: only a closed breaker is opened.
OnFailureWhenClosed ==
    LET count == IF failure_count < FailureThreshold
                 THEN failure_count + 1 ELSE failure_count
    IN  /\ failure_count' = count
        /\ since_failure' = 0
        /\ state' = IF count >= FailureThreshold /\ state = "closed" THEN "open" ELSE state

OnFailure ==
    LET count == IF failure_count < FailureThreshold
                 THEN failure_count + 1 ELSE failure_count
    IN  /\ failure_count' = count
        /\ since_failure' = 0
        /\ state' = IF count >= FailureThreshold THEN "open" ELSE state

Succeed(c) ==
    /\ pc[c] = "trying"
    /\ pc' = [pc EXCEPT ![c] = "ok"]
    /\ half_open_trial_active' = FALSE
    /\ OnSuccess
    /\ overtaken' = (overtaken \/ (state = "half_open" /\ ~trial[c]))
    /\ UNCHANGED <<attempt, trial, trial_cut>>

Fail(c) ==
    /\ pc[c] = "trying"
    /\ attempt[c] = MaxRetries
    /\ pc' = [pc EXCEPT ![c] = "failed"]
    /\ half_open_trial_active' = FALSE
    /\ OnFailure
    /\ overtaken' = (overtaken \/ (state = "half_open" /\ ~trial[c]))
    /\ UNCHANGED <<attempt, trial, trial_cut>>

\* wait_for cancels the call.  CancelledError is not an Exception: neither
\* branch of the breaker runs.
TimeOut(c) ==
    /\ pc[c] \in Running
    /\ pc' = [pc EXCEPT ![c] = "timed_out"]
    /\ trial_cut' = (trial_cut \/ trial[c])
    /\ UNCHANGED <<breakerVars, attempt, trial, overtaken>>

\* The message is committed or dead-lettered and its permit released.
Release(c) ==
    /\ pc[c] \in Finished
    /\ pc' = [pc EXCEPT ![c] = "idle"]
    /\ attempt' = [attempt EXCEPT ![c] = 0]
    /\ trial' = [trial EXCEPT ![c] = FALSE]
    /\ UNCHANGED <<breakerVars, history>>

Tick ==
    /\ since_failure # never
    /\ since_failure < RecoveryTimeout
    /\ since_failure' = since_failure + 1
    /\ UNCHANGED <<state, failure_count, half_open_trial_active, callVars, history>>

-----------------------------------------------------------------------------
Call(c) ==
    \/ Admit(c)
    \/ Reject(c)
    \/ Retry(c)
    \/ BackoffOver(c)
    \/ Succeed(c)
    \/ Fail(c)
    \/ TimeOut(c)
    \/ Release(c)

Next == (\E c \in Slots : Call(c)) \/ Tick

Spec == Init /\ [][Next]_vars

\* A slot's message always takes its next step (the handler returns, raises or
\* is timed out, the backoff ends), the poll loop keeps filling free slots and
\* the clock runs.
FairSpec == Spec /\ (\A c \in Slots : WF_vars(Call(c))) /\ WF_vars(Tick)

-----------------------------------------------------------------------------
(* Properties *)

\* The breaker refuses or limits calls exactly when FailureThreshold failures
\* have been counted since the last success: state and failure_count, written
\* by different calls, never drift apart.
ClosedIffBelowThreshold == state = "closed" <=> failure_count < FailureThreshold

\* The trial flag is up exactly in the half-open state, so no call that finds
\* the breaker already half-open is ever admitted.
HalfOpenIffTrialFlag == state = "half_open" <=> half_open_trial_active

\* A call that fails while the breaker is half-open opens it again at once,
\* whoever the call was: one failure is enough.
FailureReopens ==
    [][\A c \in Slots : (state = "half_open" /\ pc[c] = "trying" /\ pc'[c] = "failed")
            => state' = "open"]_vars

\* Half-open means a trial is under way ("trial in progress", as the rejected
\* callers are told), unless the message timeout cancelled a trial.
TrialInFlight ==
    state = "half_open" /\ ~trial_cut => \E c \in Slots : trial[c] /\ pc[c] \in Running

\* The count, the state, the trial flag and the calls in flight, which different
\* calls read and write around their awaits, fit together.
BreakerCoherent == ClosedIffBelowThreshold /\ HalfOpenIffTrialFlag /\ TrialInFlight

\* Two calls probe the service at once only after a call admitted before the
\* breaker opened has ended in the half-open state and lowered the trial's flag.
OneProbe ==
    ~overtaken => \A c, d \in Slots :
        trial[c] /\ trial[d] /\ {pc[c], pc[d]} \subseteq Running => c = d

\* A breaker that opened lets a call try again.
OpenIsLeft == (state = "open") ~> (state # "open")

\* The half-open state is decided one way or the other, unless the message
\* timeout cancelled a trial.
TrialIsDecided == (state = "half_open") ~> (state # "half_open" \/ trial_cut)

\* "trial in progress", the rejected callers are told: the half-open state ends.
HalfOpenEnds == (state = "half_open") ~> (state # "half_open")
=============================================================================
