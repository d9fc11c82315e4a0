------------------------ MODULE CircuitBreakerProofs ------------------------
(***************************************************************************)
(* What holds of the circuit breaker for any number of concurrent calls,   *)
(* any threshold, any recovery timeout and any number of retries.          *)
(***************************************************************************)
EXTENDS CircuitBreaker, TLAPS

USE ThresholdAssumption, TimingAssumption
    DEF never, Running, Finished

\* The breaker's variables and the slots' keep their types whatever call acts.
THEOREM TypeCorrect == Spec => []TypeOK
<1>1. Init => TypeOK
  <2>1. Init => /\ {half_open_trial_active, trial_cut, overtaken} \subseteq BOOLEAN
                /\ trial \in [Slots -> BOOLEAN]
    BY Zenon DEF Init
  <2> QED
    BY <2>1 DEF Init, TypeOK
<1>2. TypeOK /\ [Next]_vars => TypeOK'
  <2> SUFFICES ASSUME TypeOK, [Next]_vars
               PROVE  TypeOK'
    OBVIOUS
  <2> USE DEF TypeOK
  <2>1. ASSUME NEW c \in Slots, Admit(c) PROVE TypeOK'
    BY <2>1 DEF Admit, Admits, history
  <2>2. ASSUME NEW c \in Slots, Reject(c) PROVE TypeOK'
    BY <2>2 DEF Reject, breakerVars, history
  <2>3. ASSUME NEW c \in Slots, Retry(c) PROVE TypeOK'
    BY <2>3 DEF Retry, breakerVars, history
  <2>4. ASSUME NEW c \in Slots, BackoffOver(c) PROVE TypeOK'
    BY <2>4 DEF BackoffOver, breakerVars, history
  <2>5. ASSUME NEW c \in Slots, Succeed(c) PROVE TypeOK'
    <3>1. half_open_trial_active' \in BOOLEAN /\ overtaken' \in BOOLEAN
      BY <2>5, Zenon DEF Succeed
    <3> QED
      BY <2>5, <3>1 DEF Succeed, OnSuccess
  <2>6. ASSUME NEW c \in Slots, Fail(c) PROVE TypeOK'
    <3>1. half_open_trial_active' \in BOOLEAN /\ overtaken' \in BOOLEAN
      BY <2>6, Zenon DEF Fail
    <3> QED
      BY <2>6, <3>1 DEF Fail, OnFailure
  <2>7. ASSUME NEW c \in Slots, TimeOut(c) PROVE TypeOK'
    <3>1. trial_cut' \in BOOLEAN
      BY <2>7, Zenon DEF TimeOut
    <3> QED
      BY <2>7, <3>1 DEF TimeOut, breakerVars
  <2>8. ASSUME NEW c \in Slots, Release(c) PROVE TypeOK'
    BY <2>8 DEF Release, breakerVars, history
  <2>9. CASE Tick
    BY <2>9 DEF Tick, callVars, history
  <2>10. CASE UNCHANGED vars
    BY <2>10 DEF vars, breakerVars, callVars, history
  <2> QED
    BY <2>1, <2>2, <2>3, <2>4, <2>5, <2>6, <2>7, <2>8, <2>9, <2>10 DEF Next, Call
<1> QED
  BY <1>1, <1>2, PTL DEF Spec

-----------------------------------------------------------------------------
\* Neither conjunct is inductive alone: a failure leaves the half-open state
\* only because the count still stands at the threshold, and the count is reset
\* only together with the state.
BreakerInv == ClosedIffBelowThreshold /\ HalfOpenIffTrialFlag

LEMMA BreakerInvStep == TypeOK /\ BreakerInv /\ [Next]_vars => BreakerInv'
<1> SUFFICES ASSUME TypeOK, BreakerInv, [Next]_vars
             PROVE  BreakerInv'
  OBVIOUS
<1> USE DEF TypeOK, BreakerInv, ClosedIffBelowThreshold, HalfOpenIffTrialFlag
<1>1. ASSUME NEW c \in Slots, Admit(c) PROVE BreakerInv'
  BY <1>1 DEF Admit, Admits, ShouldAttemptReset
<1>2. ASSUME NEW c \in Slots, Succeed(c) PROVE BreakerInv'
  BY <1>2 DEF Succeed, OnSuccess
<1>3. ASSUME NEW c \in Slots, Fail(c) PROVE BreakerInv'
  <2>1. CASE failure_count + 1 >= FailureThreshold
    BY <1>3, <2>1 DEF Fail, OnFailure
  <2>2. CASE failure_count + 1 < FailureThreshold
    \* Below the threshold the breaker is closed, so no trial was under way.
    <3>1. state = "closed" /\ ~half_open_trial_active
      BY <2>2
    <3> QED
      BY <1>3, <2>2, <3>1 DEF Fail, OnFailure
  <2> QED
    BY <2>1, <2>2
<1>4. ASSUME NEW c \in Slots,
             Reject(c) \/ Retry(c) \/ BackoffOver(c) \/ TimeOut(c) \/ Release(c)
      PROVE  BreakerInv'
  BY <1>4 DEF Reject, Retry, BackoffOver, TimeOut, Release, breakerVars
<1>5. CASE Tick
  BY <1>5 DEF Tick
<1>6. CASE UNCHANGED vars
  BY <1>6 DEF vars, breakerVars
<1> QED
  BY <1>1, <1>2, <1>3, <1>4, <1>5, <1>6 DEF Next, Call

LEMMA BreakerInvariant == Spec => []BreakerInv
<1>1. Init => BreakerInv
  BY DEF Init, BreakerInv, ClosedIffBelowThreshold, HalfOpenIffTrialFlag
<1> QED
  BY <1>1, BreakerInvStep, TypeCorrect, PTL DEF Spec

\* State and failure count agree: the breaker is closed exactly while fewer
\* failures than the threshold have been counted since the last success.
THEOREM StateFollowsCount == Spec => []ClosedIffBelowThreshold
<1>1. BreakerInv => ClosedIffBelowThreshold
  BY DEF BreakerInv
<1> QED
  BY <1>1, BreakerInvariant, PTL

\* The trial flag is up exactly while the breaker is half-open, also when calls
\* are cancelled by the message timeout.
THEOREM FlagFollowsState == Spec => []HalfOpenIffTrialFlag
<1>1. BreakerInv => HalfOpenIffTrialFlag
  BY DEF BreakerInv
<1> QED
  BY <1>1, BreakerInvariant, PTL

\* One failure in the half-open state opens the breaker again.
THEOREM FailureInHalfOpenReopens == Spec => FailureReopens
<1> DEFINE Reopens ==
      \A c \in Slots : (state = "half_open" /\ pc[c] = "trying" /\ pc'[c] = "failed")
        => state' = "open"
<1>1. TypeOK /\ BreakerInv /\ [Next]_vars => [Reopens]_vars
  <2> SUFFICES ASSUME TypeOK, BreakerInv, [Next]_vars, NEW c \in Slots,
                      state = "half_open", pc[c] = "trying", pc'[c] = "failed"
               PROVE  state' = "open"
    OBVIOUS
  <2>1. failure_count = FailureThreshold
    BY DEF TypeOK, BreakerInv, ClosedIffBelowThreshold
  <2>2. PICK d \in Slots : Call(d)
    BY DEF Next, Tick, vars, callVars
  <2>3. d = c
    BY <2>2 DEF TypeOK, Call, Admit, Reject, Retry, BackoffOver, Succeed, Fail, TimeOut, Release
  <2>4. Fail(c)
    BY <2>2, <2>3
       DEF TypeOK, Call, Admit, Reject, Retry, BackoffOver, Succeed, TimeOut, Release
  <2> QED
    BY <2>1, <2>4 DEF Fail, OnFailure
<1> QED
  BY <1>1, TypeCorrect, BreakerInvariant, PTL DEF Spec, FailureReopens

-----------------------------------------------------------------------------
\* Unless the message timeout cancelled a trial, a half-open breaker always has
\* its trial under way: some call will decide the state.
THEOREM TrialAlwaysInFlight == Spec => []TrialInFlight
<1>1. Init => TrialInFlight
  BY DEF Init, TrialInFlight
<1>2. TypeOK /\ BreakerInv /\ TrialInFlight /\ [Next]_vars => TrialInFlight'
  <2> SUFFICES ASSUME TypeOK, BreakerInv, TrialInFlight, [Next]_vars,
                      state' = "half_open", ~trial_cut'
               PROVE  \E c \in Slots : trial'[c] /\ pc'[c] \in Running
    BY DEF TrialInFlight
  <2> USE DEF TypeOK
  <2>1. ASSUME NEW c \in Slots, Admit(c)
        PROVE  trial'[c] /\ pc'[c] \in Running
    BY <2>1 DEF Admit, Admits
  <2>2. ASSUME state = "half_open", NEW c \in Slots, Call(c), ~Admit(c),
               NEW d \in Slots, trial[d], pc[d] \in Running
        PROVE  trial'[d] /\ pc'[d] \in Running
    <3>1. failure_count = FailureThreshold
      BY <2>2 DEF BreakerInv, ClosedIffBelowThreshold
    <3>2. ~Succeed(c) /\ ~Fail(c)
      BY <3>1 DEF Succeed, OnSuccess, Fail, OnFailure
    <3>3. CASE TimeOut(c)
      BY <2>2, <3>3 DEF TimeOut
    <3>4. CASE ~TimeOut(c)
      BY <2>2, <3>2, <3>4 DEF Call, Reject, Retry, BackoffOver, Release
    <3> QED
      BY <3>3, <3>4
  <2>3. ASSUME state = "half_open", Tick \/ UNCHANGED vars,
               NEW d \in Slots, trial[d], pc[d] \in Running
        PROVE  trial'[d] /\ pc'[d] \in Running
    BY <2>3 DEF Tick, vars, callVars
  <2>4. ASSUME NEW c \in Slots, Call(c), ~Admit(c)
        PROVE  state = "half_open" /\ ~trial_cut
    BY <2>4 DEF Call, Reject, Retry, BackoffOver, Succeed, OnSuccess, Fail, OnFailure,
                TimeOut, Release, breakerVars, history
  <2>5. ASSUME Tick \/ UNCHANGED vars
        PROVE  state = "half_open" /\ ~trial_cut
    BY <2>5 DEF Tick, vars, breakerVars, history
  <2> QED
    BY <2>1, <2>2, <2>3, <2>4, <2>5 DEF Next, TrialInFlight
<1> QED
  BY <1>1, <1>2, TypeCorrect, BreakerInvariant, PTL DEF Spec

\* The breaker's parts fit together, for any number of concurrent calls.
THEOREM BreakerStaysCoherent == Spec => []BreakerCoherent
<1>1. BreakerInv /\ TrialInFlight => BreakerCoherent
  BY DEF BreakerInv, BreakerCoherent
<1> QED
  BY <1>1, BreakerInvariant, TrialAlwaysInFlight, PTL

-----------------------------------------------------------------------------
\* OneProbe is not inductive: a second trial must not start from the open state
\* either, so no trial may be running there.
ProbeInv ==
    ~overtaken =>
      /\ \A c \in Slots : trial[c] /\ pc[c] \in Running => state = "half_open"
      /\ \A c, d \in Slots : trial[c] /\ trial[d] /\ pc[c] \in Running /\ pc[d] \in Running
                               => c = d

LEMMA ProbeInvStep == TypeOK /\ BreakerInv /\ ProbeInv /\ [Next]_vars => ProbeInv'
<1> SUFFICES ASSUME TypeOK, BreakerInv, ProbeInv, [Next]_vars, ~overtaken'
             PROVE  ProbeInv'
  BY DEF ProbeInv
<1> USE DEF TypeOK
<1>1. ASSUME NEW c \in Slots, Admit(c) PROVE ProbeInv'
  <2>1. ~overtaken
    BY <1>1 DEF Admit, history
  <2>2. \A d \in Slots : d # c => trial'[d] = trial[d] /\ pc'[d] = pc[d]
    BY <1>1 DEF Admit
  <2>3. CASE state = "closed"
    BY <1>1, <2>1, <2>2, <2>3 DEF Admit, ProbeInv
  <2>4. CASE state # "closed"
    <3>1. state # "half_open"
      BY <1>1, <2>4 DEF Admit, Admits, ShouldAttemptReset, BreakerInv, HalfOpenIffTrialFlag
    <3>2. \A d \in Slots : ~(trial[d] /\ pc[d] \in Running)
      BY <2>1, <3>1 DEF ProbeInv
    <3>3. state' = "half_open"
      BY <1>1, <2>4 DEF Admit
    <3> QED
      BY <2>2, <3>2, <3>3 DEF ProbeInv
  <2> QED
    BY <2>3, <2>4
<1>2. ASSUME NEW c \in Slots, Succeed(c) \/ Fail(c) PROVE ProbeInv'
  <2>1. ~overtaken /\ ~(state = "half_open" /\ ~trial[c])
    BY <1>2 DEF Succeed, Fail
  <2>2. /\ pc[c] \in Running
        /\ trial' = trial /\ pc'[c] \notin Running
        /\ \A d \in Slots : d # c => pc'[d] = pc[d]
    BY <1>2 DEF Succeed, Fail
  <2>3. \A d \in Slots : ~(trial'[d] /\ pc'[d] \in Running)
    BY <2>1, <2>2 DEF ProbeInv
  <2> QED
    BY <2>3 DEF ProbeInv
<1>3. ASSUME NEW c \in Slots,
             Reject(c) \/ Retry(c) \/ BackoffOver(c) \/ TimeOut(c) \/ Release(c)
      PROVE  ProbeInv'
  <2>1. /\ ~overtaken /\ state' = state
        /\ \A d \in Slots : trial'[d] /\ pc'[d] \in Running => trial[d] /\ pc[d] \in Running
    BY <1>3 DEF Reject, Retry, BackoffOver, TimeOut, Release, breakerVars, history
  <2> QED
    BY <2>1 DEF ProbeInv
<1>4. CASE Tick \/ UNCHANGED vars
  BY <1>4 DEF Tick, vars, breakerVars, callVars, history, ProbeInv
<1> QED
  BY <1>1, <1>2, <1>3, <1>4 DEF Next, Call

\* For any number of calls, two trials run side by side only after a call that
\* was admitted before the breaker opened ended in the half-open state.
THEOREM ProbesAreSingle == Spec => []OneProbe
<1>1. Init => ProbeInv
  BY DEF Init, ProbeInv
<1>2. ProbeInv => OneProbe
  BY DEF ProbeInv, OneProbe
<1> QED
  BY <1>1, <1>2, ProbeInvStep, TypeCorrect, BreakerInvariant, PTL DEF Spec
=============================================================================
