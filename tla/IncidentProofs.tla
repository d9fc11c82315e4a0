---------------------------- MODULE IncidentProofs ----------------------------
(***************************************************************************)
(* What holds of the two actors on the table of incidents, for any table:  *)
(* the poll of the Kafka bridge (IncidentBridge), with any fibers,         *)
(* organizations, rules, limit and number of tries, and then the workflow  *)
(* of an incident (IncidentWorkflow), with any number of requests.         *)
(***************************************************************************)
EXTENDS IncidentBridge, IncidentWorkflow, FiniteSetTheorems, SequenceTheorems, TLAPS

-----------------------------------------------------------------------------
(* The bridge *)

\* Where the loop stands, and what it has at hand there.
RoundOK ==
    /\ rows \cap current = {}
    /\ phase \in {"down", "loop"} => rows = {} /\ current = {}
    /\ phase = "down" => known = {}
    /\ phase = "alert" => at \in current
    /\ phase # "alert" => at = None /\ due = {}
    /\ phase = "resolve" => rows = {} /\ gone \subseteq known /\ gone \cap current = {}
    /\ phase # "resolve" => gone = {}

LEMMA RoundStep == RoundOK /\ [BridgeNext]_bridgeVars => RoundOK'
<1> SUFFICES ASSUME RoundOK, [BridgeNext]_bridgeVars PROVE RoundOK'
  OBVIOUS
<1> USE DEF RoundOK
<1>1. CASE UNCHANGED round
  BY <1>1 DEF round
<1>2. CASE GoDown
  BY <1>2 DEF GoDown
<1>3. CASE Start \/ Poll \/ RowsDone \/ EndRound \/ AlertsDone
  BY <1>3 DEF Start, Poll, RowsDone, EndRound, AlertsDone
<1>4. ASSUME NEW i \in Incidents, SeenAgain(i) \/ Announce(i) \/ Retract(i) PROVE RoundOK'
  BY <1>4 DEF SeenAgain, Announce, Retract, IsNext
<1>5. ASSUME NEW q \in Rules, Dispatch(q) \/ SkipCooling(q) PROVE RoundOK'
  BY <1>5 DEF Dispatch, SkipCooling
<1>6. ASSUME AlertNext \/ Reassign \/ RefreshMap PROVE UNCHANGED round
  BY <1>6 DEF AlertNext, Reassign, RefreshMap, CooldownEnds, SimulationAlerts,
              PostSucceeds, PostFails, PostRaises
<1>7. ASSUME Faults PROVE GoDown
  BY <1>7 DEF Faults, LoopRaises, ProcessDies, AnnounceRaises, RetractRaises, DispatchRaises
<1> QED
  BY <1>1, <1>2, <1>3, <1>4, <1>5, <1>6, <1>7 DEF BridgeNext, Step, bridgeVars

-----------------------------------------------------------------------------
Entries == [rule : Rules, incident : Incidents, status : {"pending", "decided"}]

LogTypes ==
    /\ log \in Seq(Entries)
    /\ tries \in [DOMAIN log -> 0..MaxTries]
    /\ cooling \subseteq Rules \X Fibers
    /\ undecided \subseteq DOMAIN log

LEMMA AppendFacts ==
    ASSUME NEW S, NEW s \in Seq(S), NEW e \in S, NEW t, t = Append(s, e)
    PROVE  /\ t \in Seq(S) /\ Len(s) \in Nat /\ Len(t) = Len(s) + 1
           /\ DOMAIN s = 1..Len(s) /\ DOMAIN t = 1..(Len(s) + 1)
           /\ \A k \in DOMAIN s : t[k] = s[k]
           /\ t[Len(s) + 1] = e
           /\ t \in [1..(Len(s) + 1) -> S]
<1>1. t \in Seq(S) /\ Len(t) = Len(s) + 1 /\ \A k \in 1..Len(s) : t[k] = s[k]
  BY AppendProperties
<1>2. t[Len(s) + 1] = e
  BY AppendProperties
<1>3. Len(s) \in Nat /\ DOMAIN s = 1..Len(s)
  BY LenProperties
<1>4. t \in [1..Len(t) -> S] /\ DOMAIN t = 1..Len(t)
  BY <1>1, LenProperties
<1> QED
  BY <1>1, <1>2, <1>3, <1>4

LEMMA LogGrows ==
    ASSUME LogTypes, NEW entry \in Entries, NEW attempts \in 0..MaxTries,
           NEW newLog, newLog = Append(log, entry), NEW newTries, newTries = Append(tries, attempts)
    PROVE  /\ newLog \in Seq(Entries)
           /\ Len(log) \in Nat /\ Len(newLog) = Len(log) + 1
           /\ DOMAIN log = 1..Len(log) /\ DOMAIN newLog = 1..(Len(log) + 1)
           /\ \A e \in DOMAIN log : newLog[e] = log[e] /\ newTries[e] = tries[e]
           /\ newLog[Len(log) + 1] = entry
           /\ newTries[Len(log) + 1] = attempts
           /\ newTries \in [DOMAIN newLog -> 0..MaxTries]
<1>1. log \in Seq(Entries) /\ Len(log) \in Nat /\ DOMAIN log = 1..Len(log)
  BY DEF LogTypes
<1>2. tries \in Seq(0..MaxTries) /\ Len(tries) = Len(log)
  <2>1. tries \in [1..Len(log) -> 0..MaxTries]
    BY <1>1 DEF LogTypes
  <2>2. tries \in Seq(0..MaxTries)
    BY <1>1, <2>1, SeqDef
  <2> QED
    BY <1>1, <2>1, <2>2, LenProperties
<1>3. /\ newLog \in Seq(Entries) /\ Len(newLog) = Len(log) + 1
      /\ DOMAIN newLog = 1..(Len(log) + 1)
      /\ \A e \in DOMAIN log : newLog[e] = log[e]
      /\ newLog[Len(log) + 1] = entry
  BY <1>1, AppendFacts
<1>4. /\ \A e \in DOMAIN tries : newTries[e] = tries[e]
      /\ newTries[Len(log) + 1] = attempts
      /\ newTries \in [1..(Len(log) + 1) -> 0..MaxTries]
  <2> DEFINE T == 0..MaxTries
  <2>1. tries \in Seq(T) /\ attempts \in T
    BY <1>2
  <2> HIDE DEF T
  <2>2. /\ newTries \in Seq(T) /\ Len(newTries) = Len(tries) + 1
        /\ \A e \in DOMAIN tries : newTries[e] = tries[e]
        /\ newTries[Len(tries) + 1] = attempts
    BY <2>1, AppendFacts
  <2>3. newTries \in [1..(Len(tries) + 1) -> T]
    BY <2>2, LenProperties
  <2> QED
    BY <1>2, <2>2, <2>3 DEF T
<1>5. DOMAIN tries = DOMAIN log
  BY <1>1, <1>2
<1> QED
  BY <1>1, <1>3, <1>4, <1>5

\* A dispatch adds an entry of its rule and of the incident at hand.
LEMMA DispatchLogs ==
    ASSUME BridgeTypeOK, RoundOK, NEW q \in Rules, Dispatch(q) \/ DispatchRaises(q)
    PROVE  /\ at \in Incidents /\ at \in current /\ phase = "alert" /\ q \in due
           /\ cooling' \subseteq Rules \X Fibers
           /\ undecided' \subseteq undecided \cup {Len(log')}
           /\ undecided \subseteq undecided'
           /\ \E entry \in Entries, n \in 0..MaxTries :
                 /\ entry.rule = q /\ entry.incident = at
                 /\ entry.status = "pending" => n > 0 \/ Len(log') \in undecided'
                 /\ log' = Append(log, entry) /\ tries' = Append(tries, n)
<1> USE BridgeAssumption
<1>1. /\ at \in Incidents /\ at \in current /\ phase = "alert" /\ q \in due
      /\ FiberOf[at] \in Fibers
  BY DEF Dispatch, DispatchRaises, RoundOK, BridgeTypeOK, BridgeAssumption
<1>2. PICK status \in {"pending", "decided"}, n \in 0..MaxTries :
          /\ LogEntry(q, at, FiberOf[at], status, n)
          /\ status = "pending" => n > 0 \/ Len(log') \in undecided'
  BY DEF Dispatch, Dispatched, DispatchRaises, BridgeAssumption
<1>3. [rule |-> q, incident |-> at, status |-> status] \in Entries
  BY <1>1 DEF Entries
<1>4. cooling' \subseteq Rules \X Fibers
  BY <1>1, <1>2 DEF LogEntry, BridgeTypeOK
<1>5. undecided' \subseteq undecided \cup {Len(log')} /\ undecided \subseteq undecided'
  BY DEF Dispatch, DispatchRaises
<1> QED
  BY <1>1, <1>2, <1>3, <1>4, <1>5 DEF LogEntry

LEMMA LogTypesStep ==
    RoundOK /\ BridgeTypeOK /\ LogTypes /\ [BridgeNext]_bridgeVars => LogTypes'
<1> SUFFICES ASSUME RoundOK, BridgeTypeOK, LogTypes, [BridgeNext]_bridgeVars PROVE LogTypes'
  OBVIOUS
<1> USE BridgeAssumption
<1>1. CASE UNCHANGED alerts
  BY <1>1 DEF alerts, LogTypes
<1>2. CASE ProcessDies
  <2>1. UNCHANGED <<log, cooling>> /\ tries' \in [DOMAIN log -> 0..MaxTries]
    BY <1>2 DEF ProcessDies, LogTypes, BridgeAssumption
  <2>2. undecided' \subseteq DOMAIN log
    BY <1>2 DEF ProcessDies, LogTypes
  <2> QED
    BY <2>1, <2>2 DEF LogTypes
<1>3. ASSUME NEW q \in Rules, Dispatch(q) \/ DispatchRaises(q) PROVE LogTypes'
  <2>1. PICK entry \in Entries, n \in 0..MaxTries :
            log' = Append(log, entry) /\ tries' = Append(tries, n)
    BY <1>3, DispatchLogs
  <2>3. /\ undecided' \subseteq undecided \cup {Len(log')}
        /\ cooling' \subseteq Rules \X Fibers
    BY <1>3, DispatchLogs
  <2>4. /\ log' \in Seq(Entries)
        /\ Len(log) \in Nat /\ Len(log') = Len(log) + 1
        /\ DOMAIN log = 1..Len(log) /\ DOMAIN log' = 1..(Len(log) + 1)
        /\ tries' \in [DOMAIN log' -> 0..MaxTries]
    BY <2>1, LogGrows
  <2>5. undecided' \subseteq DOMAIN log'
    <3>1. undecided \subseteq 1..Len(log)
      BY <2>4 DEF LogTypes
    <3>2. 1..Len(log) \subseteq 1..(Len(log) + 1) /\ Len(log) + 1 \in 1..(Len(log) + 1)
      BY <2>4
    <3> QED
      BY <2>3, <2>4, <3>1, <3>2
  <2> QED
    BY <2>3, <2>4, <2>5 DEF LogTypes
<1>4. CASE CooldownEnds \/ \E q \in Rules, x \in Fibers : SimulationAlerts(q, x)
  BY <1>4 DEF CooldownEnds, SimulationAlerts, LogTypes
<1>5. ASSUME NEW e \in DOMAIN log, PostSucceeds(e) \/ PostFails(e) \/ PostRaises(e) PROVE LogTypes'
  <2>1. log' \in Seq(Entries) /\ DOMAIN log' = DOMAIN log
    <3>1. CASE Decide(e)
      <4>0. log[e] \in Entries
        BY DEF LogTypes
      <4>1. [log[e] EXCEPT !.status = "decided"] \in Entries
        BY <4>0 DEF Entries
      <4> QED
        BY <3>1, <4>1 DEF Decide, LogTypes
    <3>2. CASE UNCHANGED log
      BY <3>2 DEF LogTypes
    <3> QED
      BY <1>5, <3>1, <3>2 DEF PostSucceeds, PostFails, PostRaises
  <2>2. tries' \in [DOMAIN log -> 0..MaxTries]
    <3>1. tries[e] \in 0..MaxTries /\ tries[e] > 0
      BY <1>5 DEF PostSucceeds, PostFails, PostRaises, LogTypes
    <3>2. MaxTries \in Nat
      BY DEF BridgeAssumption
    <3>3. PICK n \in 0..MaxTries : tries' = [tries EXCEPT ![e] = n]
      <4>1. 0 \in 0..MaxTries /\ tries[e] - 1 \in 0..MaxTries
        BY <3>1, <3>2
      <4> QED
        BY <1>5, <4>1 DEF PostSucceeds, PostFails, PostRaises
    <3> QED
      BY <3>3 DEF LogTypes
  <2>3. UNCHANGED cooling /\ undecided' \subseteq undecided \cup {e}
    BY <1>5 DEF PostSucceeds, PostFails, PostRaises
  <2> QED
    BY <2>1, <2>2, <2>3 DEF LogTypes
<1>6. ASSUME \/ Start \/ Poll \/ RowsDone \/ EndRound \/ AlertsDone
             \/ \E i \in Incidents : SeenAgain(i) \/ Announce(i) \/ Retract(i)
             \/ \E q \in Rules : SkipCooling(q)
      PROVE  UNCHANGED alerts
  BY <1>6 DEF Start, Poll, RowsDone, EndRound, AlertsDone, SeenAgain, Announce, Retract, SkipCooling
<1>7. ASSUME LoopRaises \/ \E i \in Incidents : AnnounceRaises(i) \/ RetractRaises(i)
      PROVE  UNCHANGED alerts
  BY <1>7 DEF LoopRaises, AnnounceRaises, RetractRaises
<1>8. ASSUME Reassign \/ RefreshMap PROVE UNCHANGED alerts
  BY <1>8 DEF Reassign, RefreshMap
<1> QED
  BY <1>1, <1>2, <1>3, <1>4, <1>5, <1>6, <1>7, <1>8
     DEF BridgeNext, Step, Faults, AlertNext, bridgeVars

LEMMA GoDownTypes ==
    ASSUME BridgeTypeOK, GoDown, told' \in [Groups -> SUBSET Incidents]
    PROVE  /\ phase' = "down" /\ known' = {} /\ rows' = {} /\ current' = {} /\ gone' = {}
           /\ at' = None /\ due' = {}
           /\ orphaned' \in [Groups -> SUBSET Incidents]
           /\ missed' \in [Groups -> SUBSET Incidents]
           /\ lives' \in 1..MaxLives
  BY BridgeAssumption DEF BridgeTypeOK, GoDown, BridgeAssumption

\* What is left of the type invariant beside the log.
PlainTypes ==
    /\ TableTypeOK
    /\ owners \in Maps /\ orgMap \in Maps
    /\ moves \in 0..MaxMoves
    /\ phase \in {"down", "loop", "rows", "alert", "resolve"}
    /\ \A s \in {known, rows, current, gone} : s \subseteq Incidents
    /\ at \in Incidents \cup {None}
    /\ due \subseteq Rules
    /\ \A b \in {told, orphaned, missed} : b \in [Groups -> SUBSET Incidents]
    /\ retracted \in [Incidents -> Nat]
    /\ lives \in 1..MaxLives

LEMMA TypesSplit == BridgeTypeOK <=> PlainTypes /\ LogTypes
  BY DEF BridgeTypeOK, PlainTypes, LogTypes, Entries

LEMMA PlainTypesStep == BridgeTypeOK /\ [BridgeNext]_bridgeVars => PlainTypes'
<1> SUFFICES ASSUME BridgeTypeOK, [BridgeNext]_bridgeVars PROVE PlainTypes'
  OBVIOUS
<1> USE BridgeAssumption
<1>0. PlainTypes
  BY TypesSplit
<1> DEFINE plain == <<table, ownerVars, round, belief, lives>>
<1>1. CASE UNCHANGED plain
  BY <1>0, <1>1 DEF PlainTypes, TableTypeOK, ownerVars, round, belief
<1>2. CASE TableNext /\ UNCHANGED <<ownerVars, round, belief, lives, alerts>>
  BY <1>0, <1>2 DEF PlainTypes, TableTypeOK, TableNext, Detect, End, ownerVars, round, belief
<1>3. CASE Reassign \/ RefreshMap \/ Start
  <2>1. /\ owners' \in Maps /\ orgMap' \in Maps /\ moves' \in 0..MaxMoves
        /\ phase' \in {phase, "loop"}
    BY <1>0, <1>3 DEF PlainTypes, Reassign, RefreshMap, Start, LoadMap, round, BridgeAssumption
  <2>2. UNCHANGED <<table, known, rows, current, at, due, gone, belief, lives>>
    BY <1>3 DEF Reassign, RefreshMap, Start, round
  <2> QED
    BY <1>0, <2>1, <2>2 DEF PlainTypes, TableTypeOK, belief
<1>4. CASE Faults
  <2>1. /\ told' \in [Groups -> SUBSET Incidents] /\ GoDown
        /\ UNCHANGED <<table, ownerVars, retracted>>
    <3>1. CASE LoopRaises \/ ProcessDies \/ \E q \in Rules : DispatchRaises(q)
      BY <1>0, <3>1 DEF LoopRaises, ProcessDies, DispatchRaises, PlainTypes
    <3>2. CASE \E i \in Incidents : AnnounceRaises(i) \/ RetractRaises(i)
      BY <1>0, <3>2 DEF AnnounceRaises, RetractRaises, PlainTypes
    <3> QED
      BY <1>4, <3>1, <3>2 DEF Faults
  <2>2. UNCHANGED <<table, owners, moves, orgMap, retracted>>
    BY <2>1 DEF ownerVars
  <2> QED
    BY <1>0, <2>1, <2>2, GoDownTypes DEF PlainTypes, TableTypeOK
<1>5. CASE Poll \/ RowsDone \/ EndRound \/ AlertsDone
  BY <1>0, <1>5 DEF PlainTypes, TableTypeOK, Poll, RowsDone, EndRound, AlertsDone, Newest, Active,
                    ownerVars, belief
<1>6. ASSUME NEW i \in Incidents, SeenAgain(i) \/ Announce(i) \/ Retract(i) PROVE PlainTypes'
  <2>1. CASE SeenAgain(i)
    BY <1>0, <2>1 DEF PlainTypes, TableTypeOK, SeenAgain, ownerVars, belief
  <2>2. CASE Announce(i)
    <3>1. Fired(i) \subseteq Rules
      BY DEF Fired
    <3> QED
      BY <1>0, <2>2, <3>1 DEF PlainTypes, TableTypeOK, Announce, ownerVars
  <2>3. CASE Retract(i)
    BY <1>0, <2>3 DEF PlainTypes, TableTypeOK, Retract, ownerVars
  <2> QED
    BY <1>6, <2>1, <2>2, <2>3
<1>7. ASSUME NEW q \in Rules, Dispatch(q) \/ SkipCooling(q) PROVE PlainTypes'
  BY <1>0, <1>7 DEF PlainTypes, TableTypeOK, Dispatch, SkipCooling, ownerVars, belief
<1>8. ASSUME AlertNext PROVE UNCHANGED plain
  BY <1>8 DEF AlertNext, CooldownEnds, SimulationAlerts, PostSucceeds, PostFails, PostRaises
<1> QED
  BY <1>1, <1>2, <1>3, <1>4, <1>5, <1>6, <1>7, <1>8 DEF BridgeNext, Step, bridgeVars

BridgeInv == BridgeTypeOK /\ RoundOK

LEMMA BridgeInvariant == BridgeSpec => []BridgeInv
<1>1. BridgeInit => BridgeTypeOK
  BY BridgeAssumption DEF BridgeInit, TableInit, BridgeTypeOK, TableTypeOK, BridgeAssumption
<1>2. BridgeInit => RoundOK
  BY DEF BridgeInit, RoundOK
<1>3. BridgeInv /\ [BridgeNext]_bridgeVars => BridgeInv'
  <2>1. PlainTypes' /\ LogTypes' => BridgeTypeOK'
    BY DEF BridgeTypeOK, PlainTypes, LogTypes, Entries, TableTypeOK
  <2> QED
    BY <2>1, RoundStep, LogTypesStep, PlainTypesStep, TypesSplit DEF BridgeInv
<1> QED
  BY <1>1, <1>2, <1>3, PTL DEF BridgeSpec, BridgeInv

\* The bridge's parts are well-typed: a webhook is never tried more than MaxTries
\* times, and the pool only has entries of the log.
THEOREM BridgeTypeCorrect == BridgeSpec => []BridgeTypeOK
<1>1. BridgeInv => BridgeTypeOK
  BY DEF BridgeInv
<1> QED
  BY <1>1, BridgeInvariant, PTL

-----------------------------------------------------------------------------
(* Beliefs *)

LEMMA BeliefStep ==
    BridgeInv /\ BridgeInv' /\ BeliefMatches /\ [BridgeNext]_bridgeVars => BeliefMatches'
<1> SUFFICES ASSUME BridgeInv, BridgeInv', BeliefMatches, [BridgeNext]_bridgeVars
             PROVE  BeliefMatches'
  OBVIOUS
<1> USE DEF BeliefMatches
<1>0. /\ told \in [Groups -> SUBSET Incidents] /\ orphaned \in [Groups -> SUBSET Incidents]
      /\ missed \in [Groups -> SUBSET Incidents] /\ known \subseteq Incidents /\ RoundOK
  BY DEF BridgeInv, BridgeTypeOK
<1>1. ASSUME UNCHANGED <<told, orphaned, missed>>, Held' = Held PROVE BeliefMatches'
  BY <1>1
<1>2. ASSUME GoDown PROVE BeliefMatches'
  <2>1. Held' = {}
    BY <1>2 DEF GoDown, Held
  <2>2. orphaned' = [g \in Groups |-> orphaned[g] \cup told'[g]]
    BY <1>2 DEF GoDown
  <2> QED
    BY <2>1, <2>2
<1>3. ASSUME NEW i \in Incidents, Announce(i) PROVE BeliefMatches'
  <2>1. Held' = Held \cup {i}
    BY <1>0, <1>3 DEF Announce, IsNext, Held
  <2>2. ASSUME NEW g \in Groups
        PROVE  IF g \in Audience(i)
               THEN /\ told'[g] = told[g] \cup {i}
                    /\ orphaned'[g] = orphaned[g] \ {i} /\ missed'[g] = missed[g]
               ELSE /\ told'[g] = told[g] /\ orphaned'[g] = orphaned[g]
                    /\ missed'[g] = missed[g] \cup {i}
    BY <1>3 DEF Announce
  <2> QED
    BY <2>1, <2>2
<1>4. ASSUME NEW i \in Incidents, Retract(i) PROVE BeliefMatches'
  <2>1. Held' = Held \ {i}
    BY <1>0, <1>4 DEF Retract, Held, RoundOK
  <2>2. ASSUME NEW g \in Groups
        PROVE  /\ told'[g] \in {told[g], told[g] \ {i}}
               /\ orphaned'[g] = (orphaned[g] \cup {i}) \cap told'[g]
               /\ missed'[g] = missed[g] \ {i}
    BY <1>4 DEF Retract
  <2> QED
    BY <2>1, <2>2
<1>5. CASE RowsDone \/ EndRound \/ Poll
  <2>1. Held' = Held
    BY <1>0, <1>5 DEF RowsDone, EndRound, Poll, Held, RoundOK
  <2> QED
    BY <1>1, <1>5, <2>1 DEF RowsDone, EndRound, Poll, belief
<1>6. CASE Start \/ AlertsDone \/ Reassign \/ RefreshMap
  <2>1. Held' = Held
    BY <1>0, <1>6 DEF Start, AlertsDone, Reassign, RefreshMap, Held, RoundOK, round
  <2> QED
    BY <1>1, <1>6, <2>1 DEF Start, AlertsDone, Reassign, RefreshMap, belief
<1>7. ASSUME NEW i \in Incidents, SeenAgain(i) PROVE BeliefMatches'
  <2>1. Held' = Held
    BY <1>0, <1>7 DEF SeenAgain, IsNext, Held
  <2> QED
    BY <1>1, <1>7, <2>1 DEF SeenAgain, belief
<1>8. ASSUME \E q \in Rules : Dispatch(q) \/ SkipCooling(q) PROVE BeliefMatches'
  <2>1. UNCHANGED <<phase, known, current, gone, belief>>
    BY <1>8 DEF Dispatch, SkipCooling
  <2> QED
    BY <1>1, <2>1 DEF belief, Held
<1>9. ASSUME AlertNext PROVE UNCHANGED <<round, belief>>
  BY <1>9 DEF AlertNext, CooldownEnds, SimulationAlerts, PostSucceeds, PostFails, PostRaises
<1>10. ASSUME Faults PROVE GoDown
  BY <1>10 DEF Faults, LoopRaises, ProcessDies, AnnounceRaises, RetractRaises, DispatchRaises
<1>11. ASSUME UNCHANGED <<round, belief>> PROVE BeliefMatches'
  BY <1>1, <1>11 DEF round, belief, Held
<1> QED
  BY <1>2, <1>3, <1>4, <1>5, <1>6, <1>7, <1>8, <1>9, <1>10, <1>11
     DEF BridgeNext, Step, bridgeVars

\* Wherever a round is cut, and however the owners change under it, a group believes
\* active what the bridge holds, but for what BeliefMatches excepts.
THEOREM BeliefsMatch == BridgeSpec => []BeliefMatches
<1>1. BridgeInit => BeliefMatches
  BY DEF BridgeInit, BeliefMatches, Held
<1> QED
  BY <1>1, BeliefStep, BridgeInvariant, PTL DEF BridgeSpec

-----------------------------------------------------------------------------
(* Alerts: a loop owes an incident at most one entry of a rule until it is    *)
(* announced as resolved.  MayLog holds while that entry can still be made.   *)

EntriesOf(q, i) == {e \in DOMAIN log : log[e].rule = q /\ log[e].incident = i}

MayLog(q, i) == i \notin Held \/ (at = i /\ q \in due)

Owed(q, i) == IF MayLog(q, i) THEN 1 ELSE 0

LogsAreOwed ==
    \A q \in Rules, i \in Incidents :
        Cardinality(EntriesOf(q, i)) + Owed(q, i) <= lives + retracted[i]

DeliveriesKnown ==
    \A e \in DOMAIN log : log[e].status = "pending" => tries[e] > 0 \/ e \in undecided

LEMMA EntriesFinite ==
    ASSUME LogTypes, NEW q, NEW i
    PROVE  /\ IsFiniteSet(EntriesOf(q, i))
           /\ Cardinality(EntriesOf(q, i)) \in Nat
<1>1. Len(log) \in Nat /\ DOMAIN log = 1..Len(log)
  BY DEF LogTypes
<1>2. IsFiniteSet(1..Len(log))
  BY <1>1, FS_Interval
<1>3. EntriesOf(q, i) \subseteq 1..Len(log)
  BY <1>1 DEF EntriesOf
<1> QED
  BY <1>2, <1>3, FS_Subset, FS_CardinalityType

\* What a step does to the right to log.
LEMMA OwedStep ==
    ASSUME BridgeInv, [BridgeNext]_bridgeVars, ~GoDown, NEW q \in Rules, NEW i \in Incidents,
           ~Retract(i), MayLog(q, i)'
    PROVE  /\ MayLog(q, i)
           /\ Dispatch(q) => at # i
<1> USE DEF MayLog
<1>0. RoundOK
  BY DEF BridgeInv
<1>1. CASE UNCHANGED round /\ ~Dispatch(q)
  BY <1>1 DEF round, Held
<1>2. CASE Start \/ Poll \/ RowsDone \/ EndRound \/ AlertsDone
  <2>1. Held' = Held /\ due' = {} /\ ~Dispatch(q)
    BY <1>0, <1>2 DEF Start, Poll, RowsDone, EndRound, AlertsDone, Held, RoundOK, Dispatch
  <2> QED
    BY <2>1
<1>3. ASSUME NEW j \in Incidents, SeenAgain(j) \/ Announce(j) PROVE MayLog(q, i) /\ ~Dispatch(q)
  <2>1. phase = "rows" /\ due = {} /\ Held \subseteq Held' /\ ~Dispatch(q)
    BY <1>0, <1>3 DEF SeenAgain, Announce, IsNext, Held, RoundOK, Dispatch
  <2>2. CASE SeenAgain(j)
    BY <2>1, <2>2 DEF SeenAgain
  <2>3. CASE Announce(j)
    <3>1. at' = j /\ j \notin Held
      BY <1>0, <2>3 DEF Announce, IsNext, Held, RoundOK
    <3> QED
      BY <2>1, <3>1
  <2> QED
    BY <1>3, <2>1, <2>2, <2>3
<1>4. ASSUME NEW j \in Incidents, Retract(j) PROVE MayLog(q, i) /\ ~Dispatch(q)
  <2>1. j # i
    BY <1>4
  <2>2. Held' = Held \ {j} /\ due' = {} /\ ~Dispatch(q)
    BY <1>0, <1>4 DEF Retract, Held, RoundOK, Dispatch
  <2> QED
    BY <2>1, <2>2
<1>5. ASSUME NEW p \in Rules, Dispatch(p) \/ SkipCooling(p)
      PROVE  MayLog(q, i) /\ (Dispatch(q) => at # i)
  <2>1. Held' = Held /\ due' = due \ {p} /\ at' = at /\ at \in Held
    BY <1>0, <1>5 DEF Dispatch, SkipCooling, Held, RoundOK
  <2>2. Dispatch(q) => due' = due \ {q}
    BY DEF Dispatch
  <2> QED
    BY <2>1, <2>2
<1>6. ASSUME AlertNext \/ Reassign \/ RefreshMap PROVE UNCHANGED round /\ ~Dispatch(q)
  <2>1. UNCHANGED round
    BY <1>6 DEF AlertNext, Reassign, RefreshMap, CooldownEnds, SimulationAlerts,
                PostSucceeds, PostFails, PostRaises
  <2>2. Dispatch(q) => due' # due
    BY DEF Dispatch
  <2> QED
    BY <2>1, <2>2 DEF round
<1>7. UNCHANGED round => ~Dispatch(q)
  BY DEF round, Dispatch
<1>8. ASSUME Faults PROVE GoDown
  BY <1>8 DEF Faults, LoopRaises, ProcessDies, AnnounceRaises, RetractRaises, DispatchRaises
<1> QED
  BY <1>1, <1>2, <1>3, <1>4, <1>5, <1>6, <1>7, <1>8 DEF BridgeNext, Step, bridgeVars

\* Only a dispatch makes entries.
LEMMA EntriesStep ==
    ASSUME BridgeInv, [BridgeNext]_bridgeVars, \A q \in Rules : ~(Dispatch(q) \/ DispatchRaises(q))
    PROVE  /\ DOMAIN log' = DOMAIN log
           /\ \A e \in DOMAIN log : log'[e].rule = log[e].rule /\ log'[e].incident = log[e].incident
<1>1. ASSUME NEW e \in DOMAIN log, Decide(e)
      PROVE  /\ DOMAIN log' = DOMAIN log
             /\ \A n \in DOMAIN log : log'[n].rule = log[n].rule /\ log'[n].incident = log[n].incident
  <2>1. log \in Seq(Entries)
    BY DEF BridgeInv, BridgeTypeOK, Entries
  <2>2. \A n \in DOMAIN log : log[n] \in Entries
    BY <2>1
  <2> QED
    BY <1>1, <2>1, <2>2 DEF Decide, Entries
<1>2. ASSUME \A e \in DOMAIN log : ~Decide(e) PROVE UNCHANGED log
  BY <1>2 DEF BridgeNext, Step, Faults, AlertNext, bridgeVars, alerts, Reassign, RefreshMap, Start, Poll,
      RowsDone, EndRound, AlertsDone, SeenAgain, Announce, Retract, SkipCooling, LoopRaises, ProcessDies,
      AnnounceRaises, RetractRaises, CooldownEnds, SimulationAlerts, PostSucceeds, PostFails, PostRaises
<1> QED
  BY <1>1, <1>2

\* The bound of LogsAreOwed never shrinks, and grows when it has to.
LEMMA BoundStep ==
    ASSUME BridgeInv, [BridgeNext]_bridgeVars, NEW i \in Incidents
    PROVE  /\ lives' = lives \/ lives' = lives + 1
           /\ GoDown => lives' = lives + 1
           /\ retracted'[i] = retracted[i] \/ retracted'[i] = retracted[i] + 1
           /\ Retract(i) => retracted'[i] = retracted[i] + 1
<1>1. retracted \in [Incidents -> Nat] /\ lives \in Nat
  BY BridgeAssumption DEF BridgeInv, BridgeTypeOK, BridgeAssumption
<1>2. GoDown => lives' = lives + 1
  BY DEF GoDown
<1>3. Retract(i) => retracted'[i] = retracted[i] + 1
  BY <1>1 DEF Retract
<1>4. CASE UNCHANGED <<lives, retracted>>
  BY <1>2, <1>3, <1>4
<1>5. ASSUME NEW j \in Incidents, Retract(j)
      PROVE  lives' = lives /\ retracted'[i] \in {retracted[i], retracted[i] + 1}
  BY <1>1, <1>5 DEF Retract
<1>6. ASSUME Faults PROVE lives' = lives + 1 /\ UNCHANGED retracted
  BY <1>6 DEF Faults, LoopRaises, ProcessDies, AnnounceRaises, RetractRaises, DispatchRaises, GoDown
<1>7. ASSUME BridgeNext, ~Faults, \A j \in Incidents : ~Retract(j) PROVE UNCHANGED <<lives, retracted>>
  <2>1. ASSUME Start \/ Poll \/ RowsDone \/ EndRound \/ AlertsDone \/ Reassign \/ RefreshMap
        PROVE  UNCHANGED <<lives, retracted>>
    BY <2>1 DEF Start, Poll, RowsDone, EndRound, AlertsDone, Reassign, RefreshMap, belief
  <2>2. ASSUME \/ \E j \in Incidents : SeenAgain(j) \/ Announce(j)
               \/ \E q \in Rules : Dispatch(q) \/ SkipCooling(q)
        PROVE  UNCHANGED <<lives, retracted>>
    BY <2>2 DEF SeenAgain, Announce, Dispatch, SkipCooling, belief
  <2>3. ASSUME AlertNext PROVE UNCHANGED <<lives, retracted>>
    BY <2>3 DEF AlertNext, CooldownEnds, SimulationAlerts, PostSucceeds, PostFails, PostRaises, belief
  <2> QED
    BY <1>7, <2>1, <2>2, <2>3 DEF BridgeNext, Step, belief
<1>8. UNCHANGED bridgeVars => UNCHANGED <<lives, retracted>>
  BY DEF bridgeVars, belief
<1> QED
  BY <1>2, <1>3, <1>4, <1>5, <1>6, <1>7, <1>8

\* A dispatch of p for the incident at hand adds one entry to those of the pair.
LEMMA EntryAdded ==
    ASSUME BridgeInv, NEW p \in Rules, Dispatch(p) \/ DispatchRaises(p),
           NEW q \in Rules, NEW i \in Incidents
    PROVE  IF q = p /\ i = at
           THEN Cardinality(EntriesOf(q, i)') = Cardinality(EntriesOf(q, i)) + 1
           ELSE EntriesOf(q, i)' = EntriesOf(q, i)
<1>1. BridgeTypeOK /\ RoundOK /\ LogTypes
  BY TypesSplit DEF BridgeInv
<1>2. PICK entry \in Entries, n \in 0..MaxTries :
          /\ entry.rule = p /\ entry.incident = at
          /\ log' = Append(log, entry) /\ tries' = Append(tries, n)
  BY <1>1, DispatchLogs
<1>3. /\ Len(log) \in Nat /\ DOMAIN log = 1..Len(log) /\ DOMAIN log' = 1..(Len(log) + 1)
      /\ \A e \in DOMAIN log : log'[e] = log[e]
      /\ log'[Len(log) + 1] = entry
  BY <1>1, <1>2, LogGrows
<1> DEFINE new == Len(log) + 1
<1>4. DOMAIN log' = DOMAIN log \cup {new} /\ new \notin DOMAIN log
  BY <1>3
<1>5. EntriesOf(q, i)' = EntriesOf(q, i) \cup (IF q = p /\ i = at THEN {new} ELSE {})
  BY <1>2, <1>3, <1>4 DEF EntriesOf
<1>6. new \notin EntriesOf(q, i)
  BY <1>4 DEF EntriesOf
<1>7. IsFiniteSet(EntriesOf(q, i))
  BY <1>1, EntriesFinite
<1>8. Cardinality(EntriesOf(q, i) \cup {new}) = Cardinality(EntriesOf(q, i)) + 1
  BY <1>6, <1>7, FS_AddElement
<1> QED
  BY <1>5, <1>8

LEMMA LogsStep ==
    BridgeInv /\ BridgeInv' /\ LogsAreOwed /\ [BridgeNext]_bridgeVars => LogsAreOwed'
<1> SUFFICES ASSUME BridgeInv, BridgeInv', LogsAreOwed, [BridgeNext]_bridgeVars,
                    NEW q \in Rules, NEW i \in Incidents
             PROVE  Cardinality(EntriesOf(q, i)') + Owed(q, i)' <= lives' + retracted'[i]
  BY DEF LogsAreOwed
<1>1. /\ Cardinality(EntriesOf(q, i)) \in Nat
      /\ Owed(q, i) \in {0, 1} /\ Owed(q, i)' \in {0, 1}
      /\ lives \in Nat /\ retracted[i] \in Nat
      /\ Cardinality(EntriesOf(q, i)) + Owed(q, i) <= lives + retracted[i]
  <2>1. LogTypes
    BY TypesSplit DEF BridgeInv
  <2>2. lives \in Nat /\ retracted[i] \in Nat
    BY BridgeAssumption DEF BridgeInv, BridgeTypeOK, BridgeAssumption
  <2> QED
    BY <2>1, <2>2, EntriesFinite DEF LogsAreOwed, Owed
<1>2. /\ lives' = lives \/ lives' = lives + 1
      /\ GoDown => lives' = lives + 1
      /\ retracted'[i] = retracted[i] \/ retracted'[i] = retracted[i] + 1
      /\ Retract(i) => retracted'[i] = retracted[i] + 1
  BY BoundStep
<1>3. ASSUME EntriesOf(q, i)' = EntriesOf(q, i)
      PROVE  Cardinality(EntriesOf(q, i)') + Owed(q, i)' <= lives' + retracted'[i]
  <2>1. CASE GoDown \/ Retract(i)
    BY <1>1, <1>2, <1>3, <2>1
  <2>2. CASE ~GoDown /\ ~Retract(i)
    <3>1. MayLog(q, i)' => MayLog(q, i)
      BY <2>2, OwedStep
    <3>2. Owed(q, i)' <= Owed(q, i)
      BY <3>1, <1>1 DEF Owed
    <3> QED
      BY <1>1, <1>2, <1>3, <3>2
  <2> QED
    BY <2>1, <2>2
<1>4. ASSUME \A p \in Rules : ~(Dispatch(p) \/ DispatchRaises(p))
      PROVE  EntriesOf(q, i)' = EntriesOf(q, i)
  BY <1>4, EntriesStep DEF EntriesOf
<1>5. ASSUME NEW p \in Rules, Dispatch(p) \/ DispatchRaises(p), ~(q = p /\ i = at)
      PROVE  EntriesOf(q, i)' = EntriesOf(q, i)
  BY <1>5, EntryAdded
<1>6. ASSUME Dispatch(q) \/ DispatchRaises(q), i = at
      PROVE  Cardinality(EntriesOf(q, i)') + Owed(q, i)' <= lives' + retracted'[i]
  <2>1. Cardinality(EntriesOf(q, i)') = Cardinality(EntriesOf(q, i)) + 1
    BY <1>6, EntryAdded
  <2>2. Owed(q, i) = 1
    BY <1>6 DEF Owed, MayLog, Dispatch, DispatchRaises
  <2>3. CASE DispatchRaises(q)
    <3>1. GoDown
      BY <2>3 DEF DispatchRaises
    <3> QED
      BY <1>1, <1>2, <2>1, <2>2, <3>1
  <2>4. CASE Dispatch(q) /\ ~DispatchRaises(q)
    <3>1. ~Retract(i)
      BY <2>4 DEF Dispatch, Retract
    <3>2. phase = "alert" /\ phase' = "alert"
      BY <2>4 DEF Dispatch
    <3>3. ~GoDown
      BY <3>2 DEF GoDown
    <3>4. Owed(q, i)' = 0
      BY <1>6, <2>4, <3>1, <3>3, OwedStep DEF Owed
    <3> QED
      BY <1>1, <1>2, <2>1, <2>2, <3>4
  <2> QED
    BY <1>6, <2>3, <2>4
<1> QED
  BY <1>3, <1>4, <1>5, <1>6

LEMMA DeliveriesStep ==
    BridgeInv /\ DeliveriesKnown /\ [BridgeNext]_bridgeVars => DeliveriesKnown'
<1> SUFFICES ASSUME BridgeInv, DeliveriesKnown, [BridgeNext]_bridgeVars PROVE DeliveriesKnown'
  OBVIOUS
<1>0. BridgeTypeOK /\ RoundOK /\ LogTypes
  BY TypesSplit DEF BridgeInv
<1>1. CASE UNCHANGED <<log, tries, undecided>>
  BY <1>1 DEF DeliveriesKnown
<1>2. CASE ProcessDies
  <2>1. /\ log' = log /\ DOMAIN tries = DOMAIN log
        /\ undecided' = undecided \cup {e \in DOMAIN log : tries[e] > 0}
    BY <1>0, <1>2 DEF ProcessDies, LogTypes
  <2> QED
    BY <2>1 DEF DeliveriesKnown
<1>3. ASSUME NEW p \in Rules, Dispatch(p) \/ DispatchRaises(p) PROVE DeliveriesKnown'
  <2>1. PICK entry \in Entries, n \in 0..MaxTries :
            /\ entry.status = "pending" => n > 0 \/ Len(log') \in undecided'
            /\ log' = Append(log, entry) /\ tries' = Append(tries, n)
    BY <1>0, <1>3, DispatchLogs
  <2>2. undecided \subseteq undecided'
    BY <1>0, <1>3, DispatchLogs
  <2>3. /\ Len(log) \in Nat /\ Len(log') = Len(log) + 1
        /\ DOMAIN log = 1..Len(log) /\ DOMAIN log' = 1..(Len(log) + 1)
        /\ \A e \in DOMAIN log : log'[e] = log[e] /\ tries'[e] = tries[e]
        /\ log'[Len(log) + 1] = entry /\ tries'[Len(log) + 1] = n
    BY <1>0, <2>1, LogGrows
  <2>4. DOMAIN log' = DOMAIN log \cup {Len(log')}
    BY <2>3
  <2>5. ASSUME NEW e \in DOMAIN log', log'[e].status = "pending"
        PROVE  tries'[e] > 0 \/ e \in undecided'
    <3>1. CASE e \in DOMAIN log
      BY <2>2, <2>3, <2>5, <3>1 DEF DeliveriesKnown
    <3>2. CASE e = Len(log')
      BY <2>1, <2>3, <2>5, <3>2
    <3> QED
      BY <2>4, <3>1, <3>2
  <2> QED
    BY <2>5 DEF DeliveriesKnown
<1>4. ASSUME NEW e \in DOMAIN log, PostSucceeds(e) \/ PostFails(e) \/ PostRaises(e)
      PROVE  DeliveriesKnown'
  <2>0. /\ log \in Seq(Entries) /\ DOMAIN tries = DOMAIN log
        /\ tries[e] \in Nat /\ tries[e] > 0 /\ log[e] \in Entries
    BY <1>0, <1>4, BridgeAssumption
       DEF LogTypes, PostSucceeds, PostFails, PostRaises, BridgeAssumption
  <2>1. \A k \in DOMAIN log : k # e =>
            log'[k] = log[k] /\ tries'[k] = tries[k] /\ (k \in undecided => k \in undecided')
    BY <1>4, <2>0 DEF PostSucceeds, PostFails, PostRaises, Decide
  <2>2. DOMAIN log' = DOMAIN log
    BY <1>4 DEF PostSucceeds, PostFails, PostRaises, Decide
  <2>3. log'[e].status = "pending" => tries'[e] > 0 \/ e \in undecided'
    <3>1. Decide(e) => log'[e].status = "decided"
      BY <2>0 DEF Decide, Entries
    <3>2. CASE PostSucceeds(e)
      BY <3>1, <3>2 DEF PostSucceeds
    <3>3. CASE PostFails(e)
      BY <2>0, <3>1, <3>3 DEF PostFails
    <3>4. CASE PostRaises(e)
      BY <3>4 DEF PostRaises
    <3> QED
      BY <1>4, <3>2, <3>3, <3>4
  <2> QED
    BY <2>1, <2>2, <2>3 DEF DeliveriesKnown
<1>5. ASSUME \/ Start \/ Poll \/ RowsDone \/ EndRound \/ AlertsDone \/ Reassign \/ RefreshMap
             \/ LoopRaises
      PROVE  UNCHANGED <<log, tries, undecided>>
  BY <1>5 DEF Start, Poll, RowsDone, EndRound, AlertsDone, Reassign, RefreshMap, LoopRaises, alerts
<1>6. ASSUME \/ \E i \in Incidents : \/ SeenAgain(i) \/ Announce(i) \/ Retract(i)
                                     \/ AnnounceRaises(i) \/ RetractRaises(i)
             \/ \E q \in Rules : SkipCooling(q)
             \/ CooldownEnds \/ \E q \in Rules, x \in Fibers : SimulationAlerts(q, x)
      PROVE  UNCHANGED <<log, tries, undecided>>
  BY <1>6 DEF SeenAgain, Announce, Retract, AnnounceRaises, RetractRaises, SkipCooling,
              CooldownEnds, SimulationAlerts, alerts
<1>7. UNCHANGED alerts => UNCHANGED <<log, tries, undecided>>
  BY DEF alerts
<1> QED
  BY <1>1, <1>2, <1>3, <1>4, <1>5, <1>6, <1>7
     DEF BridgeNext, Step, Faults, AlertNext, bridgeVars

\* However loops end and rounds are cut, a rule logs an incident at most once for each
\* loop and each time the incident was announced as resolved, and every delivery still
\* pending is the pool's or was cut off.
THEOREM AlertsStayAccounted == BridgeSpec => []AlertsAccounted
<1>1. BridgeInit => LogsAreOwed /\ DeliveriesKnown
  <2> SUFFICES ASSUME BridgeInit PROVE LogsAreOwed /\ DeliveriesKnown
    OBVIOUS
  <2>1. DOMAIN log = {} /\ lives = 1 /\ \A i \in Incidents : retracted[i] = 0
    <3>1. log = <<>> /\ lives = 1 /\ retracted = [i \in Incidents |-> 0]
      BY DEF BridgeInit
    <3>2. DOMAIN log = {}
      BY <3>1
    <3> QED
      BY <3>1, <3>2
  <2>2. ASSUME NEW q, NEW i PROVE Cardinality(EntriesOf(q, i)) = 0
    <3>1. EntriesOf(q, i) = {}
      BY <2>1 DEF EntriesOf
    <3> QED
      BY <3>1, FS_EmptySet
  <2>3. \A q \in Rules, i \in Incidents :
            Cardinality(EntriesOf(q, i)) + Owed(q, i) <= lives + retracted[i]
    BY <2>1, <2>2 DEF Owed
  <2> QED
    BY <2>1, <2>3 DEF LogsAreOwed, DeliveriesKnown
<1>2. BridgeInv /\ LogsAreOwed /\ DeliveriesKnown => AlertsAccounted
  <2> SUFFICES ASSUME BridgeInv, LogsAreOwed, DeliveriesKnown PROVE AlertsAccounted
    OBVIOUS
  <2>1. ASSUME NEW q \in Rules, NEW i \in Incidents
        PROVE  Cardinality(EntriesOf(q, i)) <= lives + retracted[i]
    <3>1. LogTypes /\ lives \in Nat /\ retracted[i] \in Nat
      BY TypesSplit, BridgeAssumption DEF BridgeInv, BridgeTypeOK, BridgeAssumption
    <3>2. Cardinality(EntriesOf(q, i)) \in Nat
      BY <3>1, EntriesFinite
    <3>3. Cardinality(EntriesOf(q, i)) + Owed(q, i) <= lives + retracted[i]
      BY DEF LogsAreOwed
    <3> QED
      BY <3>1, <3>2, <3>3 DEF Owed
  <2> QED
    BY <2>1 DEF AlertsAccounted, EntriesOf, DeliveriesKnown
<1> QED
  BY <1>1, <1>2, BridgeInvariant, LogsStep, DeliveriesStep, PTL DEF BridgeSpec

-----------------------------------------------------------------------------
(* The workflow *)

allVars == <<table, workflowVars>>
WNext == WorkflowNext \/ (TableNext /\ UNCHANGED workflowVars)

WType == TableTypeOK /\ WorkflowTypeOK

LEMMA WorkflowTypeStep == WType /\ [WNext]_allVars => WType'
<1> SUFFICES ASSUME WType, [WNext]_allVars PROVE WType'
  OBVIOUS
<1> USE DEF WType, TableTypeOK, WorkflowTypeOK
<1> USE WorkflowAssumption
<1>1. CASE TableNext /\ UNCHANGED workflowVars
  BY <1>1 DEF TableNext, Detect, End, workflowVars
<1>2. ASSUME UNCHANGED table, NEW p \in Posts, PostStep(p) PROVE WType'
  <2>0. TableTypeOK'
    BY <1>2
  <2>1. CASE Find(p)
    BY <2>0, <2>1 DEF Find, InTransaction, Answered
  <2>2. CASE Pick(p)
    <3>1. PICK a \in Latest(IncidentOf[p]) : base' = [base EXCEPT ![p] = a]
      BY <2>2 DEF Pick
    <3>2. a \in Posts \cup {Nobody}
      BY <3>1 DEF Latest, Created
    <3>3. Together(p) \subseteq Posts
      BY DEF Together
    <3> QED
      BY <2>0, <2>2, <3>1, <3>2, <3>3 DEF Pick, InTransaction, Answered
  <2>3. CASE Lock(p)
    BY <2>0, <2>3 DEF Lock, InTransaction, Answered
  <2>4. CASE Refuse(p)
    BY <2>0, <2>4 DEF Refuse, InTransaction, Answered
  <2>5. CASE Insert(p)
    BY <2>0, <2>5 DEF Insert, InTransaction, Answered
  <2>6. CASE Commit(p)
    BY <2>0, <2>6 DEF Commit, InTransaction, Answered
  <2>7. CASE Abort(p)
    BY <2>0, <2>7 DEF Abort, InTransaction, Answered
  <2> QED
    BY <1>2, <2>1, <2>2, <2>3, <2>4, <2>5, <2>6, <2>7 DEF PostStep
<1>3. CASE UNCHANGED allVars
  BY <1>3 DEF allVars, workflowVars
<1> QED
  BY <1>1, <1>2, <1>3 DEF WNext, WorkflowNext

LEMMA WorkflowTypeInvariant == WorkflowSpec => []WType
<1>1. WorkflowInit => WType
  BY DEF TableInit, WorkflowInit, WType, TableTypeOK, WorkflowTypeOK, Answered, InTransaction
<1> QED
  BY <1>1, WorkflowTypeStep, PTL DEF WorkflowSpec, WNext, allVars

\* The workflow's parts are well-typed, and a request has its row in the table
\* exactly while it has inserted it.
THEOREM WorkflowTypeCorrect == WorkflowSpec => []WorkflowTypeOK
<1>1. WType => WorkflowTypeOK
  BY DEF WType
<1> QED
  BY <1>1, WorkflowTypeInvariant, PTL

-----------------------------------------------------------------------------
(* Why forks need an overlap: of two transactions that did not overlap, the   *)
(* later one picked an action at least as late as that of the earlier one,    *)
(* which in turn is later than the action it started from.                    *)

Started == InTransaction \cup {"created"}

After(q, p) ==
    /\ post[p] = "created"
    /\ base[q] # Nobody
    /\ performed_at[p] <= performed_at[base[q]]

BaseIsOlder ==
    \A p \in Posts : post[p] \in Started /\ base[p] # Nobody =>
        /\ post[base[p]] = "created"
        /\ post[p] \in {"inserted", "created"} => performed_at[base[p]] < performed_at[p]

TogetherMeet ==
    \A p, q \in Posts : p # q /\ post[p] \in InTransaction /\ post[q] \in InTransaction
                        => <<p, q>> \in met

OthersAreOrdered ==
    \A p, q \in Posts :
        /\ p # q /\ IncidentOf[p] = IncidentOf[q]
        /\ post[p] \in Started /\ post[q] \in Started
        /\ <<p, q>> \notin met
        => After(p, q) \/ After(q, p)

MetIsMutual == \A p, q \in Posts : <<p, q>> \in met => <<q, p>> \in met

OrderInv == BaseIsOlder /\ TogetherMeet /\ OthersAreOrdered /\ MetIsMutual

LEMMA OrderStep == OrderInv /\ WType /\ WType' /\ [WNext]_allVars => OrderInv'
<1> SUFFICES ASSUME OrderInv, WType, WType', [WNext]_allVars PROVE OrderInv'
  OBVIOUS
<1> USE WorkflowAssumption
<1>1. CASE UNCHANGED workflowVars
  BY <1>1 DEF workflowVars, OrderInv, BaseIsOlder, TogetherMeet, OthersAreOrdered, MetIsMutual, After
<1>2. ASSUME NEW p \in Posts, PostStep(p) PROVE OrderInv'
  <2> USE DEF OrderInv
  <2>t. /\ post \in [Posts -> {"new"} \cup {"found"} \cup InTransaction \cup Answered]
        /\ base \in [Posts -> Posts \cup {Nobody}]
        /\ clock \in Nat /\ performed_at \in [Posts -> 0..clock]
        /\ \A q \in Posts : performed_at[q] > 0 <=> post[q] \in {"inserted", "created"}
    BY DEF WType, WorkflowTypeOK
  <2>1. CASE Find(p) \/ Refuse(p)
    <3>1. /\ post' \in [Posts -> {"new"} \cup {"found"} \cup InTransaction \cup Answered]
          /\ \A q \in Posts \ {p} : post'[q] = post[q]
          /\ post'[p] \notin Started /\ post[p] # "created"
          /\ UNCHANGED <<base, performed_at, met>>
      BY <2>1, <2>t DEF Find, Refuse, Started, InTransaction, Answered
    <3> QED
      BY <2>t, <3>1 DEF BaseIsOlder, TogetherMeet, OthersAreOrdered, MetIsMutual, After, Started
  <2>2. CASE Pick(p)
    <3>1. PICK a \in Latest(IncidentOf[p]) : base' = [base EXCEPT ![p] = a]
      BY <2>2 DEF Pick
    <3>2. /\ post[p] = "found" /\ post' = [post EXCEPT ![p] = "locking"]
          /\ UNCHANGED performed_at
          /\ met' = met \cup ({p} \X Together(p)) \cup (Together(p) \X {p})
      BY <2>2 DEF Pick
    <3>3. a # Nobody => a \in Posts /\ post[a] = "created"
      BY <3>1 DEF Latest, Created
    <3>4. \A q \in Posts : IncidentOf[q] = IncidentOf[p] /\ post[q] = "created"
                           => a # Nobody /\ performed_at[q] <= performed_at[a]
      BY <3>1 DEF Latest, Created
    <3>5. \A q \in Posts \ {p} : post'[q] = post[q] /\ base'[q] = base[q]
      BY <2>t, <3>1, <3>2
    <3>6. post'[p] = "locking" /\ base'[p] = a
      BY <2>t, <3>1, <3>2
    <3>7. BaseIsOlder'
      BY <2>t, <3>2, <3>3, <3>5, <3>6 DEF BaseIsOlder, Started, InTransaction
    <3>8. \A q \in Posts \ {p} : post[q] \in InTransaction => <<p, q>> \in met' /\ <<q, p>> \in met'
      BY <3>2 DEF Together
    <3>9. TogetherMeet'
      BY <3>2, <3>5, <3>8 DEF TogetherMeet, InTransaction
    <3>10. MetIsMutual'
      BY <3>2 DEF MetIsMutual
    <3>11. OthersAreOrdered'
      <4> SUFFICES ASSUME NEW q \in Posts, NEW r \in Posts, q # r, IncidentOf[q] = IncidentOf[r],
                          post'[q] \in Started, post'[r] \in Started, <<q, r>> \notin met'
                   PROVE  After(q, r)' \/ After(r, q)'
        BY DEF OthersAreOrdered, Started
      <4>1. CASE q = p
        <5>1. post[r] = "created"
          BY <3>5, <3>8, <4>1 DEF Started
        <5> QED
          BY <3>2, <3>4, <3>5, <3>6, <4>1, <5>1 DEF After
      <4>2. CASE r = p
        <5>1. post[q] = "created"
          BY <3>5, <3>8, <4>2 DEF Started
        <5> QED
          BY <3>2, <3>4, <3>5, <3>6, <4>2, <5>1 DEF After
      <4>3. CASE q # p /\ r # p
        <5>1. After(q, r) \/ After(r, q)
          BY <3>2, <3>5, <4>3 DEF OthersAreOrdered
        <5> QED
          BY <3>2, <3>5, <4>3, <5>1 DEF After
      <4> QED
        BY <4>1, <4>2, <4>3
    <3> QED
      BY <3>7, <3>9, <3>10, <3>11
  <2>3. CASE Lock(p) \/ Commit(p)
    <3>1. /\ \A q \in Posts \ {p} : post'[q] = post[q]
          /\ \/ post[p] = "locking" /\ post'[p] = "locked"
             \/ post[p] = "inserted" /\ post'[p] = "created"
          /\ UNCHANGED <<base, performed_at, met>>
      BY <2>3, <2>t DEF Lock, Commit
    <3>2. BaseIsOlder'
      BY <2>t, <3>1 DEF BaseIsOlder, Started, InTransaction
    <3>3. TogetherMeet' /\ MetIsMutual'
      BY <3>1 DEF TogetherMeet, MetIsMutual, InTransaction
    <3>4. OthersAreOrdered'
      BY <2>t, <3>1 DEF OthersAreOrdered, After, Started, InTransaction
    <3> QED
      BY <3>2, <3>3, <3>4
  <2>4. CASE Insert(p)
    <3>1. /\ \A q \in Posts \ {p} : post'[q] = post[q] /\ performed_at'[q] = performed_at[q]
          /\ post[p] = "locked" /\ post'[p] = "inserted"
          /\ performed_at'[p] = clock + 1
          /\ UNCHANGED <<base, met>>
      BY <2>4, <2>t DEF Insert
    <3>2. BaseIsOlder'
      BY <2>t, <3>1 DEF BaseIsOlder, Started, InTransaction
    <3>3. TogetherMeet' /\ MetIsMutual'
      BY <3>1 DEF TogetherMeet, MetIsMutual, InTransaction
    <3>4. \A q, r \in Posts : post[q] \in Started /\ After(q, r) => After(q, r)'
      BY <2>t, <3>1 DEF After, BaseIsOlder
    <3>5. OthersAreOrdered'
      BY <3>1, <3>4 DEF OthersAreOrdered, Started, InTransaction
    <3> QED
      BY <3>2, <3>3, <3>5
  <2>5. CASE Abort(p)
    <3>1. /\ \A q \in Posts \ {p} : post'[q] = post[q] /\ performed_at'[q] = performed_at[q]
          /\ post[p] # "created" /\ post'[p] = "error"
          /\ UNCHANGED <<base, met>>
      BY <2>5, <2>t DEF Abort, InTransaction
    <3>2. BaseIsOlder'
      BY <2>t, <3>1 DEF BaseIsOlder, Started, InTransaction
    <3>3. TogetherMeet' /\ MetIsMutual'
      BY <3>1 DEF TogetherMeet, MetIsMutual, InTransaction
    <3>4. \A q, r \in Posts : q # p /\ post[q] \in Started /\ After(q, r) => After(q, r)'
      BY <2>t, <3>1 DEF After, BaseIsOlder
    <3>5. OthersAreOrdered'
      BY <3>1, <3>4 DEF OthersAreOrdered, Started, InTransaction
    <3> QED
      BY <3>2, <3>3, <3>5
  <2> QED
    BY <1>2, <2>1, <2>2, <2>3, <2>4, <2>5 DEF PostStep
<1> QED
  BY <1>1, <1>2 DEF WNext, WorkflowNext, allVars

\* Two actions start from the same one only if their transactions overlapped: the
\* lock loses only to an overlap, and the check of the transition to nothing else.
THEOREM ForksOverlap == WorkflowSpec => []ForkMeansOverlap
<1>1. WorkflowInit => OrderInv
  BY DEF WorkflowInit, OrderInv, BaseIsOlder, TogetherMeet, OthersAreOrdered, MetIsMutual,
         Started, InTransaction
<1>2. OrderInv /\ WType => ForkMeansOverlap
  <2> SUFFICES ASSUME OrderInv, WType, NEW p \in Posts, NEW q \in Posts, Forked(p, q),
                      <<p, q>> \notin met
               PROVE  FALSE
    BY DEF ForkMeansOverlap
  <2>1. After(p, q) \/ After(q, p)
    BY DEF OrderInv, OthersAreOrdered, Forked, Started
  <2>2. base[p] # Nobody => /\ base[p] \in Posts
                            /\ performed_at[base[p]] < performed_at[p]
                            /\ performed_at[base[p]] < performed_at[q]
    BY DEF OrderInv, BaseIsOlder, Forked, Started, WType, WorkflowTypeOK
  <2>3. \A r \in Posts : performed_at[r] \in Nat
    BY DEF WType, WorkflowTypeOK
  <2> QED
    BY <2>1, <2>2, <2>3 DEF After, Forked
<1> QED
  BY <1>1, <1>2, OrderStep, WorkflowTypeInvariant, PTL DEF WorkflowSpec, WNext, allVars
=============================================================================
