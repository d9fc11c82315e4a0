---------------------------- MODULE IncidentBridge ----------------------------
(***************************************************************************)
(* The incident side of the Kafka bridge (apps/realtime/kafka_bridge.py):  *)
(* every few seconds it polls the active incidents, announces the new ones *)
(* to the groups of the organizations that own the fiber, checks the alert *)
(* rules for each (apps/alerting), and announces as resolved those it knew *)
(* and does not see any more.  What it knows lives in the loop: an         *)
(* exception ends the loop and another one starts with nothing known.      *)
(*                                                                         *)
(* Who owns a fiber changes under it: the map it routes by is loaded at    *)
(* the start and refreshed now and then, through a cache.                  *)
(*                                                                         *)
(* The loop is a coroutine: a round is cut wherever it awaits a broadcast  *)
(* or a dispatch.  A poll that ClickHouse refuses changes nothing and is   *)
(* no action.                                                              *)
(***************************************************************************)
EXTENDS IncidentTable, Sequences

CONSTANTS Fibers, FiberOf,      \* the fiber of each incident
          Orgs, All,            \* All: the superusers' group, __all__
          Rules, OrgOf,         \* the alert rules, and whose they are
          Matches,              \* the pairs of a rule and an incident it fires for
          Cooled,               \* rules with cooldown_seconds > 0
          Webhooks,             \* rules that post to a webhook
          MaxTries,             \* 1 + WEBHOOK_MAX_RETRIES
          None,
          MaxLives, MaxMoves    \* bounds: loops started, changes of the owners

Groups == Orgs \cup {All}
Maps == [Fibers -> SUBSET Orgs]

ASSUME BridgeAssumption ==
    /\ FiberOf \in [Incidents -> Fibers]
    /\ All \notin Orgs
    /\ OrgOf \in [Rules -> Orgs]
    /\ Matches \subseteq Rules \X Incidents
    /\ Cooled \subseteq Rules /\ Webhooks \subseteq Rules
    /\ MaxTries \in Nat \ {0}
    /\ None \notin Incidents
    /\ MaxLives \in Nat \ {0} /\ MaxMoves \in Nat

VARIABLES owners,    \* FiberAssignment rows
          moves,     \* number of their changes
          orgMap,    \* the bridge's fiber_org_map
          phase,     \* where the loop stands
          known,     \* known_incident_ids
          rows,      \* rows of the poll not looked at yet
          current,   \* current_incidents
          at, due,   \* the incident being alerted about, the rules not dispatched yet
          gone,      \* resolved_ids not announced yet
          told,      \* what each group was told is active
          orphaned,  \* history: told to a group that nobody will tell of its end
          missed,    \* history: announced when the group did not own the fiber
          lives,     \* number of loops started
          retracted, \* history: times an incident was announced as resolved
          log,       \* AlertLog
          tries,     \* attempts left of the webhook deliveries in the pool
          cooling,   \* pairs of a rule and a fiber with a log entry within the cooldown
          undecided  \* history: log entries whose delivery was cut off

ownerVars == <<owners, moves, orgMap>>
round == <<phase, known, rows, current, at, due, gone>>
belief == <<told, orphaned, missed, retracted>>
alerts == <<log, tries, cooling, undecided>>
bridgeVars == <<table, ownerVars, round, belief, lives, alerts>>

BridgeTypeOK ==
    /\ TableTypeOK
    /\ owners \in Maps /\ orgMap \in Maps
    /\ moves \in 0..MaxMoves
    /\ phase \in {"down", "loop", "rows", "alert", "resolve"}
    /\ \A s \in {known, rows, current, gone} : s \subseteq Incidents
    /\ at \in Incidents \cup {None}
    /\ due \subseteq Rules
    /\ \A b \in {told, orphaned, missed} : b \in [Groups -> SUBSET Incidents]
    /\ retracted \in [Incidents -> Nat]
    /\ lives \in 1..MaxLives
    /\ log \in Seq([rule : Rules, incident : Incidents, status : {"pending", "decided"}])
    /\ tries \in [DOMAIN log -> 0..MaxTries]
    /\ cooling \subseteq Rules \X Fibers
    /\ undecided \subseteq DOMAIN log

BridgeInit ==
    /\ TableInit
    /\ owners \in Maps
    /\ moves = 0
    /\ orgMap = owners
    /\ phase = "loop"
    /\ known = {} /\ rows = {} /\ current = {} /\ gone = {}
    /\ at = None /\ due = {}
    /\ told = [g \in Groups |-> {}]
    /\ orphaned = [g \in Groups |-> {}]
    /\ missed = [g \in Groups |-> {}]
    /\ lives = 1
    /\ retracted = [i \in Incidents |-> 0]
    /\ log = <<>> /\ tries = <<>> /\ cooling = {} /\ undecided = {}

-----------------------------------------------------------------------------
(* The map of the fibers' owners *)

Reassign ==
    /\ moves < MaxMoves
    /\ owners' \in Maps \ {owners}
    /\ moves' = moves + 1
    /\ UNCHANGED <<table, orgMap, round, belief, lives, alerts>>

\* The cache gives the owners of now, or those it still holds.
LoadMap == orgMap' \in {owners, orgMap}

RefreshMap ==
    /\ phase = "loop"
    /\ LoadMap
    /\ UNCHANGED <<table, owners, moves, round, belief, lives, alerts>>

-----------------------------------------------------------------------------
(* The loop and its end *)

Start ==
    /\ phase = "down"
    /\ LoadMap
    /\ phase' = "loop"
    /\ UNCHANGED <<table, owners, moves, known, rows, current, at, due, gone,
                   belief, lives, alerts>>

\* Whatever is known is forgotten; the groups keep what they were told.
GoDown ==
    /\ lives < MaxLives
    /\ lives' = lives + 1
    /\ phase' = "down"
    /\ known' = {} /\ rows' = {} /\ current' = {} /\ gone' = {}
    /\ at' = None /\ due' = {}
    /\ orphaned' = [g \in Groups |-> orphaned[g] \cup told'[g]]
    /\ missed' = [g \in Groups |-> {}]

\* Something else the loop awaits raises: the consumer, the map, the database.
LoopRaises ==
    /\ phase # "down"
    /\ UNCHANGED <<table, ownerVars, told, retracted, alerts>>
    /\ GoDown

\* The process ends, with the deliveries in its pool.
ProcessDies ==
    /\ undecided' = undecided \cup {e \in DOMAIN tries : tries[e] > 0}
    /\ tries' = [e \in DOMAIN tries |-> 0]
    /\ UNCHANGED <<table, ownerVars, told, retracted, log, cooling>>
    /\ GoDown

-----------------------------------------------------------------------------
(* A round *)

Poll ==
    /\ phase = "loop"
    /\ rows' = Newest(Limit)
    /\ phase' = "rows"
    /\ UNCHANGED <<table, ownerVars, known, current, at, due, gone, belief, lives, alerts>>

\* The groups a broadcast goes to, and those it has reached when it raises.
Audience(i) == {All} \cup orgMap[FiberOf[i]]
CutShort(i) == {{}} \cup {{All} \cup s : s \in SUBSET orgMap[FiberOf[i]]}

Fired(i) == {r \in Rules : OrgOf[r] \in orgMap[FiberOf[i]] /\ <<r, i>> \in Matches}

IsNext(i) == phase = "rows" /\ i \in rows /\ \A j \in rows : j <= i

\* Mutant: an incident is alerted about in every round.
SeenAgainAlerts(i) ==
    /\ IsNext(i)
    /\ i \in known
    /\ rows' = rows \ {i}
    /\ current' = current \cup {i}
    /\ phase' = "alert" /\ at' = i /\ due' = Fired(i)
    /\ UNCHANGED <<table, ownerVars, known, gone, belief, lives, alerts>>

SeenAgain(i) ==
    /\ IsNext(i)
    /\ i \in known
    /\ rows' = rows \ {i}
    /\ current' = current \cup {i}
    /\ UNCHANGED <<table, ownerVars, phase, known, at, due, gone, belief, lives, alerts>>

Announce(i) ==
    /\ IsNext(i)
    /\ i \notin known
    /\ rows' = rows \ {i}
    /\ current' = current \cup {i}
    /\ told' = [g \in Groups |-> told[g] \cup IF g \in Audience(i) THEN {i} ELSE {}]
    /\ orphaned' = [g \in Groups |-> orphaned[g] \ IF g \in Audience(i) THEN {i} ELSE {}]
    /\ missed' = [g \in Groups |-> missed[g] \cup IF g \in Audience(i) THEN {} ELSE {i}]
    /\ phase' = "alert" /\ at' = i /\ due' = Fired(i)
    /\ UNCHANGED <<table, ownerVars, known, gone, retracted, lives, alerts>>

AnnounceRaises(i) ==
    /\ IsNext(i)
    /\ i \notin known
    /\ \E reached \in CutShort(i) :
          told' = [g \in Groups |-> told[g] \cup IF g \in reached THEN {i} ELSE {}]
    /\ GoDown
    /\ UNCHANGED <<table, ownerVars, retracted, alerts>>

\* Mutant: a poll without active incidents is taken for a failed one.
RowsDoneUnlessEmpty ==
    /\ phase = "rows" /\ rows = {}
    /\ gone' = IF current = {} THEN {} ELSE known \ current
    /\ phase' = IF current = {} THEN "loop" ELSE "resolve"
    /\ UNCHANGED <<table, ownerVars, known, rows, current, at, due, belief, lives, alerts>>

RowsDone ==
    /\ phase = "rows" /\ rows = {}
    /\ gone' = known \ current
    /\ phase' = "resolve"
    /\ UNCHANGED <<table, ownerVars, known, rows, current, at, due, belief, lives, alerts>>

Retract(i) ==
    /\ phase = "resolve" /\ i \in gone
    /\ gone' = gone \ {i}
    /\ told' = [g \in Groups |-> told[g] \ IF g \in Audience(i) THEN {i} ELSE {}]
    /\ orphaned' = [g \in Groups |-> (orphaned[g] \cup {i}) \cap told'[g]]
    /\ missed' = [g \in Groups |-> missed[g] \ {i}]
    /\ retracted' = [retracted EXCEPT ![i] = @ + 1]
    /\ UNCHANGED <<table, ownerVars, phase, known, rows, current, at, due, lives, alerts>>

RetractRaises(i) ==
    /\ phase = "resolve" /\ i \in gone
    /\ \E reached \in CutShort(i) :
          told' = [g \in Groups |-> told[g] \ IF g \in reached THEN {i} ELSE {}]
    /\ GoDown
    /\ UNCHANGED <<table, ownerVars, retracted, alerts>>

\* Mutant: the incidents seen are added to those known, which are never dropped.
EndRoundKeeps ==
    /\ phase = "resolve" /\ gone = {}
    /\ known' = known \cup current
    /\ current' = {}
    /\ phase' = "loop"
    /\ UNCHANGED <<table, ownerVars, rows, at, due, gone, belief, lives, alerts>>

EndRound ==
    /\ phase = "resolve" /\ gone = {}
    /\ known' = current
    /\ current' = {}
    /\ phase' = "loop"
    /\ UNCHANGED <<table, ownerVars, rows, at, due, gone, belief, lives, alerts>>

-----------------------------------------------------------------------------
(* Alerts: dispatch_alert runs in the one thread of sync_to_async *)

\* The key of the cooldown also has the channel of the incident.  It is left out: the
\* incidents of a fiber are taken to be on one channel, which makes the cooldown
\* hold back the most it can.
InCooldown(r, f) == r \in Cooled /\ <<r, f>> \in cooling

\* What the log says of a delivery, success or failed, is its being decided.
LogEntry(r, i, f, status, attempts) ==
    /\ log' = Append(log, [rule |-> r, incident |-> i, status |-> status])
    /\ tries' = Append(tries, attempts)
    /\ cooling' = cooling \cup {<<r, f>>}

\* The delivery of a webhook is left to the pool; a webhook whose address is
\* blocked, an email and a mere log entry are decided by the dispatch itself.
Dispatched(r, i, f) ==
    \/ r \in Webhooks /\ LogEntry(r, i, f, "pending", MaxTries)
    \/ LogEntry(r, i, f, "decided", 0)

Dispatch(r) ==
    /\ phase = "alert" /\ r \in due
    /\ ~InCooldown(r, FiberOf[at])
    /\ Dispatched(r, at, FiberOf[at])
    /\ due' = due \ {r}
    /\ UNCHANGED <<table, ownerVars, phase, known, rows, current, at, gone, belief, lives,
                   undecided>>

SkipCooling(r) ==
    /\ phase = "alert" /\ r \in due
    /\ InCooldown(r, FiberOf[at])
    /\ due' = due \ {r}
    /\ UNCHANGED <<table, ownerVars, phase, known, rows, current, at, gone, belief, lives,
                   alerts>>

\* The dispatch raises after the entry was made.
DispatchRaises(r) ==
    /\ phase = "alert" /\ r \in due
    /\ ~InCooldown(r, FiberOf[at])
    /\ LogEntry(r, at, FiberOf[at], "pending", 0)
    /\ undecided' = undecided \cup {Len(log')}
    /\ told' = told
    /\ GoDown
    /\ UNCHANGED <<table, ownerVars, retracted>>

AlertsDone ==
    /\ phase = "alert" /\ due = {}
    /\ phase' = "rows" /\ at' = None
    /\ UNCHANGED <<table, ownerVars, known, rows, current, due, gone, belief, lives, alerts>>

CooldownEnds ==
    /\ \E k \in cooling : cooling' = cooling \ {k}
    /\ UNCHANGED <<table, ownerVars, round, belief, lives, log, tries, undecided>>

\* The simulation runs beside the bridge and fires the same rules: its entries
\* cool them too.
SimulationAlerts(r, f) ==
    /\ ~InCooldown(r, f)
    /\ cooling' = cooling \cup {<<r, f>>}
    /\ UNCHANGED <<table, ownerVars, round, belief, lives, log, tries, undecided>>

-----------------------------------------------------------------------------
(* The pool that posts to webhooks *)

Decide(e) == log' = [log EXCEPT ![e].status = "decided"]

PostSucceeds(e) ==
    /\ tries[e] > 0
    /\ Decide(e)
    /\ tries' = [tries EXCEPT ![e] = 0]
    /\ UNCHANGED <<table, ownerVars, round, belief, lives, cooling, undecided>>

\* Mutant: one retry too many.
PostFailsOnceMore(e) ==
    /\ log[e].status = "pending"
    /\ tries' = [tries EXCEPT ![e] = @ - 1]
    /\ IF tries[e] = 0 THEN Decide(e) ELSE UNCHANGED log
    /\ UNCHANGED <<table, ownerVars, round, belief, lives, cooling, undecided>>

PostFails(e) ==
    /\ tries[e] > 0
    /\ tries' = [tries EXCEPT ![e] = @ - 1]
    /\ IF tries[e] = 1 THEN Decide(e) ELSE UNCHANGED log
    /\ UNCHANGED <<table, ownerVars, round, belief, lives, cooling, undecided>>

\* What is no RequestException ends the worker's call, unseen by anybody: the
\* post may have been made and its result not saved.
PostRaises(e) ==
    /\ tries[e] > 0
    /\ tries' = [tries EXCEPT ![e] = 0]
    /\ undecided' = undecided \cup {e}
    /\ UNCHANGED <<table, ownerVars, round, belief, lives, log, cooling>>

-----------------------------------------------------------------------------
Step ==
    \/ Start \/ Poll \/ RowsDone \/ EndRound \/ AlertsDone
    \/ \E i \in Incidents : SeenAgain(i) \/ Announce(i) \/ Retract(i)
    \/ \E r \in Rules : Dispatch(r) \/ SkipCooling(r)

Faults ==
    \/ LoopRaises \/ ProcessDies
    \/ \E i \in Incidents : AnnounceRaises(i) \/ RetractRaises(i)
    \/ \E r \in Rules : DispatchRaises(r)

AlertNext ==
    \/ CooldownEnds
    \/ \E r \in Rules, f \in Fibers : SimulationAlerts(r, f)
    \/ \E e \in DOMAIN log : PostSucceeds(e) \/ PostFails(e) \/ PostRaises(e)

BridgeNext ==
    \/ TableNext /\ UNCHANGED <<ownerVars, round, belief, lives, alerts>>
    \/ Reassign \/ RefreshMap \/ Step \/ Faults \/ AlertNext

BridgeSpec == BridgeInit /\ [][BridgeNext]_bridgeVars

\* The loop goes on, and run_realtime starts another when it ends.
BridgeFairSpec == BridgeSpec /\ WF_bridgeVars(Step)

-----------------------------------------------------------------------------
(* Properties *)

\* The incidents announced by this loop and not retracted yet.
Held == IF phase = "resolve" THEN current \cup gone ELSE known \cup current

\* What each group believes active is what the bridge holds, unless an earlier
\* loop or the loss of the fiber left it untold, or it got the fiber later.
BeliefMatches ==
    \A g \in Groups :
        /\ told[g] \subseteq Held \cup orphaned[g]
        /\ Held \subseteq told[g] \cup missed[g]

\* A rule logs an incident again only after another loop has started or the
\* incident was announced as resolved, and a delivery stays undecided only
\* while the pool has it or because it was cut off.
AlertsAccounted ==
    /\ \A r \in Rules, i \in Incidents :
          Cardinality({e \in DOMAIN log : log[e].rule = r /\ log[e].incident = i})
              <= lives + retracted[i]
    /\ \A e \in DOMAIN log : log[e].status = "pending" => tries[e] > 0 \/ e \in undecided

\* An incident that has ended is announced as resolved to whoever was told of
\* it, unless the group is one that BeliefMatches gives up on.
EndedIsRetracted ==
    \A g \in Groups, i \in Incidents :
        (i \in told[g] /\ table[i] = "resolved") ~> (i \notin told[g] \/ i \in orphaned[g])
=============================================================================
