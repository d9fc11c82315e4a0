--------------------------- MODULE IncidentWorkflow ---------------------------
(***************************************************************************)
(* Operators acknowledge, investigate and resolve an incident by posting   *)
(* to it (apps/monitoring/incident_views.py, IncidentActionView.post, and  *)
(* workflow.py).  A post runs in a transaction: it locks the latest action *)
(* of the incident, checks the transition, and inserts an action.          *)
(*                                                                         *)
(* The database is PostgreSQL in its default isolation, READ COMMITTED.    *)
(* SELECT ... ORDER BY ... LIMIT 1 FOR UPDATE picks its row from what is   *)
(* committed when it starts, then waits for that row's lock.  The holder   *)
(* inserts another row and does not touch this one, so the waiter gets the *)
(* row it picked.  Without a row there is nothing to lock.                 *)
(***************************************************************************)
EXTENDS IncidentTable

CONSTANTS Posts,                    \* the requests, each made once
          IncidentOf, TargetOf,     \* the incident and the status of each
          Nobody

Statuses == {"active", "acknowledged", "investigating", "resolved"}

ASSUME WorkflowAssumption ==
    /\ IncidentOf \in [Posts -> Incidents]
    /\ TargetOf \in [Posts -> Statuses \ {"active"}]
    /\ Nobody \notin Posts

VARIABLES post,         \* where each request stands
          base,         \* the action it picked, named by its request (Nobody: none)
          performed_at, \* of the action it inserted (0: none)
          clock,        \* performed_at of the last action
          met           \* history: pairs of requests that were in their transactions together

workflowVars == <<post, base, performed_at, clock, met>>

InTransaction == {"locking", "locked", "inserted"}
Answered == {"created", "conflict", "not_found", "error"}

WorkflowTypeOK ==
    /\ post \in [Posts -> {"new"} \cup {"found"} \cup InTransaction \cup Answered]
    /\ base \in [Posts -> Posts \cup {Nobody}]
    /\ clock \in Nat
    /\ performed_at \in [Posts -> 0..clock]
    /\ \A p \in Posts : performed_at[p] > 0 <=> post[p] \in {"inserted", "created"}
    /\ met \subseteq Posts \X Posts

WorkflowInit ==
    /\ TableInit
    /\ post = [p \in Posts |-> "new"]
    /\ base = [p \in Posts |-> Nobody]
    /\ performed_at = [p \in Posts |-> 0]
    /\ clock = 0
    /\ met = {}

\* VALID_TRANSITIONS.
ValidTransitions ==
    [active        |-> {"acknowledged", "resolved"},
     acknowledged  |-> {"investigating", "resolved"},
     investigating |-> {"resolved"},
     resolved      |-> {}]

StatusAfter(p) == IF p = Nobody THEN "active" ELSE TargetOf[p]

Created(i) == {p \in Posts : IncidentOf[p] = i /\ post[p] = "created"}

\* Mutant: ordered by performed_at, ascending.
Earliest(i) ==
    IF Created(i) = {} THEN {Nobody}
    ELSE {p \in Created(i) : \A q \in Created(i) : performed_at[p] <= performed_at[q]}

\* The latest committed action of an incident.
Latest(i) ==
    IF Created(i) = {} THEN {Nobody}
    ELSE {p \in Created(i) : \A q \in Created(i) : performed_at[q] <= performed_at[p]}

-----------------------------------------------------------------------------
\* The incident is looked up in ClickHouse first.
Find(p) ==
    /\ post[p] = "new"
    /\ post' = [post EXCEPT ![p] = IF table[IncidentOf[p]] = "absent" THEN "not_found"
                                   ELSE "found"]
    /\ UNCHANGED <<base, performed_at, clock, met>>

Together(p) == {q \in Posts : post[q] \in InTransaction}

Pick(p) ==
    /\ post[p] = "found"
    /\ \E a \in Latest(IncidentOf[p]) : base' = [base EXCEPT ![p] = a]
    /\ post' = [post EXCEPT ![p] = "locking"]
    /\ met' = met \cup ({p} \X Together(p)) \cup (Together(p) \X {p})
    /\ UNCHANGED <<performed_at, clock>>

HasLock(q) == post[q] \in {"locked", "inserted"}

Lock(p) ==
    /\ post[p] = "locking"
    /\ base[p] = Nobody \/ \A q \in Posts : HasLock(q) => base[q] # base[p]
    /\ post' = [post EXCEPT ![p] = "locked"]
    /\ UNCHANGED <<base, performed_at, clock, met>>

Allowed(p) == TargetOf[p] \in ValidTransitions[StatusAfter(base[p])]

Refuse(p) ==
    /\ post[p] = "locked"
    /\ ~Allowed(p)
    /\ post' = [post EXCEPT ![p] = "conflict"]
    /\ UNCHANGED <<base, performed_at, clock, met>>

\* performed_at is taken when the row is inserted.
Insert(p) ==
    /\ post[p] = "locked"
    /\ Allowed(p)
    /\ clock' = clock + 1
    /\ performed_at' = [performed_at EXCEPT ![p] = clock']
    /\ post' = [post EXCEPT ![p] = "inserted"]
    /\ UNCHANGED <<base, met>>

Commit(p) ==
    /\ post[p] = "inserted"
    /\ post' = [post EXCEPT ![p] = "created"]
    /\ UNCHANGED <<base, performed_at, clock, met>>

\* Mutant: nothing is rolled back.
AbortKeepsAction(p) ==
    /\ post[p] \in {"new", "found"} \cup InTransaction
    /\ post' = [post EXCEPT ![p] = "error"]
    /\ UNCHANGED <<base, performed_at, clock, met>>

\* ClickHouse or the database refuses, or the process dies.
Abort(p) ==
    /\ post[p] \in {"new", "found"} \cup InTransaction
    /\ post' = [post EXCEPT ![p] = "error"]
    /\ performed_at' = [performed_at EXCEPT ![p] = 0]
    /\ UNCHANGED <<base, clock, met>>

PostStep(p) ==
    Find(p) \/ Pick(p) \/ Lock(p) \/ Refuse(p) \/ Insert(p) \/ Commit(p) \/ Abort(p)

WorkflowNext == UNCHANGED table /\ \E p \in Posts : PostStep(p)

WorkflowSpec ==
    /\ WorkflowInit
    /\ [][WorkflowNext \/ (TableNext /\ UNCHANGED workflowVars)]_<<table, workflowVars>>

-----------------------------------------------------------------------------
(* Properties *)

Forked(p, q) ==
    /\ p # q /\ post[p] = "created" /\ post[q] = "created"
    /\ IncidentOf[p] = IncidentOf[q] /\ base[p] = base[q]

\* Two actions start from the same action only if their transactions overlapped:
\* posts that do not are serialized, and a resolved incident stays resolved.
ForkMeansOverlap == \A p, q \in Posts : Forked(p, q) => <<p, q>> \in met

\* "Atomic block prevents TOCTOU race: lock the latest action row so concurrent
\* transitions are serialized."
TransitionsSerialized == \A p, q \in Posts : ~Forked(p, q)
=============================================================================
