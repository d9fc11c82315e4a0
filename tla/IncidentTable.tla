---------------------------- MODULE IncidentTable ----------------------------
(***************************************************************************)
(* The incidents as the platform sees them: a ClickHouse table that others *)
(* fill and that the bridge polls (apps/shared/incident_service.py).       *)
(* Incidents are named by their timestamps, so a larger one is newer.      *)
(***************************************************************************)
EXTENDS Naturals, FiniteSets

CONSTANTS Incidents, \* a finite set of timestamps
          Limit      \* the limit of query_active_raw

ASSUME TableAssumption == Incidents \subseteq Nat /\ Limit \in Nat \ {0}

VARIABLE table

TableTypeOK == table \in [Incidents -> {"absent", "active", "resolved"}]

TableInit == table = [i \in Incidents |-> "absent"]

\* The detection pipeline may insert an incident late, out of timestamp order.
Detect(i) ==
    /\ table[i] = "absent"
    /\ table' = [table EXCEPT ![i] = "active"]

End(i) ==
    /\ table[i] = "active"
    /\ table' = [table EXCEPT ![i] = "resolved"]

Active == {i \in Incidents : table[i] = "active"}

\* ORDER BY timestamp DESC LIMIT lim.
Newest(lim) == {i \in Active : Cardinality({j \in Active : j > i}) < lim}

TableNext == \E i \in Incidents : Detect(i) \/ End(i)
=============================================================================
