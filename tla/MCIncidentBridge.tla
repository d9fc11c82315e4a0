--------------------------- MODULE MCIncidentBridge ---------------------------
(* An instance of the bridge for TLC: one fiber, one organization, one rule. *)
EXTENDS IncidentBridge

CONSTANTS fiber1, org1, rule1

MCFiberOf == [i \in Incidents |-> fiber1]
MCOrgOf == [x \in Rules |-> org1]
MCMatches == Rules \X Incidents
=============================================================================
