SPECIFICATION BridgeFairSpec
CONSTANTS
    fiber1 = fiber1
    org1 = org1
    rule1 = rule1
    Incidents = {1, 2}
    Limit = 1
    Fibers = {fiber1}
    FiberOf <- MCFiberOf
    Orgs = {org1}
    All = All
    Rules = {rule1}
    OrgOf <- MCOrgOf
    Matches <- MCMatches
    Cooled = {rule1}
    Webhooks = {rule1}
    MaxTries = 2
    None = None
    MaxLives = 2
    MaxMoves = 1
CHECK_DEADLOCK FALSE
INVARIANTS BridgeTypeOK BeliefMatches AlertsAccounted
PROPERTIES EndedIsRetracted
