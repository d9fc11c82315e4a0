SPECIFICATION WorkflowSpec
CONSTANTS
    ack = ack
    look = look
    close = close
    other = other
    Incidents = {1, 2}
    Limit = 1
    Posts = {ack, close}
    IncidentOf <- MCIncidentOf
    TargetOf <- MCTargetOf
    Nobody = Nobody
CHECK_DEADLOCK FALSE
INVARIANT TransitionsSerialized
