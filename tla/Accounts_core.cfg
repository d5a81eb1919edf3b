SPECIFICATION MCSpec
CONSTANTS
    a = a
    b = b
    Users = {a, b}
    Requests = {q1, q2}
    MaxFailures = 3
    MaxSessions = 5
    MaxPassword = 4
    MaxRequests = 3
CHECK_DEADLOCK FALSE
INVARIANTS TypeOK SetupOnce ResetEndsSessions
PROPERTIES GuardsHold RequestsAnswered
