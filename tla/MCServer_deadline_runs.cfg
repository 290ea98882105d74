SPECIFICATION Spec
CONSTANTS
 Conns = {c1,c2,c3}
 MaxConnections = 3
 MaxRequests = 1
 MaxReloads = 0
CHECK_DEADLOCK FALSE
INVARIANTS DeadlineRuns
SYMMETRY Identities
