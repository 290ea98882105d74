SPECIFICATION FairSpec
CONSTANTS
 Conns = {c1,c2,c3}
 MaxConnections = 3
 MaxRequests = 2
 MaxReloads = 1
CHECK_DEADLOCK FALSE
INVARIANTS AnswerOnce
PROPERTIES AcceptsAgain StallEnds ClosedFreed
