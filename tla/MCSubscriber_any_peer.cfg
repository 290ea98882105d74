SPECIFICATION MCSpec
CONSTANTS
 Sessions = {s1,s2,s3}
 Events = {e1,e2,e3}
 NoEvent = NoEvent
 Retries = {r1,r2,r3}
 NoRetry = NoRetry
 PoolSize = 2
 Policies = {0,1,3}
 BufferSize = 1
 Timeouts = TRUE
 PeerCloses = TRUE
CHECK_DEADLOCK FALSE
INVARIANTS TypeOK PoolSound SlotsHonest SingleOwner
SYMMETRY Identities
