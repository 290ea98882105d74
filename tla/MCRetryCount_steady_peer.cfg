SPECIFICATION CountSpec
CONSTANTS
 Sessions = {s1,s2}
 Events = {e1,e2}
 NoEvent = NoEvent
 Retries = {r1,r2,r3}
 NoRetry = NoRetry
 PoolSize = 1
 Policies = {0,2}
 BufferSize = 1
 Timeouts = FALSE
 PeerCloses = FALSE
CHECK_DEADLOCK FALSE
INVARIANTS FailsOnce AnsweredOnce NullNeedsCrowd EventBudget
PROPERTIES DeliveryEnds
