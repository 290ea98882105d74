------------------------ MODULE HttpSubscriberProofs ------------------------
(***************************************************************************)
(* Theorems about HttpSubscriber, for every number of sessions, events and *)
(* retries, every size of the pool and of the buffer, and every policy:    *)
(* its type, and that the pool, its slots and the retries are sound; and   *)
(* what holds in addition where peers keep their connections open.         *)
(***************************************************************************)
EXTENDS HttpSubscriber, SequenceTheorems, FiniteSetTheorems, TLAPS

PoolInv == pool \in Seq(Sessions) /\ PoolSound
SessionsInv == sess \in [Sessions -> SessionState] /\ SlotsHonest

\* No RetryRequest counts more retries than the policy allows.
WithinPolicy == maxRetries >= 0 => \A r \in Retries : retries[r].count <= maxRetries

RetriesInv == retries \in [Retries -> RetryState] /\ WithinPolicy

\* What no step of a session or of the pool touches.
RestType ==
  /\ maxRetries \in Int /\ buffer \in Seq(Events)
  /\ sent \subseteq Events /\ answered \subseteq Events
  /\ undefined \in {"none", "nullSession", "dangling"}

Inv == PoolInv /\ SessionsInv /\ RetriesInv /\ RestType

-----------------------------------------------------------------------------
(* The pool.                                                               *)

LEMMA RemoveAtFacts ==
  ASSUME NEW S, NEW q \in Seq(S), NEW i \in 1..Len(q)
  PROVE  /\ RemoveAt(q, i) \in Seq(S)
         /\ Len(RemoveAt(q, i)) = Len(q) - 1
         /\ \A j \in 1..(Len(q) - 1) :
              RemoveAt(q, i)[j] = IF j < i THEN q[j] ELSE q[j + 1]
<1> DEFINE front == SubSeq(q, 1, i - 1)
           rest  == SubSeq(q, i + 1, Len(q))
<1>1. Len(q) \in Nat /\ i \in Nat
  BY LenProperties
<1>2. \A j \in 1..Len(q) : q[j] \in S
  BY ElementOfSeq
<1>3. /\ front \in Seq(S) /\ Len(front) = i - 1
      /\ \A j \in 1..(i - 1) : front[j] = q[j]
  <2>1. \A j \in 1..(i - 1) : q[j] \in S
    BY <1>1, <1>2
  <2>2. /\ front \in Seq(S)
        /\ Len(front) = (IF 1 <= i - 1 THEN i - 1 - 1 + 1 ELSE 0)
        /\ \A j \in 1..(i - 1 - 1 + 1) : front[j] = q[1 + j - 1]
    BY <1>1, <2>1, SubSeqProperties
  <2>3. QED
    BY <1>1, <2>2
<1>4. /\ rest \in Seq(S) /\ Len(rest) = Len(q) - i
      /\ \A j \in 1..(Len(q) - i) : rest[j] = q[i + j]
  <2>1. \A j \in (i + 1)..Len(q) : q[j] \in S
    BY <1>1, <1>2
  <2>2. /\ rest \in Seq(S)
        /\ Len(rest) = (IF i + 1 <= Len(q) THEN Len(q) - (i + 1) + 1 ELSE 0)
        /\ \A j \in 1..(Len(q) - (i + 1) + 1) : rest[j] = q[i + 1 + j - 1]
    BY <1>1, <2>1, SubSeqProperties
  <2>3. QED
    BY <1>1, <2>2
<1>5. /\ front \o rest \in Seq(S) /\ Len(front \o rest) = Len(front) + Len(rest)
      /\ \A j \in 1..(Len(front) + Len(rest)) :
           (front \o rest)[j] = IF j <= Len(front) THEN front[j] ELSE rest[j - Len(front)]
  BY <1>3, <1>4, ConcatProperties
<1>6. RemoveAt(q, i) = front \o rest
  BY DEF RemoveAt
<1> HIDE DEF front, rest
<1>7. RemoveAt(q, i) \in Seq(S) /\ Len(RemoveAt(q, i)) = Len(q) - 1
  <2>1. Len(front \o rest) = Len(q) - 1
    BY <1>1, <1>3, <1>4, <1>5
  <2>2. QED
    BY <1>5, <1>6, <2>1
<1>8. ASSUME NEW j \in 1..(Len(q) - 1)
      PROVE  RemoveAt(q, i)[j] = IF j < i THEN q[j] ELSE q[j + 1]
  <2>1. (front \o rest)[j] = IF j <= i - 1 THEN front[j] ELSE rest[j - (i - 1)]
    <3>1. Len(front) = i - 1 /\ j \in 1..(Len(front) + Len(rest))
      BY <1>1, <1>3, <1>4
    <3>2. QED
      BY <1>5, <3>1
  <2>2. CASE j < i
    BY <1>1, <1>3, <1>6, <2>1, <2>2
  <2>3. CASE j >= i
    <3>1. j - (i - 1) \in 1..(Len(q) - i) /\ i + (j - (i - 1)) = j + 1
      BY <1>1, <2>3
    <3>2. rest[j - (i - 1)] = q[j + 1]
      BY <1>4, <3>1
    <3>3. QED
      BY <1>1, <1>6, <2>1, <2>3, <3>2
  <2>4. QED
    BY <1>1, <2>2, <2>3
<1>9. QED
  BY <1>7, <1>8

\* release takes a session out of the pool, and nothing else.
LEMMA ReleaseFacts ==
  ASSUME PoolInv, NEW s \in Sessions, Release(s)
  PROVE  PoolInv' /\ s \notin Pooled' /\ Pooled' \subseteq Pooled
<1>1. CASE s \notin Pooled /\ UNCHANGED pool
  BY <1>1 DEF PoolInv, PoolSound, Pooled
<1>2. ASSUME NEW i \in DOMAIN pool, pool[i] = s, pool' = RemoveAt(pool, i)
      PROVE  PoolInv' /\ s \notin Pooled' /\ Pooled' \subseteq Pooled
  <2> DEFINE back(j) == IF j < i THEN j ELSE j + 1
  <2>1. pool \in Seq(Sessions) /\ Len(pool) \in Nat /\ DOMAIN pool = 1..Len(pool)
    BY LenProperties DEF PoolInv
  <2>2. i \in 1..Len(pool)
    BY <1>2, <2>1
  <2>3. /\ pool' \in Seq(Sessions) /\ Len(pool') = Len(pool) - 1
        /\ \A j \in 1..(Len(pool) - 1) :
             pool'[j] = IF j < i THEN pool[j] ELSE pool[j + 1]
    BY <1>2, <2>1, <2>2, RemoveAtFacts
  <2>4. DOMAIN pool' = 1..(Len(pool) - 1)
    BY <2>3, LenProperties
  <2>5. \A j \in DOMAIN pool' : /\ back(j) \in DOMAIN pool /\ back(j) # i
                                /\ pool'[j] = pool[back(j)]
    BY <2>1, <2>2, <2>3, <2>4
  <2>6. \A j, k \in DOMAIN pool' : back(j) = back(k) => j = k
    BY <2>1, <2>2, <2>4
  <2>7. \A j, k \in DOMAIN pool : pool[j] = pool[k] => j = k
    BY DEF PoolInv, PoolSound
  <2> HIDE DEF back
  <2>8. \A j, k \in DOMAIN pool' : pool'[j] = pool'[k] => j = k
    BY <2>5, <2>6, <2>7
  <2>9. Len(pool') <= PoolSize
    BY <2>1, <2>3, PoolAssumption DEF PoolInv, PoolSound, PoolAssumption
  <2>10. s \notin Pooled'
    BY <1>2, <2>5, <2>7 DEF Pooled
  <2>11. Pooled' \subseteq Pooled
    BY <2>5 DEF Pooled
  <2>12. QED
    BY <2>3, <2>8, <2>9, <2>10, <2>11 DEF PoolInv, PoolSound
<1>3. QED
  BY <1>1, <1>2 DEF Release

\* A new session is added to the pool, and nothing else.
LEMMA AcquireNewFacts ==
  ASSUME PoolInv, NEW s \in Sessions, AcquireNew(s)
  PROVE  PoolInv' /\ Pooled' = Pooled \cup {s}
<1>1. pool \in Seq(Sessions) /\ Len(pool) \in Nat /\ DOMAIN pool = 1..Len(pool)
  BY LenProperties DEF PoolInv
<1>2. pool' = Append(pool, s) /\ s \notin Pooled /\ Len(pool) < PoolSize
  BY DEF AcquireNew, Unused
<1>3. /\ pool' \in Seq(Sessions) /\ Len(pool') = Len(pool) + 1
      /\ \A j \in 1..Len(pool) : pool'[j] = pool[j]
      /\ pool'[Len(pool) + 1] = s
  BY <1>1, <1>2, AppendProperties
<1>4. DOMAIN pool' = 1..(Len(pool) + 1)
  BY <1>3, LenProperties
<1>5. \A j \in DOMAIN pool' : \/ j \in DOMAIN pool /\ pool'[j] = pool[j]
                              \/ j = Len(pool) + 1 /\ pool'[j] = s
  BY <1>1, <1>3, <1>4
<1>6. \A j \in DOMAIN pool : pool[j] # s
  BY <1>2 DEF Pooled
<1>7. \A j, k \in DOMAIN pool' : pool'[j] = pool'[k] => j = k
  BY <1>5, <1>6 DEF PoolInv, PoolSound
<1>8. Len(pool') <= PoolSize
  BY <1>1, <1>2, <1>3, PoolAssumption DEF PoolAssumption
<1>9. Pooled' = Pooled \cup {s}
  <2>1. DOMAIN pool \subseteq DOMAIN pool' /\ Len(pool) + 1 \in DOMAIN pool'
    BY <1>1, <1>4
  <2>2. \A j \in DOMAIN pool : pool'[j] = pool[j]
    BY <1>1, <1>3
  <2>3. QED
    BY <1>3, <1>5, <2>1, <2>2 DEF Pooled
<1>10. QED
  BY <1>3, <1>7, <1>8, <1>9 DEF PoolInv, PoolSound

-----------------------------------------------------------------------------
(* The functions of a session's state.                                     *)

\* A session that is in use has an operation in flight, and no other.
Honest(x) == x.conn = "InUse" <=> x.op # "none"

LEMMA NewSessionType ==
  \A handler \in Retries \cup {NoRetry}, e \in Events \cup {NoEvent} :
    NewSession(handler, e) \in SessionState /\ NewSession(handler, e).conn = "monostate"
BY DEF NewSession, SessionState, Operations

LEMMA ExecuteFacts ==
  ASSUME NEW x \in SessionState, x.conn # "InUse"
  PROVE  /\ Execute(x) \in SessionState
         /\ Execute(x).conn = "InUse" /\ Execute(x).op # "none"
         /\ Execute(x).req = x.req /\ Execute(x).handler = x.handler
BY DEF Execute, Start, SessionState, Operations

LEMMA ClosedFacts ==
  ASSUME NEW x \in SessionState, NEW late \in BOOLEAN
  PROVE  /\ Closed(x, late) \in SessionState
         /\ Closed(x, late).conn = x.conn /\ Closed(x, late).op = x.op
         /\ Closed(x, late).req = x.req /\ Closed(x, late).handler = x.handler
<1> DEFINE doomed  == x.doomed \/ (x.op \notin {"none", "resolve"} /\ ~late)
           aborted == IF x.armed THEN x.aborted + 1 ELSE x.aborted
<1>1. doomed \in BOOLEAN
  BY DEF SessionState
<1>2. aborted \in Nat
  BY DEF SessionState
<1>3. Closed(x, late) = [x EXCEPT !.open = FALSE, !.doomed = doomed, !.armed = FALSE,
                                 !.aborted = aborted]
  BY DEF Closed
<1> HIDE DEF doomed, aborted
<1>4. QED
  BY <1>1, <1>2, <1>3 DEF SessionState

LEMMA AdvanceFacts ==
  ASSUME NEW x \in SessionState, x.op \in {"resolve", "connect", "handshake", "write"}
  PROVE  /\ Advance(x) \in SessionState /\ Advance(x).op # "none"
         /\ Honest(x) => Honest(Advance(x))
         /\ Advance(x).req = x.req /\ Advance(x).handler = x.handler
<1>1. CASE x.op = "resolve"
  <2>1. /\ Closed(x, TRUE) \in SessionState /\ Closed(x, TRUE).conn = x.conn
        /\ Closed(x, TRUE).req = x.req /\ Closed(x, TRUE).handler = x.handler
    BY ClosedFacts
  <2>2. Advance(x) = [Closed(x, TRUE) EXCEPT !.op = "connect", !.open = TRUE, !.doomed = FALSE]
    BY <1>1 DEF Advance
  <2>3. QED
    BY <1>1, <2>1, <2>2 DEF SessionState, Operations, Honest
<1>2. \A o \in {"handshake", "write", "read"} :
        /\ Start(x, o) \in SessionState /\ Start(x, o).op = o
        /\ Start(x, o).conn = "InUse" /\ Start(x, o).req = x.req
        /\ Start(x, o).handler = x.handler
  BY DEF Start, SessionState, Operations
<1>3. CASE x.op # "resolve"
  <2>1. \E o \in {"handshake", "write", "read"} : Advance(x) = Start(x, o)
    BY <1>3 DEF Advance
  <2>2. QED
    BY <1>2, <2>1 DEF Honest
<1>4. QED
  BY <1>1, <1>3

LEMMA ShutDownType ==
  \A x \in SessionState : /\ ShutDown(x) \in SessionState /\ ShutDown(x).op = x.op
                          /\ ShutDown(x).conn = x.conn /\ ShutDown(x).req = x.req
                          /\ ShutDown(x).handler = x.handler
BY DEF ShutDown, SessionState

LEMMA MovedFromType ==
  \A x \in SessionState :
    LET y == ShutDown([x EXCEPT !.req = NoEvent])
    IN  y \in SessionState /\ y.op = x.op /\ y.req = NoEvent
<1>1. \A x \in SessionState :
        LET y == [x EXCEPT !.req = NoEvent]
        IN  y \in SessionState /\ y.op = x.op /\ y.req = NoEvent
  BY DEF SessionState
<1>2. QED
  BY <1>1, ShutDownType

LEMMA MonitorType ==
  ASSUME NEW x \in SessionState
  PROVE  /\ MonitorForError(x) \in SessionState /\ MonitorForError(x).conn = x.conn
         /\ MonitorForError(x).op = x.op /\ MonitorForError(x).req = x.req
         /\ MonitorForError(x).handler = x.handler
<1>1. CASE x.open
  BY <1>1 DEF MonitorForError, SessionState
<1>2. CASE ~x.open
  <2>1. x.aborted + 1 \in Nat
    BY DEF SessionState
  <2>2. MonitorForError(x) = [x EXCEPT !.aborted = x.aborted + 1]
    BY <1>2 DEF MonitorForError
  <2>3. QED
    BY <2>1, <2>2 DEF SessionState
<1>3. QED
  BY <1>1, <1>2

LEMMA AnsweredFacts ==
  ASSUME NEW x \in SessionState, NEW keepAlive \in BOOLEAN
  PROVE  /\ Answered(x, keepAlive) \in SessionState /\ Honest(Answered(x, keepAlive))
         /\ Answered(x, keepAlive).req = x.req /\ Answered(x, keepAlive).op = "none"
         /\ Answered(x, keepAlive).handler = x.handler
<1> DEFINE idle   == [x EXCEPT !.conn = "Idle", !.op = "none", !.doomed = FALSE, !.armed = FALSE]
           closed == [idle EXCEPT !.conn = "monostate"]
<1>1. /\ idle \in SessionState /\ idle.conn = "Idle" /\ idle.op = "none"
      /\ idle.req = x.req /\ idle.handler = x.handler
  BY DEF SessionState, Operations
<1>2. Answered(x, keepAlive) = IF keepAlive THEN MonitorForError(idle) ELSE ShutDown(closed)
  BY DEF Answered
<1> HIDE DEF idle
<1>3. /\ MonitorForError(idle) \in SessionState /\ MonitorForError(idle).conn = "Idle"
      /\ MonitorForError(idle).op = "none" /\ MonitorForError(idle).req = x.req
      /\ MonitorForError(idle).handler = x.handler
  BY <1>1, MonitorType
<1>4. /\ closed \in SessionState /\ closed.conn = "monostate" /\ closed.op = "none"
      /\ closed.req = x.req /\ closed.handler = x.handler
  BY <1>1 DEF SessionState
<1> HIDE DEF closed
<1>5. QED
  BY <1>2, <1>3, <1>4, ShutDownType DEF Honest

LEMMA FailedType ==
  \A x \in SessionState : /\ Failed(x) \in SessionState /\ Failed(x).op = "none"
                          /\ Failed(x).req = x.req /\ Failed(x).handler = x.handler
BY DEF Failed, SessionState, Operations

LEMMA KeptFacts ==
  ASSUME NEW s \in Sessions, NEW x \in SessionState
  PROVE  /\ Kept(s, x) \in SessionState
         /\ s \in Pooled' => Kept(s, x) = x
         /\ Kept(s, x).op = x.op /\ Kept(s, x).req \in {x.req, NoEvent}
BY ZenonT(60) DEF Kept, Destroyed, NewSession, SessionState, Operations

-----------------------------------------------------------------------------
(* The steps.                                                              *)

LEMMA SlotsAreHonest == SlotsHonest <=> \A s \in Pooled : Honest(sess[s])
BY DEF SlotsHonest, Honest, InUse

LEMMA SlotsAreHonestNext == SlotsHonest' <=> \A s \in Pooled' : Honest(sess'[s])
BY DEF SlotsHonest, Honest, InUse

\* One session changes, and no slot is given or taken.
LEMMA SessionKeeps ==
  ASSUME PoolInv, SessionsInv, NEW s \in Sessions, NEW y \in SessionState,
         s \in Pooled => Honest(y), sess' = [sess EXCEPT ![s] = y], UNCHANGED pool
  PROVE  PoolInv' /\ SessionsInv'
<1>1. PoolInv' /\ Pooled' = Pooled
  BY DEF PoolInv, PoolSound, Pooled
<1>2. Pooled \subseteq Sessions
  BY ElementOfSeq, LenProperties DEF PoolInv, Pooled
<1>3. \A t \in Pooled' : Honest(sess'[t])
  BY <1>1, <1>2, SlotsAreHonest DEF SessionsInv
<1>4. QED
  BY <1>1, <1>3, SlotsAreHonestNext DEF SessionsInv

\* A session is acquired and run.
LEMMA AcquireKeeps ==
  ASSUME PoolInv, SessionsInv, NEW s \in Sessions, NEW x \in SessionState,
         \/ AcquirePooled(s) /\ x.conn = sess[s].conn
         \/ AcquireNew(s) /\ x.conn = "monostate",
         sess' = [sess EXCEPT ![s] = Execute(x)]
  PROVE  PoolInv' /\ SessionsInv'
<1>1. x.conn # "InUse"
  BY DEF AcquirePooled, InUse
<1>2. Execute(x) \in SessionState /\ Honest(Execute(x))
  BY <1>1, ExecuteFacts DEF Honest
<1>3. CASE AcquirePooled(s)
  BY <1>2, <1>3, SessionKeeps DEF AcquirePooled
<1>4. CASE AcquireNew(s)
  <2>1. PoolInv' /\ Pooled' = Pooled \cup {s}
    BY <1>4, AcquireNewFacts
  <2>2. Pooled \subseteq Sessions
    BY ElementOfSeq, LenProperties DEF PoolInv, Pooled
  <2>3. \A t \in Pooled' : Honest(sess'[t])
    BY <1>2, <2>1, <2>2, SlotsAreHonest DEF SessionsInv
  <2>4. QED
    BY <1>2, <2>1, <2>3, SlotsAreHonestNext DEF SessionsInv
<1>5. QED
  BY <1>3, <1>4

\* A session is released, whatever becomes of it.
LEMMA ReleaseKeeps ==
  ASSUME PoolInv, SessionsInv, NEW s \in Sessions, NEW y \in SessionState,
         Release(s), sess' = [sess EXCEPT ![s] = y]
  PROVE  PoolInv' /\ SessionsInv'
<1>1. PoolInv' /\ s \notin Pooled' /\ Pooled' \subseteq Pooled
  BY ReleaseFacts
<1>2. Pooled \subseteq Sessions
  BY ElementOfSeq, LenProperties DEF PoolInv, Pooled
<1>3. \A t \in Pooled' : Honest(sess'[t])
  BY <1>1, <1>2, SlotsAreHonest DEF SessionsInv
<1>4. QED
  BY <1>1, <1>3, SlotsAreHonestNext DEF SessionsInv

\* The count stays within the budget.
Budgeted(q) == maxRetries >= 0 => q.count <= maxRetries

LEMMA WaitAndRetryType ==
  ASSUME NEW q \in RetryState, NEW late \in BOOLEAN
  PROVE  /\ WaitAndRetry(q, late) \in RetryState /\ WaitAndRetry(q, late).req = q.req
         /\ q.waits = 0 => WaitAndRetry(q, late).waits <= 1
<1>1. CASE RetryNeeded(q.count)
  <2> DEFINE w == IF q.waits = 0 \/ late THEN q.waits + 1 ELSE q.waits
  <2>1. w \in Nat /\ (q.waits = 0 => w = 1) /\ q.count + 1 \in Nat
    BY DEF RetryState
  <2> DEFINE p == [q EXCEPT !.count = q.count + 1, !.waits = w]
  <2>2. WaitAndRetry(q, late) = p
    BY <1>1 DEF WaitAndRetry
  <2> HIDE DEF w
  <2>3. p \in RetryState /\ p.req = q.req /\ p.waits = w
    BY <2>1 DEF RetryState
  <2> HIDE DEF p
  <2>4. QED
    BY <2>1, <2>2, <2>3
<1>2. CASE ~RetryNeeded(q.count)
  BY <1>2 DEF WaitAndRetry
<1>3. QED
  BY <1>1, <1>2

LEMMA WaitAndRetryFacts ==
  ASSUME maxRetries \in Int, NEW q \in RetryState, Budgeted(q), NEW late \in BOOLEAN
  PROVE  /\ WaitAndRetry(q, late) \in RetryState /\ Budgeted(WaitAndRetry(q, late))
         /\ WaitAndRetry(q, late).req = q.req
<1>1. /\ q.count \in Nat
      /\ WaitAndRetry(q, late).count = IF RetryNeeded(q.count) THEN q.count + 1 ELSE q.count
  BY DEF WaitAndRetry, RetryState
<1>2. Budgeted(WaitAndRetry(q, late))
  BY <1>1 DEF Budgeted, RetryNeeded
<1>3. QED
  BY <1>2, WaitAndRetryType

\* The retries after one of them changed.
LEMMA RetryKeeps ==
  ASSUME RetriesInv, NEW r \in Retries, NEW q \in RetryState, Budgeted(q),
         retries' = [retries EXCEPT ![r] = q], UNCHANGED maxRetries
  PROVE  RetriesInv'
BY DEF RetriesInv, WithinPolicy, Budgeted

\* The error handler.
LEMMA FailKeeps ==
  ASSUME Inv, NEW s \in Sessions, NEW x \in SessionState, Fail(s, x), UNCHANGED undefined
  PROVE  Inv'
<1>1. /\ Release(s)
      /\ HandleResponse(s, x) \/ HandleRetryResponse(s, x)
      /\ UNCHANGED <<maxRetries, buffer, sent, answered>>
  BY DEF Fail
<1>2. RestType'
  BY <1>1 DEF Inv, RestType
<1>3. ShutDown(x) \in SessionState /\ ShutDown([x EXCEPT !.req = NoEvent]) \in SessionState
  BY ShutDownType, MovedFromType
<1>4. \E y \in SessionState : sess' = [sess EXCEPT ![s] = y]
  BY <1>1, <1>3, KeptFacts DEF HandleResponse, HandleRetryResponse
<1>5. PoolInv' /\ SessionsInv'
  <2>1. PICK y \in SessionState : sess' = [sess EXCEPT ![s] = y]
    BY <1>4
  <2>2. QED
    BY <1>1, <2>1, ReleaseKeeps DEF Inv
<1>6. maxRetries \in Int /\ RetriesInv
  BY DEF Inv, RestType
<1>7. x.req \in Events \cup {NoEvent} /\ x.handler \in Retries \cup {NoRetry}
  BY DEF SessionState
<1>8. ASSUME HandleResponse(s, x)
      PROVE  RetriesInv'
  <2>1. ASSUME UNCHANGED retries
        PROVE  RetriesInv'
    BY <1>1, <1>6, <2>1 DEF RetriesInv, WithinPolicy
  <2>2. ASSUME NEW r \in Retries,
               retries' = [retries EXCEPT ![r] = WaitAndRetry([NoRequest EXCEPT !.req = x.req], FALSE)]
        PROVE  RetriesInv'
    <3>1. [NoRequest EXCEPT !.req = x.req] \in RetryState
          /\ Budgeted([NoRequest EXCEPT !.req = x.req])
      BY <1>6, <1>7 DEF NoRequest, RetryState, Budgeted
    <3>2. QED
      BY <1>1, <1>6, <2>2, <3>1, WaitAndRetryFacts, RetryKeeps
  <2>3. QED
    BY <1>8, <2>1, <2>2 DEF HandleResponse
<1>9. ASSUME HandleRetryResponse(s, x)
      PROVE  RetriesInv'
  <2> DEFINE r == x.handler
             q == [retries[r] EXCEPT !.req = x.req]
  <2>1. /\ r \in Retries
        /\ \E late \in BOOLEAN : retries' = [retries EXCEPT ![r] = WaitAndRetry(q, late)]
    BY <1>7, <1>9 DEF HandleRetryResponse
  <2>2. q \in RetryState /\ Budgeted(q)
    BY <1>6, <1>7, <2>1 DEF RetriesInv, WithinPolicy, RetryState, Budgeted
  <2> HIDE DEF q, r
  <2>3. QED
    BY <1>1, <1>6, <2>1, <2>2, WaitAndRetryFacts, RetryKeeps
<1>10. QED
  BY <1>1, <1>2, <1>5, <1>8, <1>9 DEF Inv

-----------------------------------------------------------------------------
(* The invariant.                                                          *)

LEMMA InitInv == Init => Inv
<1> SUFFICES ASSUME Init PROVE Inv
  OBVIOUS
<1>1. pool \in Seq(Sessions) /\ Len(pool) = 0 /\ DOMAIN pool = {}
  <2>1. pool = <<>>
    BY DEF Init
  <2>2. QED
    BY <2>1
<1>2. PoolInv /\ Pooled = {}
  BY <1>1, PoolAssumption DEF PoolInv, PoolSound, Pooled, PoolAssumption
<1>3. SessionsInv
  <2>1. sess \in [Sessions -> SessionState]
    BY NewSessionType DEF Init
  <2>2. QED
    BY <1>2, <2>1, SlotsAreHonest DEF SessionsInv
<1>4. maxRetries \in Int
  BY SubscriberAssumption DEF Init, SubscriberAssumption
<1>5. RetriesInv
  <2>1. NoRequest \in RetryState /\ NoRequest.count = 0
    BY DEF NoRequest, RetryState
  <2>2. retries = [r \in Retries |-> NoRequest]
    BY DEF Init
  <2>3. retries \in [Retries -> RetryState] /\ \A r \in Retries : retries[r].count = 0
    BY <2>1, <2>2
  <2>4. QED
    BY <1>4, <2>3 DEF RetriesInv, WithinPolicy
<1>6. RestType
  <2>1. buffer \in Seq(Events)
    <3>1. buffer = <<>>
      BY DEF Init
    <3>2. QED
      BY <3>1
  <2>2. QED
    BY <1>4, <2>1 DEF Init, RestType
<1>7. QED
  BY <1>2, <1>3, <1>5, <1>6 DEF Inv

\* The buffer keeps holding events, whether or not it loses its oldest one.
LEMMA PushBackType ==
  \A b \in Seq(Events), e \in Events : PushBack(b, e) \in Seq(Events)
<1> SUFFICES ASSUME NEW b \in Seq(Events), NEW e \in Events
             PROVE  PushBack(b, e) \in Seq(Events)
  OBVIOUS
<1>1. CASE Len(b) = BufferSize
  <2>1. b # <<>>
    BY <1>1, SubscriberAssumption DEF SubscriberAssumption
  <2>2. Tail(b) \in Seq(Events)
    BY <2>1, HeadTailProperties
  <2>3. QED
    BY <1>1, <2>2, AppendProperties DEF PushBack
<1>2. CASE Len(b) # BufferSize
  BY <1>2, AppendProperties DEF PushBack
<1>3. QED
  BY <1>1, <1>2

LEMMA SendEventKeeps ==
  ASSUME Inv, NEW e \in Events, SendEvent(e)
  PROVE  Inv'
<1>1. RetriesInv'
  BY DEF SendEvent, Inv, RetriesInv, WithinPolicy
<1>2. /\ sent' = sent \cup {e}
      /\ UNCHANGED <<maxRetries, retries, answered, undefined>>
  BY DEF SendEvent
<1>3. ASSUME NEW s \in Sessions, AcquirePooled(s), UNCHANGED buffer,
             sess' = [sess EXCEPT ![s] = Execute([sess[s] EXCEPT !.req = e])]
      PROVE  Inv'
  <2>1. /\ [sess[s] EXCEPT !.req = e] \in SessionState
        /\ [sess[s] EXCEPT !.req = e].conn = sess[s].conn
    BY DEF Inv, SessionsInv, SessionState
  <2>2. PoolInv' /\ SessionsInv'
    BY <1>3, <2>1, AcquireKeeps DEF Inv
  <2>3. QED
    BY <1>1, <1>2, <1>3, <2>2 DEF Inv, RestType
<1>4. ASSUME NEW s \in Sessions, AcquireNew(s), UNCHANGED buffer,
             sess' = [sess EXCEPT ![s] = Execute(NewSession(NoRetry, e))]
      PROVE  Inv'
  <2>1. PoolInv' /\ SessionsInv'
    BY <1>4, NewSessionType, AcquireKeeps DEF Inv
  <2>2. QED
    BY <1>1, <1>2, <1>4, <2>1 DEF Inv, RestType
<1>5. ASSUME AcquireNone, buffer' = PushBack(buffer, e), UNCHANGED sess
      PROVE  Inv'
  <2>1. PoolInv' /\ SessionsInv'
    BY <1>5 DEF AcquireNone, Inv, PoolInv, PoolSound, SessionsInv, SlotsHonest, Pooled, InUse
  <2>2. buffer' \in Seq(Events)
    BY <1>5, PushBackType DEF Inv, RestType
  <2>3. QED
    BY <1>1, <1>2, <2>1, <2>2 DEF Inv, RestType
<1>6. QED
  BY <1>3, <1>4, <1>5 DEF SendEvent

LEMMA RetryExpiredKeeps ==
  ASSUME Inv, NEW r \in Retries, RetryExpired(r)
  PROVE  Inv'
<1> DEFINE q == [retries[r] EXCEPT !.waits = retries[r].waits - 1, !.req = NoEvent]
           e == retries[r].req
<1>1. /\ retries' = [retries EXCEPT ![r] = q] /\ retries[r].waits > 0
      /\ UNCHANGED <<maxRetries, buffer, sent, answered>>
  BY DEF RetryExpired
<1>2. /\ retries[r] \in RetryState /\ Budgeted(retries[r])
      /\ e \in Events \cup {NoEvent}
  BY DEF Inv, RetriesInv, WithinPolicy, Budgeted, RetryState
<1>3. q \in RetryState /\ Budgeted(q)
  <2>1. retries[r].waits - 1 \in Nat
    BY <1>1, <1>2 DEF RetryState
  <2>2. QED
    BY <1>2, <2>1 DEF RetryState, Budgeted
<1> HIDE DEF q
<1>4. RetriesInv'
  BY <1>1, <1>3, RetryKeeps DEF Inv
<1>5. undefined' \in {"none", "nullSession", "dangling"}
  BY DEF RetryExpired, Inv, RestType
<1>6. RestType'
  BY <1>1, <1>5 DEF Inv, RestType
<1>7. ASSUME NEW s \in Sessions, AcquirePooled(s),
             sess' = [sess EXCEPT ![s] = Execute([sess[s] EXCEPT !.req = e])]
      PROVE  PoolInv' /\ SessionsInv'
  <2>1. /\ [sess[s] EXCEPT !.req = e] \in SessionState
        /\ [sess[s] EXCEPT !.req = e].conn = sess[s].conn
    BY <1>2 DEF Inv, SessionsInv, SessionState
  <2>2. QED
    BY <1>7, <2>1, AcquireKeeps DEF Inv
<1>8. ASSUME NEW s \in Sessions, AcquireNew(s),
             sess' = [sess EXCEPT ![s] = Execute(NewSession(r, e))]
      PROVE  PoolInv' /\ SessionsInv'
  BY <1>2, <1>8, NewSessionType, AcquireKeeps DEF Inv
<1>9. ASSUME AcquireNone, UNCHANGED sess
      PROVE  PoolInv' /\ SessionsInv'
  BY <1>9 DEF AcquireNone, Inv, PoolInv, PoolSound, SessionsInv, SlotsHonest, Pooled, InUse
<1>10. QED
  BY <1>4, <1>6, <1>7, <1>8, <1>9 DEF RetryExpired, Inv

LEMMA ReadAnswerKeeps ==
  ASSUME Inv, NEW s \in Sessions, ReadAnswer(s)
  PROVE  Inv'
<1>1. PICK keepAlive \in {TRUE, ~PeerCloses} :
        sess' = [sess EXCEPT ![s] = Kept(s, Answered(sess[s], keepAlive))]
  BY DEF ReadAnswer
<1>2. UNCHANGED <<maxRetries, pool, retries, buffer, sent, undefined>>
  BY DEF ReadAnswer
<1> DEFINE x == Answered(sess[s], keepAlive)
<1>3. x \in SessionState /\ Honest(x)
  <2>1. sess[s] \in SessionState /\ keepAlive \in BOOLEAN
    BY DEF Inv, SessionsInv
  <2>2. QED
    BY <2>1, AnsweredFacts
<1> HIDE DEF x
<1>4. Pooled' = Pooled
  BY <1>2 DEF Pooled
<1>5. Kept(s, x) \in SessionState /\ (s \in Pooled => Honest(Kept(s, x)))
  BY <1>3, <1>4, KeptFacts
<1>6. PoolInv' /\ SessionsInv'
  <2>1. sess' = [sess EXCEPT ![s] = Kept(s, x)]
    BY <1>1 DEF x
  <2>2. QED
    BY <1>2, <1>5, <2>1, SessionKeeps DEF Inv
<1>7. RetriesInv'
  BY <1>2 DEF Inv, RetriesInv, WithinPolicy
<1>8. RestType'
  <2>1. answered' = answered \cup ({sess[s].req} \cap Events)
    BY DEF ReadAnswer
  <2>2. QED
    BY <1>2, <2>1 DEF Inv, RestType
<1>9. QED
  BY <1>6, <1>7, <1>8 DEF Inv

LEMMA OperationFailedKeeps ==
  ASSUME Inv, NEW s \in Sessions, OperationFailed(s)
  PROVE  Inv'
<1>1. sess[s] \in SessionState
  BY DEF Inv, SessionsInv
<1>2. QED
  BY <1>1, FailedType, FailKeeps DEF OperationFailed

LEMMA MonitorFailedKeeps ==
  ASSUME Inv, NEW s \in Sessions, MonitorFailed(s)
  PROVE  Inv'
<1>1. sess[s] \in SessionState /\ sess[s].aborted > 0
  BY DEF Inv, SessionsInv, MonitorFailed
<1>2. ASSUME Fail(s, [sess[s] EXCEPT !.aborted = @ - 1]), UNCHANGED undefined
      PROVE  Inv'
  <2>1. sess[s].aborted - 1 \in Nat
    BY <1>1 DEF SessionState
  <2>2. [sess[s] EXCEPT !.aborted = sess[s].aborted - 1] \in SessionState
    BY <1>1, <2>1 DEF SessionState
  <2>3. QED
    BY <1>2, <2>2, FailKeeps
<1>3. ASSUME undefined' = "dangling",
             UNCHANGED <<maxRetries, sess, pool, retries, buffer, sent, answered>>
      PROVE  Inv'
  BY <1>3 DEF Inv, PoolInv, PoolSound, SessionsInv, SlotsHonest, Pooled, InUse,
             RetriesInv, WithinPolicy, RestType
<1>4. QED
  BY <1>2, <1>3 DEF MonitorFailed

LEMMA SessionStepKeeps ==
  ASSUME Inv, NEW s \in Sessions, SessionStep(s)
  PROVE  Inv'
<1>1. sess[s] \in SessionState /\ (s \in Pooled => Honest(sess[s]))
  BY SlotsAreHonest DEF Inv, SessionsInv
<1>2. \E y \in SessionState : /\ s \in Pooled => Honest(y)
                              /\ sess' = [sess EXCEPT ![s] = y]
  <2>1. CASE StepForward(s)
    <3>1. Advance(sess[s]) \in SessionState /\ (s \in Pooled => Honest(Advance(sess[s])))
      BY <1>1, <2>1, AdvanceFacts DEF StepForward
    <3>2. sess' = [sess EXCEPT ![s] = Advance(sess[s])]
      BY <2>1 DEF StepForward
    <3>3. QED
      BY <3>1, <3>2
  <2>2. CASE Expire(s)
    <3>1. /\ Closed(sess[s], FALSE) \in SessionState
          /\ s \in Pooled => Honest(Closed(sess[s], FALSE))
      BY <1>1, ClosedFacts DEF Honest
    <3>2. sess' = [sess EXCEPT ![s] = Closed(sess[s], FALSE)]
      BY <2>2 DEF Expire
    <3>3. QED
      BY <3>1, <3>2
  <2>3. CASE ShutdownDone(s)
    <3> DEFINE x == [sess[s] EXCEPT !.shutdowns = sess[s].shutdowns - 1]
    <3>1. sess[s].shutdowns - 1 \in Nat
      BY <1>1, <2>3 DEF ShutdownDone, SessionState
    <3>2. x \in SessionState /\ x.conn = sess[s].conn /\ x.op = sess[s].op
      BY <1>1, <3>1 DEF SessionState
    <3>3. PICK late \in BOOLEAN : sess' = [sess EXCEPT ![s] = Closed(x, late)]
      BY <2>3 DEF ShutdownDone
    <3> HIDE DEF x
    <3>4. Closed(x, late) \in SessionState /\ (s \in Pooled => Honest(Closed(x, late)))
      BY <1>1, <3>2, ClosedFacts DEF Honest
    <3>5. QED
      BY <3>3, <3>4
  <2>4. CASE MonitorReadable(s)
    <3> DEFINE x == [sess[s] EXCEPT !.armed = FALSE]
    <3>1. x \in SessionState /\ (s \in Pooled => Honest(x))
      BY <1>1 DEF SessionState, Honest
    <3>2. sess' = [sess EXCEPT ![s] = x]
      BY <2>4 DEF MonitorReadable
    <3> HIDE DEF x
    <3>3. QED
      BY <3>1, <3>2
  <2>5. QED
    BY <2>1, <2>2, <2>3, <2>4 DEF SessionStep
<1>3. UNCHANGED others
  BY DEF SessionStep
<1>4. PoolInv' /\ SessionsInv'
  <2>1. UNCHANGED pool
    BY <1>3 DEF others
  <2>2. QED
    BY <1>2, <2>1, SessionKeeps DEF Inv
<1>5. QED
  BY <1>3, <1>4 DEF others, Inv, RetriesInv, WithinPolicy, RestType

LEMMA NextInv == Inv /\ [Next]_vars => Inv'
<1> SUFFICES ASSUME Inv, [Next]_vars PROVE Inv'
  OBVIOUS
<1>1. CASE \E e \in Events : SendEvent(e)
  BY <1>1, SendEventKeeps
<1>2. CASE \E r \in Retries : RetryExpired(r)
  BY <1>2, RetryExpiredKeeps
<1>3. CASE \E s \in Sessions : ReadAnswer(s)
  BY <1>3, ReadAnswerKeeps
<1>4. CASE \E s \in Sessions : OperationFailed(s)
  BY <1>4, OperationFailedKeeps
<1>5. CASE \E s \in Sessions : MonitorFailed(s)
  BY <1>5, MonitorFailedKeeps
<1>6. CASE \E s \in Sessions : SessionStep(s)
  BY <1>6, SessionStepKeeps
<1>7. CASE UNCHANGED vars
  BY <1>7 DEF vars, Inv, PoolInv, PoolSound, SessionsInv, SlotsHonest, Pooled, InUse,
             RetriesInv, WithinPolicy, RestType
<1>8. QED
  BY <1>1, <1>2, <1>3, <1>4, <1>5, <1>6, <1>7 DEF Next

\* The pool, the sessions, the retries and the rest keep the parts of the
\* invariant through every handler of the event client.
THEOREM Invariance == Spec => []Inv
BY InitInv, NextInv, PTL DEF Spec

-----------------------------------------------------------------------------
(* The owners of an event.                                                 *)

SessionOwns(s, e) == Exists(s) /\ sess[s].req = e
RetryOwns(r, e) == retries[r].waits > 0 /\ retries[r].req = e
PlaceOwns(i, e) == i \in DOMAIN buffer /\ buffer[i] = e

OneOwner(e) ==
  /\ \A s, t \in Sessions : SessionOwns(s, e) /\ SessionOwns(t, e) => s = t
  /\ \A q, r \in Retries : RetryOwns(q, e) /\ RetryOwns(r, e) => q = r
  /\ \A i, j : PlaceOwns(i, e) /\ PlaceOwns(j, e) => i = j
  /\ \A s \in Sessions, r \in Retries : ~(SessionOwns(s, e) /\ RetryOwns(r, e))
  /\ \A s \in Sessions : \A i : ~(SessionOwns(s, e) /\ PlaceOwns(i, e))
  /\ \A r \in Retries : \A i : ~(RetryOwns(r, e) /\ PlaceOwns(i, e))

Owned(e) ==
  \/ \E s \in Sessions : SessionOwns(s, e)
  \/ \E r \in Retries : RetryOwns(r, e)
  \/ \E i : PlaceOwns(i, e)

\* An event has one owner, and only after it was given to sendEvent.
OwnersInv == \A e \in Events : OneOwner(e) /\ (Owned(e) => e \in sent)

\* Owners are lost, never gained.
LEMMA OwnersShrink ==
  ASSUME NEW e, OneOwner(e),
         \A s \in Sessions : SessionOwns(s, e)' => SessionOwns(s, e),
         \A r \in Retries : RetryOwns(r, e)' => RetryOwns(r, e),
         UNCHANGED buffer
  PROVE  OneOwner(e)' /\ (Owned(e)' => Owned(e))
<1>1. \A i : PlaceOwns(i, e)' => PlaceOwns(i, e)
  BY DEF PlaceOwns
<1>2. QED
  BY <1>1 DEF OneOwner, Owned

\* One session changes: the others own what they owned.
LEMMA OthersOwn ==
  ASSUME SessionsInv, NEW s \in Sessions, NEW y, sess' = [sess EXCEPT ![s] = y],
         Pooled' \subseteq Pooled \cup {s}, NEW e
  PROVE  /\ \A t \in Sessions : t # s /\ SessionOwns(t, e)' => SessionOwns(t, e)
         /\ SessionOwns(s, e)' => y.req = e
BY DEF SessionsInv, SessionOwns, Exists

\* One session changes, and gets no request that it did not have.
LEMMA SessionShrinks ==
  ASSUME SessionsInv, OwnersInv, NEW s \in Sessions, NEW y \in SessionState,
         sess' = [sess EXCEPT ![s] = y], Pooled' \subseteq Pooled,
         y.req \in {sess[s].req, NoEvent},
         Exists(s)' => Exists(s), UNCHANGED <<retries, buffer, sent>>
  PROVE  OwnersInv'
<1> SUFFICES ASSUME NEW e \in Events
             PROVE  OneOwner(e)' /\ (Owned(e)' => e \in sent')
  BY DEF OwnersInv
<1>1. \A t \in Sessions : SessionOwns(t, e)' => SessionOwns(t, e)
  <2>1. SessionOwns(s, e)' => SessionOwns(s, e)
    BY OthersOwn, SessionAssumption DEF SessionOwns, SessionAssumption
  <2>2. QED
    BY <2>1, OthersOwn
<1>2. \A r \in Retries : RetryOwns(r, e)' => RetryOwns(r, e)
  BY DEF RetryOwns
<1>3. OneOwner(e) /\ (Owned(e) => e \in sent)
  BY DEF OwnersInv
<1>4. QED
  BY <1>1, <1>2, <1>3, OwnersShrink

\* The request of a session moves into a RetryRequest.
LEMMA RequestMoves ==
  ASSUME SessionsInv, retries \in [Retries -> RetryState], OwnersInv,
         NEW s \in Sessions, NEW y, sess' = [sess EXCEPT ![s] = y], Exists(s),
         Pooled' \subseteq Pooled, y.req = NoEvent,
         NEW r \in Retries, NEW q, retries' = [retries EXCEPT ![r] = q],
         q.req = sess[s].req, UNCHANGED <<buffer, sent>>
  PROVE  OwnersInv'
<1> SUFFICES ASSUME NEW e \in Events
             PROVE  OneOwner(e)' /\ (Owned(e)' => e \in sent')
  BY DEF OwnersInv
<1>1. \A t \in Sessions : SessionOwns(t, e)' => t # s /\ SessionOwns(t, e)
  <2>1. ~SessionOwns(s, e)'
    BY OthersOwn, SessionAssumption DEF SessionAssumption
  <2>2. QED
    BY <2>1, OthersOwn
<1>2. \A p \in Retries : RetryOwns(p, e)' =>
        \/ p # r /\ RetryOwns(p, e)
        \/ p = r /\ SessionOwns(s, e)
  BY DEF RetryOwns, SessionOwns
<1>3. \A i : PlaceOwns(i, e)' => PlaceOwns(i, e)
  BY DEF PlaceOwns
<1>4. OneOwner(e) /\ (Owned(e) => e \in sent)
  BY DEF OwnersInv
<1>5. QED
  BY <1>1, <1>2, <1>3, <1>4 DEF OneOwner, Owned

\* The request of a RetryRequest moves into a session.
LEMMA RequestReturns ==
  ASSUME SessionsInv, retries \in [Retries -> RetryState], OwnersInv,
         NEW s \in Sessions, NEW y, sess' = [sess EXCEPT ![s] = y],
         Pooled' \subseteq Pooled \cup {s},
         NEW r \in Retries, retries[r].waits > 0, y.req = retries[r].req,
         retries' = [retries EXCEPT ![r].waits = @ - 1, ![r].req = NoEvent],
         UNCHANGED <<buffer, sent>>
  PROVE  OwnersInv'
<1> SUFFICES ASSUME NEW e \in Events
             PROVE  OneOwner(e)' /\ (Owned(e)' => e \in sent')
  BY DEF OwnersInv
<1>1. \A t \in Sessions : SessionOwns(t, e)' =>
        \/ t # s /\ SessionOwns(t, e)
        \/ t = s /\ RetryOwns(r, e)
  BY OthersOwn DEF RetryOwns
<1>2. \A p \in Retries : RetryOwns(p, e)' => p # r /\ RetryOwns(p, e)
  BY SessionAssumption DEF RetryOwns, RetryState, SessionAssumption
<1>3. \A i : PlaceOwns(i, e)' => PlaceOwns(i, e)
  BY DEF PlaceOwns
<1>4. OneOwner(e) /\ (Owned(e) => e \in sent)
  BY DEF OwnersInv
<1>5. QED
  BY <1>1, <1>2, <1>3, <1>4 DEF OneOwner, Owned

\* An event that nobody owned is given to a session.
LEMMA EventGiven ==
  ASSUME SessionsInv, OwnersInv, NEW f \in Events, f \notin sent, sent' = sent \cup {f},
         NEW s \in Sessions, NEW y, sess' = [sess EXCEPT ![s] = y], y.req = f,
         Pooled' \subseteq Pooled \cup {s}, UNCHANGED <<retries, buffer>>
  PROVE  OwnersInv'
<1> SUFFICES ASSUME NEW e \in Events
             PROVE  OneOwner(e)' /\ (Owned(e)' => e \in sent')
  BY DEF OwnersInv
<1>1. \A t \in Sessions : SessionOwns(t, e)' => SessionOwns(t, e) \/ (t = s /\ e = f)
  BY OthersOwn
<1>2. \A r \in Retries : RetryOwns(r, e)' => RetryOwns(r, e)
  BY DEF RetryOwns
<1>3. \A i : PlaceOwns(i, e)' => PlaceOwns(i, e)
  BY DEF PlaceOwns
<1>4. OneOwner(e) /\ (Owned(e) => e \in sent)
  BY DEF OwnersInv
<1>5. QED
  BY <1>1, <1>2, <1>3, <1>4 DEF OneOwner, Owned

\* The buffer after push_back: its elements move by d places, and one is added.
LEMMA PushBackFacts ==
  ASSUME NEW b \in Seq(Events), NEW f \in Events
  PROVE  \E n \in Nat, d \in {0, 1} :
           /\ DOMAIN PushBack(b, f) = 1..n /\ PushBack(b, f)[n] = f
           /\ \A i \in 1..(n - 1) : i + d \in DOMAIN b /\ PushBack(b, f)[i] = b[i + d]
<1>1. Len(b) \in Nat /\ DOMAIN b = 1..Len(b)
  BY LenProperties
<1>2. ASSUME NEW a \in Seq(Events)
      PROVE  /\ Len(a) \in Nat
             /\ DOMAIN Append(a, f) = 1..(Len(a) + 1) /\ Append(a, f)[Len(a) + 1] = f
             /\ \A i \in 1..Len(a) : Append(a, f)[i] = a[i]
  <2>1. /\ Append(a, f) \in Seq(Events) /\ Len(Append(a, f)) = Len(a) + 1
        /\ Append(a, f)[Len(a) + 1] = f
        /\ \A i \in 1..Len(a) : Append(a, f)[i] = a[i]
    BY AppendProperties
  <2>2. DOMAIN Append(a, f) = 1..(Len(a) + 1)
    BY <2>1, LenProperties
  <2>3. QED
    BY <2>1, <2>2, LenProperties
<1>3. CASE Len(b) = BufferSize
  <2>1. b # <<>>
    BY <1>3, SubscriberAssumption DEF SubscriberAssumption
  <2>2. /\ Tail(b) \in Seq(Events) /\ Len(Tail(b)) = Len(b) - 1
        /\ \A i \in 1..Len(Tail(b)) : Tail(b)[i] = b[i + 1]
    BY <2>1, HeadTailProperties
  <2>3. Len(b) # 0
    BY <1>1, <1>3, SubscriberAssumption DEF SubscriberAssumption
  <2>4. /\ DOMAIN Append(Tail(b), f) = 1..Len(b) /\ Append(Tail(b), f)[Len(b)] = f
        /\ \A i \in 1..(Len(b) - 1) : Append(Tail(b), f)[i] = Tail(b)[i]
    <3>1. Len(Tail(b)) + 1 = Len(b)
      BY <1>1, <2>2
    <3>2. QED
      BY <1>2, <2>2, <3>1
  <2>5. \A i \in 1..(Len(b) - 1) : i + 1 \in DOMAIN b /\ Append(Tail(b), f)[i] = b[i + 1]
    BY <1>1, <2>2, <2>4
  <2>6. QED
    BY <1>1, <1>3, <2>4, <2>5 DEF PushBack
<1>4. CASE Len(b) # BufferSize
  <2> DEFINE n == Len(b) + 1
  <2>1. n \in Nat /\ DOMAIN Append(b, f) = 1..n /\ Append(b, f)[n] = f
    BY <1>1, <1>2
  <2>2. \A i \in 1..(n - 1) : i + 0 \in DOMAIN b /\ Append(b, f)[i] = b[i + 0]
    BY <1>1, <1>2
  <2> HIDE DEF n
  <2>3. QED
    BY <1>4, <2>1, <2>2 DEF PushBack
<1>5. QED
  BY <1>3, <1>4

\* An event that nobody owned is put into the buffer.
LEMMA EventBuffered ==
  ASSUME OwnersInv, buffer \in Seq(Events), NEW f \in Events, f \notin sent,
         sent' = sent \cup {f}, buffer' = PushBack(buffer, f),
         UNCHANGED <<sess, pool, retries>>
  PROVE  OwnersInv'
<1> SUFFICES ASSUME NEW e \in Events
             PROVE  OneOwner(e)' /\ (Owned(e)' => e \in sent')
  BY DEF OwnersInv
<1>1. \A t \in Sessions : SessionOwns(t, e)' => SessionOwns(t, e)
  BY DEF SessionOwns, Exists, Pooled
<1>2. \A r \in Retries : RetryOwns(r, e)' => RetryOwns(r, e)
  BY DEF RetryOwns
<1>3. PICK n \in Nat, d \in {0, 1} :
        /\ DOMAIN buffer' = 1..n /\ buffer'[n] = f
        /\ \A i \in 1..(n - 1) : i + d \in DOMAIN buffer /\ buffer'[i] = buffer[i + d]
  <2>1. \E n \in Nat, d \in {0, 1} :
          /\ DOMAIN PushBack(buffer, f) = 1..n /\ PushBack(buffer, f)[n] = f
          /\ \A i \in 1..(n - 1) : /\ i + d \in DOMAIN buffer
                                   /\ PushBack(buffer, f)[i] = buffer[i + d]
    BY PushBackFacts, Zenon
  <2>2. QED
    BY <2>1, Zenon
<1>4. \A i : PlaceOwns(i, e)' =>
        \/ i = n /\ e = f
        \/ i \in 1..n /\ PlaceOwns(i + d, e)
  <2> SUFFICES ASSUME NEW i \in 1..n, buffer'[i] = e, i # n
               PROVE  PlaceOwns(i + d, e)
    BY <1>3 DEF PlaceOwns
  <2>1. i \in 1..(n - 1)
    OBVIOUS
  <2>2. QED
    BY <1>3, <2>1 DEF PlaceOwns
<1>5. OneOwner(e) /\ (Owned(e) => e \in sent)
  BY DEF OwnersInv
<1>6. CASE e = f
  <2>1. ~Owned(e)
    BY <1>5, <1>6
  <2>2. /\ \A t \in Sessions : ~SessionOwns(t, e)'
        /\ \A r \in Retries : ~RetryOwns(r, e)'
        /\ \A i : PlaceOwns(i, e)' => i = n
    BY <1>1, <1>2, <1>4, <2>1 DEF Owned
  <2>3. QED
    BY <1>6, <2>2 DEF OneOwner
<1>7. CASE e # f
  <2>1. \A i : PlaceOwns(i, e)' => i \in 1..n /\ PlaceOwns(i + d, e)
    BY <1>4, <1>7
  <2>2. \A i, j \in 1..n : i + d = j + d => i = j
    OBVIOUS
  <2>3. \A i, j : PlaceOwns(i, e)' /\ PlaceOwns(j, e)' => i = j
    BY <1>5, <2>1, <2>2 DEF OneOwner
  <2>4. QED
    BY <1>1, <1>2, <1>5, <2>1, <2>3 DEF OneOwner, Owned
<1>8. QED
  BY <1>6, <1>7

\* The error handler never leaves an event with two owners.
LEMMA FailOwners ==
  ASSUME Inv, OwnersInv, NEW s \in Sessions, Exists(s),
         NEW x \in SessionState, x.req = sess[s].req, Fail(s, x)
  PROVE  OwnersInv'
<1>1. SessionsInv /\ retries \in [Retries -> RetryState]
  BY DEF Inv, RetriesInv
<1>2. Pooled' \subseteq Pooled
  BY ReleaseFacts DEF Fail, Inv
<1>3. UNCHANGED <<buffer, sent>>
  BY DEF Fail
<1>4. ASSUME NEW r \in Retries, NEW q \in RetryState, q.req = x.req,
             NEW late \in BOOLEAN, retries' = [retries EXCEPT ![r] = WaitAndRetry(q, late)],
             sess' = [sess EXCEPT ![s] = Kept(s, ShutDown([x EXCEPT !.req = NoEvent]))]
      PROVE  OwnersInv'
  <2> DEFINE z == ShutDown([x EXCEPT !.req = NoEvent])
  <2>1. z \in SessionState /\ z.req = NoEvent
    BY MovedFromType
  <2> HIDE DEF z
  <2>2. Kept(s, z).req = NoEvent
    BY <2>1, KeptFacts
  <2>3. WaitAndRetry(q, late).req = sess[s].req
    BY <1>4 DEF WaitAndRetry, RetryState
  <2>4. sess' = [sess EXCEPT ![s] = Kept(s, z)]
    BY <1>4 DEF z
  <2>5. QED
    BY <1>1, <1>2, <1>3, <1>4, <2>2, <2>3, <2>4, RequestMoves
<1>5. ASSUME sess' = [sess EXCEPT ![s] = Kept(s, ShutDown(x))], UNCHANGED retries
      PROVE  OwnersInv'
  <2>1. ShutDown(x) \in SessionState /\ ShutDown(x).req = sess[s].req
    BY ShutDownType
  <2>2. Kept(s, ShutDown(x)) \in SessionState
        /\ Kept(s, ShutDown(x)).req \in {sess[s].req, NoEvent}
    BY <2>1, KeptFacts
  <2>3. QED
    BY <1>1, <1>2, <1>3, <1>5, <2>2, SessionShrinks
<1>6. x.req \in Events \cup {NoEvent} /\ x.handler \in Retries \cup {NoRetry}
  BY DEF SessionState
<1>7. ASSUME HandleResponse(s, x)
      PROVE  OwnersInv'
  <2>1. [NoRequest EXCEPT !.req = x.req] \in RetryState
        /\ [NoRequest EXCEPT !.req = x.req].req = x.req
    BY <1>6 DEF NoRequest, RetryState
  <2>2. QED
    BY <1>4, <1>5, <1>7, <2>1 DEF HandleResponse
<1>8. ASSUME HandleRetryResponse(s, x)
      PROVE  OwnersInv'
  <2> DEFINE r == x.handler
             q == [retries[r] EXCEPT !.req = x.req]
  <2>1. /\ r \in Retries
        /\ \E late \in BOOLEAN : retries' = [retries EXCEPT ![r] = WaitAndRetry(q, late)]
        /\ sess' = [sess EXCEPT ![s] = Kept(s, ShutDown([x EXCEPT !.req = NoEvent]))]
    BY <1>6, <1>8 DEF HandleRetryResponse
  <2>2. q \in RetryState /\ q.req = x.req
    BY <1>1, <1>6, <2>1 DEF RetryState
  <2> HIDE DEF q, r
  <2>3. QED
    BY <1>4, <2>1, <2>2
<1>9. QED
  BY <1>7, <1>8 DEF Fail

LEMMA SendEventOwners ==
  ASSUME Inv, OwnersInv, NEW e \in Events, SendEvent(e)
  PROVE  OwnersInv'
<1>1. SessionsInv /\ buffer \in Seq(Events)
  BY DEF Inv, RestType
<1>2. e \notin sent /\ sent' = sent \cup {e} /\ UNCHANGED retries
  BY DEF SendEvent
<1>3. ASSUME NEW s \in Sessions, AcquirePooled(s), UNCHANGED buffer,
             sess' = [sess EXCEPT ![s] = Execute([sess[s] EXCEPT !.req = e])]
      PROVE  OwnersInv'
  <2> DEFINE x == [sess[s] EXCEPT !.req = e]
  <2>1. x \in SessionState /\ x.conn # "InUse" /\ x.req = e
    BY <1>1, <1>3, ZenonT(40) DEF SessionsInv, SessionState, AcquirePooled, InUse
  <2>2. Pooled' \subseteq Pooled \cup {s}
    BY <1>3 DEF AcquirePooled, Pooled
  <2>3. sess' = [sess EXCEPT ![s] = Execute(x)]
    BY <1>3
  <2> HIDE DEF x
  <2>4. Execute(x).req = e
    BY <2>1, ExecuteFacts
  <2>5. QED
    BY <1>1, <1>2, <1>3, <2>2, <2>3, <2>4, EventGiven
<1>4. ASSUME NEW s \in Sessions, AcquireNew(s), UNCHANGED buffer,
             sess' = [sess EXCEPT ![s] = Execute(NewSession(NoRetry, e))]
      PROVE  OwnersInv'
  <2> DEFINE x == NewSession(NoRetry, e)
  <2>1. x \in SessionState /\ x.conn # "InUse" /\ x.req = e
    BY NewSessionType DEF NewSession
  <2>2. Pooled' \subseteq Pooled \cup {s}
    BY <1>4, AcquireNewFacts DEF Inv
  <2> HIDE DEF x
  <2>3. Execute(x).req = e
    BY <2>1, ExecuteFacts
  <2>4. sess' = [sess EXCEPT ![s] = Execute(x)]
    BY <1>4 DEF x
  <2>5. QED
    BY <1>1, <1>2, <1>4, <2>2, <2>3, <2>4, EventGiven
<1>5. ASSUME AcquireNone, buffer' = PushBack(buffer, e), UNCHANGED sess
      PROVE  OwnersInv'
  BY <1>1, <1>2, <1>5, EventBuffered DEF AcquireNone
<1>6. QED
  BY <1>3, <1>4, <1>5 DEF SendEvent

LEMMA RetryExpiredOwners ==
  ASSUME Inv, OwnersInv, NEW r \in Retries, RetryExpired(r)
  PROVE  OwnersInv'
<1> DEFINE e == retries[r].req
<1>1. SessionsInv /\ retries \in [Retries -> RetryState] /\ e \in Events \cup {NoEvent}
  BY DEF Inv, RetriesInv, RetryState
<1>2. /\ retries[r].waits > 0 /\ UNCHANGED <<buffer, sent>>
      /\ retries' = [retries EXCEPT ![r].waits = @ - 1, ![r].req = NoEvent]
  BY DEF RetryExpired
<1>3. ASSUME NEW s \in Sessions, NEW x \in SessionState, x.conn # "InUse", x.req = e,
             Pooled' \subseteq Pooled \cup {s}, sess' = [sess EXCEPT ![s] = Execute(x)]
      PROVE  OwnersInv'
  <2>1. Execute(x).req = retries[r].req
    BY <1>3, ExecuteFacts
  <2>2. QED
    BY <1>1, <1>2, <1>3, <2>1, RequestReturns
<1>4. ASSUME NEW s \in Sessions, AcquirePooled(s),
             sess' = [sess EXCEPT ![s] = Execute([sess[s] EXCEPT !.req = e])]
      PROVE  OwnersInv'
  <2>1. /\ [sess[s] EXCEPT !.req = e] \in SessionState
        /\ [sess[s] EXCEPT !.req = e].conn # "InUse"
        /\ [sess[s] EXCEPT !.req = e].req = e
    BY <1>1, <1>4 DEF SessionsInv, SessionState, AcquirePooled, InUse
  <2>2. Pooled' \subseteq Pooled \cup {s}
    BY <1>4 DEF AcquirePooled, Pooled
  <2>3. QED
    BY <1>3, <1>4, <2>1, <2>2
<1>5. ASSUME NEW s \in Sessions, AcquireNew(s),
             sess' = [sess EXCEPT ![s] = Execute(NewSession(r, e))]
      PROVE  OwnersInv'
  <2>1. /\ NewSession(r, e) \in SessionState /\ NewSession(r, e).conn # "InUse"
        /\ NewSession(r, e).req = e
    BY <1>1, NewSessionType DEF NewSession
  <2>2. Pooled' \subseteq Pooled \cup {s}
    BY <1>5, AcquireNewFacts DEF Inv
  <2>3. QED
    BY <1>3, <1>5, <2>1, <2>2
<1>6. ASSUME AcquireNone, UNCHANGED sess
      PROVE  OwnersInv'
  <2> SUFFICES ASSUME NEW f \in Events
               PROVE  OneOwner(f)' /\ (Owned(f)' => f \in sent')
    BY DEF OwnersInv
  <2>1. \A s \in Sessions : SessionOwns(s, f)' => SessionOwns(s, f)
    BY <1>6 DEF AcquireNone, SessionOwns, Exists, Pooled
  <2>2. \A q \in Retries : RetryOwns(q, f)' => RetryOwns(q, f)
    BY <1>1, <1>2, SessionAssumption DEF RetryOwns, RetryState, SessionAssumption
  <2>3. OneOwner(f) /\ (Owned(f) => f \in sent)
    BY DEF OwnersInv
  <2>4. QED
    BY <1>2, <2>1, <2>2, <2>3, OwnersShrink
<1>7. QED
  BY <1>4, <1>5, <1>6 DEF RetryExpired

LEMMA ReadAnswerOwners ==
  ASSUME Inv, OwnersInv, NEW s \in Sessions, ReadAnswer(s)
  PROVE  OwnersInv'
<1>1. PICK keepAlive \in {TRUE, ~PeerCloses} :
        sess' = [sess EXCEPT ![s] = Kept(s, Answered(sess[s], keepAlive))]
  BY DEF ReadAnswer
<1>2. UNCHANGED <<pool, retries, buffer, sent>> /\ Exists(s)
  BY DEF ReadAnswer, Exists
<1> DEFINE x == Answered(sess[s], keepAlive)
<1>3. sess[s] \in SessionState /\ keepAlive \in BOOLEAN
  BY DEF Inv, SessionsInv
<1>4. x \in SessionState /\ x.req = sess[s].req
  BY <1>3, AnsweredFacts
<1> HIDE DEF x
<1>5. Kept(s, x) \in SessionState /\ Kept(s, x).req \in {sess[s].req, NoEvent}
  BY <1>4, KeptFacts
<1>6. sess' = [sess EXCEPT ![s] = Kept(s, x)]
  BY <1>1 DEF x
<1>7. Pooled' \subseteq Pooled
  BY <1>2 DEF Pooled
<1>8. QED
  BY <1>2, <1>5, <1>6, <1>7, SessionShrinks DEF Inv

LEMMA SessionStepOwners ==
  ASSUME Inv, OwnersInv, NEW s \in Sessions, SessionStep(s)
  PROVE  OwnersInv'
<1>1. sess[s] \in SessionState /\ sess \in [Sessions -> SessionState]
  BY DEF Inv, SessionsInv
<1>2. UNCHANGED <<pool, retries, buffer, sent>>
  BY DEF SessionStep, others
<1>3. \E y \in SessionState :
        /\ sess' = [sess EXCEPT ![s] = y]
        /\ y.req = sess[s].req /\ (y.op # "none" => sess[s].op # "none")
  <2>1. CASE StepForward(s)
    <3>1. sess' = [sess EXCEPT ![s] = Advance(sess[s])] /\ sess[s].op # "none"
      BY <2>1 DEF StepForward
    <3>2. Advance(sess[s]) \in SessionState /\ Advance(sess[s]).req = sess[s].req
      BY <1>1, <2>1, AdvanceFacts DEF StepForward
    <3>3. QED
      BY <3>1, <3>2
  <2>2. CASE Expire(s)
    <3>1. sess' = [sess EXCEPT ![s] = Closed(sess[s], FALSE)]
      BY <2>2 DEF Expire
    <3>2. Closed(sess[s], FALSE).req = sess[s].req /\ Closed(sess[s], FALSE).op = sess[s].op
      BY <1>1, ClosedFacts
    <3>3. Closed(sess[s], FALSE) \in SessionState
      BY <1>1, ClosedFacts
    <3>4. QED
      BY <1>1, <3>1, <3>2, <3>3, ZenonT(60)
  <2>3. CASE ShutdownDone(s)
    <3> DEFINE x == [sess[s] EXCEPT !.shutdowns = sess[s].shutdowns - 1]
    <3>1. sess[s].shutdowns - 1 \in Nat
      BY <1>1, <2>3 DEF ShutdownDone, SessionState
    <3>2. x \in SessionState /\ x.req = sess[s].req /\ x.op = sess[s].op
      BY <1>1, <3>1 DEF SessionState
    <3>3. PICK late \in BOOLEAN : sess' = [sess EXCEPT ![s] = Closed(x, late)]
      BY <2>3 DEF ShutdownDone
    <3> HIDE DEF x
    <3>4. /\ Closed(x, late) \in SessionState
          /\ Closed(x, late).req = sess[s].req /\ Closed(x, late).op = sess[s].op
      BY <3>2, ClosedFacts
    <3>5. QED
      BY <3>3, <3>4
  <2>4. CASE MonitorReadable(s)
    <3> DEFINE x == [sess[s] EXCEPT !.armed = FALSE]
    <3>1. x \in SessionState /\ x.req = sess[s].req /\ x.op = sess[s].op
      BY <1>1 DEF SessionState
    <3>2. sess' = [sess EXCEPT ![s] = x]
      BY <2>4 DEF MonitorReadable
    <3> HIDE DEF x
    <3>3. QED
      BY <3>1, <3>2
  <2>5. QED
    BY <2>1, <2>2, <2>3, <2>4 DEF SessionStep
<1>4. PICK y \in SessionState :
        /\ sess' = [sess EXCEPT ![s] = y]
        /\ y.req = sess[s].req /\ (y.op # "none" => sess[s].op # "none")
  BY <1>3
<1>5. Pooled' = Pooled /\ (Exists(s)' => Exists(s))
  BY <1>1, <1>2, <1>4 DEF Pooled, Exists
<1>6. QED
  BY <1>2, <1>4, <1>5, SessionShrinks DEF Inv

LEMMA OwnersNext == Inv /\ OwnersInv /\ [Next]_vars => OwnersInv'
<1> SUFFICES ASSUME Inv, OwnersInv, [Next]_vars PROVE OwnersInv'
  OBVIOUS
<1>1. CASE \E e \in Events : SendEvent(e)
  BY <1>1, SendEventOwners
<1>2. CASE \E r \in Retries : RetryExpired(r)
  BY <1>2, RetryExpiredOwners
<1>3. CASE \E s \in Sessions : ReadAnswer(s)
  BY <1>3, ReadAnswerOwners
<1>4. ASSUME NEW s \in Sessions, OperationFailed(s)
      PROVE  OwnersInv'
  <2>1. Exists(s) /\ Fail(s, Failed(sess[s]))
    BY <1>4 DEF OperationFailed, Exists
  <2>2. Failed(sess[s]) \in SessionState /\ Failed(sess[s]).req = sess[s].req
    BY FailedType DEF Inv, SessionsInv
  <2>3. QED
    BY <2>1, <2>2, FailOwners
<1>5. ASSUME UNCHANGED <<sess, pool, retries, buffer, sent>>
      PROVE  OwnersInv'
  BY <1>5 DEF OwnersInv, OneOwner, Owned, SessionOwns, RetryOwns, PlaceOwns, Exists, Pooled
<1>6. ASSUME NEW s \in Sessions, MonitorFailed(s)
      PROVE  OwnersInv'
  <2>1. sess[s] \in SessionState /\ sess[s].aborted > 0
    BY <1>6 DEF Inv, SessionsInv, MonitorFailed
  <2>2. sess[s].aborted - 1 \in Nat
    BY <2>1 DEF SessionState
  <2>3. /\ [sess[s] EXCEPT !.aborted = sess[s].aborted - 1] \in SessionState
        /\ [sess[s] EXCEPT !.aborted = sess[s].aborted - 1].req = sess[s].req
    BY <2>1, <2>2 DEF SessionState
  <2>4. QED
    BY <1>5, <1>6, <2>3, FailOwners DEF MonitorFailed
<1>7. CASE \E s \in Sessions : SessionStep(s)
  BY <1>7, SessionStepOwners
<1>8. CASE UNCHANGED vars
  BY <1>5, <1>8 DEF vars
<1>9. QED
  BY <1>1, <1>2, <1>3, <1>4, <1>6, <1>7, <1>8 DEF Next

LEMMA OwnersInit == Init => OwnersInv
<1> SUFFICES ASSUME Init, NEW e \in Events
             PROVE  ~Owned(e)
  BY DEF OwnersInv, OneOwner, Owned
<1>1. \A s \in Sessions : ~SessionOwns(s, e)
  <2>1. \A s \in Sessions : sess[s].req = NoEvent
    BY DEF Init, NewSession
  <2>2. QED
    BY <2>1, SessionAssumption DEF SessionOwns, SessionAssumption
<1>2. \A r \in Retries : ~RetryOwns(r, e)
  BY DEF Init, NoRequest, RetryOwns
<1>3. \A i : ~PlaceOwns(i, e)
  <2>1. DOMAIN buffer = {}
    BY DEF Init
  <2>2. QED
    BY <2>1 DEF PlaceOwns
<1>4. QED
  BY <1>1, <1>2, <1>3 DEF Owned

\* Owners(e) has one element at most.
LEMMA OwnersCounted ==
  ASSUME NEW e \in Events, OneOwner(e)
  PROVE  Cardinality(Owners(e)) <= 1
<1>1. \A o \in Owners(e) :
        \/ \E s \in Sessions : o = <<"session", s>> /\ SessionOwns(s, e)
        \/ \E r \in Retries : o = <<"retry", r>> /\ RetryOwns(r, e)
        \/ \E i : o = <<"buffer", i>> /\ PlaceOwns(i, e)
  BY DEF Owners, SessionOwns, RetryOwns, PlaceOwns
<1>2. \A o, p \in Owners(e) : o = p
  BY <1>1 DEF OneOwner
<1>3. CASE Owners(e) = {}
  BY <1>3, FS_EmptySet
<1>4. CASE \E o : o \in Owners(e)
  <2>1. PICK o : o \in Owners(e)
    BY <1>4
  <2>2. Owners(e) = {o}
    BY <1>2, <2>1
  <2>3. QED
    BY <2>2, FS_Singleton
<1>5. QED
  BY <1>3, <1>4

-----------------------------------------------------------------------------
(* The theorems.                                                           *)

\* Every variable of HttpSubscriber keeps its type.
THEOREM TypeCorrect == Spec => []TypeOK
<1>1. Inv => TypeOK
  BY DEF Inv, PoolInv, SessionsInv, RetriesInv, RestType, TypeOK
<1>2. QED
  BY <1>1, Invariance, PTL

\* acquire and release, called in whatever order sends, retries and repeated
\* failures give, keep the deque of sessions within its size and free of
\* duplicates.
THEOREM SoundPool == Spec => []PoolSound
<1>1. Inv => PoolSound
  BY DEF Inv, PoolInv
<1>2. QED
  BY <1>1, Invariance, PTL

\* A pooled session is in use exactly while an operation of its chain is in
\* flight: acquire never starts a second chain on a stream (HttpSession::run,
\* on_read) and no slot is lost to a session nobody will free.
THEOREM HonestSlots == Spec => []SlotsHonest
<1>1. Inv => SlotsHonest
  BY DEF Inv, SessionsInv
<1>2. QED
  BY <1>1, Invariance, PTL

\* An event that is still to be delivered has one owner, the session that
\* carries it, the RetryRequest it waits in or its place in the buffer, even
\* when a session fails twice (retryIfNeeded and handleRetryResponse move the
\* request).
THEOREM OwnersUnique == Spec => []SingleOwner
<1>1. OwnersInv => SingleOwner
  BY OwnersCounted DEF OwnersInv, SingleOwner
<1>2. Init => Inv /\ OwnersInv
  BY InitInv, OwnersInit
<1>3. (Inv /\ OwnersInv) /\ [Next]_vars => (Inv /\ OwnersInv)'
  BY NextInv, OwnersNext
<1>4. QED
  BY <1>1, <1>2, <1>3, PTL DEF Spec

-----------------------------------------------------------------------------
(* Peers that keep their connections open and answer within the deadline   *)
(* (PeerSteady); any operation may still fail.                             *)

\* A session of the pool, between its creation and its failure: no monitor wait
\* was aborted and no socket closed under it, so nothing is left that can fail
\* it but the operation in flight; its request was never moved from.
Live(x) ==
  /\ ~x.doomed /\ x.aborted = 0 /\ x.shutdowns = 0
  /\ x.op = "resolve" => ~x.armed
  /\ x.op # "resolve" => x.open
  /\ x.conn # "monostate"
  /\ x.req # NoEvent

\* What is left of a session that failed: at most the shutdown of its stream.
Gone(x) == x.op = "none" /\ ~x.doomed /\ ~x.armed /\ x.aborted = 0

SessionsSteady ==
  \A s \in Sessions : IF s \in Pooled THEN Live(sess[s]) ELSE Gone(sess[s])

\* A RetryRequest waits for its timer, or is the handler of one session, or neither.
Handles(s, r) == s \in Pooled /\ sess[s].handler = r

RetryAlone(r) ==
  /\ retries[r].waits <= 1
  /\ retries[r].waits > 0 => \A s \in Sessions : ~Handles(s, r)
  /\ \A s, t \in Sessions : Handles(s, r) /\ Handles(t, r) => s = t

RetriesAlone == \A r \in Retries : RetryAlone(r)

RetriesSteady == \A r \in Retries : retries[r].waits > 0 => retries[r].req # NoEvent

AnsweredInv == answered \subseteq sent /\ AnsweredOnce

CrowdInv == IsFiniteSet(sent) /\ NullNeedsCrowd

SteadyInv ==
  /\ SessionsSteady /\ RetriesSteady /\ RetriesAlone /\ undefined # "dangling"
  /\ AnsweredInv /\ CrowdInv

-----------------------------------------------------------------------------
(* The functions of a session's state.                                     *)

LEMMA ExecuteNew ==
  \A handler \in Retries \cup {NoRetry}, e \in Events :
    Live(Execute(NewSession(handler, e)))
<1> SUFFICES ASSUME NEW handler \in Retries \cup {NoRetry}, NEW e \in Events
             PROVE  Live(Execute(NewSession(handler, e)))
  OBVIOUS
<1> DEFINE x == NewSession(handler, e)
<1>1. /\ x \in SessionState /\ x.conn = "monostate" /\ x.op = "none" /\ ~x.armed
      /\ x.aborted = 0 /\ x.shutdowns = 0 /\ x.req # NoEvent
  BY NewSessionType, SessionAssumption DEF NewSession, SessionAssumption
<1> HIDE DEF x
<1>2. Execute(x) = [x EXCEPT !.conn = "InUse", !.op = "resolve", !.doomed = FALSE]
  BY <1>1 DEF Execute
<1>3. Live(Execute(x))
  BY <1>1, <1>2 DEF Live, SessionState
<1>4. QED
  BY <1>3 DEF x

LEMMA ExecuteAgain ==
  ASSUME NEW x \in SessionState, Live(x), Honest(x), x.conn # "InUse", NEW e \in Events
  PROVE  Live(Execute([x EXCEPT !.req = e]))
<1> DEFINE y == [x EXCEPT !.req = e]
<1>1. /\ x.conn = "Idle" /\ x.op = "none" /\ x.open /\ x.aborted = 0 /\ x.shutdowns = 0
      /\ e # NoEvent
  <2>1. x.op = "none" /\ x.conn \in {"monostate", "InUse", "Idle"}
    BY DEF SessionState, Honest
  <2>2. QED
    BY <2>1, SessionAssumption DEF Live, SessionAssumption
<1>2. /\ y \in SessionState /\ y.conn = "Idle" /\ y.op = "none" /\ y.open
      /\ y.aborted = 0 /\ y.shutdowns = 0 /\ y.req # NoEvent
  BY <1>1 DEF SessionState
<1> HIDE DEF y
<1>3. Execute(y) = [y EXCEPT !.conn = "InUse", !.op = "write", !.doomed = ~y.open]
  BY <1>2 DEF Execute, Start
<1>4. Live(Execute(y))
  BY <1>2, <1>3 DEF Live, SessionState
<1>5. QED
  BY <1>4 DEF y

LEMMA AdvanceLive ==
  ASSUME NEW x \in SessionState, Live(x), Honest(x),
         x.op \in {"resolve", "connect", "handshake", "write"}
  PROVE  Live(Advance(x))
<1>1. CASE x.op = "resolve"
  <2>1. x.armed = FALSE /\ x.aborted = 0
    BY <1>1 DEF Live, SessionState
  <2>2. Closed(x, TRUE) = [x EXCEPT !.open = FALSE, !.doomed = x.doomed, !.armed = FALSE,
                                   !.aborted = x.aborted]
    BY <1>1, <2>1 DEF Closed, SessionState
  <2>3. Advance(x) = [Closed(x, TRUE) EXCEPT !.op = "connect", !.open = TRUE, !.doomed = FALSE]
    BY <1>1 DEF Advance
  <2>4. QED
    BY <2>1, <2>2, <2>3, ZenonT(60) DEF Live, SessionState
<1>2. CASE x.op # "resolve"
  <2>1. \E o \in {"handshake", "write", "read"} : Advance(x) = Start(x, o)
    BY <1>2 DEF Advance
  <2>2. \A o \in {"handshake", "write", "read"} : Live(Start(x, o))
    BY <1>2 DEF Start, Live, SessionState
  <2>3. QED
    BY <2>1, <2>2
<1>3. QED
  BY <1>1, <1>2

LEMMA AnsweredLive ==
  ASSUME NEW x \in SessionState, Live(x), x.op = "read"
  PROVE  Live(Answered(x, TRUE))
<1> DEFINE idle == [x EXCEPT !.conn = "Idle", !.op = "none", !.doomed = FALSE, !.armed = FALSE]
<1>1. /\ idle \in SessionState /\ idle.op = "none" /\ idle.open
      /\ idle.conn = "Idle" /\ Live(idle)
  BY DEF Live, SessionState, Operations
<1>2. Answered(x, TRUE) = MonitorForError(idle)
  BY DEF Answered
<1> HIDE DEF idle
<1>3. MonitorForError(idle) = [idle EXCEPT !.armed = TRUE]
  BY <1>1 DEF MonitorForError
<1> DEFINE watched == [idle EXCEPT !.armed = TRUE]
<1>4. /\ watched.doomed = idle.doomed /\ watched.aborted = idle.aborted
      /\ watched.shutdowns = idle.shutdowns /\ watched.op = idle.op
      /\ watched.open = idle.open /\ watched.conn = idle.conn /\ watched.req = idle.req
  BY <1>1 DEF SessionState
<1> HIDE DEF watched
<1>5. Live(watched)
  BY <1>1, <1>4, Zenon DEF Live
<1>6. QED
  BY <1>2, <1>3, <1>5, Zenon DEF watched

\* A session that failed, with its request or moved from, and left the pool.
LEMMA FailedGone ==
  ASSUME NEW x \in SessionState, Live(x), NEW s \in Sessions, s \notin Pooled',
         NEW e \in Events \cup {NoEvent}
  PROVE  Gone(Kept(s, ShutDown([Failed(x) EXCEPT !.req = e])))
<1> DEFINE y == [Failed(x) EXCEPT !.req = e]
<1>1. /\ y \in SessionState /\ y.op = "none" /\ ~y.armed /\ y.aborted = 0
  BY DEF Failed, Live, SessionState, Operations
<1> HIDE DEF y
<1>2. /\ ShutDown(y) \in SessionState /\ ShutDown(y).op = "none"
      /\ ~ShutDown(y).armed /\ ShutDown(y).aborted = 0
  BY <1>1 DEF ShutDown, SessionState
<1> DEFINE z == ShutDown(y)
<1> HIDE DEF z
<1>3. Kept(s, z) = Destroyed(z)
  BY <1>2 DEF Kept, z
<1>4. Gone(Destroyed(z))
  BY <1>2 DEF Destroyed, NewSession, Gone, z
<1>5. QED
  BY <1>3, <1>4 DEF y, z

LEMMA ClosedGone ==
  ASSUME NEW x \in SessionState, Gone(x), NEW late \in BOOLEAN, x.shutdowns > 0
  PROVE  Gone(Closed([x EXCEPT !.shutdowns = x.shutdowns - 1], late))
BY DEF Gone, Closed, SessionState

-----------------------------------------------------------------------------
(* The parts of the invariant.                                             *)

\* One session changes.
LEMMA OneSessionSteady ==
  ASSUME SessionsSteady, sess \in [Sessions -> SessionState],
         NEW s \in Sessions, NEW y, sess' = [sess EXCEPT ![s] = y],
         Pooled' \ {s} = Pooled \ {s}, IF s \in Pooled' THEN Live(y) ELSE Gone(y)
  PROVE  SessionsSteady'
BY DEF SessionsSteady

\* release takes no other session out of the pool.
LEMMA ReleaseOne ==
  ASSUME PoolInv, NEW s \in Sessions, Release(s)
  PROVE  Pooled' \ {s} = Pooled \ {s} /\ s \notin Pooled'
<1>1. s \notin Pooled' /\ Pooled' \subseteq Pooled
  BY ReleaseFacts
<1>2. CASE UNCHANGED pool
  BY <1>1, <1>2 DEF Pooled
<1>3. ASSUME NEW i \in DOMAIN pool, pool[i] = s, pool' = RemoveAt(pool, i),
             NEW t \in Pooled, t # s
      PROVE  t \in Pooled'
  <2>1. pool \in Seq(Sessions) /\ Len(pool) \in Nat /\ DOMAIN pool = 1..Len(pool)
    BY LenProperties DEF PoolInv
  <2>2. /\ pool' \in Seq(Sessions) /\ Len(pool') = Len(pool) - 1
        /\ \A j \in 1..(Len(pool) - 1) :
             pool'[j] = IF j < i THEN pool[j] ELSE pool[j + 1]
    BY <1>3, <2>1, RemoveAtFacts
  <2>3. DOMAIN pool' = 1..(Len(pool) - 1)
    BY <2>2, LenProperties
  <2>4. PICK k \in 1..Len(pool) : pool[k] = t /\ k # i
    BY <1>3, <2>1 DEF Pooled
  <2>5. CASE k < i
    <3>1. k \in 1..(Len(pool) - 1) /\ pool'[k] = t
      BY <1>3, <2>1, <2>2, <2>4, <2>5
    <3>2. QED
      BY <2>3, <3>1 DEF Pooled
  <2>6. CASE k > i
    <3>1. k - 1 \in 1..(Len(pool) - 1) /\ ~(k - 1 < i) /\ (k - 1) + 1 = k
      BY <1>3, <2>1, <2>4, <2>6
    <3>2. pool'[k - 1] = t
      BY <2>2, <2>4, <3>1
    <3>3. QED
      BY <2>3, <3>1, <3>2 DEF Pooled
  <2>7. QED
    BY <1>3, <2>1, <2>4, <2>5, <2>6
<1>4. QED
  BY <1>1, <1>2, <1>3 DEF Release

\* One session changes and keeps its handler, or has none of a RetryRequest.
LEMMA HandlerStays ==
  ASSUME sess \in [Sessions -> SessionState], NEW s \in Sessions, NEW y,
         sess' = [sess EXCEPT ![s] = y], Pooled' \subseteq Pooled \cup {s},
         s \in Pooled' => \/ y.handler = NoRetry
                          \/ s \in Pooled /\ y.handler = sess[s].handler
  PROVE  \A t \in Sessions, r \in Retries : Handles(t, r)' => Handles(t, r)
BY SessionAssumption DEF Handles, SessionAssumption

LEMMA AloneKeeps ==
  ASSUME RetriesAlone, UNCHANGED retries,
         \A t \in Sessions, r \in Retries : Handles(t, r)' => Handles(t, r)
  PROVE  RetriesAlone'
BY DEF RetriesAlone, RetryAlone

\* Nothing becomes active that was answered.
LEMMA AnsweredKeeps ==
  ASSUME AnsweredInv, UNCHANGED answered, sent \subseteq sent',
         \A e \in answered : Active(e)' => Active(e)
  PROVE  AnsweredInv'
BY DEF AnsweredInv, AnsweredOnce

\* The subscriber is given one event at most.
LEMMA CrowdKeeps ==
  ASSUME CrowdInv, UNCHANGED undefined, NEW f, sent' \in {sent, sent \cup {f}}
  PROVE  CrowdInv'
<1>1. /\ IsFiniteSet(sent) /\ IsFiniteSet(sent')
      /\ Cardinality(sent) \in Nat /\ Cardinality(sent') \in Nat
  BY FS_AddElement, FS_CardinalityType DEF CrowdInv
<1>2. Cardinality(sent) <= Cardinality(sent')
  BY <1>1, FS_Subset
<1>3. QED
  BY <1>1, <1>2, PoolAssumption DEF CrowdInv, NullNeedsCrowd, PoolAssumption

-----------------------------------------------------------------------------
(* The steps.                                                              *)

\* The peer of these theorems.
PeerSteady == ~Timeouts /\ ~PeerCloses

AllInv == Inv /\ OwnersInv /\ SteadyInv

\* A live session owns its request, an event that was sent and is no one else's.
LEMMA LiveOwns ==
  ASSUME AllInv, NEW s \in Pooled
  PROVE  /\ s \in Sessions /\ Live(sess[s]) /\ sess[s].req \in sent
         /\ sess[s].req \in Events /\ SessionOwns(s, sess[s].req)
<1>1. s \in Sessions
  BY ElementOfSeq, LenProperties DEF AllInv, Inv, PoolInv, Pooled
<1>2. Live(sess[s])
  BY <1>1 DEF AllInv, SteadyInv, SessionsSteady
<1>3. sess[s].req \in Events
  BY <1>1, <1>2 DEF AllInv, Inv, SessionsInv, SessionState, Live
<1>4. SessionOwns(s, sess[s].req)
  BY DEF SessionOwns, Exists
<1>5. QED
  BY <1>1, <1>2, <1>3, <1>4 DEF AllInv, OwnersInv, Owned

\* Only live sessions have an operation in flight.
LEMMA BusyPooled ==
  ASSUME AllInv, NEW s \in Sessions, sess[s].op # "none"
  PROVE  s \in Pooled
BY DEF AllInv, SteadyInv, SessionsSteady, Gone

LEMMA SendEventAlone ==
  ASSUME AllInv, NEW e \in Events, SendEvent(e)
  PROVE  RetriesAlone'
<1>1. /\ sess \in [Sessions -> SessionState] /\ RetriesAlone /\ UNCHANGED retries
  BY DEF AllInv, Inv, SessionsInv, SteadyInv, SendEvent
<1>2. ASSUME NEW s \in Sessions, AcquirePooled(s),
             sess' = [sess EXCEPT ![s] = Execute([sess[s] EXCEPT !.req = e])]
      PROVE  RetriesAlone'
  <2> DEFINE x == [sess[s] EXCEPT !.req = e]
             y == Execute(x)
  <2>1. /\ x \in SessionState /\ x.conn # "InUse" /\ x.handler = sess[s].handler
    BY <1>1, <1>2 DEF SessionState, AcquirePooled, InUse
  <2>2. y.handler = sess[s].handler
    BY <2>1, ExecuteFacts
  <2>3. sess' = [sess EXCEPT ![s] = y]
    BY <1>2
  <2> HIDE DEF y
  <2>4. Pooled' = Pooled
    BY <1>2 DEF AcquirePooled, Pooled
  <2>5. \A t \in Sessions, r \in Retries : Handles(t, r)' => Handles(t, r)
    BY <1>1, <2>2, <2>3, <2>4, HandlerStays
  <2>6. QED
    BY <1>1, <2>5, AloneKeeps
<1>3. ASSUME NEW s \in Sessions, AcquireNew(s),
             sess' = [sess EXCEPT ![s] = Execute(NewSession(NoRetry, e))]
      PROVE  RetriesAlone'
  <2> DEFINE x == NewSession(NoRetry, e)
             y == Execute(x)
  <2>1. x \in SessionState /\ x.conn # "InUse" /\ x.handler = NoRetry
    BY NewSessionType DEF NewSession
  <2>2. y.handler = NoRetry
    BY <2>1, ExecuteFacts
  <2>3. sess' = [sess EXCEPT ![s] = y]
    BY <1>3
  <2> HIDE DEF y
  <2>4. Pooled' = Pooled \cup {s}
    BY <1>3, AcquireNewFacts DEF AllInv, Inv
  <2>5. \A t \in Sessions, r \in Retries : Handles(t, r)' => Handles(t, r)
    BY <1>1, <2>2, <2>3, <2>4, SessionAssumption DEF Handles, SessionAssumption
  <2>6. QED
    BY <1>1, <2>5, AloneKeeps
<1>4. ASSUME AcquireNone, UNCHANGED sess
      PROVE  RetriesAlone'
  <2>1. \A t \in Sessions, r \in Retries : Handles(t, r)' => Handles(t, r)
    BY <1>4 DEF Handles, Pooled, AcquireNone
  <2>2. QED
    BY <1>1, <2>1, AloneKeeps
<1>5. QED
  BY <1>2, <1>3, <1>4 DEF SendEvent

LEMMA SendEventSteady ==
  ASSUME AllInv, NEW e \in Events, SendEvent(e)
  PROVE  SteadyInv'
<1>1. /\ e \notin sent /\ sent' = sent \cup {e}
      /\ UNCHANGED <<retries, answered, undefined>>
  BY DEF SendEvent
<1>2. sess \in [Sessions -> SessionState]
  BY DEF AllInv, Inv, SessionsInv
<1>3. RetriesSteady'
  BY <1>1 DEF AllInv, SteadyInv, RetriesSteady
<1>4. CrowdInv'
  <2>1. CrowdInv /\ UNCHANGED undefined /\ sent' \in {sent, sent \cup {e}}
    BY <1>1 DEF AllInv, SteadyInv
  <2>2. QED
    BY <2>1, CrowdKeeps
<1>5. undefined' # "dangling"
  BY <1>1 DEF AllInv, SteadyInv
<1>6. ASSUME NEW s \in Sessions, NEW y, sess' = [sess EXCEPT ![s] = y], y.req = e
      PROVE  AnsweredInv'
  <2>1. e \notin answered
    BY <1>1 DEF AllInv, SteadyInv, AnsweredInv
  <2>2. \A f \in answered : Active(f)' => Active(f)
    BY <1>1, <1>2, <1>6, <2>1 DEF Active
  <2>3. QED
    BY <1>1, <2>2, AnsweredKeeps DEF AllInv, SteadyInv
<1>7. ASSUME NEW s \in Sessions, AcquirePooled(s),
             sess' = [sess EXCEPT ![s] = Execute([sess[s] EXCEPT !.req = e])]
      PROVE  SessionsSteady' /\ AnsweredInv'
  <2> DEFINE y == Execute([sess[s] EXCEPT !.req = e])
  <2>1. Pooled' = Pooled /\ s \in Pooled /\ sess[s].conn # "InUse"
    BY <1>7 DEF AcquirePooled, Pooled, InUse
  <2>2. sess[s] \in SessionState /\ Live(sess[s]) /\ Honest(sess[s])
    BY <1>2, <2>1, LiveOwns, SlotsAreHonest DEF AllInv, Inv, SessionsInv
  <2>3. Live(y)
    BY <2>1, <2>2, ExecuteAgain
  <2>4. y.req = e
    <3>1. [sess[s] EXCEPT !.req = e] \in SessionState
          /\ [sess[s] EXCEPT !.req = e].conn # "InUse"
          /\ [sess[s] EXCEPT !.req = e].req = e
      BY <2>1, <2>2 DEF SessionState
    <3>2. QED
      BY <3>1, ExecuteFacts
  <2> HIDE DEF y
  <2>5. sess' = [sess EXCEPT ![s] = y]
    BY <1>7 DEF y
  <2>6. SessionsSteady'
    BY <1>2, <2>1, <2>3, <2>5, OneSessionSteady DEF AllInv, SteadyInv
  <2>7. QED
    BY <1>6, <2>4, <2>5, <2>6
<1>8. ASSUME NEW s \in Sessions, AcquireNew(s),
             sess' = [sess EXCEPT ![s] = Execute(NewSession(NoRetry, e))]
      PROVE  SessionsSteady' /\ AnsweredInv'
  <2> DEFINE x == NewSession(NoRetry, e)
  <2>1. Pooled' = Pooled \cup {s}
    BY <1>8, AcquireNewFacts DEF AllInv, Inv
  <2>2. x \in SessionState /\ x.conn # "InUse" /\ x.req = e /\ Live(Execute(x))
    BY NewSessionType, ExecuteNew DEF NewSession
  <2>3. sess' = [sess EXCEPT ![s] = Execute(x)]
    BY <1>8
  <2> HIDE DEF x
  <2>4. Execute(x).req = e
    BY <2>2, ExecuteFacts
  <2>5. SessionsSteady'
    BY <1>2, <2>1, <2>2, <2>3, OneSessionSteady DEF AllInv, SteadyInv
  <2>6. QED
    BY <1>6, <2>3, <2>4, <2>5
<1>9. ASSUME AcquireNone, UNCHANGED sess
      PROVE  SessionsSteady' /\ AnsweredInv'
  <2>1. SessionsSteady'
    BY <1>9 DEF AcquireNone, AllInv, SteadyInv, SessionsSteady, Pooled
  <2>2. \A f \in answered : Active(f)' => Active(f)
    BY <1>1, <1>9 DEF Active
  <2>3. QED
    BY <1>1, <2>1, <2>2, AnsweredKeeps DEF AllInv, SteadyInv
<1>10. RetriesAlone'
  BY SendEventAlone
<1>11. QED
  BY <1>3, <1>4, <1>5, <1>7, <1>8, <1>9, <1>10 DEF SendEvent, SteadyInv

\* A retry that finds every session of the pool in use: each of them carries an
\* event of its own, and the retry one more.
LEMMA Crowd ==
  ASSUME AllInv, NEW r \in Retries, retries[r].waits > 0, AcquireNone
  PROVE  Cardinality(sent) > PoolSize
<1> DEFINE n == Len(pool)
           f == [i \in 1..(n + 1) |-> IF i <= n THEN sess[pool[i]].req ELSE retries[r].req]
<1>1. /\ n \in Nat /\ n >= PoolSize /\ DOMAIN pool = 1..n
      /\ \A i \in 1..n : pool[i] \in Pooled
      /\ \A i, j \in 1..n : pool[i] = pool[j] => i = j
  BY LenProperties DEF AcquireNone, AllInv, Inv, PoolInv, PoolSound, Pooled
<1>2. /\ retries[r].req \in Events /\ RetryOwns(r, retries[r].req)
      /\ retries[r].req \in sent
  <2>1. retries[r].req \in Events
    BY DEF AllInv, Inv, RetriesInv, RetryState, SteadyInv, RetriesSteady
  <2>2. RetryOwns(r, retries[r].req)
    BY DEF RetryOwns
  <2>3. QED
    BY <2>1, <2>2 DEF AllInv, OwnersInv, Owned
<1>3. \A i \in 1..n : /\ sess[pool[i]].req \in sent /\ sess[pool[i]].req \in Events
                      /\ pool[i] \in Sessions /\ SessionOwns(pool[i], sess[pool[i]].req)
  BY <1>1, LiveOwns
<1>4. \A i, j \in 1..n : sess[pool[i]].req = sess[pool[j]].req => i = j
  BY <1>1, <1>3 DEF AllInv, OwnersInv, OneOwner
<1>5. \A i \in 1..n : sess[pool[i]].req # retries[r].req
  BY <1>2, <1>3 DEF AllInv, OwnersInv, OneOwner
<1>6. f \in Injection(1..(n + 1), sent)
  <2>1. f \in [1..(n + 1) -> sent]
    BY <1>2, <1>3
  <2>2. \A i, j \in 1..(n + 1) : f[i] = f[j] => i = j
    <3> SUFFICES ASSUME NEW i \in 1..(n + 1), NEW j \in 1..(n + 1), f[i] = f[j]
                 PROVE  i = j
      OBVIOUS
    <3>1. CASE i <= n /\ j <= n
      <4>1. i \in 1..n /\ j \in 1..n
        BY <1>1, <3>1
      <4>2. QED
        BY <1>4, <3>1, <4>1
    <3>2. CASE i <= n /\ ~(j <= n)
      <4>1. i \in 1..n
        BY <1>1, <3>2
      <4>2. QED
        BY <1>5, <3>2, <4>1
    <3>3. CASE ~(i <= n) /\ j <= n
      <4>1. j \in 1..n
        BY <1>1, <3>3
      <4>2. QED
        BY <1>5, <3>3, <4>1
    <3>4. CASE ~(i <= n) /\ ~(j <= n)
      BY <1>1, <3>4
    <3>5. QED
      BY <3>1, <3>2, <3>3, <3>4
  <2> HIDE DEF f
  <2>3. QED
    BY <2>1, <2>2 DEF Injection, IsInjective
<1> HIDE DEF f
<1>7. IsFiniteSet(sent)
  BY DEF AllInv, SteadyInv, CrowdInv
<1>8. Cardinality(1..(n + 1)) <= Cardinality(sent)
  BY <1>6, <1>7, FS_Injection
<1>9. Cardinality(1..(n + 1)) = n + 1
  BY <1>1, FS_Interval
<1>10. Cardinality(sent) \in Nat
  BY <1>7, FS_CardinalityType
<1>11. QED
  BY <1>1, <1>8, <1>9, <1>10, PoolAssumption DEF PoolAssumption

\* The wait of r has ended, and at most one session gets r as its handler.
LEMMA RetryExpiredAlone ==
  ASSUME AllInv, NEW r \in Retries, RetryExpired(r)
  PROVE  RetriesAlone'
<1> DEFINE e == retries[r].req
<1>1. /\ retries[r].waits > 0
      /\ retries' = [retries EXCEPT ![r].waits = @ - 1, ![r].req = NoEvent]
  BY DEF RetryExpired
<1>2. /\ sess \in [Sessions -> SessionState] /\ retries \in [Retries -> RetryState]
      /\ RetriesAlone /\ e \in Events \cup {NoEvent}
  BY DEF AllInv, Inv, SessionsInv, RetriesInv, SteadyInv, RetryState
<1>3. /\ \A t \in Sessions : ~Handles(t, r)
      /\ retries'[r].waits = 0
      /\ \A q \in Retries : q # r => retries'[q] = retries[q]
  <2>1. /\ retries[r].waits \in Nat /\ retries[r].waits <= 1 /\ retries[r] \in RetryState
        /\ \A t \in Sessions : ~Handles(t, r)
    BY <1>1, <1>2 DEF RetryState, RetriesAlone, RetryAlone
  <2>5. retries[r].waits = 1
    BY <1>1, <2>1
  <2>2. retries'[r].waits = retries[r].waits - 1
    BY <1>1, <1>2, <2>1 DEF RetryState
  <2>3. \A q \in Retries : q # r => retries'[q] = retries[q]
    BY <1>1, <1>2
  <2>4. QED
    BY <2>1, <2>2, <2>3, <2>5
<1>4. ASSUME NEW s \in Sessions,
             \A t \in Sessions, q \in Retries :
               Handles(t, q)' => Handles(t, q) \/ (t = s /\ q = r)
      PROVE  RetriesAlone'
  <2> SUFFICES ASSUME NEW q \in Retries PROVE RetryAlone(q)'
    BY DEF RetriesAlone
  <2>1. RetryAlone(q)
    BY <1>2 DEF RetriesAlone
  <2>2. CASE q = r
    BY <1>3, <1>4, <2>2 DEF RetryAlone
  <2>3. CASE q # r
    BY <1>3, <1>4, <2>1, <2>3 DEF RetryAlone
  <2>4. QED
    BY <2>2, <2>3
<1>5. ASSUME NEW s \in Sessions, AcquirePooled(s),
             sess' = [sess EXCEPT ![s] = Execute([sess[s] EXCEPT !.req = e])]
      PROVE  RetriesAlone'
  <2> DEFINE x == [sess[s] EXCEPT !.req = e]
             y == Execute(x)
  <2>1. x \in SessionState /\ x.conn # "InUse" /\ x.handler = sess[s].handler
    BY <1>2, <1>5 DEF SessionState, AcquirePooled, InUse
  <2>2. y.handler = sess[s].handler
    BY <2>1, ExecuteFacts
  <2>3. sess' = [sess EXCEPT ![s] = y]
    BY <1>5
  <2> HIDE DEF y
  <2>4. Pooled' = Pooled
    BY <1>5 DEF AcquirePooled, Pooled
  <2>5. \A t \in Sessions, q \in Retries : Handles(t, q)' => Handles(t, q)
    BY <1>2, <2>2, <2>3, <2>4, HandlerStays
  <2>6. QED
    BY <1>4, <2>5
<1>6. ASSUME NEW s \in Sessions, AcquireNew(s),
             sess' = [sess EXCEPT ![s] = Execute(NewSession(r, e))]
      PROVE  RetriesAlone'
  <2> DEFINE x == NewSession(r, e)
             y == Execute(x)
  <2>1. x \in SessionState /\ x.conn # "InUse" /\ x.handler = r
    BY <1>2, NewSessionType DEF NewSession
  <2>2. y.handler = r
    BY <2>1, ExecuteFacts
  <2>3. sess' = [sess EXCEPT ![s] = y]
    BY <1>6
  <2> HIDE DEF y
  <2>4. Pooled' = Pooled \cup {s}
    BY <1>6, AcquireNewFacts DEF AllInv, Inv
  <2>5. \A t \in Sessions, q \in Retries :
          Handles(t, q)' => Handles(t, q) \/ (t = s /\ q = r)
    BY <1>2, <2>2, <2>3, <2>4 DEF Handles
  <2>6. QED
    BY <1>4, <2>5
<1>7. ASSUME AcquireNone, UNCHANGED sess
      PROVE  RetriesAlone'
  <2>1. \A t \in Sessions, q \in Retries : Handles(t, q)' => Handles(t, q)
    BY <1>7 DEF Handles, Pooled, AcquireNone
  <2> SUFFICES ASSUME NEW q \in Retries PROVE RetryAlone(q)'
    BY DEF RetriesAlone
  <2>2. RetryAlone(q)
    BY <1>2 DEF RetriesAlone
  <2>3. QED
    BY <1>3, <2>1, <2>2 DEF RetryAlone
<1>8. QED
  BY <1>5, <1>6, <1>7 DEF RetryExpired

LEMMA RetryExpiredSteady ==
  ASSUME AllInv, NEW r \in Retries, RetryExpired(r)
  PROVE  SteadyInv'
<1> DEFINE e == retries[r].req
<1>1. /\ retries[r].waits > 0 /\ UNCHANGED <<sent, answered>>
      /\ retries' = [retries EXCEPT ![r].waits = @ - 1, ![r].req = NoEvent]
  BY DEF RetryExpired
<1>2. sess \in [Sessions -> SessionState] /\ retries \in [Retries -> RetryState]
  BY DEF AllInv, Inv, SessionsInv, RetriesInv
<1>3. e \in Events /\ e \notin answered
  BY <1>1, <1>2 DEF RetryState, AllInv, SteadyInv, RetriesSteady, AnsweredInv, AnsweredOnce,
                   Active
<1>4. \A q \in Retries : retries'[q].waits > 0 => q # r /\ retries'[q] = retries[q]
  <2>1. retries[r].waits \in Nat /\ retries[r].waits <= 1 /\ retries[r] \in RetryState
    BY <1>2 DEF RetryState, AllInv, SteadyInv, RetriesAlone, RetryAlone
  <2>2. retries'[r].waits = retries[r].waits - 1
    BY <1>1, <1>2, <2>1 DEF RetryState
  <2>3. \A q \in Retries : q # r => retries'[q] = retries[q]
    BY <1>1, <1>2
  <2>4. QED
    BY <2>1, <2>2, <2>3
<1>5. RetriesSteady'
  BY <1>4 DEF AllInv, SteadyInv, RetriesSteady
<1>6. ASSUME NEW s \in Sessions, NEW y, sess' = [sess EXCEPT ![s] = y], y.req = e,
             UNCHANGED undefined
      PROVE  AnsweredInv' /\ CrowdInv'
  <2>1. \A f \in answered : Active(f)' => Active(f)
    BY <1>2, <1>3, <1>4, <1>6 DEF Active
  <2>2. CrowdInv'
    BY <1>1, <1>6, CrowdKeeps DEF AllInv, SteadyInv
  <2>3. QED
    BY <1>1, <2>1, <2>2, AnsweredKeeps DEF AllInv, SteadyInv
<1>7. ASSUME NEW s \in Sessions, AcquirePooled(s), UNCHANGED undefined,
             sess' = [sess EXCEPT ![s] = Execute([sess[s] EXCEPT !.req = e])]
      PROVE  SessionsSteady' /\ AnsweredInv' /\ CrowdInv'
  <2> DEFINE y == Execute([sess[s] EXCEPT !.req = e])
  <2>1. Pooled' = Pooled /\ s \in Pooled /\ sess[s].conn # "InUse"
    BY <1>7 DEF AcquirePooled, Pooled, InUse
  <2>2. sess[s] \in SessionState /\ Live(sess[s]) /\ Honest(sess[s])
    BY <1>2, <2>1, LiveOwns, SlotsAreHonest DEF AllInv, Inv, SessionsInv
  <2>3. Live(y)
    BY <1>3, <2>1, <2>2, ExecuteAgain
  <2>4. y.req = e
    <3>1. [sess[s] EXCEPT !.req = e] \in SessionState
          /\ [sess[s] EXCEPT !.req = e].conn # "InUse"
          /\ [sess[s] EXCEPT !.req = e].req = e
      BY <1>3, <2>1, <2>2 DEF SessionState
    <3>2. QED
      BY <3>1, ExecuteFacts
  <2> HIDE DEF y
  <2>5. sess' = [sess EXCEPT ![s] = y]
    BY <1>7 DEF y
  <2>6. SessionsSteady'
    BY <1>2, <2>1, <2>3, <2>5, OneSessionSteady DEF AllInv, SteadyInv
  <2>7. QED
    BY <1>6, <1>7, <2>4, <2>5, <2>6
<1>8. ASSUME NEW s \in Sessions, AcquireNew(s), UNCHANGED undefined,
             sess' = [sess EXCEPT ![s] = Execute(NewSession(r, e))]
      PROVE  SessionsSteady' /\ AnsweredInv' /\ CrowdInv'
  <2> DEFINE x == NewSession(r, e)
  <2>1. Pooled' = Pooled \cup {s}
    BY <1>8, AcquireNewFacts DEF AllInv, Inv
  <2>2. x \in SessionState /\ x.conn # "InUse" /\ x.req = e /\ Live(Execute(x))
    BY <1>3, NewSessionType, ExecuteNew DEF NewSession
  <2>3. sess' = [sess EXCEPT ![s] = Execute(x)]
    BY <1>8
  <2> HIDE DEF x
  <2>4. Execute(x).req = e
    BY <2>2, ExecuteFacts
  <2>5. SessionsSteady'
    BY <1>2, <2>1, <2>2, <2>3, OneSessionSteady DEF AllInv, SteadyInv
  <2>6. QED
    BY <1>6, <1>8, <2>3, <2>4, <2>5
<1>9. ASSUME AcquireNone, UNCHANGED sess
      PROVE  SessionsSteady' /\ AnsweredInv' /\ CrowdInv'
  <2>1. SessionsSteady'
    BY <1>9 DEF AcquireNone, AllInv, SteadyInv, SessionsSteady, Pooled
  <2>2. \A f \in answered : Active(f)' => Active(f)
    BY <1>4, <1>9 DEF Active
  <2>3. CrowdInv'
    BY <1>1, <1>9, Crowd DEF AllInv, SteadyInv, CrowdInv, NullNeedsCrowd
  <2>4. QED
    BY <1>1, <2>1, <2>2, <2>3, AnsweredKeeps DEF AllInv, SteadyInv
<1>10. undefined' # "dangling"
  BY DEF RetryExpired, AllInv, SteadyInv
<1>11. RetriesAlone'
  BY RetryExpiredAlone
<1>12. QED
  BY <1>5, <1>7, <1>8, <1>9, <1>10, <1>11 DEF RetryExpired, SteadyInv

LEMMA ReadAnswerSteady ==
  ASSUME AllInv, PeerSteady, NEW s \in Sessions, ReadAnswer(s)
  PROVE  SteadyInv'
<1> DEFINE e == sess[s].req
           y == Answered(sess[s], TRUE)
<1>1. /\ sess[s].op = "read" /\ UNCHANGED <<pool, retries, sent, undefined>>
      /\ answered' = answered \cup ({e} \cap Events)
      /\ sess' = [sess EXCEPT ![s] = Kept(s, y)]
  BY SubscriberAssumption DEF ReadAnswer, PeerSteady, SubscriberAssumption
<1>2. sess \in [Sessions -> SessionState] /\ s \in Pooled /\ Pooled' = Pooled
  BY <1>1, BusyPooled DEF AllInv, Inv, SessionsInv, Pooled
<1>3. Live(sess[s]) /\ e \in sent /\ e \in Events /\ SessionOwns(s, e)
  BY <1>2, LiveOwns
<1>4. /\ Live(y) /\ y.req = e /\ y.op = "none" /\ y \in SessionState
      /\ y.handler = sess[s].handler
  BY <1>1, <1>2, <1>3, AnsweredLive, AnsweredFacts
<1> HIDE DEF y
<1>5. sess' = [sess EXCEPT ![s] = y]
  BY <1>1, <1>2, <1>4, KeptFacts
<1>6. SessionsSteady'
  BY <1>2, <1>4, <1>5, OneSessionSteady DEF AllInv, SteadyInv
<1>7. AnsweredInv'
  <2>1. answered \subseteq sent /\ \A f \in answered : ~Active(f)
    BY DEF AllInv, SteadyInv, AnsweredInv, AnsweredOnce
  <2>2. \A f : Active(f)' => Active(f)
    BY <1>1, <1>2, <1>4, <1>5 DEF Active
  <2>3. ASSUME NEW f, f = e
        PROVE  ~Active(f)'
    <3>1. OneOwner(f) /\ SessionOwns(s, f)
      BY <1>3, <2>3 DEF AllInv, OwnersInv
    <3>2. \A t \in Sessions : sess[t].op # "none" /\ sess[t].req = f => t = s
      BY <3>1 DEF OneOwner, SessionOwns, Exists
    <3>3. \A q \in Retries : ~(retries[q].waits > 0 /\ retries[q].req = f)
      BY <3>1 DEF OneOwner, RetryOwns
    <3>4. QED
      BY <1>1, <1>2, <1>4, <1>5, <3>2, <3>3 DEF Active
  <2>4. answered' = answered \cup {e}
    BY <1>1, <1>3
  <2>5. QED
    BY <1>1, <1>3, <2>1, <2>2, <2>3, <2>4 DEF AnsweredInv, AnsweredOnce
<1>8. RetriesSteady' /\ undefined' # "dangling" /\ CrowdInv'
  BY <1>1 DEF AllInv, SteadyInv, RetriesSteady, CrowdInv, NullNeedsCrowd
<1>9. RetriesAlone'
  <2>1. \A t \in Sessions, r \in Retries : Handles(t, r)' => Handles(t, r)
    BY <1>2, <1>4, <1>5, HandlerStays
  <2>2. QED
    BY <1>1, <2>1, AloneKeeps DEF AllInv, SteadyInv
<1>10. QED
  BY <1>6, <1>7, <1>8, <1>9 DEF SteadyInv

\* A session fails, and the RetryRequest that is to answer it starts to wait.
LEMMA OperationFailedAlone ==
  ASSUME AllInv, NEW s \in Sessions, OperationFailed(s)
  PROVE  RetriesAlone'
<1> DEFINE x == Failed(sess[s])
<1>1. /\ sess[s].op # "none" /\ Release(s)
      /\ HandleResponse(s, x) \/ HandleRetryResponse(s, x)
  BY DEF OperationFailed, Fail
<1>2. /\ sess \in [Sessions -> SessionState] /\ retries \in [Retries -> RetryState]
      /\ sess[s] \in SessionState /\ s \in Pooled /\ RetriesAlone
  BY <1>1, BusyPooled DEF AllInv, Inv, SessionsInv, RetriesInv, SteadyInv
<1>3. Pooled' \ {s} = Pooled \ {s} /\ s \notin Pooled'
  BY <1>1, ReleaseOne DEF AllInv, Inv
<1>4. /\ x \in SessionState /\ x.handler = sess[s].handler /\ x.req \in Events \cup {NoEvent}
      /\ x.handler \in Retries \cup {NoRetry}
  BY <1>2, FailedType DEF SessionState
<1>5. \E y : sess' = [sess EXCEPT ![s] = y]
  BY <1>1 DEF HandleResponse, HandleRetryResponse
<1>6. \A t \in Sessions, r \in Retries : Handles(t, r)' => Handles(t, r) /\ t # s
  BY <1>2, <1>3, <1>5 DEF Handles
<1>7. ASSUME UNCHANGED retries
      PROVE  RetriesAlone'
  BY <1>2, <1>6, <1>7, AloneKeeps
<1>8. ASSUME NEW r \in Retries, NEW q \in RetryState, NEW late \in BOOLEAN, q.waits = 0,
             retries' = [retries EXCEPT ![r] = WaitAndRetry(q, late)],
             \A t \in Sessions : Handles(t, r) => t = s
      PROVE  RetriesAlone'
  <2> SUFFICES ASSUME NEW p \in Retries PROVE RetryAlone(p)'
    BY DEF RetriesAlone
  <2>1. RetryAlone(p)
    BY <1>2 DEF RetriesAlone
  <2>2. CASE p = r
    <3>1. retries'[r] = WaitAndRetry(q, late)
      BY <1>2, <1>8
    <3>2. retries'[r].waits <= 1
      BY <1>8, <3>1, WaitAndRetryType
    <3>3. \A t \in Sessions : ~Handles(t, r)'
      BY <1>6, <1>8
    <3>4. QED
      BY <2>2, <3>2, <3>3 DEF RetryAlone
  <2>3. CASE p # r
    <3>1. retries'[p] = retries[p]
      BY <1>2, <1>8, <2>3
    <3>2. QED
      BY <1>6, <2>1, <3>1 DEF RetryAlone
  <2>4. QED
    BY <2>2, <2>3
<1>9. ASSUME HandleResponse(s, x), ~UNCHANGED retries
      PROVE  RetriesAlone'
  <2> DEFINE q == [NoRequest EXCEPT !.req = x.req]
  <2>1. PICK r \in Retries : RetryUnused(r) /\ retries' = [retries EXCEPT ![r] = WaitAndRetry(q, FALSE)]
    BY <1>9 DEF HandleResponse
  <2>2. q \in RetryState /\ q.waits = 0
    BY <1>4 DEF NoRequest, RetryState
  <2> HIDE DEF q
  <2>3. \A t \in Sessions : ~Handles(t, r)
    BY <2>1 DEF RetryUnused, Handles, Exists
  <2>4. QED
    BY <1>8, <2>1, <2>2, <2>3
<1>10. ASSUME HandleRetryResponse(s, x)
       PROVE  RetriesAlone'
  <2> DEFINE r == x.handler
             q == [retries[r] EXCEPT !.req = x.req]
  <2>1. r \in Retries
    BY <1>4, <1>10 DEF HandleRetryResponse
  <2>2. PICK late \in BOOLEAN : retries' = [retries EXCEPT ![r] = WaitAndRetry(q, late)]
    BY <1>10 DEF HandleRetryResponse
  <2>3. Handles(s, r) /\ RetryAlone(r)
    BY <1>2, <1>4, <2>1 DEF Handles, RetriesAlone
  <2>4. q \in RetryState /\ q.waits = retries[r].waits /\ retries[r].waits \in Nat
    BY <1>2, <1>4, <2>1 DEF RetryState
  <2> HIDE DEF q, r
  <2>5. q.waits = 0 /\ \A t \in Sessions : Handles(t, r) => t = s
    BY <2>3, <2>4 DEF RetryAlone
  <2>6. QED
    BY <1>8, <2>1, <2>2, <2>4, <2>5
<1>11. QED
  BY <1>1, <1>7, <1>9, <1>10

\* An operation fails: the request moves into a RetryRequest, or no retry is
\* wanted any more.
LEMMA OperationFailedSteady ==
  ASSUME AllInv, NEW s \in Sessions, OperationFailed(s)
  PROVE  SteadyInv'
<1> DEFINE e == sess[s].req
           x == Failed(sess[s])
<1>1. /\ sess[s].op # "none" /\ Release(s) /\ UNCHANGED <<sent, answered, undefined>>
      /\ HandleResponse(s, x) \/ HandleRetryResponse(s, x)
  BY DEF OperationFailed, Fail
<1>2. /\ sess \in [Sessions -> SessionState] /\ retries \in [Retries -> RetryState]
      /\ sess[s] \in SessionState /\ s \in Pooled
  BY <1>1, BusyPooled DEF AllInv, Inv, SessionsInv, RetriesInv
<1>3. Live(sess[s]) /\ e \in Events
  BY <1>2, LiveOwns
<1>4. /\ x \in SessionState /\ x.req = e /\ x.handler \in Retries \cup {NoRetry}
      /\ x = [x EXCEPT !.req = e]
  BY <1>2, FailedType DEF SessionState
<1>5. Pooled' \ {s} = Pooled \ {s} /\ s \notin Pooled'
  BY <1>1, ReleaseOne DEF AllInv, Inv
<1>6. \A f \in Events \cup {NoEvent} : Gone(Kept(s, ShutDown([x EXCEPT !.req = f])))
  BY <1>2, <1>3, <1>5, FailedGone
<1>7. \E f \in Events \cup {NoEvent} :
        sess' = [sess EXCEPT ![s] = Kept(s, ShutDown([x EXCEPT !.req = f]))]
  BY <1>1, <1>3, <1>4 DEF HandleResponse, HandleRetryResponse
<1>8. PICK y : Gone(y) /\ sess' = [sess EXCEPT ![s] = y]
  BY <1>6, <1>7
<1>9. SessionsSteady'
  BY <1>2, <1>5, <1>8, OneSessionSteady DEF AllInv, SteadyInv
<1>10. \/ UNCHANGED retries
       \/ \E r \in Retries, q \in RetryState :
            q.req = e /\ retries' = [retries EXCEPT ![r] = q]
  <2>1. ASSUME NEW r \in Retries, NEW q \in RetryState, q.req = e,
               NEW late \in BOOLEAN,
               retries' = [retries EXCEPT ![r] = WaitAndRetry(q, late)]
        PROVE  \E p \in RetryState : p.req = e /\ retries' = [retries EXCEPT ![r] = p]
    <3>1. WaitAndRetry(q, late) \in RetryState /\ WaitAndRetry(q, late).req = e
      BY <2>1, WaitAndRetryType
    <3>2. QED
      BY <2>1, <3>1
  <2>2. ASSUME HandleResponse(s, x), ~UNCHANGED retries
        PROVE  \E r \in Retries, q \in RetryState :
                 q.req = e /\ retries' = [retries EXCEPT ![r] = q]
    <3>1. [NoRequest EXCEPT !.req = x.req] \in RetryState
          /\ [NoRequest EXCEPT !.req = x.req].req = e
      BY <1>3, <1>4 DEF NoRequest, RetryState
    <3>2. QED
      BY <2>1, <2>2, <3>1 DEF HandleResponse
  <2>3. ASSUME HandleRetryResponse(s, x)
        PROVE  \E r \in Retries, q \in RetryState :
                 q.req = e /\ retries' = [retries EXCEPT ![r] = q]
    <3> DEFINE r == x.handler
               q == [retries[r] EXCEPT !.req = x.req]
    <3>1. /\ r \in Retries
          /\ \E late \in BOOLEAN : retries' = [retries EXCEPT ![r] = WaitAndRetry(q, late)]
      BY <1>4, <2>3 DEF HandleRetryResponse
    <3>2. q \in RetryState /\ q.req = e
      BY <1>2, <1>3, <1>4, <3>1 DEF RetryState
    <3> HIDE DEF q, r
    <3>3. QED
      BY <2>1, <3>1, <3>2
  <2>4. QED
    BY <1>1, <2>2, <2>3
<1>11. \A r \in Retries : retries'[r].waits > 0 => retries'[r] = retries[r] \/ retries'[r].req = e
  BY <1>2, <1>10
<1>12. RetriesSteady'
  BY <1>3, <1>11, SessionAssumption DEF AllInv, SteadyInv, RetriesSteady, SessionAssumption
<1>13. AnsweredInv'
  <2>1. \A t \in Sessions : sess'[t].op # "none" => sess'[t] = sess[t]
    BY <1>2, <1>8 DEF Gone
  <2>2. \A f : Active(f)' => Active(f)
    BY <1>1, <1>11, <2>1 DEF Active
  <2>3. QED
    BY <1>1, <2>2, AnsweredKeeps DEF AllInv, SteadyInv
<1>14. CrowdInv' /\ undefined' # "dangling"
  BY <1>1 DEF AllInv, SteadyInv, CrowdInv, NullNeedsCrowd
<1>15. RetriesAlone'
  BY OperationFailedAlone
<1>16. QED
  BY <1>9, <1>12, <1>13, <1>14, <1>15 DEF SteadyInv

\* on_error is never called with an error.
LEMMA MonitorFailedNever ==
  ASSUME AllInv, NEW s \in Sessions
  PROVE  ~MonitorFailed(s)
BY DEF AllInv, SteadyInv, SessionsSteady, Live, Gone, MonitorFailed

LEMMA SessionStepSteady ==
  ASSUME AllInv, PeerSteady, NEW s \in Sessions, SessionStep(s)
  PROVE  SteadyInv'
<1>1. /\ sess \in [Sessions -> SessionState] /\ sess[s] \in SessionState
      /\ s \in Pooled => Honest(sess[s])
      /\ IF s \in Pooled THEN Live(sess[s]) ELSE Gone(sess[s])
  BY SlotsAreHonest DEF AllInv, Inv, SessionsInv, SteadyInv, SessionsSteady
<1>2. UNCHANGED <<pool, retries, sent, answered, undefined>>
  BY DEF SessionStep, others
<1>3. \E y : /\ sess' = [sess EXCEPT ![s] = y]
             /\ IF s \in Pooled THEN Live(y) ELSE Gone(y)
             /\ y.req = sess[s].req /\ (y.op # "none" => sess[s].op # "none")
             /\ y.handler = sess[s].handler
  <2>1. CASE StepForward(s)
    <3>1. /\ sess' = [sess EXCEPT ![s] = Advance(sess[s])]
          /\ sess[s].op \in {"resolve", "connect", "handshake", "write"}
      BY <2>1 DEF StepForward
    <3>2. s \in Pooled
      BY <3>1, BusyPooled
    <3>3. /\ Live(Advance(sess[s])) /\ Advance(sess[s]).req = sess[s].req
          /\ Advance(sess[s]).handler = sess[s].handler
      BY <1>1, <3>1, <3>2, AdvanceLive, AdvanceFacts
    <3>4. QED
      BY <3>1, <3>2, <3>3
  <2>2. CASE ShutdownDone(s)
    <3>1. sess[s].shutdowns > 0
      BY <2>2 DEF ShutdownDone
    <3>2. s \notin Pooled /\ Gone(sess[s])
      BY <1>1, <3>1 DEF Live
    <3> DEFINE x == [sess[s] EXCEPT !.shutdowns = sess[s].shutdowns - 1]
    <3>3. PICK late \in BOOLEAN : sess' = [sess EXCEPT ![s] = Closed(x, late)]
      BY <2>2 DEF ShutdownDone
    <3>4. Gone(Closed(x, late))
      BY <1>1, <3>1, <3>2, ClosedGone
    <3>5. sess[s].shutdowns - 1 \in Nat
      BY <1>1, <3>1 DEF SessionState
    <3>6. /\ x \in SessionState /\ x.req = sess[s].req /\ x.op = sess[s].op
          /\ x.handler = sess[s].handler
      BY <1>1, <3>5 DEF SessionState
    <3> HIDE DEF x
    <3>7. /\ Closed(x, late).req = sess[s].req /\ Closed(x, late).op = sess[s].op
          /\ Closed(x, late).handler = sess[s].handler
      BY <3>6, ClosedFacts
    <3>8. QED
      BY <3>2, <3>3, <3>4, <3>7
  <2>3. CASE MonitorReadable(s)
    <3> DEFINE x == [sess[s] EXCEPT !.armed = FALSE]
    <3>1. /\ x.req = sess[s].req /\ x.op = sess[s].op /\ x.handler = sess[s].handler
          /\ IF s \in Pooled THEN Live(x) ELSE Gone(x)
      BY <1>1 DEF SessionState, Live, Gone
    <3>2. sess' = [sess EXCEPT ![s] = x]
      BY <2>3 DEF MonitorReadable
    <3> HIDE DEF x
    <3>3. QED
      BY <3>1, <3>2
  <2>4. QED
    BY <2>1, <2>2, <2>3 DEF SessionStep, PeerSteady
<1>4. PICK y : /\ sess' = [sess EXCEPT ![s] = y]
               /\ IF s \in Pooled THEN Live(y) ELSE Gone(y)
               /\ y.req = sess[s].req /\ (y.op # "none" => sess[s].op # "none")
               /\ y.handler = sess[s].handler
  BY <1>3
<1>5. Pooled' = Pooled
  BY <1>2 DEF Pooled
<1>6. SessionsSteady'
  BY <1>1, <1>4, <1>5, OneSessionSteady DEF AllInv, SteadyInv
<1>7. AnsweredInv'
  <2>1. \A f : Active(f)' => Active(f)
    BY <1>1, <1>2, <1>4 DEF Active
  <2>2. QED
    BY <1>2, <2>1, AnsweredKeeps DEF AllInv, SteadyInv
<1>8. RetriesSteady' /\ undefined' # "dangling" /\ CrowdInv'
  BY <1>2 DEF AllInv, SteadyInv, RetriesSteady, CrowdInv, NullNeedsCrowd
<1>9. RetriesAlone'
  <2>1. \A t \in Sessions, r \in Retries : Handles(t, r)' => Handles(t, r)
    BY <1>1, <1>4, <1>5, HandlerStays
  <2>2. QED
    BY <1>2, <2>1, AloneKeeps DEF AllInv, SteadyInv
<1>10. QED
  BY <1>6, <1>7, <1>8, <1>9 DEF SteadyInv

-----------------------------------------------------------------------------
(* The theorems.                                                           *)

LEMMA SteadyInit == Init => SteadyInv
<1> SUFFICES ASSUME Init PROVE SteadyInv
  OBVIOUS
<1>1. DOMAIN pool = {}
  <2>1. pool = <<>>
    BY DEF Init
  <2>2. QED
    BY <2>1
<1>2. SessionsSteady
  BY <1>1 DEF Init, SessionsSteady, Pooled, NewSession, Gone
<1>3. RetriesSteady /\ RetriesAlone
  BY <1>1 DEF Init, RetriesSteady, RetriesAlone, RetryAlone, Handles, Pooled, NoRequest
<1>4. CrowdInv
  BY FS_EmptySet DEF Init, CrowdInv, NullNeedsCrowd
<1>5. QED
  BY <1>2, <1>3, <1>4 DEF Init, SteadyInv, AnsweredInv, AnsweredOnce

LEMMA SteadyNext ==
  ASSUME PeerSteady
  PROVE  AllInv /\ [Next]_vars => AllInv'
<1> SUFFICES ASSUME AllInv, [Next]_vars PROVE AllInv'
  OBVIOUS
<1>1. Inv' /\ OwnersInv'
  BY NextInv, OwnersNext DEF AllInv
<1>2. SteadyInv'
  <2>1. CASE \E e \in Events : SendEvent(e)
    BY <2>1, SendEventSteady
  <2>2. CASE \E r \in Retries : RetryExpired(r)
    BY <2>2, RetryExpiredSteady
  <2>3. CASE \E s \in Sessions : ReadAnswer(s)
    BY <2>3, ReadAnswerSteady
  <2>4. CASE \E s \in Sessions : OperationFailed(s)
    BY <2>4, OperationFailedSteady
  <2>5. CASE \E s \in Sessions : SessionStep(s)
    BY <2>5, SessionStepSteady
  <2>6. CASE UNCHANGED vars
    BY <2>6 DEF vars, AllInv, SteadyInv, SessionsSteady, Pooled, RetriesSteady, RetriesAlone,
               RetryAlone, Handles,
               AnsweredInv, AnsweredOnce, Active, CrowdInv, NullNeedsCrowd
  <2>7. QED
    BY <2>1, <2>2, <2>3, <2>4, <2>5, <2>6, MonitorFailedNever DEF Next
<1>3. QED
  BY <1>1, <1>2 DEF AllInv

\* Under a steady peer, every handler keeps the sessions of the pool live and
\* their requests their own.
THEOREM SteadyInvariance ==
  ASSUME PeerSteady
  PROVE  Spec => []SteadyInv
<1>1. Init => AllInv
  BY InitInv, OwnersInit, SteadyInit DEF AllInv
<1>2. AllInv /\ [Next]_vars => AllInv'
  BY SteadyNext
<1>3. AllInv => SteadyInv
  BY DEF AllInv
<1>4. QED
  BY <1>1, <1>2, <1>3, PTL DEF Spec

\* A failure is reported once to the handlers of a request (the error handler of
\* setErrorHandler): no RetryRequest waits with a request that was moved from, and
\* no handler runs on a session that is gone.
THEOREM FailuresReportedOnce ==
  ASSUME PeerSteady
  PROVE  Spec => []FailsOnce
<1>1. SteadyInv => FailsOnce
  BY DEF SteadyInv, RetriesSteady, FailsOnce
<1>2. QED
  BY <1>1, SteadyInvariance, PTL

\* An event whose answer on_read has read is not sent again, by no retry and no
\* session that keeps its request.
THEOREM AnsweredEventsRest ==
  ASSUME PeerSteady
  PROVE  Spec => []AnsweredOnce
<1>1. SteadyInv => AnsweredOnce
  BY DEF SteadyInv, AnsweredInv
<1>2. QED
  BY <1>1, SteadyInvariance, PTL

\* retryFunction gets no session from acquire only when more events were given to
\* sendEvent than the pool has sessions: every session then carries an event of
\* its own, none of which is the one to be retried.
THEOREM NullOnlyInCrowd ==
  ASSUME PeerSteady
  PROVE  Spec => []NullNeedsCrowd
<1>1. SteadyInv => NullNeedsCrowd
  BY DEF SteadyInv, CrowdInv
<1>2. QED
  BY <1>1, SteadyInvariance, PTL
=============================================================================
