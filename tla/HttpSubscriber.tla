--------------------------- MODULE HttpSubscriber ---------------------------
(***************************************************************************)
(* Delivery of events to one subscriber                                    *)
(* (redfish_event/http/http_subscriber.hpp:11-231) over its pool of        *)
(* sessions, with the retries of requests that failed.                     *)
(*                                                                         *)
(* HttpSession::on_read does not call the response handler (the call is    *)
(* commented out, http_client.hpp:633-637), so handleResponse and          *)
(* handleRetryResponse only ever see errors: processResponse, sendNext and *)
(* the success handler are unreachable, and what eventBuffer holds stays.  *)
(*                                                                         *)
(* Undefined behaviour: a retry that finds the pool exhausted calls run on *)
(* a null session, and on_error of a stream whose session is gone uses the *)
(* dead session through the raw pointer of setErrorHandler.  The variable  *)
(* undefined records which happened; nothing is said of what comes after.  *)
(***************************************************************************)
EXTENDS Integers, HttpClientPool

CONSTANTS
    Policies,       \* values of RetryPolicy::maxRetries; negative: retry for ever
    BufferSize,     \* capacity of eventBuffer
    Timeouts,       \* environment: deadlines of connections may pass
    PeerCloses      \* environment: answers may ask to close the connection

ASSUME SubscriberAssumption ==
    /\ Policies \subseteq Int
    /\ BufferSize \in Nat \ {0}
    /\ Timeouts \in BOOLEAN
    /\ PeerCloses \in BOOLEAN

VARIABLES
    maxRetries, \* the policy given to withPolicy, before any event is sent
    retries,    \* RetryRequest objects: retryCount, the request kept, and how many
                \* waits of the timer are pending or have their handler queued
    buffer,     \* eventBuffer
    sent,       \* events given to sendEvent so far
    answered,   \* events of which the peer's answer was read
    undefined   \* "none", "nullSession" or "dangling"

others == <<maxRetries, pool, retries, buffer, sent, answered, undefined>>
vars == <<maxRetries, sess, pool, retries, buffer, sent, answered, undefined>>

RetryState == [count : Nat, req : Events \cup {NoEvent}, waits : Nat]

NoRequest == [count |-> 0, req |-> NoEvent, waits |-> 0]

Init ==
    /\ maxRetries \in Policies
    /\ sess = [s \in Sessions |-> NewSession(NoRetry, NoEvent)]
    /\ pool = <<>>
    /\ retries = [r \in Retries |-> NoRequest]
    /\ buffer = <<>>
    /\ sent = {}
    /\ answered = {}
    /\ undefined = "none"

----------------------------------------------------------------------------
\* Variant: one retry too many.
RetryNeededOneMore(count) == maxRetries < 0 \/ count <= maxRetries

\* RetryPolicy::retryNeeded.  The policy of the subscriber itself, which
\* retryIfNeeded asks, keeps the count 0 for ever.
RetryNeeded(count) == maxRetries < 0 \/ count < maxRetries

\* A RetryRequest is kept alive by its timer and by the handler it is bound to.
RetryUnused(r) ==
    /\ retries[r].waits = 0
    /\ \A s \in Sessions : Exists(s) => sess[s].handler # r

\* boost::circular_buffer::push_back: a full buffer loses its oldest element.
PushBack(b, e) == Append(IF Len(b) = BufferSize THEN Tail(b) ELSE b, e)

\* Variant: the count is not incremented.
WaitUncounted(q, late) ==
    IF ~RetryNeeded(q.count) THEN q
    ELSE [q EXCEPT !.waits = IF @ = 0 \/ late THEN @ + 1 ELSE @]

\* waitAndRetry on the retry state q.  Arming the timer again cancels the wait
\* that is pending, if one is; those that have ended (all of them, if late) have
\* their handlers queued, and run as well.
WaitAndRetry(q, late) ==
    IF ~RetryNeeded(q.count) THEN q
    ELSE [q EXCEPT !.count = @ + 1,
                   !.waits = IF @ = 0 \/ late THEN @ + 1 ELSE @]

\* Variant: the request is copied to the RetryRequest, and stays in the session.
RetryWithCopy(s, x) ==
    /\ x.handler = NoRetry
    /\ sess' = [sess EXCEPT ![s] = Kept(s, ShutDown(x))]
    /\ \/ /\ RetryNeeded(0)
          /\ \E r \in Retries :
                /\ RetryUnused(r)
                /\ retries' = [retries EXCEPT ![r] =
                                  WaitAndRetry([NoRequest EXCEPT !.req = x.req], FALSE)]
       \/ ~RetryNeeded(0) /\ UNCHANGED retries

\* handleResponse with an error: retryIfNeeded moves the request out of the
\* session into a new RetryRequest - or leaves it, if no retry is wanted.
HandleResponse(s, x) ==
    /\ x.handler = NoRetry
    /\ \/ /\ RetryNeeded(0)
          /\ \E r \in Retries :
                /\ RetryUnused(r)
                /\ retries' = [retries EXCEPT ![r] =
                                  WaitAndRetry([NoRequest EXCEPT !.req = x.req], FALSE)]
          /\ sess' = [sess EXCEPT ![s] = Kept(s, ShutDown([x EXCEPT !.req = NoEvent]))]
       \/ /\ ~RetryNeeded(0)
          /\ sess' = [sess EXCEPT ![s] = Kept(s, ShutDown(x))]
          /\ UNCHANGED retries

\* Variant: the request goes back as a copy, and stays in the session.
RetryAgainWithCopy(s, x) ==
    /\ x.handler # NoRetry
    /\ \E late \in BOOLEAN :
          retries' = [retries EXCEPT ![x.handler] = WaitAndRetry([@ EXCEPT !.req = x.req], late)]
    /\ sess' = [sess EXCEPT ![s] = Kept(s, ShutDown(x))]

\* handleRetryResponse with an error: the request goes back to its RetryRequest.
HandleRetryResponse(s, x) ==
    /\ x.handler # NoRetry
    /\ \E late \in BOOLEAN :
          retries' = [retries EXCEPT ![x.handler] = WaitAndRetry([@ EXCEPT !.req = x.req], late)]
    /\ sess' = [sess EXCEPT ![s] = Kept(s, ShutDown([x EXCEPT !.req = NoEvent]))]

\* The error handler of the stream of s (setErrorHandler), in the state x of s:
\* the response handler, which releases s, and then shutDown.
Fail(s, x) ==
    /\ Release(s)
    /\ HandleResponse(s, x) \/ HandleRetryResponse(s, x)
    /\ UNCHANGED <<maxRetries, buffer, sent, answered>>

----------------------------------------------------------------------------
(* The steps. *)

\* Variant: a session of the pool is run without setting its body.
SendEventStale(e) ==
    /\ e \notin sent
    /\ sent' = sent \cup {e}
    /\ \E s \in Sessions :
          \/ /\ AcquirePooled(s)
             /\ sess' = [sess EXCEPT ![s] = Execute(@)]
          \/ /\ AcquireNew(s)
             /\ sess' = [sess EXCEPT ![s] = Execute(NewSession(NoRetry, e))]
    /\ UNCHANGED <<maxRetries, retries, buffer, answered, undefined>>

\* sendEvent: on a session of the pool, on a new one, or into the buffer.
SendEvent(e) ==
    /\ e \notin sent
    /\ sent' = sent \cup {e}
    /\ \/ /\ \E s \in Sessions :
                \/ /\ AcquirePooled(s)
                   /\ sess' = [sess EXCEPT ![s] = Execute([@ EXCEPT !.req = e])]
                \/ /\ AcquireNew(s)
                   /\ sess' = [sess EXCEPT ![s] = Execute(NewSession(NoRetry, e))]
          /\ UNCHANGED buffer
       \/ /\ AcquireNone
          /\ buffer' = PushBack(buffer, e)
          /\ UNCHANGED sess
    /\ UNCHANGED <<maxRetries, retries, answered, undefined>>

\* A wait of r has ended: retryFunction.  A session of the pool is reused as
\* it is, with the handler it has; only a new session gets a handler bound to r.
RetryExpired(r) ==
    /\ retries[r].waits > 0
    /\ \/ /\ \E s \in Sessions :
                \/ /\ AcquirePooled(s)
                   /\ sess' = [sess EXCEPT ![s] = Execute([@ EXCEPT !.req = retries[r].req])]
                \/ /\ AcquireNew(s)
                   /\ sess' = [sess EXCEPT ![s] = Execute(NewSession(r, retries[r].req))]
          /\ UNCHANGED undefined
       \/ /\ AcquireNone
          /\ undefined' = "nullSession"
          /\ UNCHANGED sess
    /\ retries' = [retries EXCEPT ![r].waits = @ - 1, ![r].req = NoEvent]
    /\ UNCHANGED <<maxRetries, buffer, sent, answered>>

\* on_read: the session is idle again, or closes its connection and keeps its
\* place in the pool while the shutdown is under way.
ReadAnswer(s) ==
    /\ sess[s].op = "read"
    /\ ~sess[s].doomed
    /\ UNCHANGED <<maxRetries, pool, retries, buffer, sent, undefined>>
    /\ \E keepAlive \in {TRUE, ~PeerCloses} :
          sess' = [sess EXCEPT ![s] = Kept(s, Answered(@, keepAlive))]
    /\ answered' = answered \cup ({sess[s].req} \cap Events)

\* The operation in flight ends with an error.
OperationFailed(s) ==
    /\ sess[s].op # "none"
    /\ Fail(s, Failed(sess[s]))
    /\ UNCHANGED undefined

\* on_error with an error: the monitor wait of an earlier answer was aborted.
MonitorFailed(s) ==
    /\ sess[s].aborted > 0
    /\ \/ /\ Exists(s)
          /\ Fail(s, [sess[s] EXCEPT !.aborted = @ - 1])
          /\ UNCHANGED undefined
       \/ /\ ~Exists(s)
          /\ undefined' = "dangling"
          /\ UNCHANGED <<maxRetries, sess, pool, retries, buffer, sent, answered>>

\* Steps of one session alone.
SessionStep(s) ==
    /\ \/ StepForward(s)
       \/ Timeouts /\ Expire(s)
       \/ ShutdownDone(s)
       \/ MonitorReadable(s)
    /\ UNCHANGED others

Running == undefined = "none"

Next ==
    /\ Running
    /\ \/ \E e \in Events : SendEvent(e)
       \/ \E r \in Retries : RetryExpired(r)
       \/ \E s \in Sessions :
             ReadAnswer(s) \/ OperationFailed(s) \/ MonitorFailed(s) \/ SessionStep(s)

Spec == Init /\ [][Next]_vars

(***************************************************************************)
(* Every operation ends: a resolver gives up, the deadline of on_resolve   *)
(* ends the operations on a connection, and that of shutDown ends the      *)
(* shutdown.  Queued handlers run and timers expire: the io_context serves *)
(* them in order.  Nothing makes the event source call sendEvent.          *)
(***************************************************************************)
Completion(s) ==
    \/ ReadAnswer(s)
    \/ OperationFailed(s)
    \/ StepForward(s) /\ UNCHANGED others

Fairness ==
    /\ \A s \in Sessions : /\ WF_vars(Running /\ Completion(s))
                            /\ WF_vars(Running /\ MonitorFailed(s))
                            /\ WF_vars(Running /\ ShutdownDone(s) /\ UNCHANGED others)
    /\ \A r \in Retries : WF_vars(Running /\ RetryExpired(r))

----------------------------------------------------------------------------
(* A stream of events without end: the identity of an event that nobody    *)
(* owns any more is given to a new one.                                    *)

\* Who may still send e or make it be sent again: a live session whose request
\* it is (also when it is idle: a late failure takes its request), a pending
\* retry, a place in the buffer.
Owners(e) ==
    {<<"session", s>> : s \in {x \in Sessions : Exists(x) /\ sess[x].req = e}}
    \cup {<<"retry", r>> : r \in {x \in Retries : retries[x].waits > 0 /\ retries[x].req = e}}
    \cup {<<"buffer", i>> : i \in {x \in DOMAIN buffer : buffer[x] = e}}

Forget(e) ==
    /\ e \in sent /\ Owners(e) = {}
    /\ sent' = sent \ {e}
    /\ answered' = answered \ {e}
    /\ UNCHANGED <<maxRetries, sess, pool, retries, buffer, undefined>>

StreamNext == Next \/ (Running /\ \E e \in Events : Forget(e))

----------------------------------------------------------------------------
(* Properties. *)

\* Every variable has the type its C++ counterpart has.
TypeOK ==
    /\ maxRetries \in Int
    /\ sess \in [Sessions -> SessionState]
    /\ pool \in Seq(Sessions)
    /\ retries \in [Retries -> RetryState]
    /\ buffer \in Seq(Events)
    /\ sent \subseteq Events
    /\ answered \subseteq Events
    /\ undefined \in {"none", "nullSession", "dangling"}

\* The pool never outgrows its size and never holds a session twice: no call
\* order of acquire and release (which runs once more when a session fails
\* twice) breaks the deque.
PoolSound ==
    /\ Len(pool) <= PoolSize
    /\ \A i, j \in DOMAIN pool : pool[i] = pool[j] => i = j

\* No slot of the pool leaks: a pooled session that acquire passes over has an
\* operation in flight whose handler will free it, and one that acquire may
\* hand out has none, so no second chain of operations starts on its stream.
SlotsHonest ==
    \A s \in Pooled : InUse(s) <=> sess[s].op # "none"

\* An event never has two owners: even when a session fails twice (its operation
\* and an aborted monitor wait), the request is moved, not copied, into a retry.
SingleOwner == \A e \in Events : Cardinality(Owners(e)) <= 1

----------------------------------------------------------------------------
(* Properties under a peer that keeps its connections open and answers     *)
(* within the deadline (Timeouts = FALSE, PeerCloses = FALSE): operations   *)
(* still fail, but no socket is closed under an idle session.               *)

Active(e) ==
    \/ \E s \in Sessions : sess[s].op # "none" /\ sess[s].req = e
    \/ \E r \in Retries : retries[r].waits > 0 /\ retries[r].req = e

\* Then a failure is reported once: no retry is ever left with a request that
\* was moved from, and no handler runs on a dead session.
FailsOnce ==
    /\ undefined # "dangling"
    /\ \A r \in Retries : retries[r].waits > 0 => retries[r].req # NoEvent

\* Then an event that was answered is never sent again.
AnsweredOnce == \A e \in answered : ~Active(e)

\* Then a retry finds the pool exhausted (and calls run on a null session) only
\* if more events were given to the subscriber than its pool has sessions.
NullNeedsCrowd == undefined = "nullSession" => Cardinality(sent) > PoolSize

\* Then the delivery of an event ends - it is answered, or its retries end -
\* unless the stream goes on and on making sendEvent create sessions: a retry that
\* such a session fails is counted anew (http_subscriber.hpp:188-196), and with
\* them an event may be retried for ever.  Retries alone always come to an end.
DeliveryEnds ==
    \A e \in Events :
        \/ []<>(~Active(e) \/ ~Running)
        \/ []<><<\E f \in Events : SendEvent(f) /\ Len(pool') > Len(pool)>>_vars
=============================================================================
