--------------------------- MODULE HttpClientPool ---------------------------
(***************************************************************************)
(* The bounded pool of sessions of one subscriber                          *)
(* (redfish_event/http/http_client_pool.hpp:22-81).  acquire is called by  *)
(* HttpSubscriber::sendEvent and by a retry; it is the guard and one       *)
(* conjunct of their steps here.                                           *)
(***************************************************************************)
EXTENDS HttpSession, Sequences, SequencesExt

CONSTANT PoolSize   \* poolSize

ASSUME PoolAssumption == PoolSize \in Nat

VARIABLE pool       \* the deque of sessions

Pooled == {pool[i] : i \in DOMAIN pool}

\* A session lives as long as the pool or the handler of its operation holds it.
Exists(s) == s \in Pooled \/ sess[s].op # "none"

\* What remains of the session s, in the state x, when pool' and op hold it or not.
Kept(s, x) ==
    IF x.op = "none" /\ s \notin Pooled' THEN Destroyed(x) ELSE x

\* The identity s can be given to a new session: no object, no handler uses it.
Unused(s) == s \notin Pooled /\ ~StreamPending(s)

\* acquire returns the first session that is not in use...
AcquirePooled(s) ==
    /\ \E i \in DOMAIN pool :
          /\ pool[i] = s
          /\ ~InUse(s)
          /\ \A j \in 1..(i - 1) : InUse(pool[j])
    /\ UNCHANGED pool

AllInUse == \A i \in DOMAIN pool : InUse(pool[i])

\* Variant: the pool may grow past its size by one.
AcquireNewOneMore(s) ==
    /\ AllInUse
    /\ Len(pool) <= PoolSize
    /\ Unused(s)
    /\ pool' = Append(pool, s)

\* ... else creates one if the pool may grow (only then is the initialiser called)...
AcquireNew(s) ==
    /\ AllInUse
    /\ Len(pool) < PoolSize
    /\ Unused(s)
    /\ pool' = Append(pool, s)

\* ... else returns a null pointer.
AcquireNone ==
    /\ AllInUse
    /\ Len(pool) >= PoolSize
    /\ UNCHANGED pool

\* Variant: only a session that is not in use is erased.
ReleaseIdle(s) ==
    \/ \E i \in DOMAIN pool : /\ pool[i] = s
                              /\ ~InUse(s)
                              /\ pool' = RemoveAt(pool, i)
    \/ (s \notin Pooled \/ InUse(s)) /\ UNCHANGED pool

\* release: erase the session, if the pool has it.
Release(s) ==
    \/ \E i \in DOMAIN pool : /\ pool[i] = s
                              /\ \A j \in 1..(i - 1) : pool[j] # s
                              /\ pool' = RemoveAt(pool, i)
    \/ s \notin Pooled /\ UNCHANGED pool
=============================================================================
