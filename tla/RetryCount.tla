----------------------------- MODULE RetryCount -----------------------------
(***************************************************************************)
(* HttpSubscriber under a stream of events, with its retries counted: what *)
(* the policy promises of an event, over all the RetryRequests it passes   *)
(* through.                                                                *)
(***************************************************************************)
EXTENDS HttpSubscriber

VARIABLE allowance  \* history: the retries that may still come

countVars == <<vars, allowance>>

\* In this step a wait of r has ended, and the request of r is sent again.
Resends(r) == retries'[r].waits < retries[r].waits

\* maxRetries for every event that is given, less one for every retry; and never
\* more than the events deserve that somebody owns now.  Overdrawn is overdrawn.
Allowed ==
    LET given == allowance + maxRetries * Cardinality(sent' \ sent)
        rest  == given - Cardinality({r \in Retries : Resends(r)})
    IN  Max({-1, Min({rest, maxRetries * Cardinality(sent')})})

CountInit == Init /\ allowance = 0

CountNext == StreamNext /\ allowance' = Allowed

CountSpec == CountInit /\ [][CountNext]_countVars /\ Fairness

\* With a peer that keeps its connections open (Timeouts = FALSE, PeerCloses =
\* FALSE) there are from any moment on no more retries than maxRetries for each
\* event that somebody owned then and each that was given since.  One event may
\* use up the share of the others: when a retry on a session that sendEvent has
\* left in the pool fails, it is counted anew (http_subscriber.hpp:188-196,
\* 204-226).
EventBudget == maxRetries >= 0 => allowance >= 0
=============================================================================
