-------------------------- MODULE MCHttpSubscriber --------------------------
(* Model checking of HttpSubscriber.  Identities are interchangeable. *)
EXTENDS HttpSubscriber

Identities ==
    Permutations(Sessions) \cup Permutations(Retries) \cup Permutations(Events)

\* A bound: with a policy of several retries one event is never sent.
FewerEvents == maxRetries > 1 => sent' # Events

MCSpec == Init /\ [][Next /\ FewerEvents]_vars
=============================================================================
