--------------------------- MODULE MCSessionStore ---------------------------
(***************************************************************************)
(* Small instances of SessionStore for TLC, and the mutants of its runs.   *)
(***************************************************************************)
EXTENDS SessionStore, TLC

CONSTANTS t1, t2, t3, alice, bob

\* Two sessions of one user, one of another.
MCOwner == t1 :> alice @@ t2 :> alice @@ t3 :> bob
=============================================================================
