---------------------------- MODULE MCRetryCount ----------------------------
(* Model checking of RetryCount; liveness is checked, so without symmetry.  *)
EXTENDS RetryCount
=============================================================================
