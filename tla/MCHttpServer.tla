---------------------------- MODULE MCHttpServer ----------------------------
(* Model checking of HttpServer.  Connection objects are interchangeable. *)
EXTENDS HttpServer, TLC

Identities == Permutations(Conns)
=============================================================================
