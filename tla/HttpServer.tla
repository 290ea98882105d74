----------------------------- MODULE HttpServer -----------------------------
(***************************************************************************)
(* The accepting side (http/http_server.hpp:60-162) composed with the      *)
(* connections it creates (HttpConnection): the acceptor, the limit on the *)
(* number of Connection objects, the reload of the certificate on SIGHUP   *)
(* and the stop on SIGINT and SIGTERM.                                     *)
(*                                                                         *)
(* The initial state is the one after run().  Clients connect, stall, send *)
(* and go away at any moment; the acceptor may fail at any moment.  The    *)
(* date string and the contents of the certificate are left out.           *)
(***************************************************************************)
EXTENDS HttpConnection, FiniteSets

CONSTANTS
    MaxConnections, \* the limit that start() tests: 100
    MaxReloads      \* bound of the model: certificate reloads

\* The server has at most MaxConnections objects at a time; with fewer
\* identities than that, the acceptor of the model would stop early.
ASSUME ServerAssumption ==
    /\ MaxConnections \in Nat \ {0, 1}
    /\ MaxReloads \in Nat
    /\ IsFiniteSet(Conns)
    /\ Cardinality(Conns) >= MaxConnections

VARIABLES
    accepting,  \* the object whose socket async_accept fills
    accept,     \* its operation: waiting, or ended with its handler queued
    ctx,        \* adaptorCtx: the number of the certificate loaded last
    stopped     \* ioService->stop() was called: no handler runs any more

vars == <<conn, accepting, accept, ctx, stopped>>

Live == {c \in Conns : conn[c].phase # "unused"}

\* The global counter: the constructor increments it, the destructor
\* decrements it, and nothing else writes it.
ConnectionCount == Cardinality(Live)

Init ==
    /\ accepting \in Conns
    /\ conn = [c \in Conns |-> IF c = accepting THEN NewConn("accepting", 0) ELSE Unused]
    /\ accept = "waiting"
    /\ ctx = 0
    /\ stopped = FALSE

----------------------------------------------------------------------------
(* The acceptor. *)

\* The kernel completes the accept operation, or fails it.
AcceptEnds ==
    /\ accept = "waiting"
    /\ accept' \in {"done", "failed"}
    /\ UNCHANGED <<conn, accepting, ctx, stopped>>

\* Variant: accept the next connection only if this one succeeded.
AcceptHandlerOnce ==
    /\ accept = "done"
    /\ \A c \in Conns : conn[c].phase # "posted"
    /\ \E new \in Conns \ Live :
          /\ accepting' = new
          /\ conn' = [conn EXCEPT ![new] = NewConn("accepting", ctx),
                                  ![accepting] = [@ EXCEPT !.phase = "posted"]]
    /\ accept' = "waiting"
    /\ UNCHANGED <<ctx, stopped>>

\* The handler of async_accept posts the start of the object if the accept
\* succeeded, else drops the object; doAccept then creates the next one.  The
\* start posted before runs first: it was queued before this accept was begun.
AcceptHandler ==
    /\ accept \in {"done", "failed"}
    /\ \A c \in Conns : conn[c].phase # "posted"
    /\ \E new \in Conns \ Live :
          /\ accepting' = new
          /\ conn' = [conn EXCEPT
                          ![new] = NewConn("accepting", ctx),
                          ![accepting] = IF accept = "done" THEN [@ EXCEPT !.phase = "posted"]
                                                            ELSE Unused]
    /\ accept' = "waiting"
    /\ UNCHANGED <<ctx, stopped>>

\* Variant: one connection more.
StartOneMore(c) ==
    /\ conn[c].phase = "posted"
    /\ conn' = [conn EXCEPT ![c] = IF ConnectionCount > MaxConnections
                                   THEN Unused
                                   ELSE Begin(StartDeadline(@), "handshake")]
    /\ UNCHANGED <<accepting, accept, ctx, stopped>>

\* Variant: the handshake has no deadline.
StartNoDeadline(c) ==
    /\ conn[c].phase = "posted"
    /\ conn' = [conn EXCEPT ![c] = IF ConnectionCount >= MaxConnections
                                   THEN Unused
                                   ELSE Begin(@, "handshake")]
    /\ UNCHANGED <<accepting, accept, ctx, stopped>>

\* start(), from its post.  The count includes the object itself and the one
\* that is accepting.  An object that is refused is dropped.
Start(c) ==
    /\ conn[c].phase = "posted"
    /\ conn' = [conn EXCEPT ![c] = IF ConnectionCount >= MaxConnections
                                   THEN Unused
                                   ELSE Begin(StartDeadline(@), "handshake")]
    /\ UNCHANGED <<accepting, accept, ctx, stopped>>

\* Variant: the accept operation is left alone.
ReloadOnly ==
    /\ ctx < MaxReloads
    /\ ctx' = ctx + 1
    /\ UNCHANGED <<conn, accepting, accept, stopped>>

\* SIGHUP: a new TLS context, and the accept operation is cancelled, which has
\* no effect if it has ended.
Reload ==
    /\ ctx < MaxReloads
    /\ ctx' = ctx + 1
    /\ accept' = IF accept = "waiting" THEN "failed" ELSE accept
    /\ UNCHANGED <<conn, accepting, stopped>>

\* SIGINT or SIGTERM.
Stop ==
    /\ stopped' = TRUE
    /\ UNCHANGED <<conn, accepting, accept, ctx>>

----------------------------------------------------------------------------
ConnectionStep(c) ==
    /\ SocketStep(c) \/ Answer(c) \/ DropEnded(c) \/ Expire(c) \/ TimerHandler(c)
    /\ UNCHANGED <<accepting, accept, ctx, stopped>>

Next ==
    /\ ~stopped
    /\ \/ AcceptEnds
       \/ AcceptHandler
       \/ Reload
       \/ Stop
       \/ \E c \in Conns : Start(c) \/ ConnectionStep(c)

Spec == Init /\ [][Next]_vars

(***************************************************************************)
(* Queued handlers run (the io_context serves its queue in order), a timer *)
(* expires, an operation on a closed socket ends, and route handlers       *)
(* answer every request and then let go of the response.  Nothing is       *)
(* assumed of clients: on an open socket no operation need ever end.       *)
(***************************************************************************)
Serve(A) == ~stopped /\ A /\ UNCHANGED <<accepting, accept, ctx, stopped>>

Fairness ==
    /\ WF_vars(~stopped /\ AcceptHandler)
    /\ \A c \in Conns :
          /\ WF_vars(~stopped /\ Start(c))
          /\ WF_vars(Serve(~conn[c].open /\ SocketStep(c)))
          /\ WF_vars(Serve(Answer(c)))
          /\ WF_vars(Serve(DropEnded(c)))
          /\ WF_vars(Serve(Expire(c)))
          /\ WF_vars(Serve(TimerHandler(c)))

FairSpec == Spec /\ Fairness

----------------------------------------------------------------------------
(* Properties. *)

\* Every variable has the type its C++ counterpart has.
TypeOK ==
    /\ conn \in [Conns -> ConnState]
    /\ accepting \in Conns
    /\ accept \in {"waiting", "done", "failed"}
    /\ ctx \in Nat
    /\ stopped \in BOOLEAN

\* Every request read gets one response, and none gets two: the next request is
\* read only after the response to the one before, even though a route handler
\* may keep a response that was ended, end it again and drop it at any time.
AnswerOnce ==
    \A c \in Conns :
        /\ conn[c].phase \in {"readHeader", "readBody", "write"} =>
              conn[c].responses = conn[c].requests
        /\ conn[c].phase = "handling" => conn[c].requests = conn[c].responses + 1

\* The deadline runs neither while a route handler works on the response nor
\* while a connection that is kept alive waits for its next request.
NoDeadlineWhileHandling ==
    \A c \in Conns :
        \/ conn[c].phase = "handling"
        \/ conn[c].phase = "readHeader" /\ conn[c].requests > 0
        => conn[c].wait # "running"

\* Objects past start(): those being served and those a held response keeps.
Served == {c \in Conns : conn[c].phase \in OnSocket \cup {"handling", "finished"}}

\* The limit includes the object that is accepting and the one being started,
\* so two connections fewer than the limit are ever served.
ServedBound == Cardinality(Served) <= MaxConnections - 2

\* Once a reload is over, whoever connects gets the new certificate: no socket
\* that still waits for its client was made with an older context.
CertificateFresh == accept = "waiting" => conn[accepting].ctx = ctx

\* There is always one object that is accepting, and no other one.
OneAccepting == \A c \in Conns : conn[c].phase = "accepting" <=> c = accepting

----------------------------------------------------------------------------
(* Liveness, of FairSpec. *)

\* The server accepts again after every accept, error and reload.
AcceptsAgain == []<>(accept = "waiting" \/ stopped)

\* A client that stalls before its first request is complete up to the header
\* does not keep its connection.
Stalling(c) == conn[c].phase \in {"handshake", "readHeader"} /\ conn[c].requests = 0
StallEnds == \A c \in Conns : Stalling(c) ~> (~Stalling(c) \/ stopped)

\* A connection whose socket was closed is destroyed, whatever it was doing.
ClosedFreed == \A c \in Conns : ~conn[c].open ~> (conn[c].phase = "unused" \/ stopped)

----------------------------------------------------------------------------
(* What comments of the code say of the deadline, and the code does not do. *)

\* http_connection.hpp:518-520: "If authentication is disabled then there is no
\* user session hence always allow to send one piece at a time."  So a deadline
\* that a piece of the body started would not end it when another one has arrived.
OnePieceAtATime ==
    \A c \in Conns :
        conn[c].phase = "readBody" /\ conn[c].wait = "expired" => conn[c].pieces # "more"

\* http_connection.hpp:588: "Timer is already started so no further action is
\* required."  So after startDeadline a read or a write has a deadline.
DeadlineRuns ==
    \A c \in Conns : conn[c].phase \in {"readBody", "write"} => conn[c].wait # "none"
=============================================================================
