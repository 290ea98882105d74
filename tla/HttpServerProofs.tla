-------------------------- MODULE HttpServerProofs --------------------------
(***************************************************************************)
(* Proofs about HttpServer, for every number of connections, requests and  *)
(* reloads.  The invariant is a property of each connection record         *)
(* (ConnInv) plus what relates the acceptor to its object (AcceptInv).     *)
(* The lemmas say of each function of HttpConnection that it preserves     *)
(* ConnInv; the theorems then follow step by step.                         *)
(***************************************************************************)
EXTENDS HttpServer, FiniteSetTheorems, TLAPS

----------------------------------------------------------------------------
(* The inductive invariant. *)

\* Phases in which no response is owed.
Settled == Phases \ {"handling", "finished"}

ConnInv(x) ==
    /\ x \in ConnState
    /\ x.phase \in {"unused", "accepting", "posted", "handshake"} => x.requests = 0
    /\ x.phase \in Settled => x.responses = x.requests
    /\ x.phase = "handling" => x.requests = x.responses + 1
    /\ x.phase = "handling" \/ (x.phase = "readHeader" /\ x.requests > 0)
          => x.wait # "running"

\* The object that is accepting, and no other, is in that phase, and it has the
\* context of the last reload unless its operation was cancelled.
AcceptInv ==
    /\ \A c \in Conns : conn[c].phase = "accepting" <=> c = accepting
    /\ CertificateFresh

Inv ==
    /\ TypeOK
    /\ \A c \in Conns : ConnInv(conn[c])
    /\ AcceptInv

----------------------------------------------------------------------------
(* What the functions of a connection do to a record. *)

\* A new object is settled, whatever its context.
LEMMA NewConnInv ==
    ASSUME NEW k \in Nat, NEW p \in {"unused", "accepting"}
    PROVE  ConnInv(NewConn(p, k))
BY DEF ConnInv, NewConn, ConnState, Phases, OnSocket, Settled

\* An identity without an object is settled, too.
LEMMA UnusedInv == ConnInv(Unused) /\ Unused.phase = "unused" /\ Unused.ctx = 0
<1>1. ConnInv(NewConn("unused", 0))
  BY NewConnInv
<1> QED
  BY <1>1 DEF Unused, NewConn

\* Cancelling the deadline touches nothing but the timer.
LEMMA CancelFrame ==
    ASSUME NEW x \in ConnState
    PROVE  /\ CancelDeadlineTimer(x) \in ConnState
           /\ CancelDeadlineTimer(x).wait # "running"
           /\ CancelDeadlineTimer(x).phase = x.phase
           /\ CancelDeadlineTimer(x).ctx = x.ctx
           /\ CancelDeadlineTimer(x).requests = x.requests
           /\ CancelDeadlineTimer(x).responses = x.responses
BY DEF CancelDeadlineTimer, ConnState

\* So does starting it.
LEMMA StartFrame ==
    ASSUME NEW x \in ConnState
    PROVE  /\ StartDeadline(x) \in ConnState
           /\ StartDeadline(x).phase = x.phase
           /\ StartDeadline(x).ctx = x.ctx
           /\ StartDeadline(x).requests = x.requests
           /\ StartDeadline(x).responses = x.responses
BY DEF StartDeadline, ConnState

\* Beginning an operation changes the phase alone, and dooms it if need be.
LEMMA BeginFrame ==
    ASSUME NEW x \in ConnState, NEW p \in Phases
    PROVE  /\ Begin(x, p) \in ConnState
           /\ Begin(x, p).phase = p
           /\ Begin(x, p).wait = x.wait
           /\ Begin(x, p).requests = x.requests
           /\ Begin(x, p).responses = x.responses
<1> DEFINE late == x.wait \in {"expired", "aborted"}
           bad  == ~x.open
<1>1. Begin(x, p) = [x EXCEPT !.phase = p, !.doomed = bad, !.behind = late]
  BY DEF Begin
<1>2. late \in BOOLEAN /\ bad \in BOOLEAN
  OBVIOUS
<1> HIDE DEF late, bad
<1> QED
  BY <1>1, <1>2 DEF ConnState

\* Closing the socket changes neither the phase nor what is counted.
LEMMA CloseFrame ==
    ASSUME NEW x \in ConnState, NEW late \in BOOLEAN
    PROVE  /\ Close(x, late) \in ConnState
           /\ Close(x, late).phase = x.phase
           /\ Close(x, late).ctx = x.ctx
           /\ Close(x, late).wait = x.wait
           /\ Close(x, late).requests = x.requests
           /\ Close(x, late).responses = x.responses
BY DEF Close, ConnState

\* An object that starts nothing more is gone, or kept by a held response.
LEMMA FinishInv ==
    ASSUME NEW x \in ConnState
    PROVE  /\ ConnInv(Finish(x))
           /\ Finish(x).phase \in {"unused", "finished"}
<1> DEFINE held == [x EXCEPT !.phase = "finished", !.doomed = FALSE, !.behind = FALSE]
<1>1. ConnInv(Unused) /\ Unused.phase = "unused"
  BY NewConnInv DEF Unused, NewConn
<1>2. held \in ConnState /\ held.phase = "finished"
  BY DEF ConnState, Phases
<1>3. ConnInv(held)
  BY <1>2 DEF ConnInv, Settled, OnSocket
<1> QED
  BY <1>1, <1>2, <1>3 DEF Finish

\* A record of which only the number of held responses differs.
LEMMA StaleFrame ==
    ASSUME NEW x \in ConnState, NEW n \in Nat
    PROVE  /\ [x EXCEPT !.stale = n] \in ConnState
           /\ [x EXCEPT !.stale = n].phase = x.phase
           /\ [x EXCEPT !.stale = n].ctx = x.ctx
           /\ [x EXCEPT !.stale = n].wait = x.wait
           /\ [x EXCEPT !.stale = n].requests = x.requests
           /\ [x EXCEPT !.stale = n].responses = x.responses
BY DEF ConnState

\* A route handler keeps the response.
LEMMA HoldFrame ==
    ASSUME NEW x \in ConnState, NEW y,
           y = [x EXCEPT !.phase = "handling", !.doomed = FALSE, !.behind = FALSE]
    PROVE  /\ y \in ConnState
           /\ y.phase = "handling"
           /\ y.wait = x.wait
           /\ y.requests = x.requests
           /\ y.responses = x.responses
BY DEF ConnState, Phases

----------------------------------------------------------------------------
(* The calls that handlers share. *)

\* The response to the request that is owed one is written, or dropped with the
\* object: no state follows in which it is owed still.
LEMMA CompleteRequestInv ==
    ASSUME NEW x \in ConnState, x.requests = x.responses + 1
    PROVE  /\ ConnInv(CompleteRequest(x))
           /\ CompleteRequest(x).phase \in {"write", "unused", "finished"}
<1>1. CASE ~x.open
  BY <1>1, FinishInv DEF CompleteRequest
<1>2. CASE x.open
  <2> DEFINE counted == [x EXCEPT !.responses = @ + 1]
  <2>1. /\ counted \in ConnState
        /\ counted.requests = x.requests
        /\ counted.responses = x.responses + 1
    BY DEF ConnState
  <2> HIDE DEF counted
  <2>2. CompleteRequest(x) = Begin(StartDeadline(counted), "write")
    BY <1>2 DEF CompleteRequest, DoWrite, counted
  <2>3. StartDeadline(counted) \in ConnState
    BY <2>1, StartFrame
  <2>4. "write" \in Phases /\ "write" \in Settled
    BY DEF Phases, OnSocket, Settled
  <2> QED
    BY <2>1, <2>2, <2>3, <2>4, StartFrame, BeginFrame DEF ConnInv
<1> QED
  BY <1>1, <1>2 DEF ConnState

\* A request that was read is owed a response until handle() has answered it or
\* given it to a route handler, and the deadline does not run by then.
LEMMA HandleInv ==
    ASSUME NEW x \in ConnState, x.requests = x.responses, x.wait # "running",
           NEW y \in Handle(x)
    PROVE  ConnInv(y) /\ y.phase \in {"write", "unused", "finished", "handling"}
<1> DEFINE req == [x EXCEPT !.requests = @ + 1]
           routed(k) == [req EXCEPT !.keepAlive = k]
<1>1. /\ req \in ConnState
      /\ req.requests = req.responses + 1
      /\ req.wait # "running"
  BY DEF ConnState
<1>2. ASSUME NEW k \in BOOLEAN
      PROVE  /\ routed(k) \in ConnState
             /\ routed(k).requests = routed(k).responses + 1
             /\ routed(k).wait # "running"
  BY <1>1 DEF ConnState
<1>3. \/ y = CompleteRequest(req)
      \/ \E k \in BOOLEAN : y = CompleteRequest(routed(k))
      \/ \E k \in BOOLEAN : y = [routed(k) EXCEPT !.phase = "handling", !.doomed = FALSE, !.behind = FALSE]
  BY DEF Handle
<1> HIDE DEF req, routed
<1>4. CASE y = CompleteRequest(req)
  BY <1>1, <1>4, CompleteRequestInv
<1>5. ASSUME NEW k \in BOOLEAN, y = CompleteRequest(routed(k))
      PROVE  ConnInv(y) /\ y.phase \in {"write", "unused", "finished"}
  BY <1>2, <1>5, CompleteRequestInv
<1>6. ASSUME NEW k \in BOOLEAN,
             y = [routed(k) EXCEPT !.phase = "handling", !.doomed = FALSE, !.behind = FALSE]
      PROVE  ConnInv(y) /\ y.phase = "handling"
  <2>1. /\ y \in ConnState
        /\ y.phase = "handling"
        /\ y.wait = routed(k).wait
        /\ y.requests = routed(k).requests
        /\ y.responses = routed(k).responses
    BY <1>2, <1>6, HoldFrame
  <2> QED
    BY <1>2, <2>1 DEF ConnInv, Settled
<1> QED
  BY <1>3, <1>4, <1>5, <1>6

\* The next request is read with the deadline off, the first one under the
\* deadline of the handshake.
LEMMA DoReadHeadersInv ==
    ASSUME NEW x \in ConnState, x.requests = x.responses,
           x.requests = 0 \/ x.wait # "running"
    PROVE  ConnInv(DoReadHeaders(x)) /\ DoReadHeaders(x).phase = "readHeader"
<1>1. "readHeader" \in Phases /\ "readHeader" \in Settled
  BY DEF Phases, OnSocket, Settled
<1> QED
  BY <1>1, BeginFrame DEF DoReadHeaders, ConnInv, ConnState

\* A piece of the body is read under a deadline, or under the wait it has.
LEMMA DoReadInv ==
    ASSUME NEW x \in ConnState, x.requests = x.responses
    PROVE  ConnInv(DoRead(x)) /\ DoRead(x).phase = "readBody"
<1>1. "readBody" \in Phases /\ "readBody" \in Settled
  BY DEF Phases, OnSocket, Settled
<1> QED
  BY <1>1, StartFrame, BeginFrame DEF DoRead, ConnInv

\* The piece that is read next, and what it says of the deadline.
LEMMA DoReadOnInv ==
    ASSUME NEW x \in ConnState, x.requests = x.responses
    PROVE  ConnInv(DoReadOn(x)) /\ DoReadOn(x).phase = "readBody"
<1> DEFINE y == DoRead(x)
           told == CASE ~x.timerStarted                          -> "first"
                     [] x.wait = "running" /\ x.pieces = "first" -> "more"
                     [] OTHER                                    -> x.pieces
<1>1. ConnInv(y) /\ y.phase = "readBody" /\ y \in ConnState
  BY DoReadInv DEF ConnInv
<1>2. told \in {"none", "first", "more"}
  BY DEF ConnState
<1>3. DoReadOn(x) = [y EXCEPT !.pieces = told]
  BY DEF DoReadOn
<1> HIDE DEF y, told
<1>4. /\ DoReadOn(x) \in ConnState
      /\ DoReadOn(x).phase = y.phase
      /\ DoReadOn(x).wait = y.wait
      /\ DoReadOn(x).requests = y.requests
      /\ DoReadOn(x).responses = y.responses
  BY <1>1, <1>2, <1>3 DEF ConnState
<1> QED
  BY <1>1, <1>4 DEF ConnInv

----------------------------------------------------------------------------
(* The handlers. *)

\* What a handler may make of the record x.
Allowed(x, y) ==
    /\ ConnInv(y)
    /\ y.phase \in {"accepting", "posted"} => y.phase = x.phase
    /\ x.phase = "accepting" => y.phase = x.phase /\ y.ctx = x.ctx
    /\ x.phase \in {"unused", "posted"} => y.phase = x.phase

\* A handler of an operation on the socket.
LEMMA SocketPhases ==
    ASSUME NEW x, NEW y, x.phase \in OnSocket, ConnInv(y),
           y.phase \notin {"accepting", "posted"}
    PROVE  Allowed(x, y)
BY DEF Allowed, OnSocket

\* After the handshake the first request is read, or the object is gone.
LEMMA HandshakenInv ==
    ASSUME NEW x, ConnInv(x), x.phase = "handshake", NEW y \in Handshaken(x)
    PROVE  Allowed(x, y)
<1>1. x \in ConnState /\ x.requests = 0 /\ x.requests = x.responses /\ x.phase \in OnSocket
  BY DEF ConnInv, Settled, Phases, OnSocket
<1>2. y = Finish(x) \/ y = DoReadHeaders(x)
  BY DEF Handshaken
<1> QED
  BY <1>1, <1>2, FinishInv, DoReadHeadersInv, SocketPhases

\* A header that was read leads to the body, to handle() or to the end.
LEMMA HeaderReadInv ==
    ASSUME NEW x, ConnInv(x), x.phase = "readHeader", NEW y \in HeaderRead(x)
    PROVE  Allowed(x, y)
<1> DEFINE z == CancelDeadlineTimer(x)
<1>1. x \in ConnState /\ x.requests = x.responses /\ x.phase \in OnSocket
  BY DEF ConnInv, Settled, Phases, OnSocket
<1>2. z \in ConnState /\ z.requests = z.responses /\ z.wait # "running"
  BY <1>1, CancelFrame
<1>3. y = Finish(Close(z, TRUE)) \/ y = DoRead(z) \/ y \in Handle(z)
  BY DEF HeaderRead
<1> HIDE DEF z
<1>4. ConnInv(y) /\ y.phase \notin {"accepting", "posted"}
  <2>1. CASE y = Finish(Close(z, TRUE))
    BY <1>2, <2>1, CloseFrame, FinishInv
  <2>2. CASE y = DoRead(z)
    BY <1>2, <2>2, DoReadInv
  <2>3. CASE y \in Handle(z)
    BY <1>2, <2>3, HandleInv
  <2> QED
    BY <1>3, <2>1, <2>2, <2>3
<1> QED
  BY <1>1, <1>4, SocketPhases

\* So does a piece of the body.
LEMMA BodyReadInv ==
    ASSUME NEW x, ConnInv(x), x.phase = "readBody", NEW y \in BodyRead(x)
    PROVE  Allowed(x, y)
<1>1. x \in ConnState /\ x.requests = x.responses /\ x.phase \in OnSocket
  BY DEF ConnInv, Settled, Phases, OnSocket
<1>2. \/ y = Finish(Close(x, TRUE))
      \/ y = DoReadOn(x)
      \/ y \in Handle(CancelDeadlineTimer(x))
  BY DEF BodyRead
<1>3. ConnInv(y) /\ y.phase \notin {"accepting", "posted"}
  <2>1. CASE y = Finish(Close(x, TRUE))
    BY <1>1, <2>1, CloseFrame, FinishInv
  <2>2. CASE y = DoReadOn(x)
    BY <1>1, <2>2, DoReadOnInv
  <2>3. CASE y \in Handle(CancelDeadlineTimer(x))
    BY <1>1, <2>3, CancelFrame, HandleInv
  <2> QED
    BY <1>2, <2>1, <2>2, <2>3
<1> QED
  BY <1>1, <1>3, SocketPhases

\* After the response the next request is read, or the connection ends.
LEMMA WrittenInv ==
    ASSUME NEW x, ConnInv(x), x.phase = "write", NEW y \in Written(x)
    PROVE  Allowed(x, y)
<1> DEFINE z == CancelDeadlineTimer(x)
<1>1. x \in ConnState /\ x.requests = x.responses /\ x.phase \in OnSocket
  BY DEF ConnInv, Settled, Phases, OnSocket
<1>2. z \in ConnState /\ z.requests = z.responses /\ z.wait # "running"
  BY <1>1, CancelFrame
<1>3. y = Finish(z) \/ y = DoReadHeaders(z) \/ y = Finish(Close(z, TRUE))
  BY DEF Written
<1> HIDE DEF z
<1> QED
  BY <1>1, <1>2, <1>3, CloseFrame, FinishInv, DoReadHeadersInv, SocketPhases

\* The timer closes the socket; only the handler of the operation ends the phase.
LEMMA TimerEndedInv ==
    ASSUME NEW x, ConnInv(x), NEW y \in TimerEnded(x)
    PROVE  Allowed(x, y)
<1> DEFINE z == [x EXCEPT !.timerStarted = FALSE, !.wait = "none", !.behind = FALSE,
                          !.pieces = "none"]
<1>1. /\ z \in ConnState
      /\ z.phase = x.phase
      /\ z.ctx = x.ctx
      /\ z.wait = "none"
      /\ z.requests = x.requests
      /\ z.responses = x.responses
  BY DEF ConnInv, ConnState
<1>2. y = z \/ \E late \in BOOLEAN : y = Close(z, late)
  BY DEF TimerEnded
<1> HIDE DEF z
<1>3. /\ y \in ConnState
      /\ y.phase = x.phase
      /\ y.ctx = x.ctx
      /\ y.wait = "none"
      /\ y.requests = x.requests
      /\ y.responses = x.responses
  BY <1>1, <1>2, CloseFrame
<1> QED
  BY <1>3 DEF Allowed, ConnInv

\* A wait that expires changes nothing else.
LEMMA ExpireInv ==
    ASSUME NEW x, ConnInv(x), x.wait = "running"
    PROVE  Allowed(x, [x EXCEPT !.wait = "expired"])
BY DEF Allowed, ConnInv, ConnState

\* A route handler's end() settles what was owed.
LEMMA EndedInv ==
    ASSUME NEW x, ConnInv(x), x.phase = "handling", NEW held \in {0, 1}
    PROVE  Allowed(x, Ended(x, held))
<1> DEFINE z == [x EXCEPT !.stale = @ + held]
<1>1. z \in ConnState /\ z.requests = z.responses + 1
  BY DEF ConnInv, ConnState
<1> HIDE DEF z
<1>2. Allowed(x, CompleteRequest(z))
  BY <1>1, CompleteRequestInv DEF Allowed
<1> QED
  BY <1>2 DEF Ended, z

\* Dropping a response that was ended answers nothing.
LEMMA DroppedInv ==
    ASSUME NEW x, ConnInv(x), x.stale > 0
    PROVE  Allowed(x, Dropped(x))
<1> DEFINE z == [x EXCEPT !.stale = @ - 1]
<1>1. /\ x \in ConnState
      /\ x.stale - 1 \in Nat
      /\ z = [x EXCEPT !.stale = x.stale - 1]
  BY DEF ConnInv, ConnState
<1>2. /\ z \in ConnState
      /\ z.phase = x.phase
      /\ z.ctx = x.ctx
      /\ z.wait = x.wait
      /\ z.requests = x.requests
      /\ z.responses = x.responses
  BY <1>1, StaleFrame
<1> HIDE DEF z
<1>3. Dropped(x) = IF x.phase = "finished" THEN Finish(z) ELSE z
  BY DEF Dropped, z
<1>4. CASE x.phase = "finished"
  BY <1>2, <1>3, <1>4, FinishInv DEF Allowed
<1>5. CASE x.phase # "finished"
  BY <1>2, <1>3, <1>5 DEF Allowed, ConnInv
<1> QED
  BY <1>4, <1>5

----------------------------------------------------------------------------
(* The steps. *)

\* A step of a connection replaces its record by an allowed one.
LEMMA ConnectionStepAllowed ==
    ASSUME Inv, NEW c \in Conns, ConnectionStep(c)
    PROVE  \E y : conn' = [conn EXCEPT ![c] = y] /\ Allowed(conn[c], y)
<1>1. ConnInv(conn[c])
  BY DEF Inv
<1>2. CASE SocketStep(c)
  <2>1. PICK y : /\ conn' = [conn EXCEPT ![c] = y]
                 /\ \/ conn[c].phase = "handshake" /\ y \in Handshaken(conn[c])
                    \/ conn[c].phase = "readHeader" /\ y \in HeaderRead(conn[c])
                    \/ conn[c].phase = "readBody" /\ y \in BodyRead(conn[c])
                    \/ conn[c].phase = "write" /\ y \in Written(conn[c])
    BY <1>2 DEF SocketStep
  <2> QED
    BY <1>1, <2>1, HandshakenInv, HeaderReadInv, BodyReadInv, WrittenInv
<1>3. CASE Answer(c)
  BY <1>1, <1>3, EndedInv DEF Answer
<1>4. CASE DropEnded(c)
  BY <1>1, <1>4, DroppedInv DEF DropEnded
<1>5. CASE Expire(c)
  <2>1. conn' = [conn EXCEPT ![c] = [conn[c] EXCEPT !.wait = "expired"]]
    BY <1>5 DEF Expire
  <2> QED
    BY <1>1, <1>5, <2>1, ExpireInv DEF Expire
<1>6. CASE TimerHandler(c)
  BY <1>1, <1>6, TimerEndedInv DEF TimerHandler
<1> QED
  BY <1>2, <1>3, <1>4, <1>5, <1>6 DEF ConnectionStep

\* start() begins the handshake under the deadline, or drops the object.
LEMMA StartAllowed ==
    ASSUME Inv, NEW c \in Conns, Start(c)
    PROVE  \E y : /\ conn' = [conn EXCEPT ![c] = y]
                  /\ ConnInv(y)
                  /\ y.phase \in {"unused", "handshake"}
                  /\ y.phase = "handshake" => ConnectionCount < MaxConnections
<1>1. /\ conn[c] \in ConnState
      /\ conn[c].phase = "posted"
      /\ conn[c].requests = 0
      /\ conn[c].responses = 0
  BY DEF Inv, ConnInv, Start, Settled, Phases
<1>2. CASE ConnectionCount >= MaxConnections
  <2>1. conn' = [conn EXCEPT ![c] = Unused]
    BY <1>2 DEF Start
  <2> QED
    BY <2>1, UnusedInv
<1>3. CASE ~(ConnectionCount >= MaxConnections)
  <2> DEFINE y == Begin(StartDeadline(conn[c]), "handshake")
  <2>1. conn' = [conn EXCEPT ![c] = y]
    BY <1>3 DEF Start
  <2>2. "handshake" \in Phases
    BY DEF Phases, OnSocket
  <2>3. ConnInv(y) /\ y.phase = "handshake"
    BY <1>1, <2>2, StartFrame, BeginFrame DEF ConnInv
  <2>4. ConnectionCount < MaxConnections
    <3>1. Live \subseteq Conns
      BY DEF Live
    <3>2. ConnectionCount \in Nat
      BY <3>1, ServerAssumption, FS_Subset, FS_CardinalityType DEF ConnectionCount
    <3> QED
      BY <1>3, <3>2, ServerAssumption
  <2> QED
    BY <2>1, <2>3, <2>4
<1> QED
  BY <1>2, <1>3

\* The acceptor's handler: the object it served is posted or gone, and a new
\* object, made with the current context, is accepting.
LEMMA AcceptHandlerStep ==
    ASSUME Inv, AcceptHandler
    PROVE  Inv'
<1>1. PICK new \in Conns \ Live :
         /\ accepting' = new
         /\ conn' = [conn EXCEPT
                         ![new] = NewConn("accepting", ctx),
                         ![accepting] = IF accept = "done" THEN [@ EXCEPT !.phase = "posted"]
                                                           ELSE Unused]
  BY DEF AcceptHandler
<1>2. /\ conn \in [Conns -> ConnState]
      /\ accepting \in Conns
      /\ ctx \in Nat
      /\ \A c \in Conns : ConnInv(conn[c])
      /\ \A c \in Conns : conn[c].phase = "accepting" <=> c = accepting
  BY DEF Inv, TypeOK, AcceptInv
<1>3. new # accepting
  BY <1>1, <1>2 DEF Live
<1>4. /\ conn'[new] = NewConn("accepting", ctx)
      /\ conn'[accepting] = IF accept = "done" THEN [conn[accepting] EXCEPT !.phase = "posted"]
                                               ELSE Unused
      /\ \A c \in Conns \ {new, accepting} : conn'[c] = conn[c]
      /\ DOMAIN conn' = Conns
      /\ conn' = [c \in Conns |-> conn'[c]]
  BY <1>1, <1>2, <1>3
<1>5. /\ ConnInv(conn'[new])
      /\ conn'[new].phase = "accepting"
      /\ conn'[new].ctx = ctx
  <2>1. ConnInv(NewConn("accepting", ctx))
    BY <1>2, NewConnInv
  <2>2. NewConn("accepting", ctx).phase = "accepting" /\ NewConn("accepting", ctx).ctx = ctx
    BY DEF NewConn
  <2> QED
    BY <1>4, <2>1, <2>2
<1>6. ConnInv(conn'[accepting]) /\ conn'[accepting].phase # "accepting"
  <2>1. CASE accept = "done"
    <3>1. ConnInv(conn[accepting]) /\ conn[accepting].phase = "accepting"
      BY <1>2
    <3>2. conn'[accepting] = [conn[accepting] EXCEPT !.phase = "posted"]
      BY <1>4, <2>1
    <3> QED
      BY <3>1, <3>2 DEF ConnInv, ConnState, Settled, Phases
  <2>2. CASE accept # "done"
    <3>1. conn'[accepting] = Unused
      BY <1>4, <2>2
    <3> QED
      BY <3>1, UnusedInv
  <2> QED
    BY <2>1, <2>2
<1>7. \A c \in Conns : ConnInv(conn'[c])
  BY <1>2, <1>4, <1>5, <1>6
<1>8. TypeOK'
  <2>1. conn' \in [Conns -> ConnState]
    BY <1>4, <1>7 DEF ConnInv
  <2> QED
    BY <1>1, <2>1 DEF AcceptHandler, Inv, TypeOK
<1>9. AcceptInv'
  <2>1. \A c \in Conns : conn'[c].phase = "accepting" <=> c = accepting'
    BY <1>1, <1>2, <1>3, <1>4, <1>5, <1>6
  <2>2. CertificateFresh'
    BY <1>1, <1>5 DEF AcceptHandler, CertificateFresh
  <2> QED
    BY <2>1, <2>2 DEF AcceptInv
<1> QED
  BY <1>7, <1>8, <1>9 DEF Inv

\* A step that replaces one record, of an object that is not accepting or in a
\* way that keeps its phase and context.
LEMMA RecordStep ==
    ASSUME Inv, NEW c \in Conns, NEW y, conn' = [conn EXCEPT ![c] = y], ConnInv(y),
           y.phase = "accepting" <=> conn[c].phase = "accepting",
           y.phase = "accepting" => y.ctx = conn[c].ctx,
           UNCHANGED <<accepting, accept, ctx, stopped>>
    PROVE  Inv'
<1>1. /\ conn \in [Conns -> ConnState]
      /\ accepting \in Conns
      /\ \A d \in Conns : ConnInv(conn[d])
      /\ \A d \in Conns : conn[d].phase = "accepting" <=> d = accepting
  BY DEF Inv, TypeOK, AcceptInv
<1>2. /\ conn'[c] = y
      /\ \A d \in Conns \ {c} : conn'[d] = conn[d]
      /\ conn' \in [Conns -> ConnState]
  BY <1>1 DEF ConnInv
<1>3. \A d \in Conns : ConnInv(conn'[d])
  BY <1>1, <1>2
<1>4. TypeOK'
  BY <1>2 DEF Inv, TypeOK
<1>5. \A d \in Conns : conn'[d].phase = "accepting" <=> d = accepting'
  BY <1>1, <1>2
<1>6. conn'[accepting].ctx = conn[accepting].ctx
  BY <1>1, <1>2
<1>7. CertificateFresh'
  BY <1>6 DEF Inv, AcceptInv, CertificateFresh
<1> QED
  BY <1>3, <1>4, <1>5, <1>7 DEF Inv, AcceptInv

\* The invariant holds after run().
LEMMA InitInv == Init => Inv
<1> SUFFICES ASSUME Init PROVE Inv
  OBVIOUS
<1>1. \A c \in Conns : /\ ConnInv(conn[c])
                       /\ conn[c].phase = "accepting" <=> c = accepting
                       /\ conn[c].ctx = 0
  <2>1. /\ ConnInv(NewConn("accepting", 0)) /\ NewConn("accepting", 0).phase = "accepting"
        /\ ConnInv(Unused) /\ Unused.phase = "unused"
        /\ NewConn("accepting", 0).ctx = 0 /\ Unused.ctx = 0
    BY NewConnInv DEF Unused, NewConn
  <2> QED
    BY <2>1 DEF Init
<1>2. TypeOK
  BY <1>1 DEF Init, TypeOK, ConnInv
<1> QED
  BY <1>1, <1>2 DEF Inv, AcceptInv, CertificateFresh, Init

\* Every step keeps the invariant.
LEMMA NextInv == Inv /\ [Next]_vars => Inv'
<1> SUFFICES ASSUME Inv, [Next]_vars PROVE Inv'
  OBVIOUS
<1>1. CASE AcceptEnds
  BY <1>1 DEF AcceptEnds, Inv, TypeOK, AcceptInv, CertificateFresh
<1>2. CASE AcceptHandler
  BY <1>2, AcceptHandlerStep
<1>3. CASE Reload
  BY <1>3 DEF Reload, Inv, TypeOK, AcceptInv, CertificateFresh
<1>4. CASE Stop
  BY <1>4 DEF Stop, Inv, TypeOK, AcceptInv, CertificateFresh
<1>5. ASSUME NEW c \in Conns, Start(c)
      PROVE  Inv'
  <2>1. conn[c].phase = "posted" /\ UNCHANGED <<accepting, accept, ctx, stopped>>
    BY <1>5 DEF Start
  <2>2. PICK y : /\ conn' = [conn EXCEPT ![c] = y]
                 /\ ConnInv(y)
                 /\ y.phase \in {"unused", "handshake"}
    BY <1>5, StartAllowed
  <2> QED
    BY <2>1, <2>2, RecordStep
<1>6. ASSUME NEW c \in Conns, ConnectionStep(c)
      PROVE  Inv'
  <2>1. PICK y : conn' = [conn EXCEPT ![c] = y] /\ Allowed(conn[c], y)
    BY <1>6, ConnectionStepAllowed
  <2>2. UNCHANGED <<accepting, accept, ctx, stopped>>
    BY <1>6 DEF ConnectionStep
  <2> QED
    BY <2>1, <2>2, RecordStep DEF Allowed
<1>7. CASE UNCHANGED vars
  BY <1>7 DEF vars, Inv, TypeOK, AcceptInv, CertificateFresh
<1> QED
  BY <1>1, <1>2, <1>3, <1>4, <1>5, <1>6, <1>7 DEF Next

\* The invariant holds in every reachable state.
THEOREM Invariance == Spec => []Inv
<1> QED
  BY InitInv, NextInv, PTL DEF Spec

----------------------------------------------------------------------------
(* The theorems. *)

\* Every variable keeps its type.
THEOREM TypeCorrect == Spec => []TypeOK
<1>1. Inv => TypeOK
  BY DEF Inv
<1> QED
  BY <1>1, Invariance, PTL

\* No request is answered twice, and none is left unanswered when the next one
\* is read, whatever route handlers do with responses they have ended.
THEOREM AnsweredOnce == Spec => []AnswerOnce
<1>1. Inv => AnswerOnce
  BY DEF Inv, AnswerOnce, ConnInv, Settled, Phases, OnSocket
<1> QED
  BY <1>1, Invariance, PTL

\* The deadline never runs while a route handler works or a kept connection idles.
THEOREM DeadlineOff == Spec => []NoDeadlineWhileHandling
<1>1. Inv => NoDeadlineWhileHandling
  BY DEF Inv, NoDeadlineWhileHandling, ConnInv
<1> QED
  BY <1>1, Invariance, PTL

\* After a reload, a socket that waits for a client has the new certificate.
THEOREM FreshCertificate == Spec => []CertificateFresh
<1>1. Inv => CertificateFresh
  BY DEF Inv, AcceptInv
<1> QED
  BY <1>1, Invariance, PTL

----------------------------------------------------------------------------
(* The limit on connections. *)

\* The sets that are counted are finite.
LEMMA Finite ==
    /\ IsFiniteSet(Live) /\ Cardinality(Live) \in Nat
    /\ IsFiniteSet(Served) /\ Cardinality(Served) \in Nat
<1>1. Live \subseteq Conns /\ Served \subseteq Conns
  BY DEF Live, Served
<1> QED
  BY <1>1, ServerAssumption, FS_Subset, FS_CardinalityType

\* start() leaves room for itself and for the object that is accepting.
LEMMA StartBound ==
    ASSUME Inv, ServedBound, NEW c \in Conns, Start(c)
    PROVE  ServedBound'
<1>1. PICK y : /\ conn' = [conn EXCEPT ![c] = y]
               /\ y.phase \in {"unused", "handshake"}
               /\ y.phase = "handshake" => ConnectionCount < MaxConnections
  BY StartAllowed
<1>2. /\ conn \in [Conns -> ConnState]
      /\ accepting \in Conns
      /\ conn[accepting].phase = "accepting"
      /\ conn[c].phase = "posted"
  BY DEF Inv, TypeOK, AcceptInv, Start
<1>3. IsFiniteSet(Served') /\ Cardinality(Served') \in Nat
  <2>1. Served' \subseteq Conns
    BY DEF Served
  <2> QED
    BY <2>1, ServerAssumption, FS_Subset, FS_CardinalityType
<1>4. CASE y.phase = "unused"
  <2>1. Served' \subseteq Served
    BY <1>1, <1>2, <1>4 DEF Served, OnSocket
  <2>2. Cardinality(Served') <= Cardinality(Served)
    BY <2>1, Finite, FS_Subset
  <2> QED
    BY <1>3, <2>2, Finite, ServerAssumption DEF ServedBound
<1>5. CASE y.phase = "handshake"
  <2> DEFINE more == Served \cup {c}
  <2>1. Served' \subseteq more
    BY <1>1, <1>2 DEF Served
  <2>2. c \notin Served /\ accepting \notin more
    BY <1>2 DEF Served, OnSocket
  <2>3. more \cup {accepting} \subseteq Live
    BY <1>2 DEF Served, Live, OnSocket
  <2>4. IsFiniteSet(more) /\ Cardinality(more) = Cardinality(Served) + 1
    BY <2>2, Finite, FS_AddElement
  <2> HIDE DEF more
  <2>5. Cardinality(more \cup {accepting}) = Cardinality(more) + 1
    BY <2>2, <2>4, FS_AddElement
  <2>6. Cardinality(Served) + 2 <= Cardinality(Live)
    <3>1. Cardinality(more \cup {accepting}) <= Cardinality(Live)
      BY <2>3, Finite, FS_Subset
    <3> QED
      BY <2>4, <2>5, <3>1, Finite
  <2>7. Cardinality(Served') <= Cardinality(Served) + 1
    BY <2>1, <2>4, FS_Subset
  <2>8. Cardinality(Live) < MaxConnections
    BY <1>1, <1>5 DEF ConnectionCount
  <2> QED
    BY <1>3, <2>6, <2>7, <2>8, Finite, ServerAssumption DEF ServedBound
<1> QED
  BY <1>1, <1>4, <1>5

\* No other step begins to serve an object.
LEMMA OthersServeNoMore ==
    ASSUME Inv, [Next]_vars, \A c \in Conns : ~Start(c)
    PROVE  Served' \subseteq Served
<1>1. conn \in [Conns -> ConnState] /\ accepting \in Conns
  BY DEF Inv, TypeOK
<1>2. CASE AcceptHandler
  <2>1. \A c \in Conns : \/ conn'[c] = conn[c]
                         \/ conn'[c].phase \in {"accepting", "posted", "unused"}
    BY <1>1, <1>2 DEF AcceptHandler, NewConn, Unused, ConnState
  <2> QED
    BY <2>1 DEF Served, OnSocket
<1>3. ASSUME NEW c \in Conns, ConnectionStep(c)
      PROVE  Served' \subseteq Served
  <2>1. PICK y : conn' = [conn EXCEPT ![c] = y] /\ Allowed(conn[c], y)
    BY <1>3, ConnectionStepAllowed
  <2>2. \A d \in Conns : \/ conn'[d] = conn[d]
                         \/ d = c /\ conn'[d].phase = y.phase
    BY <1>1, <2>1
  <2>3. ASSUME y.phase \in OnSocket \cup {"handling", "finished"}
        PROVE  conn[c].phase \in OnSocket \cup {"handling", "finished"}
    <3>1. conn[c].phase \in Phases
      BY <1>1 DEF ConnState
    <3> QED
      BY <2>1, <2>3, <3>1 DEF Allowed, Phases, OnSocket
  <2> QED
    BY <2>2, <2>3 DEF Served
<1>4. CASE AcceptEnds \/ Reload \/ Stop \/ UNCHANGED vars
  BY <1>4 DEF AcceptEnds, Reload, Stop, vars, Served
<1> QED
  BY <1>2, <1>3, <1>4 DEF Next

\* No more than MaxConnections - 2 connections are ever served.
THEOREM ServedBounded == Spec => []ServedBound
<1>1. Init => ServedBound
  <2> SUFFICES ASSUME Init PROVE ServedBound
    OBVIOUS
  <2>1. Served = {}
    BY DEF Init, Served, OnSocket, NewConn, Unused
  <2> QED
    BY <2>1, FS_EmptySet, ServerAssumption DEF ServedBound
<1>2. Inv /\ ServedBound /\ [Next]_vars => ServedBound'
  <2> SUFFICES ASSUME Inv, ServedBound, [Next]_vars PROVE ServedBound'
    OBVIOUS
  <2>1. ASSUME NEW c \in Conns, Start(c) PROVE ServedBound'
    BY <2>1, StartBound
  <2>2. CASE \A c \in Conns : ~Start(c)
    <3>1. Served' \subseteq Served
      BY <2>2, OthersServeNoMore
    <3>2. /\ Cardinality(Served') <= Cardinality(Served)
          /\ IsFiniteSet(Served') /\ Cardinality(Served') \in Nat
      BY <3>1, Finite, FS_Subset, FS_CardinalityType
    <3> QED
      BY <3>2, Finite, ServerAssumption DEF ServedBound
  <2> QED
    BY <2>1, <2>2
<1> QED
  BY <1>1, <1>2, Invariance, PTL DEF Spec
=============================================================================
