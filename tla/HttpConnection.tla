--------------------------- MODULE HttpConnection ---------------------------
(***************************************************************************)
(* One incoming HTTPS connection (http/http_connection.hpp:47-662), with   *)
(* the response object a route handler fills (http/http_response.hpp and   *)
(* include/async_resp.hpp) and the deadline timer.                         *)
(*                                                                         *)
(* The build modelled is the one of meson.build: TLS, no authentication    *)
(* (BMCWEB_INSECURE_DISABLE_AUTHX: userSession stays null), no mutual TLS, *)
(* no HTTP/2, no websocket rule.  One io_context thread runs one handler   *)
(* at a time, in the order they were queued, so every handler is one step; *)
(* what a handler does is written as functions from the state x of the     *)
(* connection to its next state.                                           *)
(*                                                                         *)
(* Abstracted: the bytes read and written, header contents other than the  *)
(* ones the control depends on, and time: a wait that is running may       *)
(* expire at any moment.                                                   *)
(***************************************************************************)
EXTENDS Naturals

CONSTANTS
    Conns,          \* identities of Connection objects
    MaxRequests     \* bound of the model: requests read on one connection

ASSUME ConnectionAssumption == MaxRequests \in Nat

VARIABLE conn       \* the state of every Connection object

(***************************************************************************)
(* phase      what the object waits for: the accept, the posted start, an  *)
(*            asynchronous operation on its socket, or a route handler that *)
(*            holds the response ("handling").  "finished": nothing, but a  *)
(*            response that was ended is still held somewhere, and with it *)
(*            the object.  "unused": no such object.                       *)
(* open       the socket is open: isAlive().                               *)
(* doomed     the operation on the socket can only end with an error.      *)
(* keepAlive  the member keepAlive.                                        *)
(* wait       the timer's wait: none, running, or ended with its handler   *)
(*            queued - expired or aborted by a cancel.                     *)
(* behind     the operation on the socket was begun with the timer's       *)
(*            handler queued: its own handler comes after that one.        *)
(* timerStarted  the member timerStarted.                                  *)
(* stale      responses that were ended by end() and are still held.       *)
(* ctx        the TLS context the socket was made with.                    *)
(* History: requests read and given to handle(), responses whose write     *)
(* began, and pieces: "first" if the wait was started when a piece of the  *)
(* body was read, "more" if another one was read while it ran.             *)
(***************************************************************************)
OnSocket == {"handshake", "readHeader", "readBody", "write"}
Phases == OnSocket \cup {"unused", "accepting", "posted", "handling", "finished"}

ConnState ==
    [phase : Phases, open : BOOLEAN, doomed : BOOLEAN, keepAlive : BOOLEAN,
     wait : {"none", "running", "expired", "aborted"}, behind : BOOLEAN,
     timerStarted : BOOLEAN, stale : Nat, ctx : Nat, requests : Nat, responses : Nat,
     pieces : {"none", "first", "more"}]

\* The constructor.
NewConn(phase, context) ==
    [phase |-> phase, open |-> TRUE, doomed |-> FALSE, keepAlive |-> TRUE,
     wait |-> "none", behind |-> FALSE, timerStarted |-> FALSE, stale |-> 0,
     ctx |-> context, requests |-> 0, responses |-> 0, pieces |-> "none"]

Unused == NewConn("unused", 0)

----------------------------------------------------------------------------
(* The timer. *)

\* timer.cancel(): no effect on a wait that has ended.
CancelDeadlineTimer(x) ==
    IF x.wait = "running" THEN [x EXCEPT !.wait = "aborted", !.pieces = "none"] ELSE x

StartDeadline(x) ==
    IF x.timerStarted
    THEN x
    ELSE [x EXCEPT !.wait = "running", !.timerStarted = TRUE]

(* The socket. *)

\* An operation begins; on a closed socket it can only fail.
Begin(x, phase) ==
    [x EXCEPT !.phase = phase, !.doomed = ~x.open,
              !.behind = x.wait \in {"expired", "aborted"}]

\* close().  An operation in flight ends with an error, unless it had ended
\* before (late) and only its handler is still to run.
Close(x, late) ==
    [x EXCEPT !.open = FALSE, !.doomed = @ \/ (x.phase \in OnSocket /\ ~late)]

\* A handler starts nothing more: its reference to the object is gone, and the
\* object with it, unless a response that was ended is still held.
Finish(x) ==
    IF x.stale = 0
    THEN Unused
    ELSE [x EXCEPT !.phase = "finished", !.doomed = FALSE, !.behind = FALSE]

----------------------------------------------------------------------------
(* The calls that handlers share. *)

DoReadHeaders(x) == Begin(x, "readHeader")

DoRead(x) == Begin(StartDeadline(x), "readBody")

DoWrite(x) == Begin(StartDeadline([x EXCEPT !.responses = @ + 1]), "write")

\* Variant: on a closed socket the object is never let go.
CompleteRequestLeaks(x) == IF x.open THEN DoWrite(x) ELSE [x EXCEPT !.phase = "finished"]

\* The answer is dropped if the socket was closed in the meantime.
CompleteRequest(x) == IF x.open THEN DoWrite(x) ELSE Finish(x)

\* handle(): a request without a valid URL, or of HTTP/1.1 without a Host, is
\* answered with 400 before keepAlive is read from the request.  Otherwise an
\* upgrade is refused at once (there is no rule that accepts one), and a route
\* handler answers at once or keeps the response.
Handle(x) ==
    LET req == [x EXCEPT !.requests = @ + 1]
        routed == {[req EXCEPT !.keepAlive = k] : k \in BOOLEAN}
    IN  {CompleteRequest(req)}
        \cup {CompleteRequest(r) : r \in routed}
        \cup {[r EXCEPT !.phase = "handling", !.doomed = FALSE, !.behind = FALSE] : r \in routed}

----------------------------------------------------------------------------
(* The handlers: the states that may follow the state x. *)

\* The handler of async_handshake.
Handshaken(x) ==
    {Finish(x)} \cup (IF x.doomed THEN {} ELSE {DoReadHeaders(x)})

\* The handler of async_read_header.  A socket that was closed counts as an
\* error, unless the request asks for an upgrade.
HeaderRead(x) ==
    LET y == CancelDeadlineTimer(x)
    IN  {Finish(Close(y, TRUE))}
        \cup (IF x.doomed \/ x.requests = MaxRequests
              THEN {}
              ELSE {DoRead(y)} \cup Handle(y))

\* A piece of the body was read, which was not the last.
DoReadOn(x) ==
    [DoRead(x) EXCEPT !.pieces =
        CASE ~x.timerStarted                          -> "first"
          [] x.wait = "running" /\ x.pieces = "first" -> "more"
          [] OTHER                                    -> x.pieces]

\* Variant: the deadline is left running when the body is complete.
BodyReadNoCancel(x) ==
    {Finish(Close(x, TRUE))}
    \cup (IF x.doomed THEN {} ELSE {DoReadOn(x)} \cup Handle(x))

\* The handler of async_read_some.  userSession is null, so the deadline is not
\* cancelled between the pieces of a body.
BodyRead(x) ==
    {Finish(Close(x, TRUE))}
    \cup (IF x.doomed
          THEN {}
          ELSE {DoReadOn(x)} \cup Handle(CancelDeadlineTimer(x)))

\* afterDoWrite: an error only drops the object; the destructor closes the socket.
Written(x) ==
    LET y == CancelDeadlineTimer(x)
    IN  {Finish(y)}
        \cup (IF x.doomed THEN {}
              ELSE IF y.keepAlive THEN {DoReadHeaders(y)}
              ELSE {Finish(Close(y, TRUE))})

\* The timer's handler.
TimerEnded(x) ==
    LET y == [x EXCEPT !.timerStarted = FALSE, !.wait = "none", !.behind = FALSE,
                       !.pieces = "none"]
    IN  IF x.wait = "aborted" THEN {y} ELSE {Close(y, late) : late \in BOOLEAN}

\* end() on the response, which its route handler keeps (held = 1) or not.
Ended(x, held) == CompleteRequest([x EXCEPT !.stale = @ + held])

\* Variant: a response that is dropped is ended a second time.
DroppedCompletes(x) ==
    LET y == [x EXCEPT !.stale = @ - 1]
    IN  IF x.phase = "write" THEN CompleteRequest(y) ELSE y

\* The last reference to a response that was ended is dropped: end() only
\* reports that it was ended twice.
Dropped(x) ==
    LET y == [x EXCEPT !.stale = @ - 1]
    IN  IF x.phase = "finished" THEN Finish(y) ELSE y

----------------------------------------------------------------------------
(* The steps of a connection after its start. *)

SocketStep(c) ==
    /\ ~conn[c].behind
    /\ \E y \in CASE conn[c].phase = "handshake"  -> Handshaken(conn[c])
                  [] conn[c].phase = "readHeader" -> HeaderRead(conn[c])
                  [] conn[c].phase = "readBody"   -> BodyRead(conn[c])
                  [] conn[c].phase = "write"      -> Written(conn[c])
                  [] OTHER                        -> {} :
          conn' = [conn EXCEPT ![c] = y]

\* The route handler calls end() on the response and keeps it, or drops the last
\* reference to it (~AsyncResp calls end()).
Answer(c) ==
    /\ conn[c].phase = "handling"
    /\ \E held \in {0, 1} : conn' = [conn EXCEPT ![c] = Ended(@, held)]

\* Variant: a response is dropped that nothing holds.
DropEndedAnyway(c) == conn' = [conn EXCEPT ![c] = Dropped(@)]

DropEnded(c) ==
    /\ conn[c].stale > 0
    /\ conn' = [conn EXCEPT ![c] = Dropped(@)]

Expire(c) ==
    /\ conn[c].wait = "running"
    /\ conn' = [conn EXCEPT ![c].wait = "expired"]

TimerHandler(c) ==
    /\ conn[c].wait \in {"expired", "aborted"}
    /\ \E y \in TimerEnded(conn[c]) : conn' = [conn EXCEPT ![c] = y]
=============================================================================
