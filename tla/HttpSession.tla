---------------------------- MODULE HttpSession ----------------------------
(***************************************************************************)
(* One outgoing HTTPS session of the event client, the pair of             *)
(*   - HttpSession    (redfish_event/http/http_client.hpp:389-671), and    *)
(*   - AsyncSslStream (the same file, 184-387), which it owns.             *)
(*                                                                         *)
(* A session is a chain of asynchronous operations of which one is in      *)
(* flight at a time (op): resolve, connect, handshake, write, read.  The   *)
(* handler of an operation holds a reference to the session.  Two other    *)
(* kinds of handlers hold the STREAM only, and may run when the session is *)
(* gone: the wait that monitorForError starts after an answer, and the     *)
(* TLS shutdown that shutDown starts.  The io_context runs one handler at  *)
(* a time, so every handler is one step.                                   *)
(*                                                                         *)
(* Abstracted: the bytes of requests and answers (a request is the event   *)
(* it carries), addresses, and the number of seconds of a deadline.  The   *)
(* peer, the resolver and the TLS library may fail any operation.          *)
(***************************************************************************)
EXTENDS Naturals

CONSTANTS
    Sessions,   \* identities of session objects (and of their streams)
    Events,     \* payloads given to sendEvent
    NoEvent,    \* the payload of a request that was moved from
    Retries,    \* identities of RetryRequest objects
    NoRetry     \* "answered by handleResponse", not by a RetryRequest

ASSUME SessionAssumption == NoEvent \notin Events /\ NoRetry \notin Retries

VARIABLE sess   \* the state of every session object

(***************************************************************************)
(* conn       connectionState: std::monostate, InUse or Idle.              *)
(*            Disconnected lives only inside execute().                    *)
(* op         the operation of the chain in flight.                        *)
(* doomed     the operation in flight can only end with an error: the      *)
(*            socket it uses was closed before it could complete.          *)
(* open       the socket is open.                                          *)
(* req        what req_ carries.                                           *)
(* handler    whose handler responseHandler is: NoRetry stands for         *)
(*            HttpSubscriber::handleResponse, r for handleRetryResponse    *)
(*            bound to the RetryRequest r.                                 *)
(* armed      the monitorForError wait is outstanding.                     *)
(* aborted    how many monitorForError waits ended with an error and have  *)
(*            their on_error handler queued.                               *)
(* shutdowns  how many async_shutdown operations are outstanding.          *)
(***************************************************************************)
Operations == {"none", "resolve", "connect", "handshake", "write", "read"}

SessionState ==
    [conn : {"monostate", "InUse", "Idle"}, op : Operations, doomed : BOOLEAN,
     open : BOOLEAN, req : Events \cup {NoEvent}, handler : Retries \cup {NoRetry},
     armed : BOOLEAN, aborted : Nat, shutdowns : Nat]

\* HttpSession::create, and the handler the pool's initialiser sets.
NewSession(handler, e) ==
    [conn |-> "monostate", op |-> "none", doomed |-> FALSE, open |-> FALSE,
     req |-> e, handler |-> handler, armed |-> FALSE, aborted |-> 0, shutdowns |-> 0]

InUse(s) == sess[s].conn = "InUse"

\* A stream whose handlers are still queued or outstanding stays allocated.
StreamPending(s) ==
    sess[s].op # "none" \/ sess[s].armed \/ sess[s].aborted > 0 \/ sess[s].shutdowns > 0

----------------------------------------------------------------------------
(* What the calls of the session do to its state x. *)

\* A write or a read is started: on a closed socket it can only fail.
Start(x, o) == [x EXCEPT !.conn = "InUse", !.op = o, !.doomed = ~x.open]

\* The socket is closed under whatever waits on it: the monitor wait ends with
\* an error; the operation in flight does too, unless it had completed before.
Closed(x, late) ==
    [x EXCEPT !.open = FALSE,
              !.doomed = @ \/ (x.op \notin {"none", "resolve"} /\ ~late),
              !.armed = FALSE,
              !.aborted = IF x.armed THEN @ + 1 ELSE @]

\* execute(): resolve first on a session without a connection, otherwise write.
\* InUse::write does nothing.
Execute(x) ==
    CASE x.conn = "monostate" -> [x EXCEPT !.conn = "InUse", !.op = "resolve", !.doomed = FALSE]
      [] x.conn = "Idle"      -> Start(x, "write")
      [] x.conn = "InUse"     -> x

\* HttpSession::close and the end of the error handler: the stream's shutDown.
ShutDown(x) == [x EXCEPT !.shutdowns = @ + 1]

\* stream->monitorForError(): a wait on a closed socket fails at once.
MonitorForError(x) ==
    IF x.open THEN [x EXCEPT !.armed = TRUE] ELSE [x EXCEPT !.aborted = @ + 1]

\* The operation in flight ended with success and its handler starts the next.
\* async_connect closes the socket of an earlier connection and opens a new one.
Advance(x) ==
    CASE x.op = "resolve"   -> [Closed(x, TRUE) EXCEPT !.op = "connect", !.open = TRUE,
                                                      !.doomed = FALSE]
      [] x.op = "connect"   -> Start(x, "handshake")
      [] x.op = "handshake" -> Start(x, "write")
      [] x.op = "write"     -> Start(x, "read")

\* Variant: the connection is shut down after every answer.
AnsweredShut(x, keepAlive) ==
    ShutDown([x EXCEPT !.conn = IF keepAlive THEN "Idle" ELSE "monostate", !.op = "none",
                       !.doomed = FALSE, !.armed = keepAlive /\ x.open])

\* on_read with an answer: its arrival has woken the monitor wait, if any.
Answered(x, keepAlive) ==
    LET idle == [x EXCEPT !.conn = "Idle", !.op = "none", !.doomed = FALSE, !.armed = FALSE]
    IN  IF keepAlive THEN MonitorForError(idle)
                     ELSE ShutDown([idle EXCEPT !.conn = "monostate"])

\* The handler of the operation in flight ran with an error.  What fails an
\* operation on an open connection also makes its socket ready, which wakes the
\* monitor wait without an error; a closed socket has none outstanding.
Failed(x) == [x EXCEPT !.op = "none", !.doomed = FALSE, !.armed = FALSE]

\* The session object is destroyed: its stream and the stream's handlers remain.
Destroyed(x) ==
    [NewSession(NoRetry, NoEvent) EXCEPT !.open = x.open, !.armed = x.armed,
                                         !.aborted = x.aborted, !.shutdowns = x.shutdowns]

----------------------------------------------------------------------------
(* The steps of a session that involve no other component. *)

\* on_resolve, on_connect, on_handshake, on_write without an error.
StepForward(s) ==
    /\ sess[s].op \in {"resolve", "connect", "handshake", "write"}
    /\ ~sess[s].doomed
    /\ sess' = [sess EXCEPT ![s] = Advance(@)]

\* The 30 s that on_resolve allows for the connection are over; they are never
\* renewed, so they end in a later request when the session is reused.
\* The stream closes its socket.
Expire(s) ==
    /\ sess[s].op \in {"connect", "handshake", "write", "read"}
    /\ sess[s].open
    /\ sess' = [sess EXCEPT ![s] = Closed(@, FALSE)]

\* Variant: the handler may run when no shutdown is outstanding.
ShutdownDoneAnyway(s) ==
    sess' = [sess EXCEPT ![s] = Closed([sess[s] EXCEPT !.shutdowns = @ - 1], FALSE)]

\* on_shutdown: whatever the outcome, the socket is closed - the socket the
\* stream has by now, which may be that of a later connection.
ShutdownDone(s) ==
    /\ sess[s].shutdowns > 0
    /\ \E late \in BOOLEAN :
          sess' = [sess EXCEPT ![s] = Closed([sess[s] EXCEPT !.shutdowns = @ - 1], late)]

\* on_error without an error: the peer sent something or closed its end.
MonitorReadable(s) ==
    /\ sess[s].armed
    /\ sess' = [sess EXCEPT ![s].armed = FALSE]
=============================================================================
