-------------------------- MODULE Http2Connection --------------------------
(***************************************************************************)
(* One HTTP/2 connection (src/http/http2_connection.hpp) with the library  *)
(* it drives (nghttp2, as src/http/nghttp2_adapters.hpp calls it), its     *)
(* socket, a client and the handlers of its requests.                      *)
(*                                                                         *)
(* A read hands one frame to the library: more frames in one read are as   *)
(* many such steps in a row.  A handler that answers within the read is    *)
(* the step of its answer right after it.  Frames are whole: a write takes *)
(* some number of them.                                                    *)
(***************************************************************************)
EXTENDS Integers, Sequences, FiniteSets

CONSTANTS Ids,           \* the streams the client may open, smaller ones first
          MaxPieces,     \* how many pieces a body has at most
          MaxCredit,     \* how many pieces the client's window takes at most
          MaxControl     \* how often the library has a frame of its own to send

ASSUME Http2Assumption ==
  /\ Ids \subseteq Nat \ {0} /\ MaxPieces \in Nat \ {0}
  /\ MaxCredit \in Nat /\ MaxControl \in Nat

VARIABLES open,          \* the socket
          reading,       \* the read outstanding: "no", "pending" or "ready"
          writing,       \* the write outstanding: "no", "pending", "ready" or "failed"
          inFlight,      \* how many frames of the buffer it was given
          sent,          \* how many of them it wrote
          sendBuffer,    \* what the library emitted and no finished write took away
          stream,        \* each stream, see StreamStates
          working,       \* the streams whose handler has not answered yet
          left,          \* the pieces of its body that a stream has to send yet
          credit,        \* the client's window
          control,       \* the library has a frame of its own to send
          controls,      \* how many of those there were
          flushing,      \* the library's send is at work
          touched,       \* a handler has answered a connection that is gone
          emitted,       \* history: every frame the library emitted
          wire           \* history: every frame the socket took

socketVars == <<open, reading, writing, inFlight, sent, sendBuffer, emitted, wire>>
sessionVars == <<stream, left, credit, control, controls, flushing>>
http2Vars == <<socketVars, sessionVars, working, touched>>

\* "open": the request has not ended; "asked": its handler has it; "submitted"
\* and "sending": the library has its answer, without and with its head sent;
\* "failed": its body could not be read on, and a reset of it is to be sent.
StreamStates == {"idle", "open", "asked", "submitted", "sending", "failed", "closed"}

\* rest: how many pieces of the body come after this frame.
Frame(id, kind, rest) == [id |-> id, kind |-> kind, rest |-> rest]
Frames ==
  [id : Ids \cup {0}, kind : {"control", "head", "data", "last", "reset"}, rest : Nat]

-----------------------------------------------------------------------------
(* The socket.                                                             *)

\* The handlers of what is outstanding hold the connection.
Alive == reading # "no" \/ writing # "no"

\* A read or write outstanding on a closed socket fails, if it is not ready.
Close == open' = FALSE

\* doRead, on a closed socket, too.
DoRead == reading' = "pending"

\* Variant: a write is begun while another is in flight.
WriteAnyway(idle, buffer) ==
  IF buffer = <<>> THEN writing' = "no" /\ inFlight' = 0
  ELSE writing' = "pending" /\ inFlight' = Len(buffer)

\* writeBuffer with the buffer as it is by then.
WriteBuffer(idle, buffer) ==
  CASE ~idle -> UNCHANGED <<writing, inFlight>>
    [] idle /\ buffer = <<>> -> writing' = "no" /\ inFlight' = 0
    [] idle /\ buffer # <<>> -> writing' = "pending" /\ inFlight' = Len(buffer)

\* The library hands over a frame.
OnSendCallback(frame) ==
  /\ emitted' = Append(emitted, frame)
  /\ sendBuffer' = Append(sendBuffer, frame)
  /\ WriteBuffer(writing = "no", Append(sendBuffer, frame))
  /\ UNCHANGED <<open, reading, sent, wire>>

\* The socket takes the first k frames of the write; its handler is queued.
WriteArrives(k) ==
  /\ writing = "pending" /\ open
  /\ wire' = wire \o SubSeq(sendBuffer, 1, k)
  /\ sent' = k
  /\ writing' = "ready"
  /\ UNCHANGED <<open, reading, inFlight, sendBuffer, emitted, sessionVars, working, touched>>

\* The client is gone, or the socket was closed.
WriteFails ==
  /\ writing = "pending"
  /\ writing' = "failed"
  /\ UNCHANGED <<open, reading, inFlight, sent, sendBuffer, emitted, wire>>
  /\ UNCHANGED <<sessionVars, working, touched>>

\* Variant: the rest of the buffer is left for the next frame to start.
ConsumeAndStop ==
  /\ ~flushing /\ writing = "ready"
  /\ sendBuffer' = SubSeq(sendBuffer, sent + 1, Len(sendBuffer)) /\ sent' = 0
  /\ writing' = "no"
  /\ UNCHANGED <<open, reading, inFlight, emitted, wire, sessionVars, working, touched>>

AfterWriteBuffer ==
  LET rest == SubSeq(sendBuffer, sent + 1, Len(sendBuffer)) IN
  /\ ~flushing /\ writing = "ready"
  /\ sendBuffer' = rest /\ sent' = 0
  /\ WriteBuffer(TRUE, rest)
  /\ UNCHANGED <<open, reading, emitted, wire, sessionVars, working, touched>>

AfterWriteError ==
  /\ ~flushing /\ writing = "failed"
  /\ writing' = "no" /\ inFlight' = 0
  /\ Close
  /\ UNCHANGED <<reading, sent, sendBuffer, emitted, wire, sessionVars, working, touched>>

ReadArrives ==
  /\ reading = "pending" /\ open
  /\ reading' = "ready"
  /\ UNCHANGED <<open, writing, inFlight, sent, sendBuffer, emitted, wire>>
  /\ UNCHANGED <<sessionVars, working, touched>>

\* Variant: it is read again.
ReadFailsReadsOn ==
  /\ ~flushing /\ reading = "pending"
  /\ DoRead
  /\ Close
  /\ UNCHANGED <<writing, inFlight, sent, sendBuffer, emitted, wire>>
  /\ UNCHANGED <<sessionVars, working, touched>>

\* The client ended the connection, or the socket was closed.
ReadFails ==
  /\ ~flushing /\ reading = "pending"
  /\ reading' = "no"
  /\ Close
  /\ UNCHANGED <<writing, inFlight, sent, sendBuffer, emitted, wire>>
  /\ UNCHANGED <<sessionVars, working, touched>>

-----------------------------------------------------------------------------
(* Frames of the client, in the handler of a read.                         *)

Received ==
  /\ ~flushing /\ reading = "ready"
  /\ DoRead
  /\ UNCHANGED <<open, writing, inFlight, sent, sendBuffer, emitted, wire>>
  /\ UNCHANGED <<flushing, touched>>

\* Variant: the handler is called with the head.
OnRequestRecvEarly(s, ends) ==
  /\ stream' = [stream EXCEPT ![s] = IF ends THEN "asked" ELSE "open"]
  /\ working' = working \cup {s}

\* The stream after a frame that may have ended the request; if it has, the
\* handler is called.
OnRequestRecv(s, ends) ==
  /\ stream' = [stream EXCEPT ![s] = IF ends THEN "asked" ELSE "open"]
  /\ working' = IF ends THEN working \cup {s} ELSE working

RecvHeaders(s, ends) ==
  /\ Received
  /\ stream[s] = "idle" /\ \A t \in Ids : t < s => stream[t] # "idle"
  /\ OnRequestRecv(s, ends)
  /\ UNCHANGED <<left, credit, control, controls>>

\* A piece of the body, which is not kept, or the trailer.
RecvData(s, ends) ==
  /\ Received
  /\ stream[s] = "open"
  /\ OnRequestRecv(s, ends)
  /\ UNCHANGED <<left, credit, control, controls>>

\* The client resets a stream: it leaves the map, whatever its handler does.
RecvReset(s) ==
  /\ Received
  /\ stream[s] \notin {"idle", "closed"}
  /\ stream' = [stream EXCEPT ![s] = "closed"]
  /\ left' = [left EXCEPT ![s] = 0]
  /\ UNCHANGED <<working, credit, control, controls>>

\* More window; nothing is sent because of it.
RecvWindow ==
  /\ Received
  /\ credit < MaxCredit
  /\ credit' = credit + 1
  /\ UNCHANGED <<stream, working, left, control, controls>>

\* Settings or a ping: the library will want to acknowledge it.
RecvControl ==
  /\ Received
  /\ controls < MaxControl
  /\ control' = TRUE
  /\ controls' = IF control THEN controls ELSE controls + 1
  /\ UNCHANGED <<stream, working, left, credit>>

\* Variant: the socket is left open.
RecvBadLeavesOpen ==
  /\ ~flushing /\ reading = "ready"
  /\ reading' = "no"
  /\ UNCHANGED <<open, writing, inFlight, sent, sendBuffer, emitted, wire>>
  /\ UNCHANGED <<sessionVars, working, touched>>

\* An unknown verb, or what is no frame.
RecvBad ==
  /\ ~flushing /\ reading = "ready"
  /\ reading' = "no"
  /\ Close
  /\ UNCHANGED <<writing, inFlight, sent, sendBuffer, emitted, wire>>
  /\ UNCHANGED <<sessionVars, working, touched>>

RecvFrame ==
  \/ \E s \in Ids, ends \in BOOLEAN : RecvHeaders(s, ends) \/ RecvData(s, ends)
  \/ \E s \in Ids : RecvReset(s)
  \/ RecvWindow
  \/ RecvControl
  \/ RecvBad

-----------------------------------------------------------------------------
(* Answers.                                                                *)

\* The connection is gone: what the answer does to it is undefined.
AnswersGone(s) ==
  /\ ~Alive
  /\ touched' = TRUE
  /\ UNCHANGED <<socketVars, sessionVars>>

\* The stream was reset: the whole connection is closed.
AnswersClosed(s) ==
  /\ Alive /\ stream[s] # "asked"
  /\ Close
  /\ UNCHANGED <<reading, writing, inFlight, sent, sendBuffer, emitted, wire>>
  /\ UNCHANGED <<sessionVars, touched>>

\* sendResponse: the answer is submitted and the library sends.
SendResponse(s, pieces) ==
  /\ Alive /\ stream[s] = "asked"
  /\ stream' = [stream EXCEPT ![s] = "submitted"]
  /\ left' = [left EXCEPT ![s] = pieces]
  /\ flushing' = TRUE
  /\ UNCHANGED <<socketVars, credit, control, controls, touched>>

HandlerAnswers(s, pieces) ==
  /\ ~flushing /\ s \in working
  /\ working' = working \ {s}
  /\ AnswersGone(s) \/ AnswersClosed(s) \/ SendResponse(s, pieces)

-----------------------------------------------------------------------------
(* The library's send: frames of its own, heads and resets first, then the *)
(* bodies as far as the window goes.                                       *)

SendControl ==
  /\ flushing /\ control
  /\ control' = FALSE
  /\ OnSendCallback(Frame(0, "control", 0))
  /\ UNCHANGED <<stream, left, credit, controls, flushing, working, touched>>

SendHead(s) ==
  /\ flushing /\ stream[s] = "submitted"
  /\ stream' = [stream EXCEPT ![s] = "sending"]
  /\ OnSendCallback(Frame(s, "head", left[s]))
  /\ UNCHANGED <<left, credit, control, controls, flushing, working, touched>>

\* The reset of a body that failed; only with it the stream leaves the map.
SendReset(s) ==
  /\ flushing /\ stream[s] = "failed"
  /\ stream' = [stream EXCEPT ![s] = "closed"]
  /\ left' = [left EXCEPT ![s] = 0]
  /\ OnSendCallback(Frame(s, "reset", 0))
  /\ UNCHANGED <<credit, control, controls, flushing, working, touched>>

NothingFirst == ~control /\ \A t \in Ids : stream[t] \notin {"submitted", "failed"}

MaySendBody(s) ==
  /\ flushing /\ NothingFirst
  /\ stream[s] = "sending" /\ left[s] > 0 /\ credit > 0

\* Variant: the end is told one piece early.
EndEarly(s) ==
  /\ MaySendBody(s)
  /\ left' = [left EXCEPT ![s] = @ - 1]
  /\ credit' = credit - 1
  /\ stream' = [stream EXCEPT ![s] = IF left[s] <= 2 THEN "closed" ELSE @]
  /\ OnSendCallback(Frame(s, IF left[s] <= 2 THEN "last" ELSE "data", left[s] - 1))
  /\ UNCHANGED <<control, controls, flushing, working, touched>>

\* fileReadCallback: the end is told with the last piece, and the stream then
\* leaves the map.
SendPiece(s) ==
  /\ MaySendBody(s)
  /\ left' = [left EXCEPT ![s] = @ - 1]
  /\ credit' = credit - 1
  /\ stream' = [stream EXCEPT ![s] = IF left[s] = 1 THEN "closed" ELSE @]
  /\ OnSendCallback(Frame(s, IF left[s] = 1 THEN "last" ELSE "data", left[s] - 1))
  /\ UNCHANGED <<control, controls, flushing, working, touched>>

\* fileReadCallback: the next piece, the first or a later one, cannot be read.
SendFails(s) ==
  /\ MaySendBody(s)
  /\ stream' = [stream EXCEPT ![s] = "failed"]
  /\ UNCHANGED <<left, credit, control, controls, flushing, socketVars, working, touched>>

SendEnds ==
  /\ flushing /\ NothingFirst
  /\ credit = 0 \/ \A s \in Ids : stream[s] # "sending"
  /\ flushing' = FALSE
  /\ UNCHANGED <<stream, left, credit, control, controls, socketVars, working, touched>>

Sending ==
  \/ SendControl
  \/ \E s \in Ids : SendHead(s) \/ SendReset(s) \/ SendPiece(s) \/ SendFails(s)
  \/ SendEnds

-----------------------------------------------------------------------------
\* start: the settings are submitted, and sent with the first answer.
Http2Init ==
  /\ open = TRUE /\ reading = "pending" /\ writing = "no"
  /\ inFlight = 0 /\ sent = 0 /\ sendBuffer = <<>>
  /\ stream = [s \in Ids |-> "idle"] /\ working = {}
  /\ left = [s \in Ids |-> 0] /\ credit = MaxCredit
  /\ control = TRUE /\ controls = 1
  /\ flushing = FALSE /\ touched = FALSE
  /\ emitted = <<>> /\ wire = <<>>

WriteStep ==
  \/ \E k \in 1..inFlight : WriteArrives(k)
  \/ WriteFails
  \/ AfterWriteBuffer
  \/ AfterWriteError

Http2Next ==
  \/ WriteStep
  \/ ReadArrives
  \/ ReadFails
  \/ RecvFrame
  \/ \E s \in Ids, pieces \in 1..MaxPieces : HandlerAnswers(s, pieces)
  \/ Sending

\* Handlers that are queued run, what is outstanding on a closed socket fails,
\* and the library's send does not stop in the middle.  A write on an open socket
\* has no deadline: nothing makes it end, and nothing is assumed of the client or
\* of the handlers.
Http2Fairness ==
  /\ WF_http2Vars(AfterWriteBuffer \/ AfterWriteError)
  /\ WF_http2Vars(~open /\ WriteFails)
  /\ WF_http2Vars(~open /\ ReadFails)
  /\ WF_http2Vars(RecvFrame)
  /\ WF_http2Vars(Sending)

Http2Spec == Http2Init /\ [][Http2Next]_http2Vars /\ Http2Fairness

-----------------------------------------------------------------------------
(* Properties.                                                             *)

\* The types; a write was given frames of the buffer and wrote some of them.
Http2TypeOK ==
  /\ open \in BOOLEAN /\ flushing \in BOOLEAN /\ control \in BOOLEAN /\ touched \in BOOLEAN
  /\ reading \in {"no", "pending", "ready"}
  /\ writing \in {"no", "pending", "ready", "failed"}
  /\ sendBuffer \in Seq(Frames) /\ emitted \in Seq(Frames) /\ wire \in Seq(Frames)
  /\ inFlight \in 0..Len(sendBuffer) /\ sent \in 0..inFlight
  /\ stream \in [Ids -> StreamStates] /\ working \subseteq Ids
  /\ left \in [Ids -> 0..MaxPieces] /\ credit \in 0..MaxCredit /\ controls \in Nat

\* Appending to the buffer while a write of it is in flight neither loses, nor
\* doubles, nor reorders a frame: what the socket took is a prefix of what the
\* library emitted, and the rest is in the buffer.
WireInOrder ==
  emitted = wire \o SubSeq(sendBuffer, sent + 1, Len(sendBuffer))

\* While the socket is open a read is outstanding, so that the connection
\* notices its client and is not destroyed: a late answer finds it gone only
\* when the socket was closed before.
OpenIsRead == (open => reading # "no") /\ (touched => ~open)

\* What the client sees of one request, whatever was reset, answered late or
\* written in parts: a head, then the pieces of the body with none left out, and
\* the end with the very last of them; or a beginning of it, or a reset after one.
AnswersWhole ==
  \A s \in Ids :
    LET seen == {i \in DOMAIN wire : wire[i].id = s} IN
    \A i \in seen :
      LET before == {j \in seen : j < i} IN
      /\ wire[i].kind = "head" <=> before = {}
      /\ \A j \in before : wire[j].kind \notin {"last", "reset"}
      /\ wire[i].kind \in {"data", "last"} =>
           /\ \A j \in before : wire[j].rest > wire[i].rest
           /\ \E j \in before : wire[j].rest = wire[i].rest + 1
           /\ wire[i].kind = "last" <=> wire[i].rest = 0

\* No request is forgotten: its handler has it still, or has answered a
\* connection that is gone; and an answer that was submitted has its head sent
\* before anything else happens.
NoneForgotten ==
  \A s \in Ids :
    /\ stream[s] = "asked" => s \in working \/ touched
    /\ stream[s] = "submitted" => flushing
    /\ stream[s] \in {"idle", "open"} => s \notin working

\* Every frame the library emitted reaches the socket, or that is closed, or the
\* client leaves a write pending for ever.
Drains ==
  \A n \in 1..(MaxControl + Cardinality(Ids) * (MaxPieces + 1)) :
    \/ []<>(Len(emitted) >= n => Len(wire) >= n \/ ~open)
    \/ <>[](writing = "pending")

\* A connection that is closed lets go of itself.
Freed == ~open ~> ~Alive
=============================================================================
