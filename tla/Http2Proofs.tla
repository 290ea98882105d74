---------------------------- MODULE Http2Proofs ----------------------------
(***************************************************************************)
(* Theorems about Http2Connection, for every set of streams and every size *)
(* of bodies and windows: its type, that no frame is lost or reordered     *)
(* between the library and the socket, that an open connection is read,    *)
(* that no request is forgotten, and that an answer that ends is whole.    *)
(***************************************************************************)
EXTENDS Http2Connection, SequenceTheorems, TLAPS

\* Nothing of the buffer is on the wire but what a write that ended wrote.
SentInv == writing # "ready" => sent = 0

Inv == Http2TypeOK /\ SentInv /\ WireInOrder /\ OpenIsRead /\ NoneForgotten

\* The parts of it that speak of the socket and its buffer, and of the session.
SocketType ==
  /\ open \in BOOLEAN
  /\ reading \in {"no", "pending", "ready"}
  /\ writing \in {"no", "pending", "ready", "failed"}
  /\ sendBuffer \in Seq(Frames) /\ emitted \in Seq(Frames) /\ wire \in Seq(Frames)
  /\ inFlight \in 0..Len(sendBuffer) /\ sent \in 0..inFlight

SocketInv == SocketType /\ SentInv /\ WireInOrder

SessionType ==
  /\ flushing \in BOOLEAN /\ control \in BOOLEAN /\ touched \in BOOLEAN
  /\ stream \in [Ids -> StreamStates] /\ working \subseteq Ids
  /\ left \in [Ids -> 0..MaxPieces] /\ credit \in 0..MaxCredit /\ controls \in Nat

SessionInv == SessionType /\ NoneForgotten

LEMMA InvParts == Inv <=> SocketInv /\ SessionInv /\ OpenIsRead
BY DEF Inv, SocketInv, SessionInv, SocketType, SessionType, Http2TypeOK

LEMMA InvPartsNext == SocketInv' /\ SessionInv' /\ OpenIsRead' => Inv'
BY DEF Inv, SocketInv, SessionInv, SocketType, SessionType, Http2TypeOK

-----------------------------------------------------------------------------
(* The rest of a sequence after n elements.                                *)

LEMMA RestType ==
  ASSUME NEW S, NEW q \in Seq(S), NEW n \in 0..Len(q)
  PROVE  /\ SubSeq(q, n + 1, Len(q)) \in Seq(S)
         /\ Len(SubSeq(q, n + 1, Len(q))) = Len(q) - n
<1>1. \A i \in (n + 1)..Len(q) : q[i] \in S
  BY ElementOfSeq, LenProperties
<1>2. QED
  BY <1>1, SubSeqProperties, LenProperties

LEMMA RestOfAppend ==
  ASSUME NEW S, NEW q \in Seq(S), NEW e \in S, NEW n \in 0..Len(q)
  PROVE  SubSeq(Append(q, e), n + 1, Len(Append(q, e)))
           = Append(SubSeq(q, n + 1, Len(q)), e)
<1> DEFINE new  == Append(q, e)
           all  == SubSeq(new, n + 1, Len(new))
           rest == SubSeq(q, n + 1, Len(q))
<1>1. new \in Seq(S) /\ Len(new) = Len(q) + 1 /\ Len(q) \in Nat
  BY LenProperties
<1>2. \A i \in 1..Len(q) : new[i] = q[i]
  BY LenProperties
<1>3. new[Len(q) + 1] = e
  BY LenProperties
<1>4. n \in 0..Len(new)
  BY <1>1
<1>5. all \in Seq(S) /\ Len(all) = Len(q) + 1 - n
  BY <1>1, <1>4, RestType
<1>6. rest \in Seq(S) /\ Len(rest) = Len(q) - n
  BY RestType
<1>7. \A i \in (n + 1)..Len(q) : q[i] \in S
  BY ElementOfSeq, <1>1
<1>8. \A i \in 1..(Len(q) - n) : rest[i] = q[n + i]
  <2>1. \A i \in 1..(Len(q) - (n + 1) + 1) : rest[i] = q[n + 1 + i - 1]
    BY <1>1, <1>7, SubSeqProperties
  <2>2. QED
    BY <1>1, <2>1
<1>9. \A i \in (n + 1)..Len(new) : new[i] \in S
  BY ElementOfSeq, <1>1
<1>10. \A i \in 1..(Len(q) + 1 - n) : all[i] = new[n + i]
  <2>1. \A i \in 1..(Len(new) - (n + 1) + 1) : all[i] = new[n + 1 + i - 1]
    BY <1>1, <1>9, SubSeqProperties
  <2>2. QED
    BY <1>1, <2>1
<1> HIDE DEF all, rest, new
<1>11. Append(rest, e) \in Seq(S) /\ Len(Append(rest, e)) = Len(q) + 1 - n
  BY <1>1, <1>6
<1>12. \A i \in 1..(Len(q) + 1 - n) :
         Append(rest, e)[i] = IF i = Len(q) + 1 - n THEN e ELSE rest[i]
  BY <1>1, <1>6, SMTT(40)
<1>13. \A i \in 1..(Len(q) + 1 - n) : all[i] = Append(rest, e)[i]
  <2> TAKE i \in 1..(Len(q) + 1 - n)
  <2>1. all[i] = new[n + i]
    BY <1>10
  <2>2. CASE i = Len(q) + 1 - n
    <3>1. n + i = Len(q) + 1
      BY <1>1, <2>2
    <3>2. QED
      BY <1>3, <1>12, <2>1, <2>2, <3>1
  <2>3. CASE i # Len(q) + 1 - n
    <3>1. i \in 1..(Len(q) - n) /\ n + i \in 1..Len(q)
      BY <1>1, <2>3
    <3>2. QED
      BY <1>2, <1>8, <1>12, <2>1, <2>3, <3>1
  <2>4. QED
    BY <2>2, <2>3
<1>14. all = Append(rest, e)
  BY <1>5, <1>11, <1>13, SeqEqual
<1>15. QED
  BY <1>14 DEF all, rest, new

LEMMA AppendAfterConcat ==
  ASSUME NEW S, NEW p \in Seq(S), NEW q \in Seq(S), NEW e \in S
  PROVE  Append(p \o q, e) = p \o Append(q, e)
<1>1. <<e>> \in Seq(S) /\ Append(q, e) = q \o <<e>>
  OBVIOUS
<1>2. p \o q \in Seq(S)
  BY ConcatProperties
<1>3. Append(p \o q, e) = (p \o q) \o <<e>>
  BY <1>2
<1>4. (p \o q) \o <<e>> = p \o (q \o <<e>>)
  BY <1>1, ConcatAssociative
<1>5. QED
  BY <1>1, <1>3, <1>4

LEMMA TakeAndRest ==
  ASSUME NEW S, NEW q \in Seq(S), NEW n \in 0..Len(q)
  PROVE  /\ SubSeq(q, 1, n) \in Seq(S)
         /\ q = SubSeq(q, 1, n) \o SubSeq(q, n + 1, Len(q))
<1>1. SubSeq(q, 1, n) \o SubSeq(q, n + 1, Len(q)) = SubSeq(q, 1, Len(q))
  <2>1. Len(q) \in Nat
    BY LenProperties
  <2>2. 1 \in 1..(Len(q) + 1) /\ n \in (1 - 1)..Len(q) /\ Len(q) \in n..Len(q)
    BY <2>1
  <2>3. QED
    BY <2>2, ConcatAdjacentSubSeq
<1>2. SubSeq(q, 1, Len(q)) = q
  BY SubSeqFull
<1>3. \A i \in 1..n : q[i] \in S
  BY ElementOfSeq, LenProperties
<1>4. SubSeq(q, 1, n) \in Seq(S)
  BY <1>3, SubSeqProperties, LenProperties
<1>5. QED
  BY <1>1, <1>2, <1>4

-----------------------------------------------------------------------------
(* The socket.                                                             *)

\* A frame of the library goes to the end of the buffer and of the history.
LEMMA EmittedInOrder ==
  ASSUME SocketInv, NEW f \in Frames, OnSendCallback(f)
  PROVE  WireInOrder'
<1> DEFINE rest == SubSeq(sendBuffer, sent + 1, Len(sendBuffer))
<1>1. sent \in 0..Len(sendBuffer)
  BY LenProperties DEF SocketInv, SocketType
<1>2. rest \in Seq(Frames) /\ wire \in Seq(Frames)
  BY <1>1, RestType DEF SocketInv, SocketType
<1>3. SubSeq(sendBuffer', sent' + 1, Len(sendBuffer')) = Append(rest, f)
  BY <1>1, RestOfAppend DEF SocketInv, SocketType, OnSendCallback
<1>4. emitted' = Append(wire \o rest, f) /\ wire' = wire
  BY DEF SocketInv, WireInOrder, OnSendCallback
<1>5. Append(wire \o rest, f) = wire \o Append(rest, f)
  <2> HIDE DEF rest
  <2>1. \A p \in Seq(Frames), q \in Seq(Frames), e \in Frames :
          Append(p \o q, e) = p \o Append(q, e)
    BY AppendAfterConcat, SMTT(40)
  <2>2. QED
    BY <1>2, <2>1
<1>6. QED
  BY <1>3, <1>4, <1>5 DEF WireInOrder

LEMMA EmittedKeepsSocket ==
  ASSUME SocketInv, NEW f \in Frames, OnSendCallback(f)
  PROVE  SocketInv'
<1> DEFINE new == Append(sendBuffer, f)
<1>1. new \in Seq(Frames) /\ Len(new) = Len(sendBuffer) + 1 /\ new # <<>>
  BY DEF SocketInv, SocketType
<1>2. emitted' \in Seq(Frames) /\ sendBuffer' = new
  BY DEF SocketInv, SocketType, OnSendCallback
<1>3. UNCHANGED <<open, reading, sent, wire>>
  BY DEF OnSendCallback
<1>4. CASE writing = "no"
  <2>1. writing' = "pending" /\ inFlight' = Len(new)
    BY <1>1, <1>4 DEF OnSendCallback, WriteBuffer
  <2>2. sent' = 0
    BY <1>3, <1>4 DEF SocketInv, SentInv
  <2>3. QED
    BY <1>1, <1>2, <1>3, <2>1, <2>2, EmittedInOrder, LenProperties
    DEF SocketInv, SocketType, SentInv
<1>5. CASE writing # "no"
  <2>1. UNCHANGED <<writing, inFlight>>
    BY <1>5 DEF OnSendCallback, WriteBuffer
  <2>2. QED
    BY <1>1, <1>2, <1>3, <2>1, EmittedInOrder, LenProperties
    DEF SocketInv, SocketType, SentInv
<1>6. QED
  BY <1>4, <1>5

LEMMA ArrivedKeepsSocket ==
  ASSUME SocketInv, NEW k \in 1..inFlight, WriteArrives(k)
  PROVE  SocketInv'
<1>1. sent = 0 /\ k \in 0..Len(sendBuffer) /\ sent + 1 = 1
  BY LenProperties DEF SocketInv, SocketType, SentInv, WriteArrives
<1>2. SubSeq(sendBuffer, 1, Len(sendBuffer)) = sendBuffer
  BY SubSeqFull DEF SocketInv, SocketType
<1>3. emitted = wire \o sendBuffer
  BY <1>1, <1>2 DEF SocketInv, WireInOrder
<1> DEFINE took == SubSeq(sendBuffer, 1, k)
           rest == SubSeq(sendBuffer, k + 1, Len(sendBuffer))
<1>4. took \in Seq(Frames) /\ rest \in Seq(Frames) /\ sendBuffer = took \o rest
  BY <1>1, TakeAndRest, RestType DEF SocketInv, SocketType
<1>5. wire \in Seq(Frames)
  BY DEF SocketInv, SocketType
<1>6. emitted = (wire \o took) \o rest
  <2> HIDE DEF took, rest
  <2>1. QED
    BY <1>3, <1>4, <1>5, ConcatAssociative, SMTT(40)
<1>7. wire \o took \in Seq(Frames)
  BY <1>4, <1>5, ConcatProperties
<1>8. WireInOrder'
  BY <1>6 DEF WireInOrder, WriteArrives
<1>9. QED
  BY <1>1, <1>7, <1>8 DEF SocketInv, SocketType, SentInv, WriteArrives

LEMMA ConsumedKeepsSocket ==
  ASSUME SocketInv, AfterWriteBuffer
  PROVE  SocketInv'
<1> DEFINE rest == SubSeq(sendBuffer, sent + 1, Len(sendBuffer))
<1>1. sent \in 0..Len(sendBuffer)
  BY LenProperties DEF SocketInv, SocketType
<1>2. rest \in Seq(Frames)
  BY <1>1, RestType DEF SocketInv, SocketType
<1>3. sendBuffer' = rest /\ sent' = 0 /\ sent' + 1 = 1
  BY DEF AfterWriteBuffer
<1>4. SubSeq(sendBuffer', sent' + 1, Len(sendBuffer')) = rest
  BY <1>2, <1>3, SubSeqFull
<1>5. WireInOrder'
  BY <1>4 DEF SocketInv, WireInOrder, AfterWriteBuffer
<1>6. /\ writing' \in {"no", "pending"}
      /\ inFlight' = 0 \/ inFlight' = Len(rest)
  BY DEF AfterWriteBuffer, WriteBuffer
<1>7. UNCHANGED <<open, reading, emitted, wire>>
  BY DEF AfterWriteBuffer
<1>8. Len(rest) \in Nat
  BY <1>2, LenProperties
<1>9. SentInv'
  BY <1>3 DEF SentInv
<1>10. SocketType'
  <2> HIDE DEF rest
  <2>1. QED
    BY <1>2, <1>3, <1>6, <1>7, <1>8 DEF SocketInv, SocketType
<1>11. QED
  BY <1>5, <1>9, <1>10 DEF SocketInv

\* A step that leaves the buffer and the write alone, or only begins, fails or
\* forgets one of the two operations.
LEMMA UndisturbedSocket ==
  ASSUME SocketInv,
         UNCHANGED <<inFlight, sent, sendBuffer, emitted, wire>>,
         writing' \in {writing, "failed"}, writing' # writing => sent = 0,
         open' \in {open, FALSE}, reading' \in {"no", "pending", "ready"}
  PROVE  SocketInv'
BY DEF SocketInv, SocketType, SentInv, WireInOrder

-----------------------------------------------------------------------------
(* The session.                                                            *)

LEMMA FrameTypes ==
  /\ Frame(0, "control", 0) \in Frames
  /\ \A s \in Ids, kind \in {"head", "data", "last", "reset"}, n \in Nat :
       Frame(s, kind, n) \in Frames
BY DEF Frame, Frames

\* Every operation that begins nothing new on the socket.
LEMMA ReadKeepsSocket ==
  ASSUME SocketInv, ReadArrives \/ ReadFails \/ RecvFrame
  PROVE  SocketInv' /\ (OpenIsRead => OpenIsRead')
<1>1. /\ UNCHANGED <<writing, inFlight, sent, sendBuffer, emitted, wire, touched>>
      /\ \/ UNCHANGED open /\ reading' \in {"pending", "ready"}
         \/ open' = FALSE /\ reading' = "no"
  BY DEF ReadArrives, ReadFails, RecvFrame, RecvHeaders, RecvData, RecvReset,
         RecvWindow, RecvControl, RecvBad, Received, DoRead, Close
<1>2. open \in BOOLEAN
  BY DEF SocketInv, SocketType
<1>3. open' \in {open, FALSE} /\ reading' \in {"no", "pending", "ready"}
  BY <1>1
<1>4. SocketInv'
  BY <1>1, <1>3, UndisturbedSocket
<1>5. OpenIsRead => OpenIsRead'
  BY <1>1 DEF OpenIsRead
<1>6. QED
  BY <1>4, <1>5

LEMMA RecvKeepsSession ==
  ASSUME SessionInv, ~flushing, RecvFrame
  PROVE  SessionInv'
<1> USE DEF SessionInv, SessionType, NoneForgotten, StreamStates
<1>1. CASE \E s \in Ids, ends \in BOOLEAN : RecvHeaders(s, ends) \/ RecvData(s, ends)
  <2>1. PICK s \in Ids, ends \in BOOLEAN : RecvHeaders(s, ends) \/ RecvData(s, ends)
    BY <1>1
  <2>2. /\ stream' = [stream EXCEPT ![s] = IF ends THEN "asked" ELSE "open"]
        /\ working' = IF ends THEN working \cup {s} ELSE working
        /\ stream[s] \in {"idle", "open"}
        /\ UNCHANGED <<left, credit, control, controls, flushing, touched>>
    BY <2>1 DEF RecvHeaders, RecvData, OnRequestRecv, Received
  <2>3. QED
    BY <2>2
<1>2. CASE \E s \in Ids : RecvReset(s)
  <2>1. PICK s \in Ids : RecvReset(s)
    BY <1>2
  <2>2. /\ stream' = [stream EXCEPT ![s] = "closed"]
        /\ left' = [left EXCEPT ![s] = 0]
        /\ UNCHANGED <<working, credit, control, controls, flushing, touched>>
    BY <2>1 DEF RecvReset, Received
  <2>3. left' \in [Ids -> 0..MaxPieces]
    BY <2>2, Http2Assumption
  <2>4. QED
    BY <2>2, <2>3
<1>3. CASE RecvWindow
  BY <1>3, Http2Assumption DEF RecvWindow, Received
<1>4. CASE RecvControl
  BY <1>4 DEF RecvControl, Received
<1>5. CASE RecvBad
  BY <1>5 DEF RecvBad, sessionVars
<1>6. QED
  BY <1>1, <1>2, <1>3, <1>4, <1>5 DEF RecvFrame

\* An answer leaves its handler, and reaches the library, the socket or nothing.
LEMMA AnswerKeepsInv ==
  ASSUME Inv, NEW s \in Ids, NEW pieces \in 1..MaxPieces, HandlerAnswers(s, pieces)
  PROVE  Inv'
<1>1. SocketInv /\ SessionInv /\ OpenIsRead
  BY InvParts
<1> USE DEF SessionInv, SessionType, NoneForgotten, StreamStates
<1>2. CASE AnswersGone(s)
  <2>1. /\ ~open /\ touched' /\ touched' \in BOOLEAN /\ working' = working \ {s}
        /\ UNCHANGED <<socketVars, sessionVars>>
    BY <1>1, <1>2 DEF AnswersGone, HandlerAnswers, OpenIsRead, Alive
  <2>2. SocketInv'
    BY <1>1, <2>1, UndisturbedSocket DEF socketVars, SocketInv, SocketType
  <2>3. SessionInv'
    BY <1>1, <2>1 DEF sessionVars
  <2>4. OpenIsRead'
    BY <2>1 DEF OpenIsRead, socketVars
  <2>5. QED
    BY <2>2, <2>3, <2>4, InvPartsNext
<1>3. CASE AnswersClosed(s)
  <2>1. /\ open' = FALSE /\ working' = working \ {s} /\ stream[s] # "asked"
        /\ UNCHANGED <<reading, writing, inFlight, sent, sendBuffer, emitted, wire>>
        /\ UNCHANGED <<sessionVars, touched>>
    BY <1>3 DEF AnswersClosed, HandlerAnswers, Close
  <2>2. SocketInv'
    BY <1>1, <2>1, UndisturbedSocket DEF SocketInv, SocketType
  <2>3. SessionInv'
    BY <1>1, <2>1 DEF sessionVars
  <2>4. OpenIsRead'
    BY <2>1 DEF OpenIsRead
  <2>5. QED
    BY <2>2, <2>3, <2>4, InvPartsNext
<1>4. CASE SendResponse(s, pieces)
  <2>1. /\ stream' = [stream EXCEPT ![s] = "submitted"]
        /\ left' = [left EXCEPT ![s] = pieces]
        /\ flushing' = TRUE /\ working' = working \ {s}
        /\ UNCHANGED <<socketVars, credit, control, controls, touched>>
    BY <1>4 DEF SendResponse, HandlerAnswers
  <2> pieces \in 0..MaxPieces
    BY Http2Assumption DEF Http2Assumption
  <2>2. SocketInv'
    BY <1>1, <2>1, UndisturbedSocket DEF socketVars, SocketInv, SocketType
  <2>3. SessionInv'
    BY <1>1, <2>1
  <2>4. OpenIsRead'
    BY <1>1, <2>1 DEF OpenIsRead, socketVars
  <2>5. QED
    BY <2>2, <2>3, <2>4, InvPartsNext
<1>5. QED
  BY <1>2, <1>3, <1>4 DEF HandlerAnswers

LEMMA SendingKeepsInv ==
  ASSUME Inv, Sending
  PROVE  Inv'
<1>1. SocketInv /\ SessionInv /\ OpenIsRead
  BY InvParts
<1> USE DEF SessionInv, SessionType, NoneForgotten, StreamStates
<1>2. CASE SendControl
  <2>1. SocketInv'
    BY <1>1, <1>2, FrameTypes, EmittedKeepsSocket DEF SendControl
  <2>2. SessionInv'
    BY <1>1, <1>2 DEF SendControl
  <2>3. OpenIsRead'
    BY <1>1, <1>2 DEF SendControl, OnSendCallback, OpenIsRead
  <2>4. QED
    BY <2>1, <2>2, <2>3, InvPartsNext
<1>3. ASSUME NEW s \in Ids, SendHead(s)
      PROVE  Inv'
  <2>1. SocketInv'
    <3>1. left[s] \in Nat
      BY <1>1, Http2Assumption DEF Http2Assumption
    <3>2. QED
      BY <1>1, <1>3, <3>1, FrameTypes, EmittedKeepsSocket DEF SendHead
  <2>2. SessionInv'
    BY <1>1, <1>3 DEF SendHead
  <2>3. OpenIsRead'
    BY <1>1, <1>3 DEF SendHead, OnSendCallback, OpenIsRead
  <2>4. QED
    BY <2>1, <2>2, <2>3, InvPartsNext
<1>4. ASSUME NEW s \in Ids, SendPiece(s)
      PROVE  Inv'
  <2>0. left[s] - 1 \in Nat
    BY <1>1, <1>4, Http2Assumption DEF SendPiece, MaySendBody, Http2Assumption
  <2>1. PICK kind \in {"last", "data"} : OnSendCallback(Frame(s, kind, left[s] - 1))
    BY <1>4 DEF SendPiece
  <2>2. SocketInv'
    BY <1>1, <2>0, <2>1, FrameTypes, EmittedKeepsSocket
  <2>3. /\ left' = [left EXCEPT ![s] = left[s] - 1] /\ credit' = credit - 1
        /\ stream' = [stream EXCEPT ![s] = IF left[s] = 1 THEN "closed" ELSE stream[s]]
        /\ left[s] > 0 /\ credit > 0 /\ stream[s] = "sending" /\ flushing
        /\ UNCHANGED <<control, controls, flushing, working, touched>>
    BY <1>4 DEF SendPiece, MaySendBody
  <2>4. left' \in [Ids -> 0..MaxPieces] /\ credit' \in 0..MaxCredit
    BY <1>1, <2>3, Http2Assumption
  <2>5. SessionInv'
    BY <1>1, <2>3, <2>4
  <2>6. OpenIsRead'
    BY <1>1, <2>1, <2>3 DEF OnSendCallback, OpenIsRead
  <2>7. QED
    BY <2>2, <2>5, <2>6, InvPartsNext
<1>5. ASSUME NEW s \in Ids, SendFails(s)
      PROVE  Inv'
  <2>1. SocketInv'
    BY <1>1, <1>5, UndisturbedSocket DEF SendFails, socketVars, SocketInv, SocketType
  <2>2. SessionInv'
    BY <1>1, <1>5 DEF SendFails, MaySendBody
  <2>3. OpenIsRead'
    BY <1>1, <1>5 DEF SendFails, socketVars, OpenIsRead
  <2>4. QED
    BY <2>1, <2>2, <2>3, InvPartsNext
<1>6. ASSUME NEW s \in Ids, SendReset(s)
      PROVE  Inv'
  <2>1. SocketInv'
    BY <1>1, <1>6, FrameTypes, EmittedKeepsSocket DEF SendReset
  <2>2. SessionInv'
    <3>1. left' \in [Ids -> 0..MaxPieces]
      BY <1>1, <1>6, Http2Assumption DEF SendReset, Http2Assumption
    <3>2. QED
      BY <1>1, <1>6, <3>1 DEF SendReset
  <2>3. OpenIsRead'
    BY <1>1, <1>6 DEF SendReset, OnSendCallback, OpenIsRead
  <2>4. QED
    BY <2>1, <2>2, <2>3, InvPartsNext
<1>7. CASE SendEnds
  <2>1. SocketInv'
    BY <1>1, <1>7, UndisturbedSocket DEF SendEnds, socketVars, SocketInv, SocketType
  <2>2. SessionInv'
    BY <1>1, <1>7 DEF SendEnds, NothingFirst
  <2>3. OpenIsRead'
    BY <1>1, <1>7 DEF SendEnds, socketVars, OpenIsRead
  <2>4. QED
    BY <2>1, <2>2, <2>3, InvPartsNext
<1>8. QED
  BY <1>2, <1>3, <1>4, <1>5, <1>6, <1>7 DEF Sending

LEMMA WriteKeepsInv ==
  ASSUME Inv, WriteStep
  PROVE  Inv'
<1>1. SocketInv /\ SessionInv /\ OpenIsRead
  BY InvParts
<1>2. /\ UNCHANGED <<sessionVars, working, touched, reading>>
      /\ open' \in {open, FALSE}
  BY DEF WriteStep, WriteArrives, WriteFails, AfterWriteBuffer, AfterWriteError, Close
<1>3. SessionInv' /\ OpenIsRead'
  <2>1. SessionInv'
    BY <1>1, <1>2 DEF SessionInv, SessionType, NoneForgotten, sessionVars
  <2>2. OpenIsRead'
    <3>1. touched' = touched /\ reading' = reading /\ (open' = open \/ open' = FALSE)
      BY <1>2
    <3>2. CASE open' = open
      BY <1>1, <3>1, <3>2 DEF OpenIsRead
    <3>3. CASE open' = FALSE
      BY <3>3 DEF OpenIsRead
    <3>4. QED
      BY <3>1, <3>2, <3>3
  <2>3. QED
    BY <2>1, <2>2
<1>4. CASE \E k \in 1..inFlight : WriteArrives(k)
  BY <1>1, <1>3, <1>4, ArrivedKeepsSocket, InvPartsNext
<1>5. CASE WriteFails
  <2>1. SocketInv'
    BY <1>1, <1>5, UndisturbedSocket DEF WriteFails, SocketInv, SocketType, SentInv
  <2>2. QED
    BY <1>3, <2>1, InvPartsNext
<1>6. CASE AfterWriteBuffer
  BY <1>1, <1>3, <1>6, ConsumedKeepsSocket, InvPartsNext
<1>7. CASE AfterWriteError
  <2>1. sent = 0 /\ sent' = 0 /\ inFlight' = 0 /\ writing' = "no" /\ open' = FALSE
    BY <1>1, <1>7 DEF AfterWriteError, SocketInv, SentInv, Close
  <2>2. UNCHANGED <<reading, sendBuffer, emitted, wire>>
    BY <1>7 DEF AfterWriteError
  <2>3. SocketInv'
    <3>1. 0 \in 0..Len(sendBuffer) /\ 0 \in 0..0 /\ FALSE \in BOOLEAN
      BY <1>1, LenProperties DEF SocketInv, SocketType
    <3>2. WireInOrder' /\ SentInv'
      BY <1>1, <2>1, <2>2 DEF SocketInv, SentInv, WireInOrder
    <3>3. SocketType'
      BY <1>1, <2>1, <2>2, <3>1 DEF SocketInv, SocketType
    <3>4. QED
      BY <3>2, <3>3 DEF SocketInv
  <2>4. QED
    BY <1>3, <2>3, InvPartsNext
<1>8. QED
  BY <1>4, <1>5, <1>6, <1>7 DEF WriteStep

-----------------------------------------------------------------------------
(* The invariant.                                                          *)

LEMMA InitInv == Http2Init => Inv
<1> SUFFICES ASSUME Http2Init PROVE Inv
  OBVIOUS
<1>1. <<>> \in Seq(Frames) /\ Len(<<>>) = 0
  BY EmptySeq
<1>2. SubSeq(<<>>, 0 + 1, 0) = <<>> /\ <<>> \o <<>> = <<>>
  BY <1>1, SubSeqEmpty, ConcatEmptySeq
<1>3. SocketInv
  BY <1>1, <1>2 DEF Http2Init, SocketInv, SocketType, SentInv, WireInOrder
<1>4. SessionInv
  <2>1. 0 \in 0..MaxPieces /\ MaxCredit \in 0..MaxCredit /\ 1 \in Nat
    BY Http2Assumption
  <2>2. SessionType
    BY <2>1 DEF Http2Init, SessionType, StreamStates
  <2>3. NoneForgotten
    BY DEF Http2Init, NoneForgotten
  <2>4. QED
    BY <2>2, <2>3 DEF SessionInv
<1>5. OpenIsRead
  BY DEF Http2Init, OpenIsRead
<1>6. QED
  BY <1>3, <1>4, <1>5, InvParts

LEMMA NextInv == Inv /\ [Http2Next]_http2Vars => Inv'
<1> SUFFICES ASSUME Inv, [Http2Next]_http2Vars PROVE Inv'
  OBVIOUS
<1>1. SocketInv /\ SessionInv /\ OpenIsRead
  BY InvParts
<1>2. CASE WriteStep
  BY <1>2, WriteKeepsInv
<1>3. CASE ReadArrives \/ ReadFails
  <2>1. SocketInv' /\ OpenIsRead'
    BY <1>1, <1>3, ReadKeepsSocket
  <2>2. SessionInv'
    BY <1>1, <1>3 DEF ReadArrives, ReadFails, SessionInv, SessionType, NoneForgotten,
                      sessionVars
  <2>3. QED
    BY <2>1, <2>2, InvPartsNext
<1>4. CASE RecvFrame
  <2>1. SocketInv' /\ OpenIsRead'
    BY <1>1, <1>4, ReadKeepsSocket
  <2>2. ~flushing
    BY <1>4 DEF RecvFrame, RecvHeaders, RecvData, RecvReset, RecvWindow, RecvControl,
                RecvBad, Received
  <2>3. SessionInv'
    BY <1>1, <1>4, <2>2, RecvKeepsSession
  <2>4. QED
    BY <2>1, <2>3, InvPartsNext
<1>5. CASE \E s \in Ids, pieces \in 1..MaxPieces : HandlerAnswers(s, pieces)
  BY <1>5, AnswerKeepsInv
<1>6. CASE Sending
  BY <1>6, SendingKeepsInv
<1>7. CASE UNCHANGED http2Vars
  <2>1. SocketInv'
    BY <1>1, <1>7 DEF http2Vars, socketVars, SocketInv, SocketType, SentInv, WireInOrder
  <2>2. SessionInv'
    BY <1>1, <1>7 DEF http2Vars, sessionVars, SessionInv, SessionType, NoneForgotten
  <2>3. OpenIsRead'
    BY <1>1, <1>7 DEF http2Vars, socketVars, OpenIsRead
  <2>4. QED
    BY <2>1, <2>2, <2>3, InvPartsNext
<1>8. QED
  BY <1>2, <1>3, <1>4, <1>5, <1>6, <1>7 DEF Http2Next

THEOREM Invariance == Http2Spec => []Inv
BY InitInv, NextInv, PTL DEF Http2Spec

-----------------------------------------------------------------------------
(* The frames of one stream.                                               *)

FramesOf(q, s) == {i \in DOMAIN q : q[i].id = s}

\* What AnswersWhole says of a frame, given the ones of its stream before.
Follows(f, q, before) ==
  /\ f.kind = "head" <=> before = {}
  /\ \A j \in before : q[j].kind \notin {"last", "reset"}
  /\ f.kind \in {"data", "last"} =>
       /\ \A j \in before : q[j].rest > f.rest
       /\ \E j \in before : q[j].rest = f.rest + 1
       /\ f.kind = "last" <=> f.rest = 0

Before(q, s, i) == {j \in FramesOf(q, s) : j < i}

InTurn(q, s) == \A i \in FramesOf(q, s) : Follows(q[i], q, Before(q, s, i))

\* How far the answer of a stream is: what is left of it is what follows the
\* least of its frames.
Progress(s) ==
  /\ stream[s] \notin {"sending", "failed", "closed"} => FramesOf(emitted, s) = {}
  /\ stream[s] \in {"sending", "failed"} =>
       /\ \E i \in FramesOf(emitted, s) : emitted[i].rest = left[s]
       /\ \A i \in FramesOf(emitted, s) :
            emitted[i].rest >= left[s] /\ emitted[i].kind \notin {"last", "reset"}

AnswerInv == \A s \in Ids : InTurn(emitted, s) /\ Progress(s)

\* The frames of s in q and in new, which has the frame f in addition.
GrownBy(f, q, new, s) ==
  \E n \in Nat :
    /\ \A i \in FramesOf(q, s) : i \in Nat /\ i < n /\ new[i] = q[i]
    /\ new[n] = f
    /\ f.id = s => FramesOf(new, s) = FramesOf(q, s) \cup {n}
    /\ f.id # s => FramesOf(new, s) = FramesOf(q, s)

LEMMA FrameAdded ==
  ASSUME NEW q \in Seq(Frames), NEW f \in Frames, NEW s, NEW new, new = Append(q, f)
  PROVE  GrownBy(f, q, new, s)
<1> DEFINE n == Len(q) + 1
<1>1. DOMAIN q = 1..Len(q) /\ Len(q) \in Nat
  BY LenProperties
<1>2. new \in Seq(Frames) /\ Len(new) = n /\ new[n] = f
      /\ \A i \in 1..Len(q) : new[i] = q[i]
  BY AppendProperties
<1>3. DOMAIN new = 1..n
  BY <1>2, LenProperties
<1>4. \A i \in FramesOf(q, s) : i \in 1..Len(q)
  BY <1>1 DEF FramesOf
<1>5. FramesOf(new, s) = {i \in 1..n : new[i].id = s}
  BY <1>3 DEF FramesOf
<1>6. FramesOf(q, s) = {i \in 1..Len(q) : new[i].id = s}
  BY <1>1, <1>2 DEF FramesOf
<1>7. 1..n = 1..Len(q) \cup {n}
  BY <1>1
<1>8. /\ f.id = s => FramesOf(new, s) = FramesOf(q, s) \cup {n}
      /\ f.id # s => FramesOf(new, s) = FramesOf(q, s)
  BY <1>2, <1>5, <1>6, <1>7
<1>9. n \in Nat /\ \A i \in FramesOf(q, s) : i \in Nat /\ i < n /\ new[i] = q[i]
  BY <1>1, <1>2, <1>4
<1>10. QED
  BY <1>2, <1>8, <1>9 DEF GrownBy

\* What a frame follows is the same where all of that is the same.
LEMMA FollowsSame ==
  ASSUME NEW f, NEW q, NEW new, NEW before, \A j \in before : new[j] = q[j]
  PROVE  Follows(f, new, before) <=> Follows(f, q, before)
BY DEF Follows

\* A frame of another stream, or of none, changes nothing.
LEMMA FrameOfOthers ==
  ASSUME emitted \in Seq(Frames), NEW f \in Frames, NEW s \in Ids, f.id # s,
         emitted' = Append(emitted, f), InTurn(emitted, s), Progress(s),
         stream'[s] = stream[s], left'[s] = left[s]
  PROVE  InTurn(emitted, s)' /\ Progress(s)'
<1>1. /\ FramesOf(emitted', s) = FramesOf(emitted, s)
      /\ \A i \in FramesOf(emitted, s) : emitted'[i] = emitted[i]
  <2>1. GrownBy(f, emitted, emitted', s)
    BY FrameAdded
  <2>2. QED
    BY <2>1 DEF GrownBy
<1>2. ASSUME NEW i \in FramesOf(emitted, s)
      PROVE  Follows(emitted'[i], emitted', Before(emitted', s, i))
  <2>1. Before(emitted', s, i) = Before(emitted, s, i)
    BY <1>1 DEF Before
  <2>2. \A j \in Before(emitted, s, i) : emitted'[j] = emitted[j]
    BY <1>1 DEF Before
  <2>3. Follows(emitted[i], emitted, Before(emitted, s, i)) /\ emitted'[i] = emitted[i]
    BY <1>1 DEF InTurn
  <2>4. QED
    BY <2>1, <2>2, <2>3, FollowsSame
<1>3. InTurn(emitted, s)'
  BY <1>1, <1>2 DEF InTurn
<1>4. Progress(s)'
  BY <1>1 DEF Progress
<1>5. QED
  BY <1>3, <1>4

\* A frame that follows all the ones of its stream.
LEMMA FrameInTurn ==
  ASSUME emitted \in Seq(Frames), NEW f \in Frames, NEW s \in Ids, f.id = s,
         emitted' = Append(emitted, f), InTurn(emitted, s),
         Follows(f, emitted, FramesOf(emitted, s))
  PROVE  /\ InTurn(emitted, s)'
         /\ \E n \in FramesOf(emitted', s) :
              /\ FramesOf(emitted', s) = FramesOf(emitted, s) \cup {n}
              /\ emitted'[n] = f
              /\ \A i \in FramesOf(emitted, s) : emitted'[i] = emitted[i]
<1> DEFINE old == FramesOf(emitted, s)
<1>1. PICK n \in Nat :
        /\ FramesOf(emitted', s) = old \cup {n} /\ emitted'[n] = f
        /\ \A i \in old : i \in Nat /\ i < n /\ emitted'[i] = emitted[i]
  <2>1. GrownBy(f, emitted, emitted', s)
    BY FrameAdded
  <2>2. QED
    BY <2>1 DEF GrownBy
<1>2. ASSUME NEW i \in old
      PROVE  Follows(emitted'[i], emitted', Before(emitted', s, i))
  <2>1. Before(emitted', s, i) = Before(emitted, s, i)
    <3>1. ~(n < i)
      BY <1>1
    <3>2. QED
      BY <1>1, <3>1 DEF Before
  <2>2. \A j \in Before(emitted, s, i) : emitted'[j] = emitted[j]
    BY <1>1 DEF Before
  <2>3. Follows(emitted[i], emitted, Before(emitted, s, i)) /\ emitted'[i] = emitted[i]
    BY <1>1 DEF InTurn
  <2>4. QED
    BY <2>1, <2>2, <2>3, FollowsSame
<1>3. Follows(emitted'[n], emitted', Before(emitted', s, n))
  <2>1. Before(emitted', s, n) = old
    BY <1>1 DEF Before
  <2>2. \A j \in old : emitted'[j] = emitted[j]
    BY <1>1
  <2>3. Follows(f, emitted', old)
    BY <2>2, FollowsSame
  <2>4. QED
    BY <1>1, <2>1, <2>3
<1>4. InTurn(emitted, s)'
  BY <1>1, <1>2, <1>3 DEF InTurn
<1>5. QED
  BY <1>1, <1>4

\* The library emits nothing: a stream stays as it is, is closed, fails, or has
\* no answer yet.
LEMMA NothingEmitted ==
  ASSUME AnswerInv, UNCHANGED emitted,
         \A s \in Ids : \/ stream'[s] = stream[s] /\ left'[s] = left[s]
                        \/ stream'[s] = "closed"
                        \/ stream[s] = "sending" /\ stream'[s] = "failed" /\ left'[s] = left[s]
                        \/ /\ stream[s] \notin {"sending", "failed", "closed"}
                           /\ stream'[s] \notin {"sending", "failed", "closed"}
  PROVE  AnswerInv'
<1> SUFFICES ASSUME NEW s \in Ids
             PROVE  InTurn(emitted, s)' /\ Progress(s)'
  BY DEF AnswerInv
<1>1. InTurn(emitted, s) /\ Progress(s)
  BY DEF AnswerInv
<1>2. InTurn(emitted, s)'
  BY <1>1 DEF InTurn, Follows, Before, FramesOf
<1>3. FramesOf(emitted', s) = FramesOf(emitted, s)
  OBVIOUS
<1>4. Progress(s)'
  BY <1>1, <1>3 DEF Progress
<1>5. QED
  BY <1>2, <1>4

LEMMA HeadInTurn ==
  ASSUME Inv, AnswerInv, NEW s \in Ids, SendHead(s)
  PROVE  AnswerInv'
<1> DEFINE f == Frame(s, "head", left[s])
<1>1. /\ emitted \in Seq(Frames) /\ stream \in [Ids -> StreamStates]
      /\ left \in [Ids -> 0..MaxPieces] /\ left[s] \in Nat
  BY Http2Assumption DEF Inv, Http2TypeOK, Http2Assumption
<1>2. f \in Frames /\ f.id = s /\ f.kind = "head" /\ f.rest = left[s]
  BY <1>1 DEF Frames, Frame
<1>3. /\ emitted' = Append(emitted, f) /\ stream[s] = "submitted"
      /\ stream' = [stream EXCEPT ![s] = "sending"] /\ left' = left
  BY DEF SendHead, OnSendCallback
<1> HIDE DEF f
<1>4. ASSUME NEW t \in Ids, t # s
      PROVE  InTurn(emitted, t)' /\ Progress(t)'
  BY <1>1, <1>2, <1>3, <1>4, FrameOfOthers DEF AnswerInv
<1>5. FramesOf(emitted, s) = {} /\ InTurn(emitted, s)
  BY <1>3 DEF AnswerInv, Progress
<1>6. /\ InTurn(emitted, s)'
      /\ \E n \in FramesOf(emitted', s) : FramesOf(emitted', s) = {n} /\ emitted'[n] = f
  <2>1. Follows(f, emitted, FramesOf(emitted, s))
    BY <1>2, <1>5 DEF Follows
  <2>2. /\ InTurn(emitted, s)'
        /\ \E n \in FramesOf(emitted', s) :
             /\ FramesOf(emitted', s) = FramesOf(emitted, s) \cup {n}
             /\ emitted'[n] = f
             /\ \A i \in FramesOf(emitted, s) : emitted'[i] = emitted[i]
    BY <1>1, <1>2, <1>3, <1>5, <2>1, FrameInTurn, Zenon
  <2>3. QED
    BY <1>5, <2>2
<1>7. Progress(s)'
  <2>1. stream'[s] = "sending" /\ left'[s] = left[s]
    BY <1>1, <1>3
  <2>2. QED
    BY <1>1, <1>2, <1>6, <2>1 DEF Progress
<1>8. QED
  BY <1>4, <1>6, <1>7 DEF AnswerInv

LEMMA PieceInTurn ==
  ASSUME Inv, AnswerInv, NEW s \in Ids, SendPiece(s)
  PROVE  AnswerInv'
<1> DEFINE f == Frame(s, IF left[s] = 1 THEN "last" ELSE "data", left[s] - 1)
           old == FramesOf(emitted, s)
<1>1. /\ emitted \in Seq(Frames) /\ stream \in [Ids -> StreamStates]
      /\ left \in [Ids -> 0..MaxPieces] /\ left[s] \in Nat \ {0}
  BY Http2Assumption DEF Inv, Http2TypeOK, Http2Assumption, SendPiece, MaySendBody
<1>2. /\ f \in Frames /\ f.id = s /\ f.rest = left[s] - 1
      /\ f.kind = IF left[s] = 1 THEN "last" ELSE "data"
  BY <1>1 DEF Frames, Frame
<1>3. /\ emitted' = Append(emitted, f) /\ stream[s] = "sending"
      /\ stream' = [stream EXCEPT ![s] = IF left[s] = 1 THEN "closed" ELSE stream[s]]
      /\ left' = [left EXCEPT ![s] = left[s] - 1]
  BY DEF SendPiece, MaySendBody, OnSendCallback
<1> HIDE DEF f
<1>4. ASSUME NEW t \in Ids, t # s
      PROVE  InTurn(emitted, t)' /\ Progress(t)'
  <2>1. stream'[t] = stream[t] /\ left'[t] = left[t]
    BY <1>1, <1>3, <1>4
  <2>2. QED
    BY <1>1, <1>2, <1>3, <1>4, <2>1, FrameOfOthers DEF AnswerInv
<1>5. /\ InTurn(emitted, s)
      /\ \E i \in old : emitted[i].rest = left[s]
      /\ \A i \in old : emitted[i].rest >= left[s] /\ emitted[i].kind \notin {"last", "reset"}
  BY <1>3 DEF AnswerInv, Progress
<1>6. \A i \in old : emitted[i].rest \in Nat
  <2>1. \A i \in old : emitted[i] \in Frames
    BY <1>1, ElementOfSeq, LenProperties DEF FramesOf
  <2>2. QED
    BY <2>1 DEF Frames
<1>7. /\ InTurn(emitted, s)'
      /\ \E n \in FramesOf(emitted', s) :
           /\ FramesOf(emitted', s) = old \cup {n}
           /\ emitted'[n] = f
           /\ \A i \in old : emitted'[i] = emitted[i]
  <2>1. f.kind # "head" /\ old # {} /\ f.rest \in Nat
    BY <1>1, <1>2, <1>5
  <2>2. /\ \A j \in old : emitted[j].rest > f.rest
        /\ \E j \in old : emitted[j].rest = f.rest + 1
        /\ f.kind = "last" <=> f.rest = 0
    BY <1>1, <1>2, <1>5, <1>6
  <2>3. Follows(f, emitted, old)
    BY <1>2, <1>5, <2>1, <2>2 DEF Follows
  <2>4. emitted \in Seq(Frames) /\ InTurn(emitted, s) /\ emitted' = Append(emitted, f)
    BY <1>1, <1>3, <1>5
  <2>5. QED
    BY <1>2, <2>3, <2>4, FrameInTurn, ZenonT(40)
<1>8. Progress(s)'
  <2>1. left'[s] = left[s] - 1 /\ stream'[s] = IF left[s] = 1 THEN "closed" ELSE "sending"
    BY <1>1, <1>3
  <2>2. CASE left[s] = 1
    BY <2>1, <2>2 DEF Progress
  <2>3. CASE left[s] # 1
    <3>1. PICK n \in FramesOf(emitted', s) :
            /\ FramesOf(emitted', s) = old \cup {n} /\ emitted'[n] = f
            /\ \A i \in old : emitted'[i] = emitted[i]
      BY <1>7
    <3>2. emitted'[n].rest = left'[s] /\ emitted'[n].kind = "data"
      BY <1>2, <2>1, <2>3, <3>1
    <3> HIDE DEF old
    <3>3. \A i \in old :
            emitted'[i].rest >= left'[s] /\ emitted'[i].kind \notin {"last", "reset"}
      BY <1>1, <1>5, <1>6, <2>1, <3>1
    <3>4. \A i \in FramesOf(emitted', s) :
            emitted'[i].rest >= left'[s] /\ emitted'[i].kind \notin {"last", "reset"}
      BY <1>1, <2>1, <3>1, <3>2, <3>3
    <3>5. QED
      BY <2>1, <2>3, <3>2, <3>4 DEF Progress
  <2>4. QED
    BY <2>2, <2>3
<1>9. QED
  BY <1>4, <1>7, <1>8 DEF AnswerInv

LEMMA ResetInTurn ==
  ASSUME Inv, AnswerInv, NEW s \in Ids, SendReset(s)
  PROVE  AnswerInv'
<1> DEFINE f == Frame(s, "reset", 0)
<1>1. /\ emitted \in Seq(Frames) /\ stream \in [Ids -> StreamStates]
      /\ left \in [Ids -> 0..MaxPieces]
  BY DEF Inv, Http2TypeOK
<1>2. f \in Frames /\ f.id = s /\ f.kind = "reset"
  BY DEF Frames, Frame
<1>3. /\ emitted' = Append(emitted, f) /\ stream[s] = "failed"
      /\ stream' = [stream EXCEPT ![s] = "closed"]
      /\ left' = [left EXCEPT ![s] = 0]
  BY DEF SendReset, OnSendCallback
<1> HIDE DEF f
<1>4. ASSUME NEW t \in Ids, t # s
      PROVE  InTurn(emitted, t)' /\ Progress(t)'
  <2>1. stream'[t] = stream[t] /\ left'[t] = left[t]
    BY <1>1, <1>3, <1>4
  <2>2. QED
    BY <1>1, <1>2, <1>3, <1>4, <2>1, FrameOfOthers DEF AnswerInv
<1>5. /\ InTurn(emitted, s) /\ FramesOf(emitted, s) # {}
      /\ \A i \in FramesOf(emitted, s) : emitted[i].kind \notin {"last", "reset"}
  BY <1>3 DEF AnswerInv, Progress
<1>6. InTurn(emitted, s)'
  <2>1. Follows(f, emitted, FramesOf(emitted, s))
    BY <1>2, <1>5 DEF Follows
  <2>2. QED
    BY <1>1, <1>2, <1>3, <1>5, <2>1, FrameInTurn
<1>7. Progress(s)'
  <2>1. stream'[s] = "closed"
    BY <1>1, <1>3
  <2>2. QED
    BY <2>1 DEF Progress
<1>8. QED
  BY <1>4, <1>6, <1>7 DEF AnswerInv

LEMMA AnswerNext == Inv /\ AnswerInv /\ [Http2Next]_http2Vars => AnswerInv'
<1> SUFFICES ASSUME Inv, AnswerInv, [Http2Next]_http2Vars PROVE AnswerInv'
  OBVIOUS
<1>1. stream \in [Ids -> StreamStates] /\ left \in [Ids -> 0..MaxPieces]
  BY DEF Inv, Http2TypeOK
<1>2. CASE WriteStep \/ ReadArrives \/ ReadFails
  BY <1>2, NothingEmitted DEF WriteStep, WriteArrives, WriteFails, AfterWriteBuffer,
     AfterWriteError, ReadArrives, ReadFails, sessionVars
<1>3. CASE RecvFrame
  <2>1. UNCHANGED emitted
    BY <1>3 DEF RecvFrame, RecvHeaders, RecvData, RecvReset, RecvWindow, RecvControl,
                RecvBad, Received
  <2>2. ASSUME NEW s \in Ids, NEW ends \in BOOLEAN, RecvHeaders(s, ends) \/ RecvData(s, ends)
        PROVE  AnswerInv'
    <3>1. /\ stream[s] \in {"idle", "open"} /\ left' = left
          /\ stream' = [stream EXCEPT ![s] = IF ends THEN "asked" ELSE "open"]
      BY <2>2 DEF RecvHeaders, RecvData, OnRequestRecv
    <3>2. QED
      BY <1>1, <2>1, <3>1, NothingEmitted
  <2>3. ASSUME NEW s \in Ids, RecvReset(s)
        PROVE  AnswerInv'
    <3>1. /\ stream' = [stream EXCEPT ![s] = "closed"]
          /\ left' = [left EXCEPT ![s] = 0]
      BY <2>3 DEF RecvReset
    <3>2. QED
      BY <1>1, <2>1, <3>1, NothingEmitted
  <2>4. CASE RecvWindow \/ RecvControl \/ RecvBad
    BY <2>1, <2>4, NothingEmitted DEF RecvWindow, RecvControl, RecvBad, sessionVars
  <2>5. QED
    BY <1>3, <2>2, <2>3, <2>4 DEF RecvFrame
<1>4. ASSUME NEW s \in Ids, NEW pieces \in 1..MaxPieces, HandlerAnswers(s, pieces)
      PROVE  AnswerInv'
  <2>1. CASE AnswersGone(s) \/ AnswersClosed(s)
    BY <2>1, NothingEmitted DEF AnswersGone, AnswersClosed, socketVars, sessionVars
  <2>2. CASE SendResponse(s, pieces)
    <3>1. /\ stream[s] = "asked" /\ stream' = [stream EXCEPT ![s] = "submitted"]
          /\ left' = [left EXCEPT ![s] = pieces] /\ UNCHANGED emitted
      BY <2>2 DEF SendResponse, socketVars
    <3>2. QED
      BY <1>1, <3>1, NothingEmitted
  <2>3. QED
    BY <1>4, <2>1, <2>2 DEF HandlerAnswers
<1>5. CASE SendControl
  <2>1. /\ emitted' = Append(emitted, Frame(0, "control", 0))
        /\ stream' = stream /\ left' = left /\ emitted \in Seq(Frames)
    BY <1>5 DEF SendControl, OnSendCallback, Inv, Http2TypeOK
  <2>2. Frame(0, "control", 0) \in Frames /\ Frame(0, "control", 0).id = 0 /\ 0 \notin Ids
    BY Http2Assumption DEF Frames, Frame, Http2Assumption
  <2>3. QED
    BY <2>1, <2>2, FrameOfOthers DEF AnswerInv
<1>6. ASSUME NEW s \in Ids, SendFails(s)
      PROVE  AnswerInv'
  <2>1. /\ stream[s] = "sending" /\ stream' = [stream EXCEPT ![s] = "failed"]
        /\ left' = left /\ UNCHANGED emitted
    BY <1>6 DEF SendFails, MaySendBody, socketVars
  <2>2. QED
    BY <1>1, <2>1, NothingEmitted
<1>7. CASE SendEnds
  BY <1>7, NothingEmitted DEF SendEnds, socketVars
<1>8. CASE UNCHANGED http2Vars
  BY <1>8, NothingEmitted DEF http2Vars, socketVars, sessionVars
<1>9. QED
  BY <1>2, <1>3, <1>4, <1>5, <1>6, <1>7, <1>8, HeadInTurn, PieceInTurn, ResetInTurn
  DEF Http2Next, Sending

LEMMA AnswerInit == Http2Init => AnswerInv
<1> SUFFICES ASSUME Http2Init, NEW s \in Ids
             PROVE  InTurn(emitted, s) /\ Progress(s)
  BY DEF AnswerInv
<1>1. DOMAIN emitted = {} /\ stream[s] = "idle"
  BY DEF Http2Init
<1>2. FramesOf(emitted, s) = {}
  BY <1>1 DEF FramesOf
<1>3. QED
  BY <1>1, <1>2 DEF InTurn, Progress

\* What holds of all frames the library emitted holds of those on the wire.
LEMMA WireInTurn == Inv /\ AnswerInv => AnswersWhole
<1> SUFFICES ASSUME Inv, AnswerInv, NEW s \in Ids
             PROVE  InTurn(wire, s)
  BY DEF AnswersWhole, InTurn, Follows, Before, FramesOf
<1> DEFINE rest == SubSeq(sendBuffer, sent + 1, Len(sendBuffer))
           on == FramesOf(wire, s)
           all == FramesOf(emitted, s)
<1>1. /\ wire \in Seq(Frames) /\ emitted \in Seq(Frames) /\ emitted = wire \o rest
      /\ sendBuffer \in Seq(Frames) /\ sent \in 0..Len(sendBuffer)
  <2>1. Len(sendBuffer) \in Nat \/ sendBuffer \notin Seq(Frames)
    BY LenProperties
  <2>2. QED
    BY <2>1 DEF Inv, Http2TypeOK, WireInOrder
<1>2. rest \in Seq(Frames)
  BY <1>1, RestType
<1> HIDE DEF rest
<1>3. /\ Len(wire) \in Nat /\ Len(rest) \in Nat /\ Len(emitted) = Len(wire) + Len(rest)
      /\ DOMAIN wire = 1..Len(wire) /\ DOMAIN emitted = 1..Len(emitted)
  BY <1>1, <1>2, ConcatProperties, LenProperties
<1>4. \A i \in DOMAIN wire : i \in DOMAIN emitted /\ emitted[i] = wire[i]
  <2>1. \A i \in 1..(Len(wire) + Len(rest)) :
          (wire \o rest)[i] = IF i <= Len(wire) THEN wire[i] ELSE rest[i - Len(wire)]
    BY <1>1, <1>2, ConcatProperties
  <2>2. QED
    BY <1>1, <1>3, <2>1
<1>5. \A i \in DOMAIN emitted : \A j \in DOMAIN wire : i < j => i \in DOMAIN wire
  BY <1>3
<1>6. on \subseteq all /\ \A i \in on : wire[i] = emitted[i]
  BY <1>4 DEF FramesOf
<1>7. \A i \in all, j \in on : i < j => i \in on
  BY <1>4, <1>5 DEF FramesOf
<1>8. ASSUME NEW i \in on
      PROVE  Follows(wire[i], wire, Before(wire, s, i))
  <2>1. Before(wire, s, i) = Before(emitted, s, i)
    BY <1>6, <1>7 DEF Before
  <2>2. Follows(emitted[i], emitted, Before(emitted, s, i))
    BY <1>6 DEF AnswerInv, InTurn
  <2>3. \A j \in Before(wire, s, i) : wire[j] = emitted[j]
    BY <1>6 DEF Before
  <2>4. QED
    BY <1>6, <2>1, <2>2, <2>3, FollowsSame
<1>9. QED
  BY <1>8 DEF InTurn

-----------------------------------------------------------------------------
\* The variables keep their types, for any streams, bodies and windows.
THEOREM TypeCorrect == Http2Spec => []Http2TypeOK
<1>1. Inv => Http2TypeOK
  BY DEF Inv
<1>2. QED
  BY <1>1, Invariance, PTL

\* Appending to the buffer during a write loses, doubles and reorders nothing.
THEOREM InOrder == Http2Spec => []WireInOrder
<1>1. Inv => WireInOrder
  BY DEF Inv
<1>2. QED
  BY <1>1, Invariance, PTL

\* An open socket is read, and a late answer misses the connection only after
\* the socket was closed.
THEOREM ReadWhileOpen == Http2Spec => []OpenIsRead
<1>1. Inv => OpenIsRead
  BY DEF Inv
<1>2. QED
  BY <1>1, Invariance, PTL

\* Every request that has ended is with its handler or was answered.
THEOREM NotForgotten == Http2Spec => []NoneForgotten
<1>1. Inv => NoneForgotten
  BY DEF Inv
<1>2. QED
  BY <1>1, Invariance, PTL

\* Whatever is reset, answered late or written in parts, a client sees of each
\* request one head, then the pieces of the body with none left out, and the end
\* with the very last of them; or a beginning of that, or a reset after one.
THEOREM AnsweredWhole == Http2Spec => []AnswersWhole
<1>1. Http2Init => Inv /\ AnswerInv
  BY InitInv, AnswerInit
<1>2. (Inv /\ AnswerInv) /\ [Http2Next]_http2Vars => (Inv /\ AnswerInv)'
  BY NextInv, AnswerNext
<1>3. QED
  BY <1>1, <1>2, WireInTurn, PTL DEF Http2Spec
=============================================================================
