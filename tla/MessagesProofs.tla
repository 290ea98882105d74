--------------------------- MODULE MessagesProofs ---------------------------
(***************************************************************************)
(* Theorems about Messages, for every number of calls and moves.           *)
(***************************************************************************)
EXTENDS Messages, SequenceTheorems, FiniteSetTheorems, WellFoundedInduction, TLAPS

-----------------------------------------------------------------------------
(* Induction over the natural numbers, for sets.                           *)

LEMMA Induction ==
  ASSUME NEW T, 0 \in T, \A n \in Nat : n \in T => n + 1 \in T
  PROVE  Nat \subseteq T
<1> DEFINE rest == Nat \ T
<1>1. SUFFICES ASSUME rest # {}
               PROVE  FALSE
  OBVIOUS
<1>2. PICK x \in rest : \A y \in rest : <<y, x>> \notin OpToRel(<, Nat)
  BY <1>1, WFMin, NatLessThanWellFounded, Zenon
<1>3. x \in Nat /\ x \notin T /\ x # 0
  BY <1>2
<1>4. x - 1 \in Nat /\ x - 1 < x /\ (x - 1) + 1 = x
  BY <1>3
<1>5. x - 1 \notin T
  BY <1>3, <1>4
<1>6. <<x - 1, x>> \in OpToRel(<, Nat)
  BY <1>3, <1>4 DEF OpToRel
<1>7. QED
  BY <1>2, <1>4, <1>5, <1>6

-----------------------------------------------------------------------------
(* The table of functions and the registry.                                *)

\* Every entry says where its message goes.
Placed(table) == \A f \in DOMAIN table : table[f].where \in {"error", "root", "field"}

LEMMA FunctionsPlaced == Placed(Functions)
<1>1. Placed(Functions1)
  BY DEF Placed, Functions1, Adds
<1>2. Placed(Functions2)
  BY DEF Placed, Functions2, Adds
<1>3. Placed(Functions3)
  BY DEF Placed, Functions3, Adds
<1>4. Placed(Functions4)
  BY DEF Placed, Functions4, Adds
<1>5. Placed(Functions5)
  BY DEF Placed, Functions5, Adds
<1>6. Placed(Functions6)
  BY DEF Placed, Functions6, Adds
<1>7. Placed(Functions7)
  BY DEF Placed, Functions7, Adds
<1>8. Placed(Functions8)
  BY DEF Placed, Functions8, Adds
<1>9. Placed(Functions9)
  BY DEF Placed, Functions9, Adds
<1>10. Placed(Functions10)
  BY DEF Placed, Functions10, Adds
<1>11. Placed(Functions11)
  BY DEF Placed, Functions11, Adds
<1>12. Placed(Functions12)
  BY DEF Placed, Functions12, Adds
<1>13. SUFFICES ASSUME NEW f \in DOMAIN Functions
                PROVE  Functions[f].where \in {"error", "root", "field"}
  BY DEF Placed
<1> DEFINE tables == {Functions1, Functions2, Functions3, Functions4, Functions5, Functions6,
                      Functions7, Functions8, Functions9, Functions10, Functions11, Functions12}
           table == CHOOSE t \in tables : f \in DOMAIN t
<1>14. Functions[f] = table[f] /\ f \in UNION {DOMAIN t : t \in tables}
  BY <1>13, Zenon DEF Functions
<1>15. table \in tables /\ f \in DOMAIN table
  BY <1>14, Zenon
<1>16. \A t \in tables : Placed(t)
  BY <1>1, <1>2, <1>3, <1>4, <1>5, <1>6, <1>7, <1>8, <1>9, <1>10, <1>11, <1>12, Zenon
<1>17. QED
  BY <1>14, <1>15, <1>16, Zenon DEF Placed

-----------------------------------------------------------------------------
(* Adding the messages of another error.                                   *)

\* What the loop does up to the k-th message.
Unfolds(g, k, error, messages) ==
  g = [n \in 0..k |-> IF n = 0 THEN error
                      ELSE AddMessageToErrorJson(g[n - 1], messages[n])]

LEMMA SomeUnfolds ==
  ASSUME NEW error, NEW messages, NEW k \in Nat
  PROVE  \E g : Unfolds(g, k, error, messages)
<1> DEFINE T == {n \in Nat : \E g : Unfolds(g, n, error, messages)}
<1>1. 0 \in T
  <2>1. Unfolds([n \in 0..0 |-> error], 0, error, messages)
    BY DEF Unfolds
  <2>2. QED
    BY <2>1
<1>2. ASSUME NEW n \in Nat, n \in T
      PROVE  n + 1 \in T
  <2>1. PICK g : Unfolds(g, n, error, messages)
    BY <1>2
  <2> DEFINE h == [i \in 0..(n + 1) |->
                    IF i = n + 1 THEN AddMessageToErrorJson(g[n], messages[n + 1]) ELSE g[i]]
  <2>2. Unfolds(h, n + 1, error, messages)
    BY <2>1 DEF Unfolds
  <2>3. QED
    BY <2>2
<1>3. Nat \subseteq T
  <2> HIDE DEF T
  <2>1. QED
    BY <1>1, <1>2, Induction
<1>4. QED
  BY <1>3

LEMMA LoopUnfolds ==
  ASSUME NEW error, NEW messages, Len(messages) \in Nat
  PROVE  \E g : /\ Unfolds(g, Len(messages), error, messages)
                /\ AddAllToErrorJson(error, messages) = g[Len(messages)]
<1> DEFINE g == CHOOSE after : Unfolds(after, Len(messages), error, messages)
<1>1. Unfolds(g, Len(messages), error, messages)
  BY SomeUnfolds
<1>2. AddAllToErrorJson(error, messages) = g[Len(messages)]
  BY Zenon DEF AddAllToErrorJson, Unfolds
<1>3. QED
  BY <1>1, <1>2

-----------------------------------------------------------------------------
(* What an error looks like.                                               *)

MessagesHeld == {MessageOf(f) : f \in MsgCallable} \cup {Stray}
Codes == {message.key : message \in MessagesHeld} \cup {"", "GeneralError"}
Errors == [is : {"absent", "null", "object"}, code : Codes, extended : Seq(MessagesHeld)]

CodeRight(error) ==
  error.is = "object" =>
    /\ error.extended # <<>>
    /\ error.code = IF Len(error.extended) = 1 THEN error.extended[1].key ELSE "GeneralError"

ErrorOK(error) ==
  /\ error \in Errors
  /\ error.is # "object" => error.extended = <<>>
  /\ CodeRight(error)

LEMMA SomeCodes == "" \in Codes /\ "GeneralError" \in Codes
BY Zenon DEF Codes

LEMMA NoErrorOK == ErrorOK(NoError) /\ ErrorOK([NoError EXCEPT !.is = "null"])
<1>1. <<>> \in Seq(MessagesHeld)
  OBVIOUS
<1>2. NoError \in Errors
  BY <1>1, SomeCodes, Zenon DEF NoError, Errors
<1>3. NoError.is # "object" /\ NoError.extended = <<>>
  BY DEF NoError
<1>4. ASSUME NEW error \in Errors, NEW state \in {"absent", "null", "object"}
      PROVE  /\ [error EXCEPT !.is = state] \in Errors
             /\ [error EXCEPT !.is = state].is = state
             /\ [error EXCEPT !.is = state].extended = error.extended
  BY <1>4 DEF Errors
<1>5. "null" \in {"absent", "null", "object"} /\ "null" # "object"
  OBVIOUS
<1> DEFINE null == [NoError EXCEPT !.is = "null"]
<1>6. null \in Errors /\ null.is # "object" /\ null.extended = <<>>
  BY <1>2, <1>3, <1>4, <1>5, Zenon
<1>7. QED
  BY <1>2, <1>3, <1>6, Zenon DEF ErrorOK, CodeRight

\* How many real messages there are, as NoErrorLost counts them.
Count(messages) == Cardinality(Keyed(messages))

LEMMA CountOfNone == Count(<<>>) = 0
<1>1. Keyed(<<>>) = {}
  BY DEF Keyed
<1>2. QED
  BY <1>1, FS_EmptySet DEF Count

LEMMA KeyedFinite ==
  ASSUME NEW S, NEW messages \in Seq(S)
  PROVE  IsFiniteSet(Keyed(messages)) /\ Count(messages) \in Nat
<1>1. IsFiniteSet(1..Len(messages))
  BY FS_Interval
<1>2. Keyed(messages) \subseteq 1..Len(messages)
  BY DEF Keyed
<1>3. QED
  BY <1>1, <1>2, FS_Subset, FS_CardinalityType DEF Count

LEMMA CountOfAppend ==
  ASSUME NEW S, NEW messages \in Seq(S), NEW message \in S
  PROVE  Count(Append(messages, message))
           = Count(messages) + (IF HasKey(message) THEN 1 ELSE 0)
<1> DEFINE longer == Append(messages, message)
           last == Len(messages) + 1
<1>1. /\ DOMAIN longer = 1..last /\ DOMAIN messages = 1..Len(messages)
      /\ \A i \in 1..Len(messages) : longer[i] = messages[i]
      /\ longer[last] = message /\ Len(messages) \in Nat
  OBVIOUS
<1> HIDE DEF longer
<1>2. CASE HasKey(message)
  <2>1. Keyed(longer) = Keyed(messages) \cup {last}
    BY <1>1, <1>2 DEF Keyed
  <2>2. last \notin Keyed(messages)
    BY <1>1 DEF Keyed
  <2>3. Cardinality(Keyed(messages) \cup {last}) = Cardinality(Keyed(messages)) + 1
    BY <2>2, KeyedFinite, FS_AddElement
  <2>4. QED
    BY <2>1, <2>3, <1>2 DEF Count, longer
<1>3. CASE ~HasKey(message)
  <2>1. Keyed(longer) = Keyed(messages)
    BY <1>1, <1>3 DEF Keyed
  <2>2. QED
    BY <2>1, <1>3, KeyedFinite DEF Count, longer
<1>4. QED
  BY <1>2, <1>3

LEMMA AddOne ==
  ASSUME NEW error, ErrorOK(error), NEW message \in MessagesHeld
  PROVE  /\ ErrorOK(AddMessageToErrorJson(error, message))
         /\ Count(AddMessageToErrorJson(error, message).extended)
              = Count(error.extended) + (IF HasKey(message) THEN 1 ELSE 0)
<1> DEFINE added == AddMessageToErrorJson(error, message)
<1>1. error.extended \in Seq(MessagesHeld) /\ message.key \in Codes
  BY DEF ErrorOK, Errors, Codes
<1>2. CASE error.is = "object"
  <2>1. /\ added.is = "object" /\ added.code = "GeneralError"
        /\ added.extended = Append(error.extended, message)
        /\ added \in Errors
    <3> DEFINE longer == Append(error.extended, message)
    <3>1. added = [error EXCEPT !.code = "GeneralError", !.extended = longer]
      BY <1>2, Zenon DEF AddMessageToErrorJson
    <3>2. longer \in Seq(MessagesHeld)
      BY <1>1
    <3> HIDE DEF added, longer
    <3>3. PICK code \in Codes, extended \in Seq(MessagesHeld) :
            /\ code = "GeneralError" /\ extended = longer
            /\ added = [error EXCEPT !.code = code, !.extended = extended]
      BY <3>1, <3>2, SomeCodes, Zenon
    <3>4. added.is = error.is /\ added.code = code /\ added.extended = extended
          /\ added \in Errors
      BY <3>3 DEF ErrorOK, Errors
    <3>5. QED
      BY <3>3, <3>4, <1>2 DEF longer
  <2>2. Len(error.extended) \in Nat /\ Len(error.extended) # 0
    BY <1>1, <1>2 DEF ErrorOK, CodeRight
  <2>3. Len(added.extended) = Len(error.extended) + 1 /\ added.extended # <<>>
    BY <2>1, <1>1
  <2>4. ErrorOK(added)
    BY <2>1, <2>2, <2>3 DEF ErrorOK, CodeRight
  <2>5. QED
    BY <2>1, <2>4, <1>1, CountOfAppend
<1>3. CASE error.is # "object" /\ HasKey(message)
  <2>1. added = [is |-> "object", code |-> message.key, extended |-> <<message>>]
    BY <1>3 DEF AddMessageToErrorJson
  <2>2. error.extended = <<>> /\ <<message>> = Append(<<>>, message)
    BY <1>3 DEF ErrorOK
  <2>3. ErrorOK(added)
    BY <2>1, <1>1 DEF ErrorOK, CodeRight, Errors
  <2>4. Count(<<message>>) = Count(<<>>) + 1
    BY <2>2, <1>1, <1>3, CountOfAppend
  <2>5. QED
    BY <2>1, <2>2, <2>3, <2>4, <1>3
<1>4. CASE error.is # "object" /\ ~HasKey(message)
  <2>1. added = [NoError EXCEPT !.is = "null"]
    BY <1>4 DEF AddMessageToErrorJson
  <2>2. error.extended = <<>> /\ added.extended = <<>>
    BY <1>4, <2>1 DEF ErrorOK, NoError
  <2>3. QED
    BY <2>1, <2>2, <1>4, NoErrorOK, CountOfNone
<1>5. QED
  BY <1>2, <1>3, <1>4

LEMMA SubSeqSteps ==
  ASSUME NEW S, NEW messages \in Seq(S)
  PROVE  /\ SubSeq(messages, 1, 0) = <<>>
         /\ SubSeq(messages, 1, Len(messages)) = messages
         /\ \A n \in 0..(Len(messages) - 1) :
              /\ SubSeq(messages, 1, n) \in Seq(S) /\ messages[n + 1] \in S
              /\ SubSeq(messages, 1, n + 1) = Append(SubSeq(messages, 1, n), messages[n + 1])
OBVIOUS

LEMMA AddAll ==
  ASSUME NEW error, ErrorOK(error), NEW messages \in Seq(MessagesHeld)
  PROVE  /\ ErrorOK(AddAllToErrorJson(error, messages))
         /\ Count(AddAllToErrorJson(error, messages).extended)
              = Count(error.extended) + Count(messages)
<1>1. Len(messages) \in Nat
  OBVIOUS
<1>2. PICK g : /\ Unfolds(g, Len(messages), error, messages)
               /\ AddAllToErrorJson(error, messages) = g[Len(messages)]
  BY <1>1, LoopUnfolds
<1>3. /\ g[0] = error
      /\ \A n \in 0..(Len(messages) - 1) :
           g[n + 1] = AddMessageToErrorJson(g[n], messages[n + 1])
  BY <1>1, <1>2 DEF Unfolds
<1> DEFINE Done(n) == /\ ErrorOK(g[n])
                      /\ Count(g[n].extended)
                           = Count(error.extended) + Count(SubSeq(messages, 1, n))
           T == {n \in Nat : n <= Len(messages) => Done(n)}
<1>4. Count(error.extended) \in Nat
  BY KeyedFinite DEF ErrorOK, Errors
<1>5. 0 \in T
  <2>1. Count(SubSeq(messages, 1, 0)) = 0
    BY SubSeqSteps, CountOfNone, Zenon
  <2>2. QED
    BY <1>3, <1>4, <2>1
<1>6. ASSUME NEW n \in Nat, n \in T
      PROVE  n + 1 \in T
  <2>1. SUFFICES ASSUME n + 1 <= Len(messages)
                 PROVE  Done(n + 1)
    OBVIOUS
  <2>2. n \in 0..(Len(messages) - 1) /\ Done(n)
    BY <1>1, <1>6, <2>1
  <2> DEFINE front == SubSeq(messages, 1, n)
             message == messages[n + 1]
  <2>3. /\ front \in Seq(MessagesHeld) /\ message \in MessagesHeld
        /\ SubSeq(messages, 1, n + 1) = Append(front, message)
    BY <2>2, SubSeqSteps
  <2>4. /\ ErrorOK(g[n + 1])
        /\ Count(g[n + 1].extended)
             = Count(g[n].extended) + (IF HasKey(message) THEN 1 ELSE 0)
    BY <1>3, <2>2, <2>3, AddOne
  <2>5. Count(Append(front, message)) = Count(front) + (IF HasKey(message) THEN 1 ELSE 0)
    BY <2>3, CountOfAppend
  <2>6. Count(front) \in Nat
    BY <2>3, KeyedFinite
  <2>7. Count(SubSeq(messages, 1, n + 1)) = Count(Append(front, message))
    BY <2>3
  <2>8. Count(g[n].extended) = Count(error.extended) + Count(front)
    BY <2>2
  <2> HIDE DEF front, message
  <2>9. QED
    BY <1>4, <2>4, <2>5, <2>6, <2>7, <2>8
<1>7. Nat \subseteq T
  <2> HIDE DEF T
  <2>1. QED
    BY <1>5, <1>6, Induction
<1>8. Done(Len(messages))
  BY <1>1, <1>7
<1>9. SubSeq(messages, 1, Len(messages)) = messages
  BY SubSeqSteps, Zenon
<1>10. QED
  BY <1>2, <1>8, <1>9, Zenon

-----------------------------------------------------------------------------
(* Responses.                                                              *)

Statuses == {Functions[f].status : f \in MsgCallable} \cup {"ok"}
Responses == [status : Statuses, object : BOOLEAN, data : BOOLEAN, error : Errors,
              root : Seq(MessagesHeld), field : Seq(MessagesHeld), top : MessagesHeld]

ResponseOK(r) == r \in Responses /\ ErrorOK(r.error)

\* One more if a message has a key.
OfKey(message) == IF HasKey(message) THEN 1 ELSE 0

LEMMA ErrorsCounted ==
  ASSUME NEW r
  PROVE  ErrorsOf(r) = Count(r.error.extended) + OfKey(r.top)
BY DEF ErrorsOf, Count, OfKey

LEMMA ErrorsOfNat ==
  ASSUME NEW r, ResponseOK(r)
  PROVE  /\ Count(r.error.extended) \in Nat /\ OfKey(r.top) \in {0, 1}
         /\ ErrorsOf(r) \in Nat
<1>1. Count(r.error.extended) \in Nat
  BY KeyedFinite DEF ResponseOK, ErrorOK, Errors
<1>2. OfKey(r.top) \in {0, 1}
  BY DEF OfKey
<1>3. QED
  BY <1>1, <1>2, ErrorsCounted

LEMMA StrayOK == Stray \in MessagesHeld /\ ~HasKey(Stray) /\ OfKey(Stray) = 0
BY DEF MessagesHeld, Stray, HasKey, Message, OfKey

LEMMA NewResponseOK == /\ ResponseOK(NewResponse) /\ ErrorsOf(NewResponse) = 0
                       /\ NewResponse.error = NoError /\ NewResponse.top = Stray
<1>1. ErrorOK(NoError) /\ NoError.extended = <<>>
  BY NoErrorOK DEF NoError
<1>2. NoError \in Errors /\ "ok" \in Statuses /\ <<>> \in Seq(MessagesHeld)
  BY <1>1 DEF ErrorOK, Statuses
<1>3. /\ NewResponse \in Responses
      /\ NewResponse.error = NoError /\ NewResponse.top = Stray
  BY <1>2, StrayOK, Zenon DEF NewResponse, Responses
<1>4. Count(NewResponse.error.extended) = 0 /\ OfKey(NewResponse.top) = 0
  BY <1>1, <1>3, CountOfNone, StrayOK
<1>5. QED
  BY <1>1, <1>3, <1>4, ErrorsCounted DEF ResponseOK

LEMMA SaysOK ==
  ASSUME NEW r, ResponseOK(r), NEW f \in MsgCallable
  PROVE  /\ ResponseOK(Says(r, f))
         /\ ErrorsOf(Says(r, f))
              = ErrorsOf(r) + (IF Functions[f].where = "error" THEN 1 ELSE 0)
<1> DEFINE message == MessageOf(f)
           status == IF Functions[f].status = "unset" THEN r.status ELSE Functions[f].status
           told == [r EXCEPT !.status = status, !.object = TRUE]
<1>1. message \in MessagesHeld /\ HasKey(message) /\ f \in DOMAIN Functions
  BY MessagesAssumption DEF MessagesHeld
<1>2. status \in Statuses
  BY DEF ResponseOK, Responses, Statuses
<1>3. told \in Responses /\ told.error = r.error /\ told.top = r.top
  <2> HIDE DEF status
  <2>1. QED
    BY <1>2 DEF ResponseOK, Responses
<1>4. /\ Count(r.error.extended) \in Nat /\ OfKey(r.top) \in {0, 1}
      /\ ErrorsOf(r) = Count(r.error.extended) + OfKey(r.top)
  BY ErrorsOfNat, ErrorsCounted
<1> HIDE DEF message, told
<1>5. CASE Functions[f].where = "error"
  <2> DEFINE error == AddMessageToErrorJson(told.error, message)
  <2>1. Says(r, f) = [told EXCEPT !.error = error]
    BY <1>5, Zenon DEF Says, told, message
  <2>2. ErrorOK(error) /\ Count(error.extended) = Count(r.error.extended) + 1
    BY <1>1, <1>3, AddOne DEF ResponseOK
  <2> HIDE DEF error
  <2>3. error \in Errors
    BY <2>2 DEF ErrorOK
  <2>4. /\ Says(r, f) \in Responses /\ Says(r, f).error = error
        /\ Says(r, f).top = r.top
    BY <1>3, <2>1, <2>3 DEF Responses
  <2>5. ErrorsOf(Says(r, f)) = Count(error.extended) + OfKey(r.top)
    BY <2>4, ErrorsCounted
  <2>6. QED
    BY <1>4, <1>5, <2>2, <2>4, <2>5 DEF ResponseOK
<1>6. CASE Functions[f].where = "root"
  <2> DEFINE longer == Append(told.root, message)
  <2>1. Says(r, f) = [told EXCEPT !.root = longer]
    BY <1>6, Zenon DEF Says, told, message
  <2>2. told.root \in Seq(MessagesHeld)
    BY <1>3 DEF Responses
  <2>3. longer \in Seq(MessagesHeld)
    BY <1>1, <2>2
  <2> HIDE DEF longer
  <2>4. /\ Says(r, f) \in Responses /\ Says(r, f).error = r.error
        /\ Says(r, f).top = r.top
    BY <1>3, <2>1, <2>3 DEF Responses
  <2>5. ErrorsOf(Says(r, f)) = ErrorsOf(r)
    BY <1>4, <2>4, ErrorsCounted
  <2>6. QED
    BY <1>4, <1>6, <2>4, <2>5 DEF ResponseOK
<1>7. CASE Functions[f].where = "field"
  <2> DEFINE longer == Append(told.field, message)
  <2>1. Says(r, f) = [told EXCEPT !.field = longer]
    BY <1>7, Zenon DEF Says, told, message
  <2>2. told.field \in Seq(MessagesHeld)
    BY <1>3 DEF Responses
  <2>3. longer \in Seq(MessagesHeld)
    BY <1>1, <2>2
  <2> HIDE DEF longer
  <2>4. /\ Says(r, f) \in Responses /\ Says(r, f).error = r.error
        /\ Says(r, f).top = r.top
    BY <1>3, <2>1, <2>3 DEF Responses
  <2>5. ErrorsOf(Says(r, f)) = ErrorsOf(r)
    BY <1>4, <2>4, ErrorsCounted
  <2>6. QED
    BY <1>4, <1>7, <2>4, <2>5 DEF ResponseOK
<1>8. QED
  BY <1>1, <1>5, <1>6, <1>7, FunctionsPlaced DEF Placed

LEMMA MovesOK ==
  ASSUME NEW target, ResponseOK(target), NEW source, ResponseOK(source)
  PROVE  /\ ResponseOK(Moves(target, source).target)
         /\ ResponseOK(Moves(target, source).source)
         /\ ErrorsOf(Moves(target, source).target) + ErrorsOf(Moves(target, source).source)
              = ErrorsOf(target) + ErrorsOf(source)
<1> DEFINE moved == Moves(target, source)
<1>1. /\ target \in Responses /\ source \in Responses
      /\ ErrorOK(target.error) /\ ErrorOK(source.error)
      /\ source.error.is \in {"absent", "null", "object"} /\ source.object \in BOOLEAN
  BY DEF ResponseOK, ErrorOK, Responses, Errors
<1>2. /\ Count(target.error.extended) \in Nat /\ OfKey(target.top) \in {0, 1}
      /\ Count(source.error.extended) \in Nat /\ OfKey(source.top) \in {0, 1}
      /\ ErrorsOf(target) = Count(target.error.extended) + OfKey(target.top)
      /\ ErrorsOf(source) = Count(source.error.extended) + OfKey(source.top)
  BY ErrorsOfNat, ErrorsCounted
<1>3. CASE ~source.object \/ source.error.is = "null"
  <2>1. moved = [target |-> target, source |-> source]
    BY <1>3, Zenon DEF Moves
  <2>2. QED
    BY <2>1
<1>4. CASE source.object /\ source.error.is = "absent"
  <2> DEFINE error == AddMessageToErrorJson(target.error, source.top)
             filled == [target EXCEPT !.object = TRUE, !.error = error]
  <2>1. moved.target = filled /\ moved.source = Cleared(source)
    BY <1>4 DEF Moves
  <2>2. source.top \in MessagesHeld
    BY <1>1 DEF Responses
  <2>3. /\ ErrorOK(error)
        /\ Count(error.extended) = Count(target.error.extended) + OfKey(source.top)
    BY <1>1, <2>2, AddOne DEF OfKey
  <2> HIDE DEF error
  <2>4. filled \in Responses /\ filled.error = error /\ filled.top = target.top
    BY <1>1, <2>3 DEF Responses, ErrorOK
  <2>5. ErrorsOf(filled) = Count(error.extended) + OfKey(target.top)
    BY <2>4, ErrorsCounted
  <2>6. source.error.extended = <<>>
    BY <1>1, <1>4 DEF ErrorOK
  <2>7. Count(source.error.extended) = 0
    BY <2>6, CountOfNone
  <2>8. /\ Cleared(source) \in Responses /\ Cleared(source).error = NoError
        /\ Cleared(source).top = Stray
    <3>1. NewResponse \in Responses /\ source.status \in Statuses
      BY <1>1, NewResponseOK DEF ResponseOK, Responses
    <3>2. QED
      BY <1>1, <3>1, NewResponseOK DEF Cleared, Responses
  <2>9. ErrorsOf(Cleared(source)) = ErrorsOf(NewResponse)
    BY <2>8, NewResponseOK, ErrorsCounted
  <2>10. ResponseOK(Cleared(source)) /\ ErrorsOf(Cleared(source)) = 0
    BY <2>8, <2>9, NewResponseOK DEF ResponseOK
  <2>11. ResponseOK(filled)
    BY <2>3, <2>4 DEF ResponseOK
  <2> HIDE DEF filled
  <2>12. QED
    BY <1>2, <2>1, <2>3, <2>5, <2>7, <2>10, <2>11
<1>5. CASE source.object /\ source.error.is = "object"
  <2> DEFINE error == AddAllToErrorJson(target.error, source.error.extended)
             filled == [target EXCEPT !.object = TRUE, !.error = error]
             emptied == [source EXCEPT !.error = NoError]
  <2>1. moved.target = filled /\ moved.source = emptied
    BY <1>5 DEF Moves
  <2>2. source.error.extended \in Seq(MessagesHeld)
    BY <1>1 DEF ErrorOK, Errors
  <2>3. /\ ErrorOK(error)
        /\ Count(error.extended)
             = Count(target.error.extended) + Count(source.error.extended)
    BY <1>1, <2>2, AddAll
  <2> HIDE DEF error
  <2>4. filled \in Responses /\ filled.error = error /\ filled.top = target.top
    BY <1>1, <2>3 DEF Responses, ErrorOK
  <2>5. ResponseOK(filled) /\ ErrorsOf(filled) = Count(error.extended) + OfKey(target.top)
    BY <2>3, <2>4, ErrorsCounted DEF ResponseOK
  <2>6. emptied \in Responses /\ emptied.error = NoError /\ emptied.top = source.top
    BY <1>1, NoErrorOK DEF Responses, ErrorOK
  <2>7. NoError.extended = <<>>
    BY DEF NoError
  <2>8. Count(emptied.error.extended) = 0
    BY <2>6, <2>7, CountOfNone
  <2>9. ResponseOK(emptied)
    BY <2>6, NoErrorOK DEF ResponseOK
  <2> HIDE DEF filled, emptied
  <2>10. ErrorsOf(emptied) = Count(emptied.error.extended) + OfKey(emptied.top)
    BY ErrorsCounted
  <2>11. ErrorsOf(emptied) = OfKey(source.top)
    BY <1>2, <2>6, <2>8, <2>10
  <2>12. QED
    BY <1>2, <2>1, <2>3, <2>5, <2>9, <2>11
<1>6. QED
  BY <1>1, <1>3, <1>4, <1>5

-----------------------------------------------------------------------------
(* What was said.                                                          *)

AddsError(f) == Functions[f].where = "error"

LEMMA SaidMore ==
  ASSUME NEW f \in MsgCallable, said \in Seq(MsgCallable), said' = Append(said, f)
  PROVE  /\ Cardinality(ErrorsSaid) \in Nat
         /\ Cardinality(ErrorsSaid')
              = Cardinality(ErrorsSaid) + (IF AddsError(f) THEN 1 ELSE 0)
<1> DEFINE last == Len(said) + 1
<1>1. /\ DOMAIN said' = 1..last /\ DOMAIN said = 1..Len(said)
      /\ \A i \in 1..Len(said) : said'[i] = said[i]
      /\ said'[last] = f /\ Len(said) \in Nat
  OBVIOUS
<1>2. /\ ErrorsSaid = {i \in DOMAIN said : AddsError(said[i])}
      /\ ErrorsSaid' = {i \in DOMAIN said' : AddsError(said'[i])}
  BY DEF ErrorsSaid, AddsError
<1>3. IsFiniteSet(ErrorsSaid) /\ Cardinality(ErrorsSaid) \in Nat
  <2>1. IsFiniteSet(1..Len(said)) /\ ErrorsSaid \subseteq 1..Len(said)
    BY <1>1, <1>2, FS_Interval
  <2>2. QED
    BY <2>1, FS_Subset, FS_CardinalityType
<1>4. CASE AddsError(f)
  <2>1. ErrorsSaid' = ErrorsSaid \cup {last} /\ last \notin ErrorsSaid
    BY <1>1, <1>2, <1>4
  <2>2. Cardinality(ErrorsSaid \cup {last}) = Cardinality(ErrorsSaid) + 1
    BY <1>3, <2>1, FS_AddElement
  <2>3. QED
    BY <1>3, <1>4, <2>1, <2>2
<1>5. CASE ~AddsError(f)
  <2>1. ErrorsSaid' = ErrorsSaid
    BY <1>1, <1>2, <1>5
  <2>2. QED
    BY <1>3, <1>5, <2>1
<1>6. QED
  BY <1>4, <1>5

-----------------------------------------------------------------------------
(* The invariant.                                                          *)

MessagesInv ==
  /\ ResponseOK(main) /\ ResponseOK(part)
  /\ said \in Seq(MsgCallable)
  /\ ErrorsOf(main) + ErrorsOf(part) = Cardinality(ErrorsSaid)

LEMMA MessagesInit == MsgInit => MessagesInv
<1> SUFFICES ASSUME MsgInit
             PROVE  MessagesInv
  OBVIOUS
<1>1. main = NewResponse /\ part = NewResponse /\ said = <<>>
  BY DEF MsgInit
<1>2. ErrorsSaid = {}
  BY <1>1 DEF ErrorsSaid
<1>3. QED
  BY <1>1, <1>2, NewResponseOK, FS_EmptySet DEF MessagesInv

LEMMA MessagesStep ==
  ASSUME MessagesInv, [MsgNext]_msgVars
  PROVE  MessagesInv'
<1>1. /\ ResponseOK(main) /\ ResponseOK(part) /\ said \in Seq(MsgCallable)
      /\ ErrorsOf(main) \in Nat /\ ErrorsOf(part) \in Nat
      /\ ErrorsOf(main) + ErrorsOf(part) = Cardinality(ErrorsSaid)
  BY ErrorsOfNat DEF MessagesInv
<1>2. ASSUME NEW f \in MsgCallable, MainSays(f)
      PROVE  MessagesInv'
  <2>1. main' = Says(main, f) /\ part' = part /\ said' = Append(said, f)
    BY <1>2 DEF MainSays, Called
  <2>2. /\ ResponseOK(main')
        /\ ErrorsOf(main') = ErrorsOf(main) + (IF AddsError(f) THEN 1 ELSE 0)
    BY <1>1, <2>1, SaysOK DEF AddsError
  <2>3. QED
    BY <1>1, <2>1, <2>2, SaidMore DEF MessagesInv
<1>3. ASSUME NEW f \in MsgCallable, PartSays(f)
      PROVE  MessagesInv'
  <2>1. part' = Says(part, f) /\ main' = main /\ said' = Append(said, f)
    BY <1>3 DEF PartSays, Called
  <2>2. /\ ResponseOK(part')
        /\ ErrorsOf(part') = ErrorsOf(part) + (IF AddsError(f) THEN 1 ELSE 0)
    BY <1>1, <2>1, SaysOK DEF AddsError
  <2>3. QED
    BY <1>1, <2>1, <2>2, SaidMore DEF MessagesInv
<1>4. CASE PartWrites
  <2>1. part' \in Responses /\ part'.error = part.error /\ part'.top = part.top
    BY <1>1, <1>4 DEF PartWrites, ResponseOK, Responses
  <2>2. main' = main /\ said' = said
    BY <1>4 DEF PartWrites
  <2>3. ErrorsOf(part') = ErrorsOf(part)
    BY <2>1 DEF ErrorsOf
  <2>4. ResponseOK(part')
    BY <1>1, <2>1 DEF ResponseOK
  <2>5. QED
    BY <1>1, <2>2, <2>3, <2>4 DEF MessagesInv, ErrorsSaid
<1>5. CASE MoveErrors
  <2>1. /\ main' = Moves(main, part).target /\ part' = Moves(main, part).source
        /\ said' = said
    BY <1>5 DEF MoveErrors
  <2>2. QED
    BY <1>1, <2>1, MovesOK DEF MessagesInv, ErrorsSaid
<1>6. ASSUME NEW f \in MsgCallable, PartIsMessage(f)
      PROVE  MessagesInv'
  <2> DEFINE message == MessageOf(f)
  <2>1. /\ AddsError(f) /\ part.error.is # "object" /\ ~HasKey(part.top)
        /\ part' = [NewResponse EXCEPT !.status = part.status, !.object = TRUE,
                                       !.top = message]
        /\ main' = main /\ said' = Append(said, f)
    BY <1>6 DEF PartIsMessage, Called, AddsError
  <2>2. message \in MessagesHeld /\ HasKey(message)
    BY MessagesAssumption DEF MessagesHeld
  <2>3. NewResponse \in Responses /\ part.status \in Statuses
    BY <1>1, NewResponseOK DEF ResponseOK, Responses
  <2> HIDE DEF message
  <2>4. /\ part' \in Responses /\ part'.error = NewResponse.error
        /\ part'.top = message
    BY <2>1, <2>2, <2>3 DEF Responses
  <2>5. ResponseOK(part')
    BY <2>4, NewResponseOK DEF ResponseOK
  <2>6. part.error.extended = <<>> /\ part'.error.extended = <<>>
    <3>1. NoError.extended = <<>>
      BY DEF NoError
    <3>2. part.error.extended = <<>>
      BY <1>1, <2>1 DEF ResponseOK, ErrorOK
    <3>3. QED
      BY <2>4, <3>1, <3>2, NewResponseOK
  <2>7. Count(part.error.extended) = 0 /\ Count(part'.error.extended) = 0
    BY <2>6, CountOfNone
  <2>8. OfKey(part.top) = 0 /\ OfKey(part'.top) = 1
    BY <2>1, <2>2, <2>4 DEF OfKey
  <2>9. /\ ErrorsOf(part) = Count(part.error.extended) + OfKey(part.top)
        /\ ErrorsOf(part') = Count(part'.error.extended) + OfKey(part'.top)
    BY ErrorsCounted
  <2>10. ErrorsOf(part) = 0 /\ ErrorsOf(part') = 1
    BY <2>7, <2>8, <2>9
  <2>11. /\ Cardinality(ErrorsSaid) \in Nat
         /\ Cardinality(ErrorsSaid') = Cardinality(ErrorsSaid) + 1
    BY <1>1, <2>1, SaidMore
  <2>12. QED
    BY <1>1, <2>1, <2>5, <2>10, <2>11 DEF MessagesInv
<1>7. CASE UNCHANGED msgVars
  BY <1>1, <1>7 DEF msgVars, MessagesInv, ErrorsSaid
<1>8. QED
  BY <1>2, <1>3, <1>4, <1>5, <1>6, <1>7 DEF MsgNext

\* Whatever handlers call and move, MessagesInv holds.
THEOREM MessagesInvariance == MsgSpec => []MessagesInv
BY MessagesInit, MessagesStep, PTL DEF MsgSpec

\* The code of an error is that of its only message, or the general one
\* (addMessageToErrorJson), in any order of calls and moves.
THEOREM CodeAlwaysSpeaks == MsgSpec => []CodeSpeaks
<1>1. MessagesInv => CodeSpeaks
  BY DEF MessagesInv, ResponseOK, ErrorOK, CodeRight, CodeSpeaks
<1>2. QED
  BY <1>1, MessagesInvariance, PTL

\* Moving the errors of a part neither loses nor doubles one
\* (moveErrorsToErrorJson), in any order of calls and moves.
THEOREM ErrorsKept == MsgSpec => []NoErrorLost
<1>1. MessagesInv => NoErrorLost
  BY DEF MessagesInv, NoErrorLost
<1>2. QED
  BY <1>1, MessagesInvariance, PTL
=============================================================================
