----------------------------- MODULE JsonReader -----------------------------
(***************************************************************************)
(* Reading the body of a request (src/include/utils/json_utils.hpp,        *)
(* src/redfish_event/src/json_utils.cpp), and the routes of the event      *)
(* plugin (src/redfish_event/src/redfish_event.cpp) that do so.            *)
(*                                                                         *)
(* A JSON value is a tuple of its type and, where that matters, its        *)
(* content: <<"null">>, <<"bool">>, <<"float">>, <<"string", text>>,       *)
(* <<"number", n>>, <<"array", items>>, <<"object", members>>, and         *)
(* <<"discarded">> for what is no JSON.  Numbers of WordBits bits stand    *)
(* for those of 64.  A key of a handler with slashes is a sequence.        *)
(***************************************************************************)
EXTENDS Messages

CONSTANTS WordBits,        \* the width of a JSON number
          Names,           \* the members that occur, in their order
          ODataNames,      \* those that begin with "@odata."
          JsonValues,      \* the bodies that clients send
          AskedLists,      \* what the handlers of other plugins ask for
          Urls,            \* the strings that are URLs
          MaxSubscribers   \* how many subscriptions are explored

VARIABLES request,         \* the request at work, see Reading
          subscribers,     \* the destinations of the subscribers
          threw            \* a destination that is no URL has ended the program

jsonVars == <<request, subscribers, threw>>

-----------------------------------------------------------------------------
(* What is asked: a key, a type and how often; what is read.               *)

Asked(key, kind, bits, vector, optional) ==
  [key |-> key, kind |-> kind, bits |-> bits, vector |-> vector, optional |-> optional]

Unset == <<"unset">>
Default == <<"default">>

\* by: the helper that reads; typed: the content type is that of JSON; told: the
\* message functions called; read: the handler's variables.
Reading(by, body, typed, asked) ==
  [by |-> by, body |-> body, typed |-> typed, asked |-> asked, ok |-> TRUE,
   told |-> <<>>, read |-> [i \in DOMAIN asked |-> Unset]]

Tell(r, message) == [r EXCEPT !.told = Append(@, message), !.ok = FALSE]

-----------------------------------------------------------------------------
(* One value.                                                              *)

\* get_ptr<int64_t*> gives a number above the largest signed one, too.
AsSigned(n) == IF n >= 2^(WordBits - 1) THEN n - 2^WordBits ELSE n

CheckRange(n, kind, bits) ==
  IF kind = "signed" THEN -(2^(bits - 1)) <= n /\ n < 2^(bits - 1) ELSE n < 2^bits

\* The static_cast after the check.
Cast(n, kind, bits) ==
  IF kind = "signed" /\ n % 2^bits >= 2^(bits - 1) THEN (n % 2^bits) - 2^bits
  ELSE n % 2^bits

\* unpackValueWithErrorCode: the code and the value.
UnpackScalar(value, asked) ==
  LET is == value[1]
      success(v) == [code |-> "success", value |-> v]
      failure(code) == [code |-> code, value |-> Default]
      number(n) == IF CheckRange(n, asked.kind, asked.bits)
                   THEN success(<<"number", Cast(n, asked.kind, asked.bits)>>)
                   ELSE failure("outOfRange")
  IN  CASE asked.kind = "json" -> success(value)
        [] asked.kind = "double" /\ is = "float" -> success(value)
        [] asked.kind = "double" /\ is = "number" -> success(<<"number", AsSigned(value[2])>>)
        [] asked.kind = "signed" /\ is = "number" -> number(AsSigned(value[2]))
        [] asked.kind = "unsigned" /\ is = "number" /\ value[2] >= 0 -> number(value[2])
        [] asked.kind \in {"bool", "string"} /\ is = asked.kind -> success(value)
        [] OTHER -> failure("invalidType")

\* Variant: what failed before is forgotten.
TellLastCode(r, code) ==
  CASE code = "success" -> [r EXCEPT !.ok = TRUE]
    [] code = "invalidType" -> Tell(r, "propertyValueTypeError")
    [] code = "outOfRange" -> Tell(r, "propertyValueNotInList")

TellCode(r, code) ==
  CASE code = "success" -> r
    [] code = "invalidType" -> Tell(r, "propertyValueTypeError")
    [] code = "outOfRange" -> Tell(r, "propertyValueNotInList")

\* unpackValue: a value or every element of an array, those that do not fit, too.
UnpackValue(r, i, value) ==
  LET element(s, item) ==
        LET one == UnpackScalar(item, r.asked[i])
        IN  [TellCode(s, one.code) EXCEPT !.read[i] = <<"array", Append(@[2], one.value)>>]
      one == UnpackScalar(value, r.asked[i])
  IN  CASE r.asked[i].vector /\ value[1] = "array" ->
             FoldLeft(element, [r EXCEPT !.read[i] = <<"array", <<>>>>], value[2])
        [] r.asked[i].vector /\ value[1] # "array" ->
             [Tell(r, "propertyValueTypeError") EXCEPT !.read[i] = Default]
        [] ~r.asked[i].vector ->
             [TellCode(r, one.code) EXCEPT !.read[i] = one.value]

-----------------------------------------------------------------------------
(* An object.  A level is the part of the request at which the helper is:  *)
(* the keys below it, by the index of what is asked, and those it is       *)
(* through with.                                                           *)

RECURSIVE ReadJsonHelper(_, _, _)

\* Variant: the keys of the level below are not taken off this level.
ReadBelowOnce(r, keys, complete, i, value) ==
  LET below == {j \in DOMAIN keys : Len(keys[j]) > 1 /\ keys[j][1] = keys[i][1]}
  IN  IF r.ok
      THEN [r |-> ReadJsonHelper(r, [j \in below |-> Tail(keys[j])], value),
            complete |-> complete \cup {i}, stopped |-> FALSE]
      ELSE [r |-> r, complete |-> complete, stopped |-> TRUE]

\* The level below a name is read for all its keys; if something failed before,
\* nothing more is read at this level, and nothing is missed.
ReadBelow(r, keys, complete, i, value) ==
  LET below == {j \in DOMAIN keys : Len(keys[j]) > 1 /\ keys[j][1] = keys[i][1]}
  IN  IF r.ok
      THEN [r |-> ReadJsonHelper(r, [j \in below |-> Tail(keys[j])], value),
            complete |-> complete \cup below, stopped |-> FALSE]
      ELSE [r |-> r, complete |-> complete, stopped |-> TRUE]

\* One member of the object goes to the first key that bears its name and is not
\* complete.
ReadItem(level, keys, name, value) ==
  LET matches == {i \in DOMAIN keys \ level.complete : keys[i][1] = name}
      i == Min(matches)
  IN  CASE level.stopped -> level
        [] ~level.stopped /\ matches = {} ->
             [level EXCEPT !.r = Tell(@, "propertyUnknown")]
        [] ~level.stopped /\ matches # {} /\ Len(keys[i]) > 1 ->
             ReadBelow(level.r, keys, level.complete, i, value)
        [] ~level.stopped /\ matches # {} /\ Len(keys[i]) = 1 ->
             [level EXCEPT !.r = UnpackValue(@, i, value), !.complete = @ \cup {i}]

TellMissing(r, keys, complete) ==
  FoldLeft(LAMBDA s, i : Tell(s, "propertyMissing"), r,
           SetToSeq({i \in DOMAIN keys \ complete : ~r.asked[i].optional}))

ReadJsonHelper(r, keys, json) ==
  LET names == SelectSeq(Names, LAMBDA name : name \in DOMAIN json[2])
      level == FoldLeft(LAMBDA l, name : ReadItem(l, keys, name, json[2][name]),
                        [r |-> r, complete |-> {}, stopped |-> FALSE], names)
  IN  CASE json[1] # "object" -> Tell(r, "unrecognizedRequestBody")
        [] json[1] = "object" /\ level.stopped -> level.r
        [] json[1] = "object" /\ ~level.stopped -> TellMissing(level.r, keys, level.complete)

ReadJson(r, json) ==
  ReadJsonHelper(r, [i \in DOMAIN r.asked |-> r.asked[i].key], json)

ProcessJsonFromRequest(r) ==
  CASE ~r.typed -> Tell(r, "unrecognizedRequestBody")
    [] r.typed /\ r.body[1] = "discarded" -> Tell(r, "malformedJSON")
    [] r.typed /\ r.body[1] # "discarded" -> r

ReadJsonAction(r) ==
  LET processed == ProcessJsonFromRequest(r)
  IN  IF processed.ok THEN ReadJson(processed, r.body) ELSE processed

\* The annotations at the top are not read.
WithoutOData(members) == Restrict(members, DOMAIN members \ ODataNames)

ReadJsonPatchHelper(r) ==
  LET left == WithoutOData(r.body[2])
  IN  CASE r.body[1] # "object" \/ DOMAIN r.body[2] = {} -> Tell(r, "emptyJSON")
        [] r.body[1] = "object" /\ DOMAIN r.body[2] # {} /\ DOMAIN left = {} ->
             Tell(r, "noOperation")
        [] OTHER -> ReadJson(r, <<"object", left>>)

ReadJsonPatch(r) ==
  LET processed == ProcessJsonFromRequest(r)
  IN  IF processed.ok THEN ReadJsonPatchHelper(processed) ELSE processed

-----------------------------------------------------------------------------
(* The routes.                                                             *)

SubscriptionAsked ==
  <<Asked(<<"Destination">>, "string", 0, FALSE, FALSE),
    Asked(<<"DeliveryRetryPolicy">>, "string", 0, FALSE, TRUE),
    Asked(<<"Protocol">>, "string", 0, FALSE, FALSE),
    Asked(<<"SubscriptionType">>, "string", 0, FALSE, TRUE)>>

NoReading == Reading("none", <<"null">>, TRUE, <<>>)

JsonInit == request = NoReading /\ subscribers = <<>> /\ threw = FALSE

\* A handler of another plugin, with a list of its own.
HandlerReads(body, asked, typed) ==
  /\ \/ request' = ReadJsonAction(Reading("action", body, typed, asked))
     \/ request' = ReadJsonPatch(Reading("patch", body, typed, asked))
  /\ UNCHANGED <<subscribers, threw>>

\* registerSubscriberUrl; the destination is a string, whatever it says.
PostSubscription(body, typed) ==
  LET r == ReadJsonPatch(Reading("subscribe", body, typed, SubscriptionAsked)) IN
  /\ Len(subscribers) < MaxSubscribers
  /\ request' = r
  /\ subscribers' = IF r.ok THEN Append(subscribers, r.read[1][2]) ELSE subscribers
  /\ UNCHANGED threw

\* requestRoutesSubmitTestEvent: each subscriber parses its destination when it
\* makes a session; nothing catches what a bad one throws.
SubmitTestEvent ==
  /\ threw' = (ToSet(subscribers) \ Urls # {})
  /\ UNCHANGED <<request, subscribers>>

\* The response has been sent.
ResponseSent ==
  /\ request.by # "none"
  /\ request' = NoReading
  /\ UNCHANGED <<subscribers, threw>>

\* A handler runs to its end, and none runs after an exception left one.
Idle == request.by = "none" /\ ~threw

Requested ==
  \/ \E body \in JsonValues, typed \in BOOLEAN :
       \/ \E asked \in AskedLists : HandlerReads(body, asked, typed)
       \/ PostSubscription(body, typed)
  \/ SubmitTestEvent

JsonNext == (Idle /\ Requested) \/ ResponseSent

JsonSpec == JsonInit /\ [][JsonNext]_jsonVars

-----------------------------------------------------------------------------
(* Properties.                                                             *)

\* A handler returns when reading fails and writes its answer when it does not:
\* the status says which, so that no failure goes out as a success, whatever
\* failed, in whatever element or level, and no success as a failure; and a
\* subscription that was answered as made is in the list, with its destination.
ReadTells ==
  LET status == FoldLeft(Says, NewResponse, request.told).status IN
  /\ request.ok => status = "ok" /\ request.told = <<>>
  /\ ~request.ok => status = "bad_request"
  /\ (request.by = "subscribe" /\ status = "ok") =>
       Last(subscribers) = request.body[2]["Destination"][2]

\* What a path leads to in a JSON value, or Unset.
RECURSIVE At(_, _)
At(json, path) ==
  CASE path = <<>> -> json
    [] path # <<>> /\ json[1] = "object" /\ path[1] \in DOMAIN json[2] ->
         At(json[2][path[1]], Tail(path))
    [] OTHER -> Unset

\* The value that was sent, but that what cannot be told from a negative number
\* is one where those are asked for.
Faithful(sent, asked, read) ==
  \/ read = sent
  \/ /\ asked.kind \in {"signed", "double"} /\ sent[1] = "number"
     /\ sent[2] >= 2^(WordBits - 1) /\ read = <<"number", sent[2] - 2^WordBits>>

\* The paths of a body down to what is asked for as a whole or is no object.
RECURSIVE Leaves(_, _, _)
Leaves(json, path, asked) ==
  IF json[1] # "object" \/ \E i \in DOMAIN asked : asked[i].key = path THEN {path}
  ELSE UNION {Leaves(json[2][name], Append(path, name), asked) : name \in DOMAIN json[2]}

\* What the value of a type may be.
Fits(sent, asked) ==
  CASE asked.kind = "json" -> TRUE
    [] asked.kind = "double" -> sent[1] \in {"float", "number"}
    [] asked.kind \in {"bool", "string"} -> sent[1] = asked.kind
    [] asked.kind = "signed" -> /\ sent[1] = "number"
                                /\ LET most == 2^(asked.bits - 1)
                                   IN  AsSigned(sent[2]) \in -most..(most - 1)
    [] asked.kind = "unsigned" -> sent[1] = "number" /\ sent[2] \in 0..(2^asked.bits - 1)

\* A request is read whole and as it was sent, or refused for a reason.  What a
\* handler requires is there, what is optional is set if and only if it was sent,
\* nothing was sent that the handler did not ask for, each value came through its
\* type, its vector and its level as it was; and whatever is so is not refused.
ReadAsSent ==
  LET asked == request.asked
      sent(i) == At(request.body, asked[i].key)
      whole == \A i \in DOMAIN asked :
        CASE sent(i) = Unset -> asked[i].optional
          [] sent(i) # Unset /\ ~asked[i].vector -> Fits(sent(i), asked[i])
          [] sent(i) # Unset /\ asked[i].vector ->
               sent(i)[1] = "array" /\ \A item \in ToSet(sent(i)[2]) : Fits(item, asked[i])
      asAsked == \A path \in Leaves(request.body, <<>>, asked) :
        \/ \E i \in DOMAIN asked : asked[i].key = path
        \/ request.by # "action" /\ path # <<>> /\ path[1] \in ODataNames
      legal == /\ request.typed /\ request.body[1] = "object"
               /\ request.by # "action" => ~(DOMAIN request.body[2] \subseteq ODataNames)
      kept == \A i \in DOMAIN asked :
        CASE sent(i) = Unset -> request.read[i] = Unset
          [] sent(i) # Unset /\ ~asked[i].vector -> Faithful(sent(i), asked[i], request.read[i])
          [] sent(i) # Unset /\ asked[i].vector ->
               /\ Len(request.read[i][2]) = Len(sent(i)[2])
               /\ \A k \in DOMAIN sent(i)[2] :
                    Faithful(sent(i)[2][k], asked[i], request.read[i][2][k])
  IN  request.by # "none" =>
        /\ request.ok <=> legal /\ whole /\ asAsked
        /\ request.ok => kept
=============================================================================
