------------------------------ MODULE Messages ------------------------------
(***************************************************************************)
(* The Redfish messages a handler puts into its response                   *)
(* (src/redfish_event/src/error_messages.cpp, src/include/registries.hpp), *)
(* and how the errors of one response are moved into another.              *)
(*                                                                         *)
(* The JSON of a response is what the functions here look at: whether it   *)
(* is an object yet, whether a handler wrote data of its own, the "error"  *)
(* object, the extended information at the root and at properties, and     *)
(* whether the whole is itself a message (top).                            *)
(***************************************************************************)
EXTENDS MessageRegistry, FiniteSets, SequencesExt, FiniteSetsExt, Functions, TLC

CONSTANTS MaxMessages,     \* how many calls of a function or a move are explored
          MsgCallable      \* the functions that handlers call

VARIABLES main,            \* the response that is sent
          part,            \* the response of a part of the request
          said             \* the functions called so far, in order

msgVars == <<main, part, said>>

-----------------------------------------------------------------------------
(* What each function adds: where, with how many arguments, under which    *)
(* status ("unset": the status stays).                                     *)

Adds(where, args, status) == [where |-> where, args |-> args, status |-> status]

Functions1 ==
  [resourceInUse |-> Adds("error", 0, "service_unavailable"),
   malformedJSON |-> Adds("error", 0, "bad_request"),
   resourceMissingAtURI |-> Adds("error", 1, "bad_request"),
   actionParameterValueFormatError |-> Adds("error", 3, "bad_request"),
   actionParameterValueNotInList |-> Adds("error", 3, "bad_request"),
   internalError |-> Adds("error", 0, "internal_server_error"),
   unrecognizedRequestBody |-> Adds("error", 0, "bad_request")]

Functions2 ==
  [resourceAtUriUnauthorized |-> Adds("error", 2, "unauthorized"),
   actionParameterUnknown |-> Adds("error", 2, "bad_request"),
   resourceCannotBeDeleted |-> Adds("error", 0, "method_not_allowed"),
   propertyDuplicate |-> Adds("field", 1, "bad_request"),
   serviceTemporarilyUnavailable |-> Adds("error", 1, "service_unavailable"),
   resourceAlreadyExists |-> Adds("field", 3, "bad_request"),
   accountForSessionNoLongerExists |-> Adds("error", 0, "forbidden")]

Functions3 ==
  [createFailedMissingReqProperties |-> Adds("field", 1, "bad_request"),
   propertyValueFormatError |-> Adds("field", 2, "bad_request"),
   propertyValueNotInList |-> Adds("field", 2, "bad_request"),
   propertyValueOutOfRange |-> Adds("error", 2, "bad_request"),
   resourceAtUriInUnknownFormat |-> Adds("error", 1, "bad_request"),
   serviceDisabled |-> Adds("error", 1, "service_unavailable")]

Functions4 ==
  [serviceInUnknownState |-> Adds("error", 0, "service_unavailable"),
   eventSubscriptionLimitExceeded |-> Adds("error", 0, "service_unavailable"),
   actionParameterMissing |-> Adds("error", 2, "bad_request"),
   stringValueTooLong |-> Adds("error", 2, "bad_request"),
   sessionTerminated |-> Adds("root", 0, "ok"),
   subscriptionTerminated |-> Adds("root", 0, "ok"),
   resourceTypeIncompatible |-> Adds("error", 2, "bad_request")]

Functions5 ==
  [resetRequired |-> Adds("error", 2, "bad_request"),
   chassisPowerStateOnRequired |-> Adds("error", 1, "bad_request"),
   chassisPowerStateOffRequired |-> Adds("error", 1, "bad_request"),
   propertyValueConflict |-> Adds("error", 2, "bad_request"),
   propertyValueResourceConflict |-> Adds("error", 3, "conflict"),
   propertyValueExternalConflict |-> Adds("error", 2, "conflict")]

Functions6 ==
  [propertyValueIncorrect |-> Adds("error", 2, "bad_request"),
   resourceCreationConflict |-> Adds("error", 1, "bad_request"),
   maximumErrorsExceeded |-> Adds("error", 0, "internal_server_error"),
   preconditionFailed |-> Adds("error", 0, "precondition_failed"),
   preconditionRequired |-> Adds("error", 0, "bad_request"),
   operationFailed |-> Adds("error", 0, "bad_gateway"),
   operationTimeout |-> Adds("error", 0, "internal_server_error")]

Functions7 ==
  [propertyValueTypeError |-> Adds("field", 2, "bad_request"),
   resourceNotFound |-> Adds("error", 2, "not_found"),
   couldNotEstablishConnection |-> Adds("error", 1, "not_found"),
   propertyNotWritable |-> Adds("field", 1, "forbidden"),
   queryParameterValueTypeError |-> Adds("error", 2, "bad_request"),
   serviceShuttingDown |-> Adds("error", 0, "service_unavailable"),
   actionParameterDuplicate |-> Adds("error", 2, "bad_request")]

Functions8 ==
  [actionParameterNotSupported |-> Adds("error", 2, "bad_request"),
   sourceDoesNotSupportProtocol |-> Adds("error", 2, "bad_request"),
   strictAccountTypes |-> Adds("error", 1, "bad_request"),
   accountRemoved |-> Adds("root", 0, "ok"),
   accessDenied |-> Adds("error", 1, "forbidden"),
   queryNotSupported |-> Adds("error", 0, "bad_request"),
   createLimitReachedForResource |-> Adds("error", 0, "bad_request")]

Functions9 ==
  [generalError |-> Adds("error", 0, "internal_server_error"),
   success |-> Adds("root", 0, "unset"),
   created |-> Adds("root", 0, "created"),
   noOperation |-> Adds("error", 0, "bad_request"),
   propertyUnknown |-> Adds("error", 1, "bad_request"),
   noValidSession |-> Adds("error", 0, "forbidden"),
   invalidObject |-> Adds("error", 1, "bad_request"),
   resourceInStandby |-> Adds("error", 0, "service_unavailable")]

Functions10 ==
  [actionParameterValueTypeError |-> Adds("error", 3, "bad_request"),
   sessionLimitExceeded |-> Adds("error", 0, "service_unavailable"),
   actionNotSupported |-> Adds("error", 1, "bad_request"),
   invalidIndex |-> Adds("error", 1, "bad_request"),
   emptyJSON |-> Adds("error", 0, "bad_request"),
   queryNotSupportedOnResource |-> Adds("error", 0, "bad_request"),
   queryNotSupportedOnOperation |-> Adds("error", 0, "bad_request")]

Functions11 ==
  [queryCombinationInvalid |-> Adds("error", 0, "bad_request"),
   insufficientPrivilege |-> Adds("error", 0, "forbidden"),
   propertyValueModified |-> Adds("field", 2, "ok"),
   accountNotModified |-> Adds("error", 0, "bad_request"),
   queryParameterValueFormatError |-> Adds("error", 2, "bad_request"),
   propertyMissing |-> Adds("field", 1, "bad_request"),
   resourceExhaustion |-> Adds("error", 1, "service_unavailable")]

Functions12 ==
  [accountModified |-> Adds("error", 0, "ok"),
   queryParameterOutOfRange |-> Adds("error", 3, "bad_request"),
   passwordChangeRequired |-> Adds("root", 1, "unset"),
   insufficientStorage |-> Adds("error", 0, "insufficient_storage"),
   operationNotAllowed |-> Adds("error", 0, "method_not_allowed"),
   arraySizeTooLong |-> Adds("error", 2, "bad_request"),
   invalidUpload |-> Adds("error", 2, "bad_request")]

Functions ==
  LET tables == {Functions1, Functions2, Functions3, Functions4, Functions5, Functions6,
                 Functions7, Functions8, Functions9, Functions10, Functions11, Functions12}
      tableOf(f) == CHOOSE table \in tables : f \in DOMAIN table
  IN  [f \in UNION {DOMAIN table : table \in tables} |-> tableOf(f)[f]]

\* Every function names the entry of its own name, but for one.
IndexNamed(f) == IF f = "chassisPowerStateOnRequired" THEN "resetRequired" ELSE f

-----------------------------------------------------------------------------
(* Making a message.                                                       *)

\* Variant: the last placeholder counts as one too many.
FilledBelow(placeholders, args) == placeholders < args

\* Whether fillMessageArgs finds an argument for every placeholder; if not,
\* the text is the empty string.
Filled(placeholders, args) == placeholders <= args

Message(key, whole) == [key |-> key, whole |-> whole]

GetLog(name, args) ==
  LET index == CHOOSE i \in DOMAIN Index : Index[i] = name
      entry == registry[index]
  IN  Message(entry[1], Filled(entry[2], args))

\* A message of the code's own, or one of the registry.
MessageOf(f) == IF f = "invalidUpload" THEN Message("InvalidUpload", TRUE)
                ELSE GetLog(IndexNamed(f), Functions[f].args)

-----------------------------------------------------------------------------
(* Putting messages into a response.                                       *)

NoError == [is |-> "absent", code |-> "", extended |-> <<>>]

\* What most responses without errors are: no message, and without a key.
Stray == Message("", FALSE)
HasKey(message) == message.key # ""

NewResponse == [status |-> "ok", object |-> FALSE, data |-> FALSE, error |-> NoError,
                root |-> <<>>, field |-> <<>>, top |-> Stray]

\* Handlers call functions of the table, which find their messages.
ASSUME MessagesAssumption ==
  \A f \in MsgCallable : f \in DOMAIN Functions /\ HasKey(MessageOf(f))

\* Variant: the code of the first message stays.
AddKeepingCode(error, message) ==
  CASE error.is = "object" -> [error EXCEPT !.extended = Append(@, message)]
    [] error.is # "object" /\ HasKey(message) ->
         [is |-> "object", code |-> message.key, extended |-> <<message>>]
    [] OTHER -> [NoError EXCEPT !.is = "null"]

\* The first message gives the error its code; from the second on it is the
\* general one.  Reading target["error"] makes it, so that what is not a
\* message leaves a null behind.
AddMessageToErrorJson(error, message) ==
  CASE error.is = "object" -> [error EXCEPT !.code = "GeneralError",
                                            !.extended = Append(@, message)]
    [] error.is # "object" /\ HasKey(message) ->
         [is |-> "object", code |-> message.key, extended |-> <<message>>]
    [] OTHER -> [NoError EXCEPT !.is = "null"]

\* The loop over the messages of another error.
AddAllToErrorJson(error, messages) ==
  LET after[n \in 0..Len(messages)] ==
        IF n = 0 THEN error ELSE AddMessageToErrorJson(after[n - 1], messages[n])
  IN  after[Len(messages)]

\* A function called on a response: the status first, then the message.
Says(r, f) ==
  LET message == MessageOf(f)
      status == IF Functions[f].status = "unset" THEN r.status ELSE Functions[f].status
      told == [r EXCEPT !.status = status, !.object = TRUE]
  IN  CASE Functions[f].where = "error" ->
             [told EXCEPT !.error = AddMessageToErrorJson(@, message)]
        [] Functions[f].where = "root"  -> [told EXCEPT !.root = Append(@, message)]
        [] Functions[f].where = "field" -> [told EXCEPT !.field = Append(@, message)]

\* Clearing an object leaves an object.
Cleared(r) == [NewResponse EXCEPT !.status = r.status, !.object = r.object]

\* Variant: the messages are copied, not moved.
MovesCopying(target, source) ==
  IF source.error.is = "object"
  THEN [target |-> [target EXCEPT !.object = TRUE,
                                  !.error = AddAllToErrorJson(@, source.error.extended)],
        source |-> source]
  ELSE [target |-> target, source |-> source]

\* moveErrorsToErrorJson.  A source without "error" is taken for a message
\* itself, and cleared, whatever it holds; a null error stays.
Moves(target, source) ==
  CASE ~source.object \/ source.error.is = "null" -> [target |-> target, source |-> source]
    [] source.object /\ source.error.is = "absent" ->
         [target |-> [target EXCEPT !.object = TRUE,
                                    !.error = AddMessageToErrorJson(@, source.top)],
          source |-> Cleared(source)]
    [] source.object /\ source.error.is = "object" ->
         [target |-> [target EXCEPT !.object = TRUE,
                                    !.error = AddAllToErrorJson(@, source.error.extended)],
          source |-> [source EXCEPT !.error = NoError]]

-----------------------------------------------------------------------------
(* The handlers of a request and of its part.                              *)

MsgInit ==
  /\ main = NewResponse /\ part = NewResponse
  /\ said = <<>>

MayCall == Len(said) < MaxMessages
Called(f) == MayCall /\ said' = Append(said, f)

MainSays(f) == Called(f) /\ main' = Says(main, f) /\ UNCHANGED part
PartSays(f) == Called(f) /\ part' = Says(part, f) /\ UNCHANGED main

\* A handler makes an error message its response, without adding it to "error".
PartIsMessage(f) ==
  /\ Functions[f].where = "error"
  /\ part.error.is # "object" /\ ~HasKey(part.top)
  /\ Called(f)
  /\ part' = [NewResponse EXCEPT !.status = part.status, !.object = TRUE,
                                 !.top = MessageOf(f)]
  /\ UNCHANGED main

\* A handler writes the representation of its resource.
PartWrites ==
  /\ ~part.data
  /\ part' = [part EXCEPT !.object = TRUE, !.data = TRUE]
  /\ UNCHANGED <<main, said>>

\* A stray message added to an error makes it longer: as many moves as calls.
MoveErrors ==
  /\ Len(main.error.extended) < MaxMessages
  /\ LET moved == Moves(main, part) IN main' = moved.target /\ part' = moved.source
  /\ UNCHANGED said

MsgNext ==
  \/ \E f \in MsgCallable : MainSays(f) \/ PartSays(f) \/ PartIsMessage(f)
  \/ PartWrites
  \/ MoveErrors

MsgSpec == MsgInit /\ [][MsgNext]_msgVars

-----------------------------------------------------------------------------
(* Properties.                                                             *)

MessagesIn(r) ==
  ToSet(r.error.extended) \cup ToSet(r.root) \cup ToSet(r.field) \cup {r.top}

\* Where there are messages, and where functions were called that add an error.
Keyed(messages) == {i \in DOMAIN messages : HasKey(messages[i])}
ErrorsSaid == {i \in DOMAIN said : Functions[said[i]].where = "error"}

\* The key of an entry is the name of its function with a capital letter.
NamedAfter(key, f) == SubSeq(key, 2, Len(key)) = SubSeq(f, 2, Len(f))

\* A message that has its text and bears the name of a function that was called.
AsNamed(message) ==
  message.whole /\ \E f \in ToSet(said) : NamedAfter(message.key, f)

\* What the header says of every function: it formats the message it is named
\* after, with the arguments in their places.
MessagesAsNamed ==
  \A message \in MessagesIn(main) \cup MessagesIn(part) :
    message.key # "" => AsNamed(message)

\* Through the index, the registry and the arguments every message in a response
\* is whole and one that a handler asked for; the exception is that of a chassis
\* that must be on.
MessagesAsNamedButOne ==
  \A message \in MessagesIn(main) \cup MessagesIn(part) :
    (message.key # "" /\ ~AsNamed(message)) =>
      message.key = "ResetRequired" /\ "chassisPowerStateOnRequired" \in ToSet(said)

\* The code of an error is that of its only message, or the general one if it
\* has more, however they came there: said, moved, or moved after a null.
CodeSpeaks ==
  \A r \in {main, part} :
    r.error.is = "object" =>
      /\ r.error.extended # <<>>
      /\ r.error.code = IF Len(r.error.extended) = 1 THEN r.error.extended[1].key
                         ELSE "GeneralError"

\* How many errors a response holds: under "error", and the one it may be itself.
ErrorsOf(r) ==
  Cardinality(Keyed(r.error.extended)) + (IF HasKey(r.top) THEN 1 ELSE 0)

\* No error is lost or doubled by moving: every one that was said stands in one of
\* the two responses, and what else stands there came from a part without errors.
NoErrorLost == ErrorsOf(main) + ErrorsOf(part) = Cardinality(ErrorsSaid)
=============================================================================
