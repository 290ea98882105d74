------------------------------ MODULE MCParts ------------------------------
(***************************************************************************)
(* Parts of the program that share no state with each other, checked in    *)
(* one run: a behaviour is a behaviour of one of them, with the others at  *)
(* rest in their initial states, so that the states add up, and do not     *)
(* multiply.                                                               *)
(***************************************************************************)
EXTENDS Http2Connection, JsonReader, Base64File

VARIABLE running         \* the part whose behaviour this is

partsVars == <<http2Vars, msgVars, jsonVars, base64Vars, running>>

\* Every function is called first; later calls are of each kind: to "error", with
\* one key or two arguments or of the code's own, to the root, to a property.
LaterCalls == {"internalError", "resourceNotFound", "chassisPowerStateOnRequired",
               "invalidUpload", "success", "propertyMissing"}

PartsInit ==
  /\ running \in {"http2", "messages", "json", "base64"}
  /\ Http2Init /\ MsgInit /\ JsonInit /\ Base64Init

PartsNext ==
  /\ UNCHANGED running
  /\ \/ running = "http2" /\ Http2Next /\ UNCHANGED <<msgVars, jsonVars, base64Vars>>
     \/ /\ running = "messages" /\ MsgNext /\ UNCHANGED <<http2Vars, jsonVars, base64Vars>>
        /\ said' # said /\ said # <<>> => Last(said') \in LaterCalls
     \/ running = "json" /\ JsonNext /\ UNCHANGED <<http2Vars, msgVars, base64Vars>>
     \/ running = "base64" /\ Base64Next /\ UNCHANGED <<http2Vars, msgVars, jsonVars>>

\* The fairness is that of each part; a part at rest has nothing to do.
PartsSpec == PartsInit /\ [][PartsNext]_partsVars /\ Http2Fairness

AllFunctions == DOMAIN Functions

-----------------------------------------------------------------------------
(* Requests: JSON values with numbers of four bits, for types of three and *)
(* four, at one level and at two.                                          *)

Number(n) == <<"number", n>>
Text == <<"string", "text">>
Url == <<"string", "https://host/events">>
Items(seq) == <<"array", seq>>

\* Every object that has some of the members, each with one of its choices.
Objects(choices) ==
  {<<"object", members>> : members \in
     UNION {{f \in [names -> UNION Range(choices)] : \A n \in names : f[n] \in choices[n]}
            : names \in SUBSET DOMAIN choices}}

MCNames == <<"@odata.id", "Count", "DeliveryRetryPolicy", "Destination", "Limits",
             "Protocol", "SubscriptionType", "Tags">>

Limits ==
  Objects([Count |-> {Number(3), Number(8), Text},
           Tags |-> {Items(<<Number(3), Number(15)>>), Items(<<<<"null">>, Number(3)>>)}])
  \cup {Number(3)}

MCJsonValues ==
  {<<"null">>, <<"discarded">>}
  \cup Objects(("@odata.id" :> {Text}) @@
         [Count |-> {Number(n) : n \in {-5, -4, 3, 4, 15}}
                    \cup {<<"float">>, <<"bool">>, <<"null">>},
          Limits |-> Limits,
          Tags |-> {Text, Items(<<>>), Items(<<Text, Text>>), Items(<<Number(3), Text>>),
                    Items(<<Text, Number(-4)>>)}])
  \cup Objects([Destination |-> {Url, Text, <<"null">>},
                DeliveryRetryPolicy |-> {Text, Number(3)},
                Protocol |-> {Text},
                Count |-> {Number(3)}])

MCAskedLists ==
  {<<Asked(<<"Count">>, "signed", 3, FALSE, TRUE),
     Asked(<<"Limits", "Count">>, "unsigned", 3, FALSE, FALSE),
     Asked(<<"Limits", "Tags">>, "signed", 3, TRUE, FALSE)>>,
   <<Asked(<<"Count">>, "unsigned", 4, FALSE, TRUE),
     Asked(<<"Limits">>, "json", 0, FALSE, TRUE),
     Asked(<<"Tags">>, "string", 0, TRUE, FALSE)>>,
   <<Asked(<<"Tags">>, "json", 0, TRUE, TRUE),
     Asked(<<"Limits", "Count">>, "double", 0, FALSE, TRUE),
     Asked(<<"Count">>, "signed", 4, FALSE, FALSE)>>}
=============================================================================
