------------------------------ MODULE MCRouter ------------------------------
(* Router with an alphabet of four characters and twelve rules to register. *)
EXTENDS Router

MCDigits == ("1" :> 1)
MCVerbs == <<"GET", "POST">>

\* Every path of up to four characters that starts with a slash.
MCAllUrls == {<<"/">> \o rest : rest \in BoundedSeq({"/", "a", "1", "-"}, 3)}

MCUrls == {<<"/">>, <<"/", "a">>, <<"/", "1", "/">>, <<"/", "a", "/", "1">>}

Rule(url, methods, takes) ==
  [url |-> url, methods |-> methods, takes |-> takes, handler |-> TRUE]

MCRuleChoices ==
  {Rule(<<"/">>, <<"GET">>, <<>>),
   Rule(<<"/", "a">>, <<"GET">>, <<>>),
   Rule(<<"/", "a", "/">>, <<"POST", "GET">>, <<>>),
   Rule(<<"/", "a", "1", "/">>, <<"POST">>, <<>>),
   Rule(<<"/", "<int>">>, <<"POST", "OTHER">>, <<"int">>),
   Rule(<<"/", "<str>">>, <<>>, <<"string">>),
   Rule(<<"/", "<str>", "/", "<path>">>, <<"GET">>, <<"string", "string">>),
   Rule(<<"/", "<double>", "/", "<uint>">>, <<"GET">>, <<"double", "uint">>),
   Rule(<<"/", "<path>">>, <<"notFound">>, <<"string">>),
   Rule(<<"/", "<path>">>, <<"methodNotAllowed">>, <<"string">>),
   Rule(<<"/", "a", "<int>">>, <<"GET">>, <<"int", "int">>),
   [Rule(<<"/", "1">>, <<"GET">>, <<>>) EXCEPT !.handler = FALSE]}

\* The hypothesis of ListingAlwaysComplete.
ASSUME TemplatesHaveSlashesAlone == SlashesAlone
=============================================================================
