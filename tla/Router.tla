------------------------------- MODULE Router -------------------------------
(***************************************************************************)
(* The router of src/http/routing.hpp: rules are registered, validate puts *)
(* each of them into the tree of every method it answers and then          *)
(* optimizes the trees, and requests, upgrades and listings are answered   *)
(* from the trees.                                                         *)
(***************************************************************************)
EXTENDS Trie

CONSTANTS Verbs,          \* the names of the verbs, in the order of HttpVerb
          RuleChoices,    \* what a caller may register: see RuleOf
          Urls,           \* the paths of requests
          AllUrls,        \* the paths on which the trees are compared with the rules
          MaxRules, MaxValidates

VARIABLES allRules,       \* the rules, in the order of registration
          perMethods,     \* per method the rules that answer it and their tree
          validates,      \* how often validate ran to its end
          phase,          \* "serving", or where an exception ended the program
          answer          \* the answer being given, <<>> between two calls

vars == <<allRules, perMethods, validates, phase, answer>>

VerbNames == {Verbs[i] : i \in DOMAIN Verbs}
Special == {"notFound", "methodNotAllowed"}
Methods == VerbNames \cup Special
MethodOrder == Verbs \o <<"notFound", "methodNotAllowed">>

\* The elements that templates are made of, and the characters of paths.
Elements == UNION {ToSet(choice.url) : choice \in RuleChoices}
PathChars == UNION {ToSet(url) : url \in Urls \cup AllUrls}

ASSUME RouterAssumption ==
  /\ Verbs \in Seq(VerbNames) /\ IsInjective(Verbs)
  /\ "GET" \in VerbNames /\ VerbNames \cap Special = {}
  /\ MaxRules \in Nat /\ MaxValidates \in Nat
  /\ Urls \cup AllUrls \subseteq Seq(PathChars)
  /\ \A choice \in RuleChoices :
       /\ choice.url \in Seq(Elements)
       /\ choice.methods \in Seq(ToSet(choice.methods))
       /\ choice.takes \in Seq(DOMAIN Tags)
       /\ choice.handler \in BOOLEAN

-----------------------------------------------------------------------------
(* Registering a rule.                                                     *)

\* methods(...): the last argument is taken first and replaces the default
\* GET; an unknown verb changes nothing.  notFound() and methodNotAllowed()
\* replace whatever was set.
MethodsBitfield(args) ==
  CASE args = <<>> -> {"GET"}
    [] args # <<>> /\ args[1] \in Special -> {args[1]}
    [] OTHER -> LET known == {args[i] : i \in DOMAIN args} \cap VerbNames IN
                IF args[Len(args)] \in VerbNames THEN known ELSE known \cup {"GET"}

\* getParameterTag(url) and computeParameterTagFromArgsList: digits to base 6.
TypeCode == [int |-> 1, uint |-> 2, double |-> 3, string |-> 4, path |-> 5]
TagOfTypes(types) ==
  LET tag[i \in 1..(Len(types) + 1)] ==
        IF i > Len(types) THEN 0 ELSE 6 * tag[i + 1] + TypeCode[types[i]]
  IN  tag[1]

TypesOf(template) ==
  LET types[k \in 0..Len(template)] ==
        IF k = 0 THEN <<>>
        ELSE IF template[k] \in TagNames THEN Append(types[k - 1], TypeOfTag(template[k]))
             ELSE types[k - 1]
  IN  types[Len(template)]

ParameterTag(template) == TagOfTypes(TypesOf(template))

\* A digit of a tag; a path is a string to a handler.
Digit(tag) == IF tag % 6 = 5 THEN 4 ELSE tag % 6

\* Variant: the comparison stops where the shorter of the two ends.
TagsMeet(a, b) ==
  LET partners[x \in 0..a] ==
        {y \in 0..b : \/ x = 0 \/ y = 0
                      \/ Digit(x) = Digit(y) /\ y \div 6 \in partners[x \div 6]}
  IN  b \in partners[a]

\* Digit by digit, until both tags end: the tags up to b that agree with x.
IsParameterTagCompatible(a, b) ==
  LET partners[x \in 0..a] ==
        IF x = 0 THEN {0}
        ELSE {y \in 1..b : Digit(x) = Digit(y) /\ y \div 6 \in partners[x \div 6]}
  IN  b \in partners[a]

\* BaseRule: its template, its methods, the types its handler takes, and
\* whether it was given a handler.
RuleOf(choice) ==
  [url |-> choice.url, methods |-> MethodsBitfield(choice.methods),
   takes |-> choice.takes, handler |-> choice.handler]

\* A handler is wrapped only if its types agree with the tags.
Wraps(choice) ==
  IsParameterTagCompatible(ParameterTag(choice.url), TagOfTypes(choice.takes))

NewRule(choice) ==
  /\ phase = "serving" /\ answer = <<>> /\ Len(allRules) < MaxRules
  /\ IF choice.handler => Wraps(choice)
     THEN allRules' = Append(allRules, RuleOf(choice)) /\ UNCHANGED phase
     ELSE phase' = "threwInRule" /\ UNCHANGED allRules
  /\ UNCHANGED <<perMethods, validates, answer>>

-----------------------------------------------------------------------------
(* validate.                                                               *)

\* Longer than two characters (a tag is longer than two by itself).
LongerThanTwo(url) == Len(url) > 2 \/ \E i \in DOMAIN url : url[i] \in TagNames
HasDirectoryForm(url) == LongerThanTwo(url) /\ Last(url) = "/"

\* Variant: the directory form is added under the index after.
AddToNext(table, rule, n) ==
  LET rules  == Append(table.rules, n)
      first  == Add(table.trie, rule.url, Len(rules))
      second == IF HasDirectoryForm(rule.url)
                THEN Add(first.nodes, Front(rule.url), Len(rules) + 1) ELSE first
  IN  [ok |-> first.ok /\ second.ok, table |-> [rules |-> rules, trie |-> second.nodes]]

\* One method of one rule: allRules[n] under the next index of the method.
AddToMethod(table, rule, n) ==
  LET rules  == Append(table.rules, n)
      first  == Add(table.trie, rule.url, Len(rules))
      second == IF HasDirectoryForm(rule.url)
                THEN Add(first.nodes, Front(rule.url), Len(rules)) ELSE first
  IN  [ok |-> first.ok /\ second.ok, table |-> [rules |-> rules, trie |-> second.nodes]]

\* One rule, in every method it answers, up to the first exception.
AddedForMethod(acc, m, n) ==
  IF ~acc.ok \/ m \notin allRules[n].methods THEN acc
  ELSE LET added == AddToMethod(acc.tables[m], allRules[n], n)
       IN  [ok |-> added.ok, tables |-> [acc.tables EXCEPT ![m] = added.table]]

InternalAddRuleObject(tables, n) ==
  LET after[k \in 0..Len(MethodOrder)] ==
        IF k = 0 THEN [ok |-> TRUE, tables |-> tables]
        ELSE AddedForMethod(after[k - 1], MethodOrder[k], n)
  IN  after[Len(MethodOrder)]

\* Every rule in turn: one without a handler throws, and so does a rule whose
\* template a method already has.
AddedRule(acc, n) ==
  IF ~acc.ok \/ ~allRules[n].handler THEN [acc EXCEPT !.ok = FALSE]
  ELSE InternalAddRuleObject(acc.tables, n)

AddAllRules ==
  LET after[n \in 0..Len(allRules)] ==
        IF n = 0 THEN [ok |-> TRUE, tables |-> perMethods] ELSE AddedRule(after[n - 1], n)
  IN  after[Len(allRules)]

\* validate: every rule is added, those of an earlier call again, and only
\* then the trees are optimized.  An exception leaves validate as it stands.
Validate ==
  /\ phase = "serving" /\ answer = <<>> /\ validates < MaxValidates
  /\ LET all == AddAllRules IN
     IF all.ok
     THEN /\ perMethods' = [m \in Methods |->
               [all.tables[m] EXCEPT !.trie = Optimize(@)]]
          /\ validates' = validates + 1
          /\ UNCHANGED phase
     ELSE /\ perMethods' = all.tables
          /\ phase' = "threwInValidate"
          /\ UNCHANGED validates
  /\ UNCHANGED <<allRules, answer>>

-----------------------------------------------------------------------------
(* Answering.                                                              *)

NoRule == [rule |-> 0, params |-> NoParams]

\* The rule of a method for a path, as a position in allRules.
FindRouteByIndex(url, m) ==
  LET found == Find(perMethods[m].trie, url)
  IN  IF found.rule = 0 THEN NoRule
      ELSE [found EXCEPT !.rule = perMethods[m].rules[@]]

\* Variant: the requested verb is left out of the Allow header.
AllowOthers(url, verb) ==
  SelectSeq(Verbs, LAMBDA v : v # verb /\ FindRouteByIndex(url, v).rule # 0)

\* The verbs of a set in the order of HttpVerb.
InOrder(verbs) ==
  LET list[k \in 0..Len(Verbs)] ==
        IF k = 0 THEN <<>>
        ELSE IF Verbs[k] \in verbs THEN Append(list[k - 1], Verbs[k]) ELSE list[k - 1]
  IN  list[Len(Verbs)]

\* findRoute: every verb is tried in turn, whatever the request's own.
AllowHeader(url, verb) ==
  InOrder({v \in VerbNames : FindRouteByIndex(url, v).rule # 0})

\* get<T>(pos): the handler's arguments, each type counted on its own.
CppType(t) == IF t = "path" THEN "string" ELSE t

Arguments(takes, params) ==
  [i \in DOMAIN takes |->
     params[CppType(takes[i])]
       [Cardinality({j \in 1..i : CppType(takes[j]) = CppType(takes[i])})]]

\* Which rule handles a request: its own verb's, or else the rule for
\* unknown paths or the one for other methods.
RouteFor(url, verb) ==
  LET own   == FindRouteByIndex(url, verb)
      allow == AllowHeader(url, verb)
  IN  IF own.rule # 0 THEN own
      ELSE FindRouteByIndex(url, IF allow = <<>> THEN "notFound" ELSE "methodNotAllowed")

Reply(kind, allow, route) ==
  [kind |-> kind, allow |-> allow, rule |-> route.rule,
   args |-> IF kind = "handler" THEN Arguments(allRules[route.rule].takes, route.params)
            ELSE <<>>]

\* handle: with a session and no bypass a rule is found and nothing is done
\* about it (the call that would is commented out).
ReplyTo(url, verb, authorized) ==
  IF verb \notin VerbNames THEN Reply("404", <<>>, NoRule)
  ELSE LET allow == AllowHeader(url, verb)
           route == RouteFor(url, verb)
       IN  IF route.rule = 0
           THEN Reply(IF allow = <<>> THEN "404" ELSE "405", allow, NoRule)
           ELSE Reply(IF authorized THEN "handler" ELSE "nothing", allow, route)

Handle(url, verb, authorized) ==
  /\ phase = "serving" /\ answer = <<>>
  /\ answer' = [op |-> "handle", url |-> url, verb |-> verb,
                reply |-> ReplyTo(url, verb, authorized)]
  /\ UNCHANGED <<allRules, perMethods, validates, phase>>

\* handleUpgrade: no kind of rule accepts an upgrade, so whatever is found,
\* the answer is the 404 of BaseRule or the router's own.
HandleUpgrade(url, verb) ==
  /\ phase = "serving" /\ answer = <<>>
  /\ answer' = [op |-> "upgrade", url |-> url, verb |-> verb,
                reply |-> Reply("404", <<>>, NoRule)]
  /\ UNCHANGED <<allRules, perMethods, validates, phase>>

\* getRoutes: the rules below a path, method after method.
GetRoutes(parent) ==
  /\ phase = "serving" /\ answer = <<>>
  /\ answer' = [op |-> "routes", url |-> parent,
                listed |-> [m \in Methods |->
                  LET found == FindRouteIndexes(perMethods[m].trie, parent)
                  IN  [i \in DOMAIN found |-> perMethods[m].rules[found[i]]]]]
  /\ UNCHANGED <<allRules, perMethods, validates, phase>>

\* The caller has its answer.
Answered ==
  /\ answer # <<>>
  /\ answer' = <<>>
  /\ UNCHANGED <<allRules, perMethods, validates, phase>>

Init ==
  /\ allRules = <<>>
  /\ perMethods = [m \in Methods |-> [rules |-> <<>>, trie |-> NewTrie]]
  /\ validates = 0
  /\ phase = "serving"
  /\ answer = <<>>

Next ==
  \/ \E choice \in RuleChoices : NewRule(choice)
  \/ Validate
  \/ \E url \in Urls, verb \in VerbNames \cup {"OTHER"} :
       \/ \E authorized \in BOOLEAN : Handle(url, verb, authorized)
       \/ HandleUpgrade(url, verb)
  \/ \E parent \in Urls \cup {<<>>} : GetRoutes(parent)
  \/ Answered

Spec == Init /\ [][Next]_vars

-----------------------------------------------------------------------------
(* What a template means, without a tree: greedy from left to right.       *)

\* A reader of a path: where it stands, and the values given so far, each with
\* its C++ type.  It is lost at 0.
Lost == [pos |-> 0, given |-> <<>>]
ReadOn(read, end, given) == [pos |-> end, given |-> read.given \o given]

ReadLetter(read, e, url) ==
  IF url[read.pos] = e THEN ReadOn(read, read.pos + 1, <<>>) ELSE Lost

ReadText(read, end, url) ==
  IF end # read.pos
  THEN ReadOn(read, end, <<<<"string", SubSeq(url, read.pos, end - 1)>>>>) ELSE Lost

ReadNumber(read, type, url) ==
  LET number == NumberAt(url, read.pos) IN
  IF number.end # read.pos /\ InRange(type, number.value) /\ (url[read.pos] # "-" \/ type # "uint")
  THEN ReadOn(read, number.end, <<<<type, number.value>>>>) ELSE Lost

\* One element of a template takes what it can.
Take(read, e, url) ==
  IF read.pos \notin 1..Len(url) THEN Lost
  ELSE CASE e = "<str>"  -> ReadText(read, SegmentEnd(url, read.pos), url)
         [] e = "<path>" -> ReadText(read, Len(url) + 1, url)
         [] e \in TagNames \ {"<str>", "<path>"} -> ReadNumber(read, TypeOfTag(e), url)
         [] e \notin TagNames -> ReadLetter(read, e, url)

ReadOver(template, url, start) ==
  LET read[k \in 0..Len(template)] ==
        IF k = 0 THEN start ELSE Take(read[k - 1], template[k], url)
  IN  read[Len(template)]

\* The arguments with which a template takes a path: none or one list.
Matches(template, url) ==
  LET read == ReadOver(template, url, [pos |-> 1, given |-> <<>>]) IN
  IF read.pos = Len(url) + 1 THEN {[i \in DOMAIN read.given |-> read.given[i][2]]} ELSE {}

Forms(n) ==
  {allRules[n].url} \cup
  (IF HasDirectoryForm(allRules[n].url) THEN {Front(allRules[n].url)} ELSE {})

\* The rules a method was validated with, and those of them that take a path.
Validated(m) == ToSet(perMethods[m].rules)
Takers(m, url) == {n \in Validated(m) : \E f \in Forms(n) : Matches(f, url) # {}}

-----------------------------------------------------------------------------
(* Properties.                                                             *)

\* The types of the variables; the children of a node come after it, and a
\* rule index is an index of its method's rules.
RouterTypeOK ==
  /\ phase \in {"serving", "threwInRule", "threwInValidate"}
  /\ Len(allRules) <= MaxRules /\ validates \in 0..MaxValidates
  /\ \A n \in DOMAIN allRules : allRules[n].methods \in (SUBSET Methods) \ {{}}
  /\ \A m \in Methods :
       LET table == perMethods[m] IN
       /\ \A i \in DOMAIN table.rules : table.rules[i] \in DOMAIN allRules
       /\ \A k \in DOMAIN table.trie :
            LET node == table.trie[k] IN
            /\ node.rule \in 0..Len(table.rules)
            /\ \A p \in DOMAIN Tags :
                 node.params[p] = 0 \/ node.params[p] \in (k + 1)..Len(table.trie)
            /\ \A f \in DOMAIN node.kids :
                 Len(f) > 0 /\ node.kids[f] \in (k + 1)..Len(table.trie)

\* The optimized trees answer as if the rules were tried one after another in
\* the order of registration: the first whose template takes the path, with
\* the arguments its own tags read and none of another branch's.
LookupsRight ==
  (phase = "serving" /\ validates > 0 /\ answer = <<>>) =>
    \A m \in Methods, url \in AllUrls :
      LET route == FindRouteByIndex(url, m)
          takers == Takers(m, url)
      IN  IF takers = {} THEN route.rule = 0
          ELSE /\ route.rule = Min(takers)
               /\ \E f \in Forms(route.rule) :
                    Arguments(allRules[route.rule].takes, route.params) \in Matches(f, url)

\* A first validate throws exactly for a cause - a rule without a handler, or
\* two rules of a method with one template, the directory forms included - and
\* later calls throw for no other than that or a rule added before.
DuplicatesRefused ==
  LET clash(rules) == \E n, k \in rules : n # k /\ Forms(n) \cap Forms(k) # {}
      of(m) == {n \in DOMAIN allRules : m \in allRules[n].methods}
  IN  /\ (phase = "serving" /\ validates = 1) => ~\E m \in Methods : clash(Validated(m))
      /\ phase = "threwInValidate" =>
           \/ validates > 0
           \/ \E n \in DOMAIN allRules : ~allRules[n].handler
           \/ \E m \in Methods : clash(of(m))

\* A handler takes what the tags of its template give it, in their order:
\* two base-6 tags agree exactly if the lists of types do.
HandlersFit ==
  \A n \in DOMAIN allRules :
    allRules[n].handler =>
      LET types == TypesOf(allRules[n].url)
          cpp(list) == [i \in DOMAIN list |-> CppType(list[i])]
      IN  cpp(types) = cpp(allRules[n].takes)

\* The status tells why: 405 and the special handler for it only where
\* another verb has a rule for the path, 404 only where none has, and Allow
\* lists exactly the verbs that have one.
AllowTruthful ==
  (answer # <<>> /\ answer.op = "handle" /\ answer.verb \in VerbNames) =>
    LET reply == answer.reply
        verbs == {v \in VerbNames : Takers(v, answer.url) # {}}
        refused == IF verbs = {} THEN "notFound" ELSE "methodNotAllowed"
    IN  /\ ToSet(reply.allow) = verbs
        /\ answer.verb \in verbs <=>
             reply.rule \in Takers(answer.verb, answer.url)
        /\ answer.verb \notin verbs =>
             IF Takers(refused, answer.url) = {}
             THEN reply.kind = (IF verbs = {} THEN "404" ELSE "405")
             ELSE reply.rule = Min(Takers(refused, answer.url))

\* Templates that start with a slash and do not end in two.
SlashesAlone ==
  \A choice \in RuleChoices :
    LET url == choice.url
    IN  /\ url # <<>> /\ url[1] = "/"
        /\ Len(url) > 1 => ~(url[Len(url)] = "/" /\ url[Len(url) - 1] = "/")

\* The list of all routes names each rule without parameters once, and only
\* the root "/" never: the walk leaves a lone "/" out.
ListingComplete ==
  (answer # <<>> /\ answer.op = "routes" /\ answer.url = <<>> /\ validates = 1) =>
    \A m \in Methods :
      LET plain == {n \in Validated(m) : TypesOf(allRules[n].url) = <<>>
                                          /\ allRules[n].url # <<"/">>}
      IN  ToSet(answer.listed[m]) = plain /\ Len(answer.listed[m]) = Cardinality(plain)

\* A second validate (the public one, then the one of App::run) either throws
\* or changes no answer, although it adds every rule again beside the merged
\* fragments.
AnswersStable ==
  [][(validates > 0 /\ validates' > validates) =>
       \A m \in Methods, url \in AllUrls :
         FindRouteByIndex(url, m).rule # 0 =>
           FindRouteByIndex(url, m)' = FindRouteByIndex(url, m)]_vars
=============================================================================
