-------------------------------- MODULE Trie --------------------------------
(***************************************************************************)
(* The tree of URL templates of src/http/routing.hpp (class Trie), as      *)
(* operators over its value: the sequence of nodes.  A URL and a template  *)
(* are sequences of characters; a parameter tag of a template is one       *)
(* element, and nothing else in a template starts with "<": at a "<" that  *)
(* is no tag, add() would never end.  The names <float> and <string> stand *)
(* for the same elements as <double> and <str>.  Node 1 is the head; 0     *)
(* stands for "no node" and "no rule", as in the code.                     *)
(***************************************************************************)
EXTENDS Integers, Sequences, FiniteSets, FiniteSetsExt, SequencesExt, TLC

CONSTANTS Digits,     \* the digits of the alphabet, as a function to Nat
          LongMax     \* the largest number strtoll returns

\* The minus sign is not a digit.
ASSUME DigitsAssumption == "-" \notin DOMAIN Digits

ParamTypes == <<"int", "uint", "double", "string", "path">>
Tags == [int |-> "<int>", uint |-> "<uint>", double |-> "<double>",
         string |-> "<str>", path |-> "<path>"]
TagNames == {Tags[p] : p \in DOMAIN Tags}
TypeOfTag(tag) == CHOOSE p \in DOMAIN Tags : Tags[p] = tag

\* RoutingParams: one list of values per C++ type.
NoParams == [int |-> <<>>, uint |-> <<>>, double |-> <<>>, string |-> <<>>]

EmptyNode ==
  [rule |-> 0, params |-> [p \in DOMAIN Tags |-> 0], kids |-> <<>>]

NewTrie == <<EmptyNode>>

IsSimpleNode(node) == node.rule = 0 /\ \A p \in DOMAIN Tags : node.params[p] = 0

\* The text f stands in url from pos on.
StandsAt(f, url, pos) ==
  pos + Len(f) - 1 <= Len(url) /\ SubSeq(url, pos, pos + Len(f) - 1) = f

-----------------------------------------------------------------------------
(* add: walk down element by element, making the nodes that are missing.   *)

ChildOf(node, e) ==
  IF e \in TagNames THEN node.params[TypeOfTag(e)]
  ELSE IF <<e>> \in DOMAIN node.kids THEN node.kids[<<e>>] ELSE 0

WithKid(kids, e, n) ==
  [f \in DOMAIN kids \cup {<<e>>} |-> IF f = <<e>> THEN n ELSE kids[f]]

WithChild(node, e, n) ==
  IF e \in TagNames THEN [node EXCEPT !.params[TypeOfTag(e)] = n]
  ELSE [node EXCEPT !.kids = WithKid(@, e, n)]

\* A walk: the nodes so far and the node it stands at.
Descend(walk, e) ==
  LET here == walk.nodes[walk.at]
      next == ChildOf(here, e)
      new  == Len(walk.nodes) + 1
  IN  IF next # 0 THEN [walk EXCEPT !.at = next]
      ELSE [nodes |-> Append([walk.nodes EXCEPT ![walk.at] = WithChild(here, e, new)],
                             EmptyNode),
            at    |-> new]

Walked(trie, template) ==
  LET walk[k \in 0..Len(template)] ==
        IF k = 0 THEN [nodes |-> trie, at |-> 1] ELSE Descend(walk[k - 1], template[k])
  IN  walk[Len(template)]

\* Variant: the rule that was there is overwritten.
AddOver(trie, template, index) ==
  LET walk == Walked(trie, template)
  IN  [ok |-> TRUE, nodes |-> [walk.nodes EXCEPT ![walk.at].rule = index]]

\* ok = FALSE stands for the exception "handler already exists".
Add(trie, template, index) ==
  LET walk == Walked(trie, template)
  IN  IF walk.nodes[walk.at].rule # 0
      THEN [ok |-> FALSE, nodes |-> walk.nodes]
      ELSE [ok |-> TRUE,  nodes |-> [walk.nodes EXCEPT ![walk.at].rule = index]]

-----------------------------------------------------------------------------
(* optimize: where every literal child is simple, the children give way to *)
(* the grandchildren, under the joined fragments.                          *)

\* The pairs of a fragment and a fragment below it.
Joints(trie, kids) ==
  LET below == UNION {DOMAIN trie[kids[f]].kids : f \in DOMAIN kids}
      pairs == {<<f, g>> : f \in DOMAIN kids, g \in below}
  IN  {p \in pairs : p[2] \in DOMAIN trie[kids[p[1]]].kids}

\* Two spellings of one fragment: the map is walked in the order of the
\* fragments, so the pair with the longer first part writes last.
LastJoint(joints, f) ==
  CHOOSE p \in joints :
    /\ p[1] \o p[2] = f
    /\ \A q \in joints : q[1] \o q[2] = f => Len(q[1]) <= Len(p[1])

Merged(trie, kids) ==
  LET joints == Joints(trie, kids) IN
  [f \in {p[1] \o p[2] : p \in joints} |->
     LET last == LastJoint(joints, f) IN trie[kids[last[1]]].kids[last[2]]]

\* One turn at a node: its children are merged if all of them are simple.
MergedOnce(trie, kids) ==
  IF DOMAIN kids # {} /\ \A f \in DOMAIN kids : IsSimpleNode(trie[kids[f]])
  THEN Merged(trie, kids) ELSE kids

\* A node calls itself again until a child is not simple.  Every turn goes one
\* level down, so that there are fewer turns than nodes.
OptimizeNode(trie, n) ==
  LET kids[turn \in 0..Len(trie)] ==
        IF turn = 0 THEN trie[n].kids ELSE MergedOnce(trie, kids[turn - 1])
  IN  [trie[n] EXCEPT !.kids = kids[Len(trie)]]

\* What a node becomes depends on the nodes below it as they were added: it is
\* merged before the recursion gets to what is left below it.  Nodes that were
\* merged away are not reached any more, so that it does not matter what they
\* become.
Optimize(trie) == [n \in DOMAIN trie |-> OptimizeNode(trie, n)]

-----------------------------------------------------------------------------
(* find: every branch that can take the text at pos is tried; the smallest *)
(* rule index wins, with the parameters of its own branch.                 *)

IsDigit(c) == c \in DOMAIN Digits
Signs == [int |-> {"+", "-"}, uint |-> {"+"}, double |-> {"+", "-"}]

\* strtoll, strtoull and strtod from pos: the end of the number and its value
\* (end = pos: nothing was read).  Fractions and exponents are left out.
NumberStart(url, pos) == IF url[pos] \in {"+", "-"} THEN pos + 1 ELSE pos

NumberEnd(url, pos) ==
  CHOOSE e \in NumberStart(url, pos)..(Len(url) + 1) :
    /\ \A i \in NumberStart(url, pos)..(e - 1) : IsDigit(url[i])
    /\ e > Len(url) \/ ~IsDigit(url[e])

NumberValue(url, pos) ==
  LET digits == SubSeq(url, NumberStart(url, pos), NumberEnd(url, pos) - 1)
      value  == FoldLeft(LAMBDA v, c : 10 * v + Digits[c], 0, digits)
  IN  IF url[pos] = "-" THEN 0 - value ELSE value

NumberAt(url, pos) ==
  [end   |-> IF NumberEnd(url, pos) = NumberStart(url, pos) THEN pos ELSE NumberEnd(url, pos),
   value |-> NumberValue(url, pos)]

\* What strtoll and strtoull return without ERANGE.
InRange(type, value) ==
  CASE type = "int"  -> value <= LongMax /\ value >= (0 - LongMax) - 1
    [] type = "uint" -> value <= 2 * LongMax + 1
    [] OTHER         -> TRUE

SegmentEnd(url, pos) ==
  CHOOSE e \in pos..(Len(url) + 1) :
    /\ \A i \in pos..(e - 1) : url[i] # "/"
    /\ e > Len(url) \/ url[e] = "/"

\* The branches of a node: where each goes on, and what it pushes where.
NumberBranches(node, url, pos) ==
  LET number == NumberAt(url, pos) IN
  {[to |-> node.params[type], pos |-> number.end, pushes |-> <<<<type, number.value>>>>] :
     type \in {t \in DOMAIN Signs :
                 /\ node.params[t] # 0
                 /\ IsDigit(url[pos]) \/ url[pos] \in Signs[t]
                 /\ number.end # pos
                 /\ InRange(t, number.value)}}

TextBranches(node, url, pos) ==
  LET end == [string |-> SegmentEnd(url, pos), path |-> Len(url) + 1] IN
  {[to |-> node.params[type], pos |-> end[type],
    pushes |-> <<<<"string", SubSeq(url, pos, end[type] - 1)>>>>] :
     type \in {t \in DOMAIN end : node.params[t] # 0 /\ end[t] # pos}}

LiteralBranches(node, url, pos) ==
  {[to |-> node.kids[f], pos |-> pos + Len(f), pushes |-> <<>>] :
     f \in {g \in DOMAIN node.kids : StandsAt(g, url, pos)}}

Branches(node, url, pos) ==
  NumberBranches(node, url, pos) \cup TextBranches(node, url, pos)
    \cup LiteralBranches(node, url, pos)

NoRoute == [rule |-> 0, params |-> NoParams]

\* Variant: the branch tried last wins.
Largest(answers) ==
  LET hits == {a \in answers : a.rule # 0} IN
  IF hits = {} THEN NoRoute
  ELSE CHOOSE a \in hits : \A b \in hits : a.rule >= b.rule

\* updateFound over all the branches.
Smallest(answers) ==
  LET hits == {a \in answers : a.rule # 0} IN
  IF hits = {} THEN NoRoute
  ELSE CHOOSE a \in hits : \A b \in hits : a.rule <= b.rule

\* What a branch found, with what was pushed before it went on.
Along(branch, route) ==
  IF branch.pushes = <<>> THEN route
  ELSE [route EXCEPT !.params[branch.pushes[1][1]] = <<branch.pushes[1][2]>> \o @]

Find(trie, url) ==
  LET from[n \in DOMAIN trie] ==
        [pos \in 1..(Len(url) + 1) |->
           IF pos > Len(url) THEN [rule |-> trie[n].rule, params |-> NoParams]
           ELSE Smallest({Along(b, from[b.to][b.pos]) : b \in Branches(trie[n], url, pos)})]
  IN  from[1][1]

-----------------------------------------------------------------------------
(* findRouteIndexes: the rules below a literal prefix; parameters are not  *)
(* followed, and a child reached by "/" alone is the directory form of the *)
(* rule above it.                                                          *)

\* Variant: the directory forms are listed too.
ListedAll(node, f) == IF node.rule # 0 THEN <<node.rule>> ELSE <<>>

Listed(node, f) == IF node.rule # 0 /\ f # <<"/">> THEN <<node.rule>> ELSE <<>>

\* What the child under the fragment f gives to the list, from being the lists
\* of all nodes.
ListedAt(trie, kids, f, url, pos, from) ==
  LET below == from[kids[f]][pos + Len(f)] IN
  CASE pos > Len(url) -> Listed(trie[kids[f]], f) \o below
    [] pos <= Len(url) /\ StandsAt(f, url, pos) -> below
    [] pos <= Len(url) /\ ~StandsAt(f, url, pos) -> <<>>

\* The children in some order: in the code it is that of the fragments.
ListedBelow(trie, kids, url, pos, from) ==
  LET order == SetToSeq(DOMAIN kids)
      list[k \in 0..Len(order)] ==
        IF k = 0 THEN <<>>
        ELSE list[k - 1] \o ListedAt(trie, kids, order[k], url, pos, from)
  IN  list[Len(order)]

FindRouteIndexes(trie, url) ==
  LET from[n \in DOMAIN trie] ==
        [pos \in Nat |-> ListedBelow(trie, trie[n].kids, url, pos, from)]
  IN  from[1][1]
=============================================================================
