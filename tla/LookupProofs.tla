---------------------------- MODULE LookupProofs ----------------------------
(***************************************************************************)
(* Theorems about what the tries of Router answer, for every set of rules, *)
(* every alphabet and every path.                                          *)
(***************************************************************************)
EXTENDS RouterProofs, FiniteSetTheorems

-----------------------------------------------------------------------------
(* Names: the texts that lead from a node to another, along the edges.     *)

Chars == Elements \cup TagNames
Templates == Seq(Chars)

Edges(node) ==
  {<<<<Tags[p]>>, node.params[p]>> : p \in {q \in DOMAIN Tags : node.params[q] # 0}}
    \cup {<<f, node.kids[f]>> : f \in DOMAIN node.kids}

Places(trie) == (1..Len(trie)) \X Templates \X (1..Len(trie))

Closed(trie, R) ==
  /\ \A n \in 1..Len(trie) : <<n, <<>>, n>> \in R
  /\ \A n \in 1..Len(trie) : \A e \in Edges(trie[n]) : \A s \in Templates :
       \A x \in 1..Len(trie) : <<e[2], s, x>> \in R => <<n, e[1] \o s, x>> \in R

\* The least set that is closed.
Names(trie) ==
  {q \in Places(trie) : \A R \in SUBSET Places(trie) : Closed(trie, R) => q \in R}

LEMMA EdgesType ==
  ASSUME NEW top, NEW trie, TrieOK(trie, top), NEW n \in 1..Len(trie),
         NEW e \in Edges(trie[n])
  PROVE  /\ e = <<e[1], e[2]>> /\ e[1] \in Templates /\ e[1] # <<>>
         /\ e[2] \in (n + 1)..Len(trie) /\ e[2] \in 1..Len(trie)
<1>1. /\ Len(trie) \in Nat /\ trie[n] \in Nodes /\ Below(trie[n], n + 1, Len(trie))
  BY DEF TrieOK
<1>2. ASSUME NEW p \in DOMAIN Tags, trie[n].params[p] # 0, e = <<<<Tags[p]>>, trie[n].params[p]>>
      PROVE  /\ e = <<e[1], e[2]>> /\ e[1] \in Templates /\ e[1] # <<>>
             /\ e[2] \in (n + 1)..Len(trie) /\ e[2] \in 1..Len(trie)
  <2>1. e[1] = <<Tags[p]>> /\ e[2] = trie[n].params[p]
    BY <1>2
  <2>2. Tags[p] \in Chars
    BY DEF Chars, TagNames
  <2>3. <<Tags[p]>> \in Seq(Chars) /\ <<Tags[p]>> # <<>>
    BY <2>2
  <2>4. trie[n].params[p] \in (n + 1)..Len(trie)
    BY <1>1, <1>2 DEF Below
  <2>5. QED
    BY <1>1, <1>2, <2>1, <2>3, <2>4 DEF Templates
<1>3. ASSUME NEW f \in DOMAIN trie[n].kids, e = <<f, trie[n].kids[f]>>
      PROVE  /\ e = <<e[1], e[2]>> /\ e[1] \in Templates /\ e[1] # <<>>
             /\ e[2] \in (n + 1)..Len(trie) /\ e[2] \in 1..Len(trie)
  <2>1. e[1] = f /\ e[2] = trie[n].kids[f]
    BY <1>3
  <2>2. trie[n].kids \in Kids
    BY <1>1 DEF Nodes
  <2>3. f \in Seq(Elements) /\ f # <<>>
    BY <2>2, KidsType
  <2>4. f \in Seq(Chars)
    BY <2>3 DEF Chars
  <2>5. trie[n].kids[f] \in (n + 1)..Len(trie)
    BY <1>1 DEF Below
  <2>6. QED
    BY <1>1, <1>3, <2>1, <2>3, <2>4, <2>5 DEF Templates
<1>4. QED
  BY <1>2, <1>3 DEF Edges

LEMMA JoinType ==
  /\ \A s, t \in Templates : s \o t \in Templates /\ Len(s \o t) = Len(s) + Len(t)
  /\ \A s \in Templates : s \o <<>> = s /\ <<>> \o s = s
  /\ \A s, t, u \in Templates : (s \o t) \o u = s \o (t \o u)
  /\ <<>> \in Templates
  /\ \A s, t \in Templates : s \o t = <<>> => s = <<>> /\ t = <<>>
<1>1. \A s, t \in Templates : s \o t \in Templates /\ Len(s \o t) = Len(s) + Len(t)
  BY ConcatProperties DEF Templates
<1>2. \A s \in Templates : s \o <<>> = s /\ <<>> \o s = s
  BY ConcatEmptySeq DEF Templates
<1>3. \A s, t, u \in Templates : (s \o t) \o u = s \o (t \o u)
  BY ConcatAssociative DEF Templates
<1>4. <<>> \in Templates
  BY DEF Templates
<1>5. \A s, t \in Templates : s \o t = <<>> => s = <<>> /\ t = <<>>
  BY ConcatEqualIffEmpty, ConcatEmptySeq DEF Templates
<1>6. QED
  BY <1>1, <1>2, <1>3, <1>4, <1>5

LEMMA NamesLeast ==
  ASSUME NEW trie, NEW R \in SUBSET Places(trie), Closed(trie, R)
  PROVE  Names(trie) \subseteq R
BY DEF Names

LEMMA NamesType ==
  ASSUME NEW trie, NEW n, NEW s, NEW x, <<n, s, x>> \in Names(trie)
  PROVE  n \in 1..Len(trie) /\ s \in Templates /\ x \in 1..Len(trie)
BY DEF Names, Places

LEMMA NamesClosed ==
  ASSUME NEW top, NEW trie, TrieOK(trie, top)
  PROVE  Closed(trie, Names(trie))
<1>1. ASSUME NEW n \in 1..Len(trie)
      PROVE  <<n, <<>>, n>> \in Names(trie)
  <2>1. <<n, <<>>, n>> \in Places(trie)
    BY JoinType DEF Places
  <2>2. ASSUME NEW R \in SUBSET Places(trie), Closed(trie, R)
        PROVE  <<n, <<>>, n>> \in R
    BY <2>2 DEF Closed
  <2>3. QED
    BY <2>1, <2>2 DEF Names
<1>2. ASSUME NEW n \in 1..Len(trie), NEW e \in Edges(trie[n]), NEW s \in Templates,
             NEW x \in 1..Len(trie), <<e[2], s, x>> \in Names(trie)
      PROVE  <<n, e[1] \o s, x>> \in Names(trie)
  <2>1. <<n, e[1] \o s, x>> \in Places(trie)
    <3>1. e[1] \o s \in Templates
      BY EdgesType, JoinType
    <3>2. QED
      BY <3>1 DEF Places
  <2>2. ASSUME NEW R \in SUBSET Places(trie), Closed(trie, R)
        PROVE  <<n, e[1] \o s, x>> \in R
    <3>1. <<e[2], s, x>> \in R
      BY <1>2, <2>2 DEF Names
    <3>2. QED
      BY <2>2, <3>1 DEF Closed
  <2>3. QED
    BY <2>1, <2>2 DEF Names
<1>3. QED
  BY <1>1, <1>2 DEF Closed

LEMMA NamesRoot ==
  ASSUME NEW top, NEW trie, TrieOK(trie, top), NEW n \in 1..Len(trie)
  PROVE  <<n, <<>>, n>> \in Names(trie)
BY NamesClosed DEF Closed

LEMMA NamesStep ==
  ASSUME NEW top, NEW trie, TrieOK(trie, top), NEW n \in 1..Len(trie),
         NEW e \in Edges(trie[n]), NEW s, NEW x, <<e[2], s, x>> \in Names(trie)
  PROVE  <<n, e[1] \o s, x>> \in Names(trie)
<1>1. Closed(trie, Names(trie)) /\ s \in Templates /\ x \in 1..Len(trie)
  BY NamesClosed, NamesType
<1>2. QED
  BY <1>1 DEF Closed

\* A name that is not empty begins with an edge.
LEMMA NamesBack ==
  ASSUME NEW top, NEW trie, TrieOK(trie, top), NEW n, NEW s, NEW x,
         <<n, s, x>> \in Names(trie)
  PROVE  \/ s = <<>> /\ x = n
         \/ \E e \in Edges(trie[n]) : \E t \in Templates :
              s = e[1] \o t /\ <<e[2], t, x>> \in Names(trie)
<1> DEFINE Back(q) ==
             \/ q[2] = <<>> /\ q[3] = q[1]
             \/ \E e \in Edges(trie[q[1]]) : \E t \in Templates :
                  q[2] = e[1] \o t /\ <<e[2], t, q[3]>> \in Names(trie)
           R == {q \in Names(trie) : Back(q)}
<1>1. R \in SUBSET Places(trie)
  BY DEF Names
<1>2. ASSUME NEW k \in 1..Len(trie)
      PROVE  <<k, <<>>, k>> \in R
  BY NamesRoot
<1>3. ASSUME NEW k \in 1..Len(trie), NEW e \in Edges(trie[k]), NEW t \in Templates,
             NEW y \in 1..Len(trie), <<e[2], t, y>> \in R
      PROVE  <<k, e[1] \o t, y>> \in R
  <2>1. <<k, e[1] \o t, y>> \in Names(trie)
    BY <1>3, NamesStep
  <2>2. Back(<<k, e[1] \o t, y>>)
    BY <1>3
  <2>3. QED
    BY <2>1, <2>2
<1>4. Closed(trie, R)
  BY <1>2, <1>3 DEF Closed
<1>5. <<n, s, x>> \in R
  BY <1>1, <1>4, NamesLeast
<1>6. QED
  BY <1>5

LEMMA NamesJoin ==
  ASSUME NEW top, NEW trie, TrieOK(trie, top), NEW n, NEW s, NEW y, NEW t, NEW x,
         <<n, s, y>> \in Names(trie), <<y, t, x>> \in Names(trie)
  PROVE  <<n, s \o t, x>> \in Names(trie)
<1> DEFINE Joins(q) == q[3] = y => <<q[1], q[2] \o t, x>> \in Names(trie)
           R == {q \in Places(trie) : Joins(q)}
<1>1. y \in 1..Len(trie) /\ t \in Templates /\ x \in 1..Len(trie)
  BY NamesType
<1>2. R \in SUBSET Places(trie)
  OBVIOUS
<1>3. ASSUME NEW k \in 1..Len(trie)
      PROVE  <<k, <<>>, k>> \in R
  <2>1. <<k, <<>>, k>> \in Places(trie)
    BY JoinType DEF Places
  <2>2. <<>> \o t = t
    BY <1>1, JoinType
  <2>3. QED
    BY <2>1, <2>2
<1>4. ASSUME NEW k \in 1..Len(trie), NEW e \in Edges(trie[k]), NEW u \in Templates,
             NEW z \in 1..Len(trie), <<e[2], u, z>> \in R
      PROVE  <<k, e[1] \o u, z>> \in R
  <2>1. e[1] \in Templates
    BY EdgesType
  <2>2. <<k, e[1] \o u, z>> \in Places(trie)
    BY <2>1, JoinType DEF Places
  <2>3. ASSUME z = y
        PROVE  <<k, (e[1] \o u) \o t, x>> \in Names(trie)
    <3>1. <<e[2], u \o t, x>> \in Names(trie)
      BY <1>4, <2>3
    <3>2. <<k, e[1] \o (u \o t), x>> \in Names(trie)
      BY <3>1, NamesStep
    <3>3. (e[1] \o u) \o t = e[1] \o (u \o t)
      BY <1>1, <2>1, JoinType, ZenonT(40)
    <3>4. QED
      BY <3>2, <3>3
  <2>4. QED
    BY <2>2, <2>3
<1>5. Closed(trie, R)
  BY <1>3, <1>4 DEF Closed
<1>6. <<n, s, y>> \in R
  BY <1>2, <1>5, NamesLeast
<1>7. Joins(<<n, s, y>>)
  BY <1>6
<1>8. QED
  BY <1>7

-----------------------------------------------------------------------------
(* What an added child changes.                                            *)

LEMMA EmptyNodeEdges == Edges(EmptyNode) = {} /\ EmptyNode.kids = <<>> /\ DOMAIN EmptyNode.kids = {}
<1> DEFINE params == [p \in DOMAIN Tags |-> 0]
           kids == <<>>
<1>1. (\A p \in DOMAIN Tags : params[p] = 0) /\ DOMAIN kids = {}
  OBVIOUS
<1> HIDE DEF params, kids
<1>2. EmptyNode.params = params /\ EmptyNode.kids = kids
  BY DEF EmptyNode, params, kids
<1>3. Edges(EmptyNode) = {}
  BY <1>1, <1>2 DEF Edges
<1>4. QED
  BY <1>1, <1>2, <1>3 DEF kids

LEMMA WithChildEdges ==
  ASSUME NEW node \in Nodes, NEW e \in Elements, NEW n \in Nat \ {0},
         ChildOf(node, e) = 0, \A f \in DOMAIN node.kids : node.kids[f] # 0
  PROVE  LET w == WithChild(node, e, n) IN
         /\ Edges(w) = Edges(node) \cup {<<<<e>>, n>>}
         /\ \A f \in DOMAIN w.kids :
              \/ f \in DOMAIN node.kids
              \/ e \notin TagNames /\ f = <<e>>
         /\ \A f \in DOMAIN node.kids : f \in DOMAIN w.kids /\ w.kids[f] = node.kids[f]
         /\ IsSimpleNode(w) => IsSimpleNode(node)
         /\ w.rule = node.rule
<1> DEFINE w == WithChild(node, e, n)
<1>1. node.params \in [DOMAIN Tags -> Nat] /\ node.kids \in Kids /\ node.rule \in Nat
  BY DEF Nodes
<1>2. CASE e \in TagNames
  <2> DEFINE t == TypeOfTag(e)
  <2>1. t \in DOMAIN Tags /\ Tags[t] = e
    BY <1>2, TagTypes
  <2>2. node.params[t] = 0
    BY <1>2 DEF ChildOf
  <2> HIDE DEF t
  <2> DEFINE params == [node.params EXCEPT ![t] = n]
  <2>3. w = [node EXCEPT !.params = params]
    BY <1>2 DEF WithChild, t
  <2>4. /\ params \in [DOMAIN Tags -> Nat] /\ params[t] = n
        /\ \A p \in DOMAIN Tags : p # t => params[p] = node.params[p]
    BY <1>1, <2>1
  <2> HIDE DEF params, w
  <2>5. w.rule = node.rule /\ w.params = params /\ w.kids = node.kids
    BY <2>3, <2>4 DEF Nodes
  <2>6. {<<<<Tags[p]>>, params[p]>> : p \in {q \in DOMAIN Tags : params[q] # 0}}
          = {<<<<Tags[p]>>, node.params[p]>> : p \in {q \in DOMAIN Tags : node.params[q] # 0}}
              \cup {<<<<e>>, n>>}
    <3>1. {q \in DOMAIN Tags : params[q] # 0}
            = {q \in DOMAIN Tags : node.params[q] # 0} \cup {t}
      BY <2>1, <2>4
    <3>2. \A q \in {q \in DOMAIN Tags : node.params[q] # 0} : params[q] = node.params[q]
      BY <2>2, <2>4
    <3> DEFINE used == {q \in DOMAIN Tags : node.params[q] # 0}
    <3> HIDE DEF used
    <3>3. QED
      BY <2>1, <2>4, <3>1, <3>2 DEF used
  <2>7. Edges(w) = Edges(node) \cup {<<<<e>>, n>>}
    <3>1. {<<f, w.kids[f]>> : f \in DOMAIN w.kids} = {<<f, node.kids[f]>> : f \in DOMAIN node.kids}
      BY <2>5
    <3>2. QED
      BY <2>5, <2>6, <3>1 DEF Edges
  <2>8. IsSimpleNode(w) => IsSimpleNode(node)
    BY <2>1, <2>4, <2>5 DEF IsSimpleNode
  <2>9. QED
    BY <2>5, <2>7, <2>8 DEF w
<1>3. CASE e \notin TagNames
  <2> DEFINE kids == WithKid(node.kids, e, n)
  <2>1. w = [node EXCEPT !.kids = kids]
    BY <1>3 DEF WithChild
  <2>2. /\ kids \in Kids /\ DOMAIN kids = DOMAIN node.kids \cup {<<e>>} /\ kids[<<e>>] = n
        /\ \A f \in DOMAIN node.kids : f # <<e>> => kids[f] = node.kids[f]
    <3>1. node.kids \in Kids
      BY <1>1
    <3>2. e \in Elements /\ n \in Nat
      BY <1>1
    <3>3. QED
      BY <3>1, <3>2, WithKidType, ZenonT(40)
  <2> HIDE DEF kids, w
  <2>3. w.rule = node.rule /\ w.params = node.params /\ w.kids = kids
    BY <2>1, <2>2 DEF Nodes
  <2>4. <<e>> \notin DOMAIN node.kids
    BY <1>3 DEF ChildOf
  <2>5. \A f \in DOMAIN node.kids : f \in DOMAIN kids /\ kids[f] = node.kids[f]
    BY <2>2, <2>4
  <2>6. {<<f, kids[f]>> : f \in DOMAIN kids}
          = {<<f, node.kids[f]>> : f \in DOMAIN node.kids} \cup {<<<<e>>, n>>}
    BY <2>2, <2>5
  <2>7. Edges(w) = Edges(node) \cup {<<<<e>>, n>>}
    BY <2>3, <2>6 DEF Edges
  <2>8. IsSimpleNode(w) => IsSimpleNode(node)
    BY <2>3 DEF IsSimpleNode
  <2>9. QED
    BY <1>3, <2>2, <2>3, <2>5, <2>7, <2>8 DEF w
<1>4. QED
  BY <1>2, <1>3

\* A trie b that has one node more than a, reached from at by e.
Grown(a, b, at, e) ==
  /\ Len(b) = Len(a) + 1 /\ b[Len(b)] = EmptyNode
  /\ \A k \in 1..Len(a) : k # at => b[k] = a[k]
  /\ b[at] = WithChild(a[at], e, Len(b))

\* The new names lead to the new node, by way of at unless from itself.
NewName(q, a, new, at, e) ==
  \/ q \in Names(a)
  \/ q[1] = new /\ q[3] = new
  \/ /\ q[3] = new
     /\ \E s \in Templates : q[2] = s \o <<e>> /\ <<q[1], s, at>> \in Names(a)

LEMMA GrownNames ==
  ASSUME NEW top, NEW a, NEW b, TrieOK(a, top), TrieOK(b, top),
         NEW at \in 1..Len(a), NEW e \in Elements, ChildOf(a[at], e) = 0,
         Grown(a, b, at, e)
  PROVE  /\ Names(a) \subseteq Names(b)
         /\ <<1, <<>>, 1>> \in Names(b)
         /\ \A q \in Names(b) : NewName(q, a, Len(b), at, e)
         /\ \A s : <<1, s, at>> \in Names(a) => <<1, s \o <<e>>, Len(b)>> \in Names(b)
<1> DEFINE new == Len(b)
<1>1. /\ Len(a) \in Nat /\ Len(a) >= 1 /\ Len(b) \in Nat /\ new = Len(a) + 1 /\ new \in 1..Len(b)
      /\ \A k \in 1..Len(a) : k \in 1..Len(b) /\ k # new
      /\ \A k \in 1..Len(b) : k \in 1..Len(a) \/ k = new
  BY DEF TrieOK, Grown
<1>2. Edges(b[at]) = Edges(a[at]) \cup {<<<<e>>, new>>}
  <2>1. a[at] \in Nodes /\ Below(a[at], at + 1, Len(a))
    BY DEF TrieOK
  <2>2. \A f \in DOMAIN a[at].kids : a[at].kids[f] # 0
    BY <2>1 DEF Below
  <2>3. new \in Nat \ {0}
    BY <1>1
  <2>4. b[at] = WithChild(a[at], e, new)
    BY DEF Grown
  <2> HIDE DEF new
  <2>5. QED
    BY <2>1, <2>2, <2>3, <2>4, WithChildEdges
<1>3. Edges(b[new]) = {}
  BY EmptyNodeEdges DEF Grown
<1>4. \A k \in 1..Len(a) : k # at => Edges(b[k]) = Edges(a[k])
  BY DEF Grown
<1>5. <<e>> \in Templates
  BY DEF Templates, Chars
<1>6. Places(a) \subseteq Places(b)
  BY <1>1 DEF Places
<1> HIDE DEF new
<1>7. Names(a) \subseteq Names(b)
  <2> DEFINE R == {q \in Names(a) : q \in Names(b)}
  <2>1. R \in SUBSET Places(a)
    BY DEF Names
  <2>2. \A n \in 1..Len(a) : <<n, <<>>, n>> \in R
    BY <1>1, NamesRoot
  <2>3. ASSUME NEW n \in 1..Len(a), NEW d \in Edges(a[n]), NEW s \in Templates,
               NEW x \in 1..Len(a), <<d[2], s, x>> \in R
        PROVE  <<n, d[1] \o s, x>> \in R
    <3>1. d \in Edges(b[n]) /\ n \in 1..Len(b)
      BY <1>1, <1>2, <1>4
    <3>2. <<n, d[1] \o s, x>> \in Names(b)
      BY <2>3, <3>1, NamesStep
    <3>3. <<n, d[1] \o s, x>> \in Names(a)
      BY <2>3, NamesStep
    <3>4. QED
      BY <3>2, <3>3
  <2>4. Closed(a, R)
    BY <2>2, <2>3 DEF Closed
  <2>5. QED
    BY <2>1, <2>4, NamesLeast
<1>8. ASSUME NEW q \in Names(b)
      PROVE  NewName(q, a, new, at, e)
  <2> DEFINE Known(p) ==
               \/ p \in Names(a)
               \/ p[1] = new /\ p[2] = <<>> /\ p[3] = new
               \/ /\ p[3] = new
                  /\ \E s \in Templates : p[2] = s \o <<e>> /\ <<p[1], s, at>> \in Names(a)
             R == {p \in Places(b) : Known(p)}
  <2>1. R \in SUBSET Places(b)
    OBVIOUS
  <2>2. ASSUME NEW n \in 1..Len(b)
        PROVE  <<n, <<>>, n>> \in R
    <3>1. <<n, <<>>, n>> \in Places(b)
      BY JoinType DEF Places
    <3>2. CASE n \in 1..Len(a)
      <4>1. <<n, <<>>, n>> \in Names(a)
        BY <3>2, NamesRoot
      <4>2. QED
        BY <3>1, <4>1
    <3>3. CASE n = new
      BY <3>1, <3>3
    <3>4. QED
      BY <1>1, <3>2, <3>3
  <2>3. ASSUME NEW n \in 1..Len(b), NEW d \in Edges(b[n]), NEW s \in Templates,
               NEW x \in 1..Len(b), <<d[2], s, x>> \in R
        PROVE  <<n, d[1] \o s, x>> \in R
    <3>1. d[1] \in Templates /\ <<n, d[1] \o s, x>> \in Places(b)
      <4>1. d[1] \in Templates
        BY EdgesType
      <4>2. QED
        BY <4>1, JoinType DEF Places
    <3>2. n \in 1..Len(a)
      BY <1>1, <1>3
    <3>3. CASE d \in Edges(a[n])
      <4>1. d[2] \in 1..Len(a)
        BY <3>2, <3>3, EdgesType
      <4>2. d[2] # new
        BY <1>1, <4>1
      <4>3. CASE <<d[2], s, x>> \in Names(a)
        <5>1. <<n, d[1] \o s, x>> \in Names(a)
          BY <3>2, <3>3, <4>3, NamesStep
        <5>2. QED
          BY <3>1, <5>1
      <4>4. ASSUME x = new, NEW u \in Templates, s = u \o <<e>>, <<d[2], u, at>> \in Names(a)
            PROVE  <<n, d[1] \o s, x>> \in R
        <5>1. <<n, d[1] \o u, at>> \in Names(a)
          BY <3>2, <3>3, <4>4, NamesStep
        <5>2. d[1] \o (u \o <<e>>) = (d[1] \o u) \o <<e>> /\ d[1] \o u \in Templates
          BY <1>5, <3>1, JoinType, ZenonT(40)
        <5>3. QED
          BY <3>1, <4>4, <5>1, <5>2
      <4>5. QED
        BY <2>3, <4>2, <4>3, <4>4
    <3>4. CASE n = at /\ d = <<<<e>>, new>>
      <4>1. d[2] = new /\ d[1] = <<e>>
        BY <3>4
      <4>2. \A u, y : <<new, u, y>> \notin Names(a)
        BY <1>1, NamesType
      <4>3. s = <<>> /\ x = new
        BY <2>3, <4>1, <4>2
      <4>4. d[1] \o s = <<>> \o <<e>> /\ <<>> \in Templates
        BY <1>5, <4>1, <4>3, JoinType
      <4>5. <<at, <<>>, at>> \in Names(a)
        BY NamesRoot
      <4>6. QED
        BY <3>1, <3>4, <4>3, <4>4, <4>5
    <3>5. QED
      BY <1>2, <1>4, <3>2, <3>3, <3>4
  <2>4. Closed(b, R)
    BY <2>2, <2>3 DEF Closed
  <2>5. q \in R
    BY <2>1, <2>4, NamesLeast
  <2>6. Known(q)
    BY <2>5
  <2>7. QED
    BY <2>6 DEF NewName
<1>9. ASSUME NEW s, <<1, s, at>> \in Names(a)
      PROVE  <<1, s \o <<e>>, new>> \in Names(b)
  <2>1. <<at, <<e>> \o <<>>, new>> \in Names(b)
    <3>1. <<<<e>>, new>> \in Edges(b[at]) /\ at \in 1..Len(b)
      BY <1>1, <1>2
    <3>2. <<new, <<>>, new>> \in Names(b)
      BY <1>1, NamesRoot
    <3> DEFINE d == <<<<e>>, new>>
    <3>3. d[1] = <<e>> /\ d[2] = new
      OBVIOUS
    <3> HIDE DEF d
    <3>4. <<at, d[1] \o <<>>, new>> \in Names(b)
      BY <3>1, <3>2, <3>3, NamesStep DEF d
    <3>5. QED
      BY <3>3, <3>4
  <2>2. <<e>> \o <<>> = <<e>>
    BY <1>5, JoinType
  <2>3. QED
    BY <1>7, <1>9, <2>1, <2>2, NamesJoin
<1>10. <<1, <<>>, 1>> \in Names(b)
  BY <1>1, NamesRoot
<1>11. QED
  BY <1>7, <1>8, <1>9, <1>10 DEF new

-----------------------------------------------------------------------------
(* Tries in order: from a node to another leads one name at most, and what *)
(* can still be merged has fragments of one letter.                        *)

Unique(trie) ==
  \A n, s, t, x : <<n, s, x>> \in Names(trie) /\ <<n, t, x>> \in Names(trie) => s = t

LiteralKids(trie) ==
  \A n \in 1..Len(trie) : DOMAIN trie[n].kids \subseteq Seq(Elements \ TagNames)

OneLetter(kids) == \A f \in DOMAIN kids : Len(f) = 1

\* A trie that no optimize has touched.
Letterwise(trie) == \A n \in 1..Len(trie) : OneLetter(trie[n].kids)

\* optimize leaves these children as they are.
Stopped(trie, kids) == \E f \in DOMAIN kids : ~IsSimpleNode(trie[kids[f]])

Settled(trie) ==
  \A n \in 1..Len(trie) : OneLetter(trie[n].kids) \/ Stopped(trie, trie[n].kids)

GoodTrie(trie, top) ==
  TrieOK(trie, top) /\ Unique(trie) /\ LiteralKids(trie) /\ Settled(trie)

\* A template with its rule.
Spelled(trie, t, i) ==
  i # 0 /\ \E x \in 1..Len(trie) : <<1, t, x>> \in Names(trie) /\ trie[x].rule = i

LEMMA ChildEdge ==
  ASSUME NEW node, NEW e, ChildOf(node, e) # 0
  PROVE  <<<<e>>, ChildOf(node, e)>> \in Edges(node)
<1>1. CASE e \in TagNames
  <2>1. TypeOfTag(e) \in DOMAIN Tags /\ Tags[TypeOfTag(e)] = e
    BY <1>1, TagTypes
  <2>2. ChildOf(node, e) = node.params[TypeOfTag(e)]
    BY <1>1 DEF ChildOf
  <2>3. QED
    BY <2>1, <2>2 DEF Edges
<1>2. CASE e \notin TagNames
  BY <1>2 DEF ChildOf, Edges
<1>3. QED
  BY <1>1, <1>2

LEMMA EdgeName ==
  ASSUME NEW top, NEW trie, TrieOK(trie, top), NEW n \in 1..Len(trie),
         NEW f, NEW m, <<f, m>> \in Edges(trie[n])
  PROVE  <<n, f, m>> \in Names(trie)
<1> DEFINE d == <<f, m>>
<1>1. d \in Edges(trie[n]) /\ d[1] = f /\ d[2] = m
  OBVIOUS
<1> HIDE DEF d
<1>2. f \in Templates /\ m \in 1..Len(trie)
  BY <1>1, EdgesType
<1>3. <<d[2], <<>>, m>> \in Names(trie)
  BY <1>1, <1>2, NamesRoot
<1>4. <<n, d[1] \o <<>>, m>> \in Names(trie)
  BY <1>1, <1>3, NamesStep
<1>5. f \o <<>> = f
  BY <1>2, JoinType
<1>6. QED
  BY <1>1, <1>4, <1>5

LEMMA GrownGood ==
  ASSUME NEW top, NEW a, NEW b, GoodTrie(a, top), TrieOK(b, top),
         NEW at \in 1..Len(a), NEW e \in Elements, ChildOf(a[at], e) = 0,
         Grown(a, b, at, e), NEW s, <<1, s, at>> \in Names(a)
  PROVE  /\ GoodTrie(b, top) /\ <<1, s \o <<e>>, Len(b)>> \in Names(b)
         /\ \A t, i : Spelled(b, t, i) <=> Spelled(a, t, i)
         /\ Letterwise(a) => Letterwise(b)
<1> DEFINE new == Len(b)
<1>1. /\ Len(a) \in Nat /\ Len(a) >= 1 /\ Len(b) \in Nat /\ new = Len(a) + 1
      /\ \A k \in 1..Len(a) : k \in 1..Len(b) /\ k # new
      /\ \A k \in 1..Len(b) : k \in 1..Len(a) \/ k = new
      /\ new \in Nat \ {0} /\ new \notin 1..Len(a) /\ 1 # new
  BY DEF GoodTrie, TrieOK, Grown
<1>2. TrieOK(a, top) /\ Unique(a) /\ LiteralKids(a) /\ Settled(a)
  BY DEF GoodTrie
<1>3. /\ Names(a) \subseteq Names(b)
      /\ \A q \in Names(b) : NewName(q, a, new, at, e)
      /\ <<1, s \o <<e>>, new>> \in Names(b)
  BY <1>2, GrownNames, Zenon
<1>4. /\ b[new] = EmptyNode /\ b[at] = WithChild(a[at], e, new)
      /\ \A k \in 1..Len(a) : k # at => b[k] = a[k]
  BY DEF Grown
<1>5. a[at] \in Nodes /\ \A f \in DOMAIN a[at].kids : a[at].kids[f] # 0
  <2>1. a[at] \in Nodes /\ Below(a[at], at + 1, Len(a))
    BY <1>2 DEF TrieOK
  <2>2. QED
    BY <2>1 DEF Below
<1> HIDE DEF new
<1>6. /\ \A f \in DOMAIN b[at].kids :
           \/ f \in DOMAIN a[at].kids
           \/ e \notin TagNames /\ f = <<e>>
      /\ \A f \in DOMAIN a[at].kids : f \in DOMAIN b[at].kids /\ b[at].kids[f] = a[at].kids[f]
      /\ IsSimpleNode(b[at]) => IsSimpleNode(a[at])
      /\ b[at].rule = a[at].rule
  BY <1>1, <1>4, <1>5, WithChildEdges
<1>7. \A k \in 1..Len(a) : b[k].rule = a[k].rule /\ (IsSimpleNode(b[k]) => IsSimpleNode(a[k]))
  BY <1>4, <1>6
<1>8. Unique(b)
  <2>1. SUFFICES ASSUME NEW n, NEW t, NEW u, NEW x,
                        <<n, t, x>> \in Names(b), <<n, u, x>> \in Names(b)
                 PROVE  t = u
    BY DEF Unique
  <2>2. CASE n = new
    <3>1. ASSUME NEW v, <<n, v, x>> \in Names(b)
          PROVE  v = <<>>
      <4>1. ~\E d \in Edges(b[n]) : \E w \in Templates :
              v = d[1] \o w /\ <<d[2], w, x>> \in Names(b)
        BY <1>4, <2>2, EmptyNodeEdges
      <4>2. QED
        BY <3>1, <4>1, NamesBack
    <3>2. QED
      BY <2>1, <3>1
  <2>3. CASE n # new /\ x = new
    <3>1. ASSUME NEW v, <<n, v, x>> \in Names(b)
          PROVE  \E w \in Templates : v = w \o <<e>> /\ <<n, w, at>> \in Names(a)
      <4>1. <<n, v, x>> \notin Names(a)
        BY <1>1, <2>3, NamesType
      <4>2. NewName(<<n, v, x>>, a, new, at, e)
        BY <1>3, <3>1
      <4>3. QED
        BY <2>3, <4>1, <4>2 DEF NewName
    <3>2. PICK t0 \in Templates : t = t0 \o <<e>> /\ <<n, t0, at>> \in Names(a)
      BY <2>1, <3>1
    <3>3. PICK u0 \in Templates : u = u0 \o <<e>> /\ <<n, u0, at>> \in Names(a)
      BY <2>1, <3>1
    <3>4. t0 = u0
      BY <1>2, <3>2, <3>3 DEF Unique
    <3>5. QED
      BY <3>2, <3>3, <3>4
  <2>4. CASE x # new
    <3>1. <<n, t, x>> \in Names(a) /\ <<n, u, x>> \in Names(a)
      BY <1>3, <2>1, <2>4 DEF NewName
    <3>2. QED
      BY <1>2, <3>1 DEF Unique
  <2>5. QED
    BY <2>2, <2>3, <2>4
<1>9. LiteralKids(b)
  <2>1. SUFFICES ASSUME NEW k \in 1..Len(b), NEW f \in DOMAIN b[k].kids
                 PROVE  f \in Seq(Elements \ TagNames)
    BY DEF LiteralKids
  <2>2. k # new
    BY <1>4, EmptyNodeEdges
  <2>3. k \in 1..Len(a)
    BY <1>1, <2>2
  <2>4. CASE f \in DOMAIN a[k].kids
    BY <1>2, <2>3, <2>4 DEF LiteralKids
  <2>5. CASE f \notin DOMAIN a[k].kids
    <3>1. e \notin TagNames /\ f = <<e>>
      BY <1>4, <1>6, <2>3, <2>5
    <3>2. QED
      BY <3>1
  <2>6. QED
    BY <2>4, <2>5
<1>10. ASSUME NEW k \in 1..Len(a), OneLetter(a[k].kids)
       PROVE  OneLetter(b[k].kids)
  <2>1. SUFFICES ASSUME NEW f \in DOMAIN b[k].kids
                 PROVE  Len(f) = 1
    BY DEF OneLetter
  <2>2. CASE f \in DOMAIN a[k].kids
    BY <1>10, <2>2 DEF OneLetter
  <2>3. CASE f \notin DOMAIN a[k].kids
    <3>1. f = <<e>>
      BY <1>4, <1>6, <2>3
    <3>2. QED
      BY <3>1
  <2>4. QED
    BY <2>2, <2>3
<1>11. Settled(b)
  <2>1. SUFFICES ASSUME NEW k \in 1..Len(b)
                 PROVE  OneLetter(b[k].kids) \/ Stopped(b, b[k].kids)
    BY DEF Settled
  <2>2. CASE k = new
    BY <1>4, <2>2, EmptyNodeEdges DEF OneLetter
  <2>3. CASE k # new
    <3>1. k \in 1..Len(a)
      BY <1>1, <2>3
    <3>2. OneLetter(a[k].kids) \/ Stopped(a, a[k].kids)
      BY <1>2, <3>1 DEF Settled
    <3>3. OneLetter(a[k].kids) => OneLetter(b[k].kids)
      BY <1>10, <3>1
    <3>4. ASSUME Stopped(a, a[k].kids)
          PROVE  Stopped(b, b[k].kids)
      <4>1. PICK f \in DOMAIN a[k].kids : ~IsSimpleNode(a[a[k].kids[f]])
        BY <3>4 DEF Stopped
      <4>2. f \in DOMAIN b[k].kids /\ b[k].kids[f] = a[k].kids[f]
        BY <1>4, <1>6, <3>1
      <4>3. a[k].kids[f] \in 1..Len(a)
        <5>1. Below(a[k], k + 1, Len(a))
          BY <1>2, <3>1 DEF TrieOK
        <5>2. a[k].kids[f] \in (k + 1)..Len(a)
          BY <4>1, <5>1 DEF Below
        <5>3. QED
          BY <3>1, <5>2
      <4>4. ~IsSimpleNode(b[b[k].kids[f]])
        BY <1>7, <4>1, <4>2, <4>3
      <4>5. QED
        BY <4>2, <4>4 DEF Stopped
    <3>5. QED
      BY <3>2, <3>3, <3>4
  <2>4. QED
    BY <2>2, <2>3
<1>12. GoodTrie(b, top)
  BY <1>8, <1>9, <1>11 DEF GoodTrie
<1>13. ASSUME NEW t, NEW i
       PROVE  Spelled(b, t, i) <=> Spelled(a, t, i)
  <2>1. ASSUME Spelled(a, t, i)
        PROVE  Spelled(b, t, i)
    <3>1. PICK x \in 1..Len(a) : <<1, t, x>> \in Names(a) /\ a[x].rule = i
      BY <2>1 DEF Spelled
    <3>2. x \in 1..Len(b) /\ b[x].rule = i /\ <<1, t, x>> \in Names(b)
      BY <1>1, <1>3, <1>7, <3>1
    <3>3. QED
      BY <2>1, <3>2 DEF Spelled
  <2>2. ASSUME Spelled(b, t, i)
        PROVE  Spelled(a, t, i)
    <3>1. PICK x \in 1..Len(b) : <<1, t, x>> \in Names(b) /\ b[x].rule = i
      BY <2>2 DEF Spelled
    <3>2. i # 0
      BY <2>2 DEF Spelled
    <3>3. x # new
      BY <1>4, <3>1, <3>2, EmptyNodeType
    <3>4. x \in 1..Len(a) /\ <<1, t, x>> \in Names(a) /\ a[x].rule = i
      BY <1>1, <1>3, <1>7, <3>1, <3>3 DEF NewName
    <3>5. QED
      BY <3>2, <3>4 DEF Spelled
  <2>3. QED
    BY <2>1, <2>2
<1>14. Letterwise(a) => Letterwise(b)
  <2>1. OneLetter(b[new].kids)
    BY <1>4, EmptyNodeEdges DEF OneLetter
  <2>2. QED
    BY <1>1, <1>10, <2>1 DEF Letterwise
<1>15. QED
  BY <1>3, <1>12, <1>13, <1>14 DEF new

LEMMA DescendGood ==
  ASSUME NEW top \in Nat, NEW walk, WalkOK(walk, top), GoodTrie(walk.nodes, top),
         NEW s, <<1, s, walk.at>> \in Names(walk.nodes), NEW e \in Elements
  PROVE  LET w == Descend(walk, e) IN
         /\ WalkOK(w, top) /\ GoodTrie(w.nodes, top)
         /\ <<1, s \o <<e>>, w.at>> \in Names(w.nodes)
         /\ \A t, i : Spelled(w.nodes, t, i) <=> Spelled(walk.nodes, t, i)
         /\ Letterwise(walk.nodes) => Letterwise(w.nodes)
<1> DEFINE trie == walk.nodes
           at   == walk.at
           next == ChildOf(trie[at], e)
           new  == Len(trie) + 1
           w    == Descend(walk, e)
<1>1. /\ walk = [nodes |-> trie, at |-> at]
      /\ TrieOK(trie, top) /\ at \in 1..Len(trie)
      /\ trie \in Seq(Nodes) /\ Len(trie) \in Nat
  BY DEF WalkOK, TrieOK
<1>2. WalkOK(w, top)
  BY DescendIs
<1>3. CASE next # 0
  <2>1. w = [walk EXCEPT !.at = next]
    BY <1>3 DEF Descend
  <2> HIDE DEF trie, at, next, w
  <2>2. w = [nodes |-> trie, at |-> next]
    BY <1>1, <2>1
  <2>3. w.nodes = trie /\ w.at = next
    BY <2>2
  <2>4. <<<<e>>, next>> \in Edges(trie[at])
    BY <1>3, ChildEdge DEF next
  <2>5. <<at, <<e>>, next>> \in Names(trie)
    BY <1>1, <2>4, EdgeName
  <2>6. <<1, s, at>> \in Names(trie)
    BY DEF trie, at
  <2>7. <<1, s \o <<e>>, next>> \in Names(trie)
    BY <1>1, <2>5, <2>6, NamesJoin
  <2>8. QED
    BY <1>2, <2>3, <2>7 DEF trie, w
<1>4. CASE next = 0
  <2> DEFINE child == WithChild(trie[at], e, new)
             grown == Append([trie EXCEPT ![at] = child], EmptyNode)
  <2>1. w = [nodes |-> grown, at |-> new]
    BY <1>4 DEF Descend
  <2>2. w.nodes = grown /\ w.at = new
    BY <2>1
  <2> HIDE DEF trie, at, next, w
  <2>3. trie[at] \in Nodes /\ new \in Nat \ {0}
    BY <1>1
  <2>4. child \in Nodes
    BY <2>3, WithChildIs
  <2>5. /\ Len(grown) = new
        /\ grown[at] = WithChild(trie[at], e, new) /\ grown[new] = EmptyNode
        /\ \A k \in 1..Len(trie) : k # at => grown[k] = trie[k]
    <3> HIDE DEF child
    <3>1. /\ Len(grown) = new
          /\ grown[at] = child /\ grown[new] = EmptyNode
          /\ \A k \in 1..Len(trie) : k # at => grown[k] = trie[k]
      BY <1>1, <2>4, EmptyNodeType
    <3>2. QED
      BY <3>1 DEF child
  <2> HIDE DEF child, grown
  <2>6. Grown(trie, grown, at, e)
    BY <2>5 DEF Grown
  <2>7. TrieOK(grown, top)
    BY <1>2, <2>2 DEF WalkOK
  <2>8. GoodTrie(trie, top) /\ <<1, s, at>> \in Names(trie)
    BY DEF trie, at
  <2>9. ChildOf(trie[at], e) = 0
    BY <1>4 DEF next
  <2>10. /\ GoodTrie(grown, top) /\ <<1, s \o <<e>>, Len(grown)>> \in Names(grown)
         /\ \A t, i : Spelled(grown, t, i) <=> Spelled(trie, t, i)
         /\ Letterwise(trie) => Letterwise(grown)
    BY <1>1, <2>6, <2>7, <2>8, <2>9, GrownGood
  <2>11. QED
    BY <1>2, <2>2, <2>5, <2>10 DEF w, trie
<1>5. QED
  BY <1>3, <1>4

-----------------------------------------------------------------------------
(* add: what a template spells afterwards.                                 *)

LEMMA PrefixesOf ==
  ASSUME NEW S, NEW s \in Seq(S)
  PROVE  /\ SubSeq(s, 1, 0) = <<>> /\ SubSeq(s, 1, Len(s)) = s
         /\ \A k \in Nat : k + 1 <= Len(s) =>
              SubSeq(s, 1, k + 1) = SubSeq(s, 1, k) \o <<s[k + 1]>>
<1>1. SubSeq(s, 1, 0) = <<>>
  BY SubSeqEmpty
<1>2. SubSeq(s, 1, Len(s)) = s
  BY SubSeqFull
<1>3. ASSUME NEW k \in Nat, k + 1 <= Len(s)
      PROVE  SubSeq(s, 1, k + 1) = SubSeq(s, 1, k) \o <<s[k + 1]>>
  <2>1. PICK n \in 1..Len(s) : n = k + 1 /\ n - 1 = k /\ 1 \in 1..Len(s)
    BY <1>3
  <2>2. SubSeq(s, 1, n) = SubSeq(s, 1, n - 1) \o <<s[n]>>
    BY <2>1, SubSeqRecursiveSecond
  <2>3. QED
    BY <2>1, <2>2
<1>4. QED
  BY <1>1, <1>2, <1>3

LEMMA WalkedGood ==
  ASSUME NEW top \in Nat, NEW trie, GoodTrie(trie, top), NEW template \in Seq(Elements)
  PROVE  LET w == Walked(trie, template) IN
         /\ WalkOK(w, top) /\ GoodTrie(w.nodes, top)
         /\ <<1, template, w.at>> \in Names(w.nodes)
         /\ \A t, i : Spelled(w.nodes, t, i) <=> Spelled(trie, t, i)
         /\ Letterwise(trie) => Letterwise(w.nodes)
<1> DEFINE N == Len(template)
           f == CHOOSE f : f = [k \in 0..N |-> WalkStep(f, trie, template, k)]
<1>1. N \in Nat /\ TrieOK(trie, top) /\ Len(trie) \in Nat /\ Len(trie) >= 1
  BY DEF GoodTrie, TrieOK
<1>2. f = [k \in 0..N |-> WalkStep(f, trie, template, k)]
  <2>1. \E g : WalkUpTo(g, trie, template, N)
    BY <1>1, SomeWalk
  <2>2. QED
    BY <2>1, Zenon DEF WalkUpTo
<1>3. Walked(trie, template) = f[N]
  BY Zenon DEF Walked, WalkStep
<1> HIDE DEF f
<1>4. \A k \in 0..N : f[k] = WalkStep(f, trie, template, k)
  BY <1>2
<1>5. f[0] = [nodes |-> trie, at |-> 1]
  BY <1>1, <1>4 DEF WalkStep
<1> DEFINE Good(k) ==
             /\ WalkOK(f[k], top) /\ GoodTrie(f[k].nodes, top)
             /\ <<1, SubSeq(template, 1, k), f[k].at>> \in Names(f[k].nodes)
             /\ \A t, i : Spelled(f[k].nodes, t, i) <=> Spelled(trie, t, i)
             /\ Letterwise(trie) => Letterwise(f[k].nodes)
           T == {k \in Nat : k <= N => Good(k)}
<1>6. 0 \in T
  <2>1. f[0].nodes = trie /\ f[0].at = 1
    BY <1>5
  <2>2. WalkOK(f[0], top)
    BY <1>1, <1>5, <2>1 DEF WalkOK
  <2>3. <<1, <<>>, 1>> \in Names(trie)
    <3>1. 1 \in 1..Len(trie)
      BY <1>1
    <3>2. QED
      BY <1>1, <3>1, NamesRoot
  <2>4. SubSeq(template, 1, 0) = <<>>
    BY PrefixesOf
  <2>5. QED
    BY <2>1, <2>2, <2>3, <2>4
<1>7. ASSUME NEW k \in Nat, k \in T
      PROVE  k + 1 \in T
  <2>1. SUFFICES ASSUME k + 1 <= N
                 PROVE  Good(k + 1)
    OBVIOUS
  <2>2. Good(k)
    BY <1>1, <1>7, <2>1
  <2>3. k + 1 \in 0..N /\ k + 1 # 0 /\ k + 1 - 1 = k /\ template[k + 1] \in Elements
    BY <1>1, <2>1
  <2>4. f[k + 1] = Descend(f[k], template[k + 1])
    BY <1>4, <2>3 DEF WalkStep
  <2>5. SubSeq(template, 1, k + 1) = SubSeq(template, 1, k) \o <<template[k + 1]>>
    BY <2>1, PrefixesOf
  <2>6. /\ WalkOK(f[k + 1], top) /\ GoodTrie(f[k + 1].nodes, top)
        /\ <<1, SubSeq(template, 1, k) \o <<template[k + 1]>>, f[k + 1].at>> \in Names(f[k + 1].nodes)
        /\ \A t, i : Spelled(f[k + 1].nodes, t, i) <=> Spelled(f[k].nodes, t, i)
        /\ Letterwise(f[k].nodes) => Letterwise(f[k + 1].nodes)
    BY <2>2, <2>3, <2>4, DescendGood
  <2>7. QED
    BY <2>2, <2>5, <2>6
<1>8. N \in T
  BY <1>1, <1>6, <1>7, Induction
<1>9. Good(N)
  BY <1>1, <1>8
<1>10. SubSeq(template, 1, N) = template
  BY PrefixesOf
<1>11. QED
  BY <1>3, <1>9, <1>10

LEMMA SameEdges ==
  ASSUME NEW top, NEW a, NEW b, TrieOK(a, top), TrieOK(b, top), Len(a) = Len(b),
         \A k \in 1..Len(a) : Edges(a[k]) = Edges(b[k])
  PROVE  Names(a) = Names(b)
<1>1. Places(a) = Places(b)
  BY DEF Places
<1>2. \A R : Closed(a, R) <=> Closed(b, R)
  BY DEF Closed
<1>3. QED
  BY <1>1, <1>2 DEF Names

LEMMA SetRuleGood ==
  ASSUME NEW top \in Nat, NEW trie, GoodTrie(trie, top), NEW at \in 1..Len(trie),
         trie[at].rule = 0, NEW index \in 1..top, NEW template,
         <<1, template, at>> \in Names(trie)
  PROVE  LET b == SetRule(trie, at, index) IN
         /\ GoodTrie(b, top)
         /\ \A t, i : Spelled(b, t, i) <=> Spelled(trie, t, i) \/ (t = template /\ i = index)
         /\ Letterwise(trie) => Letterwise(b)
<1> DEFINE node == [trie[at] EXCEPT !.rule = index]
           b == SetRule(trie, at, index)
<1>1. /\ TrieOK(trie, top) /\ Unique(trie) /\ LiteralKids(trie) /\ Settled(trie)
      /\ trie \in Seq(Nodes) /\ Len(trie) \in Nat /\ trie[at] \in Nodes
  BY DEF GoodTrie, TrieOK
<1>2. b = [trie EXCEPT ![at] = node]
  BY DEF SetRule
<1>3. TrieOK(b, top) /\ Len(b) = Len(trie)
  BY <1>1, SetRuleIs
<1>4. node.rule = index /\ node.params = trie[at].params /\ node.kids = trie[at].kids
  <2>1. PICK r \in Nat, params \in [DOMAIN Tags -> Nat], kids \in Kids :
          trie[at] = [rule |-> r, params |-> params, kids |-> kids]
    BY <1>1 DEF Nodes
  <2>2. node = [rule |-> index, params |-> params, kids |-> kids]
    BY <2>1
  <2> HIDE DEF node
  <2>3. QED
    BY <2>1, <2>2
<1> HIDE DEF node
<1>5. b[at] = node /\ \A k \in 1..Len(trie) : k # at => b[k] = trie[k]
  BY <1>1, <1>2
<1> HIDE DEF b
<1>6. \A k \in 1..Len(trie) : /\ b[k].kids = trie[k].kids /\ b[k].params = trie[k].params
                              /\ k # at => b[k].rule = trie[k].rule
  BY <1>4, <1>5
<1>7. b[at].rule = index
  BY <1>4, <1>5
<1>8. \A k \in 1..Len(trie) : Edges(trie[k]) = Edges(b[k])
  BY <1>6 DEF Edges
<1>9. Names(b) = Names(trie)
  BY <1>1, <1>3, <1>8, SameEdges
<1>10. Unique(b) /\ LiteralKids(b)
  BY <1>1, <1>3, <1>6, <1>9 DEF Unique, LiteralKids
<1>11. \A k \in 1..Len(trie) : IsSimpleNode(b[k]) => IsSimpleNode(trie[k])
  BY <1>6, <1>7 DEF IsSimpleNode
<1>12. Settled(b)
  <2>1. SUFFICES ASSUME NEW k \in 1..Len(b)
                 PROVE  OneLetter(b[k].kids) \/ Stopped(b, b[k].kids)
    BY DEF Settled
  <2>2. k \in 1..Len(trie) /\ b[k].kids = trie[k].kids
    BY <1>3, <1>6
  <2>3. CASE OneLetter(trie[k].kids)
    BY <2>2, <2>3
  <2>4. CASE Stopped(trie, trie[k].kids)
    <3>1. PICK f \in DOMAIN trie[k].kids : ~IsSimpleNode(trie[trie[k].kids[f]])
      BY <2>4 DEF Stopped
    <3>2. trie[k].kids[f] \in 1..Len(trie)
      <4>1. Below(trie[k], k + 1, Len(trie))
        BY <1>1, <2>2 DEF TrieOK
      <4>2. trie[k].kids[f] \in (k + 1)..Len(trie)
        BY <3>1, <4>1 DEF Below
      <4>3. QED
        BY <2>2, <4>2
    <3>3. QED
      BY <1>11, <2>2, <3>1, <3>2 DEF Stopped
  <2>5. QED
    BY <1>1, <2>2, <2>3, <2>4 DEF Settled
<1>13. GoodTrie(b, top)
  BY <1>3, <1>10, <1>12 DEF GoodTrie
<1>14. ASSUME NEW t, NEW i
       PROVE  Spelled(b, t, i) <=> Spelled(trie, t, i) \/ (t = template /\ i = index)
  <2>1. ASSUME Spelled(b, t, i)
        PROVE  Spelled(trie, t, i) \/ (t = template /\ i = index)
    <3>1. PICK x \in 1..Len(b) : i # 0 /\ <<1, t, x>> \in Names(b) /\ b[x].rule = i
      BY <2>1 DEF Spelled
    <3>2. CASE x = at
      BY <1>1, <1>7, <1>9, <3>1, <3>2 DEF Unique
    <3>3. CASE x # at
      BY <1>3, <1>6, <1>9, <3>1, <3>3 DEF Spelled
    <3>4. QED
      BY <3>2, <3>3
  <2>2. ASSUME Spelled(trie, t, i)
        PROVE  Spelled(b, t, i)
    <3>1. PICK x \in 1..Len(trie) : i # 0 /\ <<1, t, x>> \in Names(trie) /\ trie[x].rule = i
      BY <2>2 DEF Spelled
    <3>2. x # at
      BY <3>1
    <3>3. QED
      BY <1>3, <1>6, <1>9, <3>1, <3>2 DEF Spelled
  <2>3. ASSUME t = template, i = index
        PROVE  Spelled(b, t, i)
    <3>1. i # 0
      BY <2>3
    <3>2. QED
      BY <1>3, <1>7, <1>9, <2>3, <3>1 DEF Spelled
  <2>4. QED
    BY <2>1, <2>2, <2>3
<1>15. Letterwise(trie) => Letterwise(b)
  BY <1>3, <1>6 DEF Letterwise
<1>16. QED
  BY <1>13, <1>14, <1>15 DEF b

LEMMA AddSpells ==
  ASSUME NEW top \in Nat, NEW trie, GoodTrie(trie, top), NEW template \in Seq(Elements),
         NEW index \in 1..top
  PROVE  LET a == Add(trie, template, index) IN
         /\ a.ok \in BOOLEAN
         /\ a.ok =>
              /\ GoodTrie(a.nodes, top)
              /\ \A t, i : Spelled(a.nodes, t, i)
                             <=> Spelled(trie, t, i) \/ (t = template /\ i = index)
              /\ Letterwise(trie) => Letterwise(a.nodes)
<1> DEFINE walk == Walked(trie, template)
           a == Add(trie, template, index)
<1>1. /\ WalkOK(walk, top) /\ GoodTrie(walk.nodes, top)
      /\ <<1, template, walk.at>> \in Names(walk.nodes)
      /\ \A t, i : Spelled(walk.nodes, t, i) <=> Spelled(trie, t, i)
      /\ Letterwise(trie) => Letterwise(walk.nodes)
  BY WalkedGood
<1>2. walk.at \in 1..Len(walk.nodes)
  BY <1>1 DEF WalkOK
<1>3. CASE walk.nodes[walk.at].rule # 0
  <2>1. a = [ok |-> FALSE, nodes |-> walk.nodes]
    BY <1>3 DEF Add
  <2>2. QED
    BY <2>1
<1>4. CASE walk.nodes[walk.at].rule = 0
  <2>1. a = [ok |-> TRUE, nodes |-> SetRule(walk.nodes, walk.at, index)]
    BY <1>4 DEF Add, SetRule
  <2> HIDE DEF walk, a
  <2>2. a.ok = TRUE /\ a.nodes = SetRule(walk.nodes, walk.at, index)
    BY <2>1
  <2>3. /\ GoodTrie(a.nodes, top)
        /\ \A t, i : Spelled(a.nodes, t, i)
                       <=> Spelled(walk.nodes, t, i) \/ (t = template /\ i = index)
        /\ Letterwise(walk.nodes) => Letterwise(a.nodes)
    BY <1>1, <1>2, <1>4, <2>2, SetRuleGood
  <2>4. QED
    BY <1>1, <2>2, <2>3 DEF a
<1>5. QED
  BY <1>3, <1>4

-----------------------------------------------------------------------------
(* optimize: no name of a node that has something to say is lost.          *)

Letters == Elements \ TagNames

\* A text that begins with one of the fragments.
Reaches(trie, kids, s, x) ==
  \E f \in DOMAIN kids : \E t \in Templates : s = f \o t /\ <<kids[f], t, x>> \in Names(trie)

Even(kids, length) == \A f \in DOMAIN kids : Len(f) = length

Evenly(trie) == \A n \in 1..Len(trie) : \E length \in Nat : Even(trie[n].kids, length)

\* The children of n after turn turns.
MergeOK(trie, n, kids, turn) ==
  /\ KidsOK(trie, kids, n + 1) /\ DOMAIN kids \subseteq Seq(Letters)
  /\ \A f \in DOMAIN kids : <<n, f, kids[f]>> \in Names(trie)
  /\ (\E length \in Nat : Even(kids, length)) \/ Stopped(trie, kids)
  /\ (\A f \in DOMAIN kids : kids[f] >= n + 1 + turn) \/ Stopped(trie, kids)
  /\ \A s, x : Reaches(trie, trie[n].kids, s, x) /\ ~IsSimpleNode(trie[x])
                 => Reaches(trie, kids, s, x)

LEMMA SameSplit ==
  ASSUME NEW S, NEW s \in Seq(S), NEW t \in Seq(S), NEW u \in Seq(S), NEW v \in Seq(S),
         s \o t = u \o v, Len(s) = Len(u)
  PROVE  s = u /\ t = v
<1>1. /\ Len(s \o t) = Len(s) + Len(t) /\ Len(u \o v) = Len(u) + Len(v)
      /\ Len(s) \in Nat /\ Len(t) \in Nat /\ Len(u) \in Nat /\ Len(v) \in Nat
  BY ConcatLength
<1>2. Len(t) = Len(v)
  BY <1>1
<1>3. \A i \in 1..Len(s) : s[i] = u[i]
  <2>1. SUFFICES ASSUME NEW i \in 1..Len(s)
                 PROVE  s[i] = u[i]
    OBVIOUS
  <2>2. i \in 1..(Len(s) + Len(t)) /\ i <= Len(s)
    BY <1>1
  <2>3. (s \o t)[i] = s[i] /\ (u \o v)[i] = u[i]
    BY <1>1, <1>2, <2>2, ConcatProperties
  <2>4. QED
    BY <2>3
<1>4. \A i \in 1..Len(t) : t[i] = v[i]
  <2>1. SUFFICES ASSUME NEW i \in 1..Len(t)
                 PROVE  t[i] = v[i]
    OBVIOUS
  <2>2. Len(s) + i \in 1..(Len(s) + Len(t)) /\ ~(Len(s) + i <= Len(s)) /\ Len(s) + i - Len(s) = i
    BY <1>1
  <2>3. (s \o t)[Len(s) + i] = t[i] /\ (u \o v)[Len(s) + i] = v[i]
    BY <1>1, <1>2, <2>2, ConcatProperties, SMTT(40)
  <2>4. QED
    BY <2>3
<1>5. s = u
  BY <1>3, SeqEqual
<1>6. t = v
  BY <1>2, <1>4, SeqEqual
<1>7. QED
  BY <1>5, <1>6

\* What merged has is a fragment of kids with a fragment below it.
Spread(trie, kids, merged, n) ==
  /\ \A h \in DOMAIN merged :
       \E f \in DOMAIN kids : \E g \in DOMAIN trie[kids[f]].kids :
         h = f \o g /\ merged[h] = trie[kids[f]].kids[g]
  /\ \A f \in DOMAIN kids : \A g \in DOMAIN trie[kids[f]].kids :
       f \o g \in DOMAIN merged /\ merged[f \o g] = trie[kids[f]].kids[g]
  /\ \A f \in DOMAIN kids : kids[f] \in 1..Len(trie) /\ kids[f] >= n + 1
  /\ \A f \in DOMAIN kids : \A g \in DOMAIN trie[kids[f]].kids :
       /\ f \in Seq(Letters) /\ g \in Seq(Letters)
       /\ trie[kids[f]].kids[g] \in 1..Len(trie)
       /\ trie[kids[f]].kids[g] > kids[f]

\* Where the fragments have one length, no two pairs spell the same.
LEMMA MergedIs ==
  ASSUME NEW top, NEW trie, GoodTrie(trie, top), NEW n \in Nat, NEW length \in Nat,
         NEW kids, KidsOK(trie, kids, n + 1), DOMAIN kids \subseteq Seq(Letters),
         Even(kids, length)
  PROVE  Spread(trie, kids, Merged(trie, kids), n)
<1> DEFINE J == Joints(trie, kids)
           last(f) == LastJoint(J, f)
           D == {p[1] \o p[2] : p \in J}
           merged == Merged(trie, kids)
<1>1. TrieOK(trie, top) /\ LiteralKids(trie) /\ Len(trie) \in Nat
  BY DEF GoodTrie, TrieOK
<1>2. merged = [f \in D |-> trie[kids[last(f)[1]]].kids[last(f)[2]]]
  BY DEF Merged
<1>3. \A f \in DOMAIN kids : kids[f] \in 1..Len(trie) /\ kids[f] >= n + 1
  <2>1. SUFFICES ASSUME NEW f \in DOMAIN kids
                 PROVE  kids[f] \in 1..Len(trie) /\ kids[f] >= n + 1
    OBVIOUS
  <2>2. kids[f] \in (n + 1)..Len(trie)
    BY DEF KidsOK
  <2>3. QED
    BY <1>1, <2>2
<1>4. \A f \in DOMAIN kids : \A g \in DOMAIN trie[kids[f]].kids :
        /\ f \in Seq(Letters) /\ g \in Seq(Letters)
        /\ trie[kids[f]].kids[g] \in 1..Len(trie)
        /\ trie[kids[f]].kids[g] > kids[f]
  <2>1. SUFFICES ASSUME NEW f \in DOMAIN kids, NEW g \in DOMAIN trie[kids[f]].kids
                 PROVE  /\ f \in Seq(Letters) /\ g \in Seq(Letters)
                        /\ trie[kids[f]].kids[g] \in 1..Len(trie)
                        /\ trie[kids[f]].kids[g] > kids[f]
    OBVIOUS
  <2>2. PICK k \in 1..Len(trie) : k = kids[f]
    BY <1>3
  <2>3. g \in Seq(Letters)
    BY <1>1, <2>2 DEF LiteralKids, Letters
  <2>4. Below(trie[k], k + 1, Len(trie))
    BY <1>1 DEF TrieOK
  <2>5. trie[k].kids[g] \in (k + 1)..Len(trie)
    BY <2>2, <2>4 DEF Below
  <2>6. QED
    BY <1>1, <2>2, <2>3, <2>5
<1>5. ASSUME NEW f \in DOMAIN kids, NEW g \in DOMAIN trie[kids[f]].kids
      PROVE  <<f, g>> \in J
  BY DEF Joints
<1>6. ASSUME NEW p \in J
      PROVE  /\ p[1] \in DOMAIN kids /\ p[2] \in DOMAIN trie[kids[p[1]]].kids
             /\ p = <<p[1], p[2]>> /\ Len(p[1]) = length
  BY DEF Joints, Even
<1> HIDE DEF J
<1>7. ASSUME NEW p \in J, NEW q \in J, p[1] \o p[2] = q[1] \o q[2]
      PROVE  p = q
  <2>1. /\ p[1] \in Seq(Letters) /\ p[2] \in Seq(Letters)
        /\ q[1] \in Seq(Letters) /\ q[2] \in Seq(Letters) /\ Len(p[1]) = Len(q[1])
    BY <1>4, <1>6
  <2>2. p[1] = q[1] /\ p[2] = q[2]
    <3>1. \A s, t, u, v \in Seq(Letters) :
            s \o t = u \o v /\ Len(s) = Len(u) => s = u /\ t = v
      BY SameSplit
    <3> DEFINE s == p[1]
               t == p[2]
               u == q[1]
               v == q[2]
    <3>2. s \o t = u \o v
      BY <1>7
    <3>3. /\ s \in Seq(Letters) /\ t \in Seq(Letters) /\ u \in Seq(Letters) /\ v \in Seq(Letters)
          /\ Len(s) = Len(u)
      BY <2>1
    <3> HIDE DEF s, t, u, v
    <3>4. s = u /\ t = v
      BY <3>1, <3>2, <3>3
    <3>5. QED
      BY <3>4 DEF s, t, u, v
  <2>3. QED
    BY <1>6, <2>2
<1>8. ASSUME NEW p \in J
      PROVE  last(p[1] \o p[2]) = p
  <2> DEFINE h == p[1] \o p[2]
  <2>1. \A q \in J : q[1] \o q[2] = h => Len(q[1]) <= Len(p[1])
    <3>1. SUFFICES ASSUME NEW q \in J, q[1] \o q[2] = h
                   PROVE  Len(q[1]) <= Len(p[1])
      OBVIOUS
    <3>2. q = p
      BY <1>7, <3>1
    <3>3. Len(p[1]) = length /\ length <= length
      BY <1>6
    <3>4. QED
      BY <3>2, <3>3
  <2>2. last(h) \in J /\ last(h)[1] \o last(h)[2] = h
    BY <2>1, Zenon DEF LastJoint
  <2> HIDE DEF last
  <2>3. QED
    BY <1>7, <2>2
<1> HIDE DEF last, merged
<1>9. DOMAIN merged = D /\ \A p \in J : merged[p[1] \o p[2]] = trie[kids[p[1]]].kids[p[2]]
  <2>1. DOMAIN merged = D
    BY <1>2
  <2>2. ASSUME NEW p \in J
        PROVE  merged[p[1] \o p[2]] = trie[kids[p[1]]].kids[p[2]]
    <3>1. p[1] \o p[2] \in D
      OBVIOUS
    <3> HIDE DEF D
    <3>2. merged[p[1] \o p[2]]
            = trie[kids[last(p[1] \o p[2])[1]]].kids[last(p[1] \o p[2])[2]]
      BY <1>2, <3>1
    <3>3. QED
      BY <1>8, <3>2
  <2>3. QED
    BY <2>1, <2>2
<1>10. \A h \in DOMAIN merged :
        \E f \in DOMAIN kids : \E g \in DOMAIN trie[kids[f]].kids :
          h = f \o g /\ merged[h] = trie[kids[f]].kids[g]
  <2>1. SUFFICES ASSUME NEW h \in DOMAIN merged
                 PROVE  \E f \in DOMAIN kids : \E g \in DOMAIN trie[kids[f]].kids :
                          h = f \o g /\ merged[h] = trie[kids[f]].kids[g]
    OBVIOUS
  <2>2. PICK p \in J : h = p[1] \o p[2]
    BY <1>9
  <2>3. QED
    BY <1>6, <1>9, <2>2
<1>11. \A f \in DOMAIN kids : \A g \in DOMAIN trie[kids[f]].kids :
         f \o g \in DOMAIN merged /\ merged[f \o g] = trie[kids[f]].kids[g]
  <2>1. SUFFICES ASSUME NEW f \in DOMAIN kids, NEW g \in DOMAIN trie[kids[f]].kids
                 PROVE  f \o g \in DOMAIN merged /\ merged[f \o g] = trie[kids[f]].kids[g]
    OBVIOUS
  <2> DEFINE p == <<f, g>>
  <2>2. p \in J /\ p[1] = f /\ p[2] = g
    BY <1>5
  <2> HIDE DEF p
  <2>3. QED
    BY <1>9, <2>2
<1>12. QED
  BY <1>3, <1>4, <1>10, <1>11 DEF Spread, merged

\* A simple node is left only by way of its children.
LEMMA SimpleNames ==
  ASSUME NEW top, NEW trie, TrieOK(trie, top), NEW k \in 1..Len(trie), IsSimpleNode(trie[k]),
         NEW t, NEW x, <<k, t, x>> \in Names(trie), ~IsSimpleNode(trie[x])
  PROVE  \E g \in DOMAIN trie[k].kids : \E u \in Templates :
           t = g \o u /\ <<trie[k].kids[g], u, x>> \in Names(trie)
<1>1. x # k
  OBVIOUS
<1>2. PICK e \in Edges(trie[k]), u \in Templates :
        t = e[1] \o u /\ <<e[2], u, x>> \in Names(trie)
  BY <1>1, NamesBack
<1>3. PICK g \in DOMAIN trie[k].kids : e = <<g, trie[k].kids[g]>>
  BY DEF Edges, IsSimpleNode
<1>4. e[1] = g /\ e[2] = trie[k].kids[g]
  BY <1>3
<1>5. QED
  BY <1>2, <1>4

LEMMA MergeStep ==
  ASSUME NEW top, NEW trie, GoodTrie(trie, top), NEW n \in 1..Len(trie), NEW turn \in Nat,
         NEW kids, MergeOK(trie, n, kids, turn)
  PROVE  MergeOK(trie, n, MergedOnce(trie, kids), turn + 1)
<1> DEFINE merged == Merged(trie, kids)
<1>1. /\ TrieOK(trie, top) /\ Settled(trie) /\ Len(trie) \in Nat
      /\ KidsOK(trie, kids, n + 1) /\ DOMAIN kids \subseteq Seq(Letters)
  BY DEF GoodTrie, TrieOK, MergeOK
<1>2. CASE DOMAIN kids # {} /\ ~Stopped(trie, kids)
  <2>1. \A f \in DOMAIN kids : IsSimpleNode(trie[kids[f]])
    BY <1>2 DEF Stopped
  <2>2. MergedOnce(trie, kids) = merged
    BY <1>2, <2>1 DEF MergedOnce
  <2>3. PICK length \in Nat : Even(kids, length)
    BY <1>2 DEF MergeOK
  <2>4. Spread(trie, kids, merged, n)
    BY <1>1, <2>3, MergedIs
  <2> HIDE DEF merged
  <2>5. /\ \A h \in DOMAIN merged :
             \E f \in DOMAIN kids : \E g \in DOMAIN trie[kids[f]].kids :
               h = f \o g /\ merged[h] = trie[kids[f]].kids[g]
        /\ \A f \in DOMAIN kids : \A g \in DOMAIN trie[kids[f]].kids :
             f \o g \in DOMAIN merged /\ merged[f \o g] = trie[kids[f]].kids[g]
        /\ \A f \in DOMAIN kids : kids[f] \in 1..Len(trie) /\ kids[f] >= n + 1
        /\ \A f \in DOMAIN kids : \A g \in DOMAIN trie[kids[f]].kids :
             /\ f \in Seq(Letters) /\ g \in Seq(Letters)
             /\ trie[kids[f]].kids[g] \in 1..Len(trie)
             /\ trie[kids[f]].kids[g] > kids[f]
    BY <2>4 DEF Spread
  <2>6. KidsOK(trie, merged, n + 1)
    BY <1>1, MergedKids DEF merged
  <2>7. DOMAIN merged \subseteq Seq(Letters)
    <3>1. SUFFICES ASSUME NEW h \in DOMAIN merged
                   PROVE  h \in Seq(Letters)
      OBVIOUS
    <3>2. PICK f \in DOMAIN kids : \E g \in DOMAIN trie[kids[f]].kids : h = f \o g
      BY <2>5
    <3>3. PICK g \in DOMAIN trie[kids[f]].kids : h = f \o g
      BY <3>2
    <3>4. f \in Seq(Letters) /\ g \in Seq(Letters)
      BY <2>5
    <3>5. QED
      BY <3>3, <3>4, ConcatLength
  <2>8. ASSUME NEW h \in DOMAIN merged
        PROVE  <<n, h, merged[h]>> \in Names(trie)
    <3>1. PICK f \in DOMAIN kids : \E g \in DOMAIN trie[kids[f]].kids :
                h = f \o g /\ merged[h] = trie[kids[f]].kids[g]
      BY <2>5
    <3>2. PICK g \in DOMAIN trie[kids[f]].kids : h = f \o g /\ merged[h] = trie[kids[f]].kids[g]
      BY <3>1
    <3>3. <<n, f, kids[f]>> \in Names(trie)
      BY DEF MergeOK
    <3>4. <<g, trie[kids[f]].kids[g]>> \in Edges(trie[kids[f]])
      BY DEF Edges
    <3>5. <<kids[f], g, merged[h]>> \in Names(trie)
      BY <1>1, <2>5, <3>2, <3>4, EdgeName
    <3>6. QED
      BY <1>1, <3>2, <3>3, <3>5, NamesJoin
  <2>9. (\E l \in Nat : Even(merged, l)) \/ Stopped(trie, merged)
    <3>1. CASE \A f \in DOMAIN kids : OneLetter(trie[kids[f]].kids)
      <4>1. ASSUME NEW h \in DOMAIN merged
            PROVE  Len(h) = length + 1
        <5>1. PICK f \in DOMAIN kids : \E g \in DOMAIN trie[kids[f]].kids : h = f \o g
          BY <2>5
        <5>2. PICK g \in DOMAIN trie[kids[f]].kids : h = f \o g
          BY <5>1
        <5>3. f \in Seq(Letters) /\ g \in Seq(Letters) /\ Len(f) = length /\ Len(g) = 1
          BY <2>3, <2>5, <3>1 DEF Even, OneLetter
        <5>4. Len(f \o g) = Len(f) + Len(g)
          BY <5>3, ConcatLength
        <5>5. QED
          BY <5>2, <5>3, <5>4
      <4>2. Even(merged, length + 1) /\ length + 1 \in Nat
        BY <4>1 DEF Even
      <4>3. QED
        BY <4>2
    <3>2. ASSUME NEW f \in DOMAIN kids, ~OneLetter(trie[kids[f]].kids)
          PROVE  Stopped(trie, merged)
      <4>1. kids[f] \in 1..Len(trie)
        BY <2>5
      <4>2. Stopped(trie, trie[kids[f]].kids)
        BY <1>1, <3>2, <4>1 DEF Settled
      <4>3. PICK g \in DOMAIN trie[kids[f]].kids : ~IsSimpleNode(trie[trie[kids[f]].kids[g]])
        BY <4>2 DEF Stopped
      <4>4. f \o g \in DOMAIN merged /\ merged[f \o g] = trie[kids[f]].kids[g]
        BY <2>5
      <4>5. QED
        BY <4>3, <4>4 DEF Stopped
    <3>3. QED
      BY <3>1, <3>2
  <2>10. ASSUME NEW h \in DOMAIN merged
        PROVE  merged[h] >= n + 1 + (turn + 1)
    <3>1. PICK f \in DOMAIN kids : \E g \in DOMAIN trie[kids[f]].kids :
                h = f \o g /\ merged[h] = trie[kids[f]].kids[g]
      BY <2>5
    <3>2. PICK g \in DOMAIN trie[kids[f]].kids : h = f \o g /\ merged[h] = trie[kids[f]].kids[g]
      BY <3>1
    <3>3. kids[f] >= n + 1 + turn
      BY <1>2 DEF MergeOK
    <3>4. PICK x \in 1..Len(trie), y \in 1..Len(trie) :
            x = kids[f] /\ y = trie[kids[f]].kids[g] /\ y > x
      BY <2>5
    <3>5. QED
      BY <3>2, <3>3, <3>4
  <2>11. ASSUME NEW s, NEW x, Reaches(trie, trie[n].kids, s, x), ~IsSimpleNode(trie[x])
         PROVE  Reaches(trie, merged, s, x)
    <3>1. Reaches(trie, kids, s, x)
      BY <2>11 DEF MergeOK
    <3>2. PICK f \in DOMAIN kids, t \in Templates : s = f \o t /\ <<kids[f], t, x>> \in Names(trie)
      BY <3>1 DEF Reaches
    <3>3. kids[f] \in 1..Len(trie) /\ IsSimpleNode(trie[kids[f]])
      BY <2>1, <2>5
    <3>4. PICK g \in DOMAIN trie[kids[f]].kids, u \in Templates :
            t = g \o u /\ <<trie[kids[f]].kids[g], u, x>> \in Names(trie)
      BY <1>1, <2>11, <3>2, <3>3, SimpleNames
    <3>5. f \o g \in DOMAIN merged /\ merged[f \o g] = trie[kids[f]].kids[g]
      BY <2>5
    <3>6. f \in Templates /\ g \in Templates
      BY <2>5 DEF Templates, Chars, Letters
    <3>7. \A a, b, c \in Templates : (a \o b) \o c = a \o (b \o c)
      BY JoinType
    <3>8. f \o (g \o u) = (f \o g) \o u
      BY <3>4, <3>6, <3>7, SMTT(40)
    <3>9. s = (f \o g) \o u
      BY <3>2, <3>4, <3>8
    <3>10. QED
      BY <3>4, <3>5, <3>9 DEF Reaches
  <2>12. QED
    BY <2>2, <2>6, <2>7, <2>8, <2>9, <2>10, <2>11 DEF MergeOK
<1>3. CASE Stopped(trie, kids)
  <2>1. MergedOnce(trie, kids) = kids
    BY <1>3 DEF MergedOnce, Stopped
  <2>2. QED
    BY <1>3, <2>1 DEF MergeOK
<1>4. CASE DOMAIN kids = {}
  <2>1. MergedOnce(trie, kids) = kids
    BY <1>4 DEF MergedOnce
  <2>2. QED
    BY <1>4, <2>1 DEF MergeOK
<1>5. QED
  BY <1>2, <1>3, <1>4

\* Where the whole trie has fragments of one letter, a turn adds one.
LEMMA EvenStep ==
  ASSUME NEW top, NEW trie, GoodTrie(trie, top), Letterwise(trie), NEW n \in 1..Len(trie),
         NEW turn \in Nat, NEW kids, MergeOK(trie, n, kids, turn),
         NEW length \in Nat, Even(kids, length)
  PROVE  \E l \in Nat : Even(MergedOnce(trie, kids), l)
<1>1. CASE MergedOnce(trie, kids) = kids
  BY <1>1
<1>2. CASE MergedOnce(trie, kids) # kids
  <2> DEFINE merged == Merged(trie, kids)
  <2>1. MergedOnce(trie, kids) = merged
    BY <1>2 DEF MergedOnce
  <2>2. KidsOK(trie, kids, n + 1) /\ DOMAIN kids \subseteq Seq(Letters) /\ n \in Nat
    BY DEF MergeOK, GoodTrie, TrieOK
  <2> HIDE DEF merged
  <2>3. /\ \A h \in DOMAIN merged :
             \E f \in DOMAIN kids : \E g \in DOMAIN trie[kids[f]].kids :
               h = f \o g /\ merged[h] = trie[kids[f]].kids[g]
        /\ \A f \in DOMAIN kids : kids[f] \in 1..Len(trie) /\ kids[f] >= n + 1
        /\ \A f \in DOMAIN kids : \A g \in DOMAIN trie[kids[f]].kids :
             /\ f \in Seq(Letters) /\ g \in Seq(Letters)
             /\ trie[kids[f]].kids[g] \in 1..Len(trie)
             /\ trie[kids[f]].kids[g] > kids[f]
    <3>1. Spread(trie, kids, merged, n)
      BY <2>2, MergedIs DEF merged
    <3>2. QED
      BY <3>1 DEF Spread
  <2>4. ASSUME NEW h \in DOMAIN merged
        PROVE  Len(h) = length + 1
    <3>1. PICK f \in DOMAIN kids : \E g \in DOMAIN trie[kids[f]].kids : h = f \o g
      BY <2>3
    <3>2. PICK g \in DOMAIN trie[kids[f]].kids : h = f \o g
      BY <3>1
    <3>3. f \in Seq(Letters) /\ g \in Seq(Letters) /\ Len(f) = length /\ Len(g) = 1
      BY <2>3 DEF Even, Letterwise, OneLetter
    <3>4. Len(f \o g) = Len(f) + Len(g)
      BY <3>3, ConcatLength
    <3>5. QED
      BY <3>2, <3>3, <3>4
  <2>5. Even(merged, length + 1) /\ length + 1 \in Nat
    BY <2>4 DEF Even
  <2>6. QED
    BY <2>1, <2>5
<1>3. QED
  BY <1>1, <1>2

LEMMA OptimizeNodeGood ==
  ASSUME NEW top, NEW trie, GoodTrie(trie, top), NEW n \in 1..Len(trie)
  PROVE  /\ OptimizeNode(trie, n).rule = trie[n].rule
         /\ OptimizeNode(trie, n).params = trie[n].params
         /\ MergeOK(trie, n, OptimizeNode(trie, n).kids, Len(trie))
         /\ Letterwise(trie) => \E l \in Nat : Even(OptimizeNode(trie, n).kids, l)
<1> DEFINE N == Len(trie)
           f == CHOOSE f : f = [k \in 0..N |-> KidsStep(f, trie, n, k)]
           node == OptimizeNode(trie, n)
<1>1. /\ N \in Nat /\ trie[n] \in Nodes /\ Below(trie[n], n + 1, N)
      /\ TrieOK(trie, top) /\ LiteralKids(trie) /\ Settled(trie)
  BY DEF GoodTrie, TrieOK
<1>2. f = [k \in 0..N |-> KidsStep(f, trie, n, k)]
  <2>1. \E g : KidsUpTo(g, trie, n, N)
    BY <1>1, SomeKids
  <2>2. QED
    BY <2>1, Zenon DEF KidsUpTo
<1>3. node = [trie[n] EXCEPT !.kids = f[N]]
  BY Zenon DEF OptimizeNode, KidsStep
<1> HIDE DEF f, node
<1>4. \A k \in 0..N : f[k] = KidsStep(f, trie, n, k)
  BY <1>2
<1> DEFINE Merging(k) ==
             /\ MergeOK(trie, n, f[k], k)
             /\ Letterwise(trie) => \E l \in Nat : Even(f[k], l)
           T == {k \in Nat : k <= N => Merging(k)}
<1>5. 0 \in T
  <2> DEFINE kids == trie[n].kids
  <2>1. f[0] = kids
    BY <1>1, <1>4 DEF KidsStep
  <2>2. KidsOK(trie, kids, n + 1)
    BY <1>1 DEF KidsOK, Below, Nodes
  <2>3. DOMAIN kids \subseteq Seq(Letters)
    BY <1>1 DEF LiteralKids, Letters
  <2>4. ASSUME NEW g \in DOMAIN kids
        PROVE  <<n, g, kids[g]>> \in Names(trie) /\ kids[g] >= n + 1 + 0
    <3>1. <<g, kids[g]>> \in Edges(trie[n])
      BY DEF Edges
    <3>2. <<n, g, kids[g]>> \in Names(trie)
      BY <1>1, <3>1, EdgeName
    <3>3. kids[g] \in (n + 1)..N
      BY <1>1 DEF Below
    <3>4. kids[g] >= n + 1 + 0
      BY <1>1, <3>3
    <3>5. QED
      BY <3>2, <3>4
  <2>5. OneLetter(kids) \/ Stopped(trie, kids)
    BY <1>1 DEF Settled
  <2>6. (\E l \in Nat : Even(kids, l)) \/ Stopped(trie, kids)
    <3>1. OneLetter(kids) => Even(kids, 1)
      BY DEF OneLetter, Even
    <3>2. QED
      BY <2>5, <3>1
  <2>7. MergeOK(trie, n, kids, 0)
    BY <2>2, <2>3, <2>4, <2>6 DEF MergeOK
  <2>8. Letterwise(trie) => Even(kids, 1)
    BY DEF Letterwise, OneLetter, Even
  <2>9. QED
    BY <2>1, <2>7, <2>8
<1>6. ASSUME NEW k \in Nat, k \in T
      PROVE  k + 1 \in T
  <2>1. SUFFICES ASSUME k + 1 <= N
                 PROVE  Merging(k + 1)
    OBVIOUS
  <2>2. Merging(k)
    BY <1>1, <1>6, <2>1
  <2>3. k + 1 \in 0..N /\ k + 1 # 0 /\ k + 1 - 1 = k
    BY <1>1, <2>1
  <2>4. f[k + 1] = MergedOnce(trie, f[k])
    BY <1>4, <2>3 DEF KidsStep
  <2>5. MergeOK(trie, n, f[k + 1], k + 1)
    BY <2>2, <2>4, MergeStep
  <2>6. Letterwise(trie) => \E l \in Nat : Even(f[k + 1], l)
    BY <2>2, <2>4, EvenStep
  <2>7. QED
    BY <2>5, <2>6
<1>7. N \in T
  BY <1>1, <1>5, <1>6, Induction
<1>8. Merging(N)
  BY <1>1, <1>7
<1>9. PICK r \in Nat, params \in [DOMAIN Tags -> Nat], kids \in Kids :
        trie[n] = [rule |-> r, params |-> params, kids |-> kids]
  BY <1>1 DEF Nodes
<1>10. node = [rule |-> r, params |-> params, kids |-> f[N]]
  BY <1>3, <1>9
<1>11. QED
  BY <1>8, <1>9, <1>10 DEF node

LEMMA OptimizedEvenly ==
  ASSUME NEW top, NEW trie, GoodTrie(trie, top), Letterwise(trie)
  PROVE  Evenly(Optimize(trie))
<1> DEFINE b == Optimize(trie)
           N == Len(trie)
<1>1. N \in Nat /\ DOMAIN trie = 1..N
  BY DEF GoodTrie, TrieOK
<1>2. b = [n \in 1..N |-> OptimizeNode(trie, n)]
  BY <1>1 DEF Optimize
<1>3. Len(b) = N
  BY <1>1, <1>2
<1> HIDE DEF b
<1>4. \A n \in 1..N : \E l \in Nat : Even(b[n].kids, l)
  BY <1>2, OptimizeNodeGood
<1>5. QED
  BY <1>3, <1>4 DEF Evenly, b

LEMMA OptimizeGood ==
  ASSUME NEW top \in Nat, NEW trie, GoodTrie(trie, top)
  PROVE  /\ GoodTrie(Optimize(trie), top)
         /\ \A t, i : Spelled(Optimize(trie), t, i) <=> Spelled(trie, t, i)
<1> DEFINE b == Optimize(trie)
           N == Len(trie)
<1>1. /\ TrieOK(trie, top) /\ Unique(trie) /\ LiteralKids(trie) /\ Settled(trie)
      /\ trie \in Seq(Nodes) /\ N \in Nat /\ DOMAIN trie = 1..N /\ N >= 1
  BY DEF GoodTrie, TrieOK
<1>2. TrieOK(b, top)
  BY <1>1, OptimizeKeepsType
<1>3. b = [n \in 1..N |-> OptimizeNode(trie, n)]
  BY <1>1 DEF Optimize
<1>4. Len(b) = N
  BY <1>1, <1>3
<1> HIDE DEF b
<1>5. \A n \in 1..N : /\ b[n].rule = trie[n].rule /\ b[n].params = trie[n].params
                      /\ MergeOK(trie, n, b[n].kids, N)
  BY <1>3, OptimizeNodeGood
<1>6. \A n \in 1..N : IsSimpleNode(b[n]) <=> IsSimpleNode(trie[n])
  BY <1>5 DEF IsSimpleNode
\* Every name in b was one.
<1>7. Names(b) \subseteq Names(trie)
  <2> DEFINE R == {q \in Places(b) : q \in Names(trie)}
  <2>1. R \in SUBSET Places(b)
    OBVIOUS
  <2>2. Places(b) = Places(trie)
    BY <1>4 DEF Places
  <2>3. \A n \in 1..Len(b) : <<n, <<>>, n>> \in R
    <3>1. \A n \in 1..Len(b) : <<n, <<>>, n>> \in Names(trie)
      BY <1>1, <1>4, NamesRoot
    <3>2. QED
      BY <2>2, <3>1 DEF Names
  <2>4. ASSUME NEW n \in 1..Len(b), NEW e \in Edges(b[n]), NEW s \in Templates,
               NEW x \in 1..Len(b), <<e[2], s, x>> \in R
        PROVE  <<n, e[1] \o s, x>> \in R
    <3>1. <<n, e[1], e[2]>> \in Names(trie)
      <4>1. ASSUME NEW f \in DOMAIN b[n].kids, e = <<f, b[n].kids[f]>>
            PROVE  <<n, e[1], e[2]>> \in Names(trie)
        <5>1. <<n, f, b[n].kids[f]>> \in Names(trie)
          BY <1>4, <1>5 DEF MergeOK
        <5>2. QED
          BY <4>1, <5>1
      <4>2. ASSUME NEW p \in DOMAIN Tags, b[n].params[p] # 0, e = <<<<Tags[p]>>, b[n].params[p]>>
            PROVE  <<n, e[1], e[2]>> \in Names(trie)
        <5>1. e \in Edges(trie[n])
          BY <1>4, <1>5, <4>2 DEF Edges
        <5>2. e = <<e[1], e[2]>>
          BY <4>2
        <5>3. <<e[1], e[2]>> \in Edges(trie[n])
          BY <5>1, <5>2
        <5>4. QED
          BY <1>1, <1>4, <5>3, EdgeName
      <4>3. QED
        BY <4>1, <4>2 DEF Edges
    <3>2. <<n, e[1] \o s, x>> \in Names(trie)
      BY <1>1, <2>4, <3>1, NamesJoin
    <3>3. QED
      BY <2>2, <3>2 DEF Names
  <2>5. Closed(b, R)
    BY <2>3, <2>4 DEF Closed
  <2>6. QED
    BY <2>1, <2>5, NamesLeast
\* A name of a node that is not simple is a name in b: from the last node up.
<1>8. ASSUME NEW n, NEW s, NEW x, <<n, s, x>> \in Names(trie), ~IsSimpleNode(trie[x])
      PROVE  <<n, s, x>> \in Names(b)
  <2> DEFINE Kept(m) == \A t : <<m, t, x>> \in Names(trie) => <<m, t, x>> \in Names(b)
             T == {k \in Nat : \A m \in 1..N : m + k >= N => Kept(m)}
  <2>1. ASSUME NEW m \in 1..N, \A j \in 1..N : j > m => Kept(j)
        PROVE  Kept(m)
    <3>1. SUFFICES ASSUME NEW t, <<m, t, x>> \in Names(trie)
                   PROVE  <<m, t, x>> \in Names(b)
      OBVIOUS
    <3>2. CASE t = <<>> /\ x = m
      BY <1>2, <1>4, <3>2, NamesRoot
    <3>3. ASSUME NEW e \in Edges(b[m]), NEW u, t = e[1] \o u, <<e[2], u, x>> \in Names(trie)
          PROVE  <<m, t, x>> \in Names(b)
      <4>1. e[2] \in (m + 1)..N
        BY <1>2, <1>4, EdgesType
      <4>2. e[2] \in 1..N /\ e[2] > m
        BY <1>1, <4>1
      <4>3. <<e[2], u, x>> \in Names(b)
        BY <2>1, <3>3, <4>2
      <4>4. <<m, e[1] \o u, x>> \in Names(b)
        BY <1>2, <1>4, <4>3, NamesStep
      <4>5. QED
        BY <3>3, <4>4
    <3>4. ASSUME NEW e \in Edges(trie[m]), NEW u \in Templates, t = e[1] \o u,
                 <<e[2], u, x>> \in Names(trie)
          PROVE  <<m, t, x>> \in Names(b)
      <4>1. ASSUME NEW p \in DOMAIN Tags, trie[m].params[p] # 0,
                   e = <<<<Tags[p]>>, trie[m].params[p]>>
            PROVE  <<m, t, x>> \in Names(b)
        <5>1. e \in Edges(b[m])
          BY <1>5, <4>1 DEF Edges
        <5>2. QED
          BY <3>3, <3>4, <5>1
      <4>2. ASSUME NEW f \in DOMAIN trie[m].kids, e = <<f, trie[m].kids[f]>>
            PROVE  <<m, t, x>> \in Names(b)
        <5>1. t = f \o u /\ <<trie[m].kids[f], u, x>> \in Names(trie)
          BY <3>4, <4>2
        <5>2. Reaches(trie, trie[m].kids, t, x)
          BY <5>1 DEF Reaches
        <5>3. Reaches(trie, b[m].kids, t, x)
          BY <1>5, <1>8, <5>2 DEF MergeOK
        <5>4. PICK g \in DOMAIN b[m].kids, v \in Templates :
                t = g \o v /\ <<b[m].kids[g], v, x>> \in Names(trie)
          BY <5>3 DEF Reaches
        <5> DEFINE d == <<g, b[m].kids[g]>>
        <5>5. d \in Edges(b[m]) /\ d[1] = g /\ d[2] = b[m].kids[g]
          BY DEF Edges
        <5> HIDE DEF d
        <5>6. t = d[1] \o v /\ <<d[2], v, x>> \in Names(trie)
          BY <5>4, <5>5
        <5>7. \A h \in Edges(b[m]) : \A w :
                t = h[1] \o w /\ <<h[2], w, x>> \in Names(trie) => <<m, t, x>> \in Names(b)
          BY <3>3
        <5>8. QED
          BY <5>5, <5>6, <5>7
      <4>3. QED
        BY <4>1, <4>2 DEF Edges
    <3>5. CASE ~(t = <<>> /\ x = m)
      <4>1. \E e \in Edges(trie[m]) : \E u \in Templates :
              t = e[1] \o u /\ <<e[2], u, x>> \in Names(trie)
        BY <1>1, <3>1, <3>5, NamesBack
      <4>2. PICK e \in Edges(trie[m]) : \E u \in Templates :
              t = e[1] \o u /\ <<e[2], u, x>> \in Names(trie)
        BY <4>1
      <4>3. PICK u \in Templates : t = e[1] \o u /\ <<e[2], u, x>> \in Names(trie)
        BY <4>2
      <4>4. QED
        BY <3>4, <4>3
    <3>6. QED
      BY <3>2, <3>5
  <2> HIDE DEF Kept
  <2>2. 0 \in T
    <3>1. SUFFICES ASSUME NEW m \in 1..N, m + 0 >= N
                   PROVE  Kept(m)
      OBVIOUS
    <3>2. \A j \in 1..N : ~(j > m)
      BY <1>1, <3>1
    <3>3. QED
      BY <2>1, <3>2
  <2>3. ASSUME NEW k \in Nat, k \in T
        PROVE  k + 1 \in T
    <3>1. SUFFICES ASSUME NEW m \in 1..N, m + (k + 1) >= N
                   PROVE  Kept(m)
      OBVIOUS
    <3>2. ASSUME NEW j \in 1..N, j > m
          PROVE  Kept(j)
      <4>1. j + k >= N
        BY <1>1, <3>1, <3>2
      <4>2. QED
        BY <2>3, <4>1
    <3>3. QED
      BY <2>1, <3>2
  <2>4. N \in T
    BY <1>1, <2>2, <2>3, Induction
  <2>5. n \in 1..N
    BY <1>8, NamesType
  <2>6. Kept(n)
    <3>1. n + N >= N
      BY <1>1, <2>5
    <3>2. QED
      BY <2>4, <2>5, <3>1
  <2>7. QED
    BY <1>8, <2>6 DEF Kept
<1>9. Unique(b)
  BY <1>1, <1>7 DEF Unique
<1>10. LiteralKids(b)
  BY <1>4, <1>5 DEF LiteralKids, MergeOK, Letters
<1>11. Settled(b)
  <2>1. SUFFICES ASSUME NEW n \in 1..N
                 PROVE  OneLetter(b[n].kids) \/ Stopped(b, b[n].kids)
    BY <1>4 DEF Settled
  <2>2. \A f \in DOMAIN b[n].kids : b[n].kids[f] \in (n + 1)..N /\ b[n].kids[f] \in 1..N
    <3>1. Below(b[n], n + 1, N)
      BY <1>2, <1>4 DEF TrieOK
    <3>2. SUFFICES ASSUME NEW f \in DOMAIN b[n].kids
                   PROVE  b[n].kids[f] \in (n + 1)..N /\ b[n].kids[f] \in 1..N
      OBVIOUS
    <3>3. b[n].kids[f] \in (n + 1)..N
      BY <3>1 DEF Below
    <3>4. QED
      BY <1>1, <3>3
  <2>3. CASE Stopped(trie, b[n].kids)
    BY <1>6, <2>2, <2>3 DEF Stopped
  <2>4. CASE ~Stopped(trie, b[n].kids)
    <3>1. \A f \in DOMAIN b[n].kids : b[n].kids[f] >= n + 1 + N
      BY <1>5, <2>4 DEF MergeOK
    <3>2. ASSUME NEW f \in DOMAIN b[n].kids
          PROVE  FALSE
      <4>1. PICK y \in 1..N : y = b[n].kids[f]
        BY <2>2
      <4>2. y >= n + 1 + N
        BY <3>1, <4>1
      <4>3. QED
        BY <1>1, <4>2
    <3>3. QED
      BY <3>2 DEF OneLetter
  <2>5. QED
    BY <2>3, <2>4
<1>12. GoodTrie(b, top)
  BY <1>2, <1>9, <1>10, <1>11 DEF GoodTrie
<1>13. ASSUME NEW t, NEW i
       PROVE  Spelled(b, t, i) <=> Spelled(trie, t, i)
  <2>1. ASSUME Spelled(b, t, i)
        PROVE  Spelled(trie, t, i)
    BY <1>4, <1>5, <1>7, <2>1 DEF Spelled
  <2>2. ASSUME Spelled(trie, t, i)
        PROVE  Spelled(b, t, i)
    <3>1. PICK x \in 1..N : i # 0 /\ <<1, t, x>> \in Names(trie) /\ trie[x].rule = i
      BY <2>2 DEF Spelled
    <3>2. ~IsSimpleNode(trie[x])
      BY <3>1 DEF IsSimpleNode
    <3>3. <<1, t, x>> \in Names(b)
      BY <1>8, <3>1, <3>2
    <3>4. QED
      BY <1>4, <1>5, <3>1, <3>3 DEF Spelled
  <2>3. QED
    BY <2>1, <2>2
<1>14. QED
  BY <1>12, <1>13 DEF b

-----------------------------------------------------------------------------
(* Reading a path with a template, element by element.                     *)

ReadStep(f, template, url, start, k) ==
  IF k = 0 THEN start ELSE Take(f[k - 1], template[k], url)

\* f is a table of the readers after the first n elements.
ReadUpTo(f, template, url, start, n) ==
  f = [k \in 0..n |-> ReadStep(f, template, url, start, k)]

LEMMA SomeRead ==
  ASSUME NEW template, NEW url, NEW start
  PROVE  \A n \in Nat : \E f : ReadUpTo(f, template, url, start, n)
<1> DEFINE T == {n \in Nat : \E f : ReadUpTo(f, template, url, start, n)}
<1>1. 0 \in T
  <2> DEFINE g == [k \in 0..0 |-> start]
  <2>1. \A k \in 0..0 : ReadStep(g, template, url, start, k) = start
    BY DEF ReadStep
  <2>2. ReadUpTo(g, template, url, start, 0)
    BY <2>1 DEF ReadUpTo
  <2>3. QED
    BY <2>2
<1>2. ASSUME NEW n \in Nat, n \in T
      PROVE  n + 1 \in T
  <2>1. PICK f : ReadUpTo(f, template, url, start, n)
    BY <1>2
  <2> DEFINE g == [k \in 0..(n + 1) |-> ReadStep(f, template, url, start, k)]
  <2>2. \A k \in 0..n : g[k] = f[k]
    BY <2>1 DEF ReadUpTo
  <2>3. ASSUME NEW k \in 0..(n + 1)
        PROVE  ReadStep(g, template, url, start, k) = ReadStep(f, template, url, start, k)
    <3>1. CASE k = 0
      BY <3>1 DEF ReadStep
    <3>2. CASE k # 0
      <4>1. k - 1 \in 0..n
        BY <3>2
      <4>2. g[k - 1] = f[k - 1]
        BY <2>2, <4>1
      <4> HIDE DEF g
      <4>3. QED
        BY <3>2, <4>2 DEF ReadStep
    <3>3. QED
      BY <3>1, <3>2
  <2>4. ReadUpTo(g, template, url, start, n + 1)
    BY <2>3 DEF ReadUpTo
  <2>5. QED
    BY <2>4
<1>3. QED
  BY <1>1, <1>2, Induction

\* f is the table of a reading.
Reading(f, template, url, start) ==
  /\ f[0] = start
  /\ \A k \in 1..Len(template) : f[k] = Take(f[k - 1], template[k], url)

LEMMA ReadingIs ==
  ASSUME NEW template, Len(template) \in Nat, NEW url, NEW start
  PROVE  \E f : /\ Reading(f, template, url, start)
                /\ ReadOver(template, url, start) = f[Len(template)]
<1> DEFINE N == Len(template)
           f == CHOOSE f : f = [k \in 0..N |-> ReadStep(f, template, url, start, k)]
<1>1. f = [k \in 0..N |-> ReadStep(f, template, url, start, k)]
  <2>1. \E g : ReadUpTo(g, template, url, start, N)
    BY SomeRead
  <2>2. QED
    BY <2>1, Zenon DEF ReadUpTo
<1>2. ReadOver(template, url, start) = f[N]
  BY Zenon DEF ReadOver, ReadStep
<1> HIDE DEF f
<1>3. \A k \in 0..N : f[k] = ReadStep(f, template, url, start, k)
  BY <1>1
<1>4. f[0] = start
  BY <1>3 DEF ReadStep
<1>5. ASSUME NEW k \in 1..N
      PROVE  f[k] = Take(f[k - 1], template[k], url)
  <2>1. k \in 0..N /\ k # 0
    OBVIOUS
  <2>2. QED
    BY <1>3, <2>1 DEF ReadStep
<1>6. QED
  BY <1>2, <1>4, <1>5 DEF Reading

\* Any table of a reading ends where the reading does.
LEMMA ReadingEnds ==
  ASSUME NEW template, Len(template) \in Nat, NEW url, NEW start, NEW g,
         Reading(g, template, url, start)
  PROVE  ReadOver(template, url, start) = g[Len(template)]
<1> DEFINE N == Len(template)
<1>1. PICK f : /\ Reading(f, template, url, start)
               /\ ReadOver(template, url, start) = f[N]
  BY ReadingIs
<1> DEFINE S == {k \in Nat : k <= N => f[k] = g[k]}
<1>2. 0 \in S
  BY <1>1 DEF Reading
<1>3. ASSUME NEW k \in Nat, k \in S
      PROVE  k + 1 \in S
  <2>1. SUFFICES ASSUME k + 1 <= N
                 PROVE  f[k + 1] = g[k + 1]
    OBVIOUS
  <2>2. f[k] = g[k]
    BY <1>3, <2>1
  <2>3. k + 1 \in 1..N /\ k + 1 - 1 = k
    BY <2>1
  <2>4. f[k + 1] = Take(f[k], template[k + 1], url) /\ g[k + 1] = Take(g[k], template[k + 1], url)
    BY <1>1, <2>3 DEF Reading
  <2>5. QED
    BY <2>2, <2>4
<1>4. N \in S
  BY <1>2, <1>3, Induction
<1>5. QED
  BY <1>1, <1>4

LEMMA ReadNone ==
  ASSUME NEW url, NEW start
  PROVE  ReadOver(<<>>, url, start) = start
<1>1. PICK f : Reading(f, <<>>, url, start) /\ ReadOver(<<>>, url, start) = f[Len(<<>>)]
  BY ReadingIs
<1>2. QED
  BY <1>1 DEF Reading

LEMMA ReadOne ==
  ASSUME NEW url, NEW start, NEW e
  PROVE  ReadOver(<<e>>, url, start) = Take(start, e, url)
<1>1. Len(<<e>>) = 1 /\ <<e>>[1] = e
  OBVIOUS
<1>2. PICK f : Reading(f, <<e>>, url, start) /\ ReadOver(<<e>>, url, start) = f[1]
  BY <1>1, ReadingIs
<1>3. f[0] = start /\ f[1] = Take(f[1 - 1], e, url)
  BY <1>1, <1>2 DEF Reading
<1>4. QED
  BY <1>2, <1>3

\* Reading on where another template ended.
LEMMA ReadJoin ==
  ASSUME NEW s \in Templates, NEW t \in Templates, NEW url, NEW start
  PROVE  ReadOver(s \o t, url, start) = ReadOver(t, url, ReadOver(s, url, start))
<1> DEFINE M == Len(s)
           N == Len(t)
<1>1. /\ M \in Nat /\ N \in Nat /\ Len(s \o t) = M + N
      /\ \A i \in 1..(M + N) : (s \o t)[i] = IF i <= M THEN s[i] ELSE t[i - M]
  BY ConcatProperties, LenProperties DEF Templates
<1>2. PICK f : Reading(f, s, url, start) /\ ReadOver(s, url, start) = f[M]
  BY <1>1, ReadingIs
<1>3. PICK h : Reading(h, t, url, f[M]) /\ ReadOver(t, url, f[M]) = h[N]
  BY <1>1, ReadingIs
<1> DEFINE g == [k \in 0..(M + N) |-> IF k <= M THEN f[k] ELSE h[k - M]]
<1>4. \A k \in 0..M : g[k] = f[k]
  BY <1>1
<1>5. ASSUME NEW k \in 0..N
      PROVE  g[M + k] = h[k]
  <2>1. CASE k = 0
    BY <1>1, <1>3, <2>1 DEF Reading
  <2>2. CASE k # 0
    <3>1. M + k \in 0..(M + N) /\ ~(M + k <= M) /\ M + k - M = k
      BY <1>1, <2>2
    <3>2. QED
      BY <3>1
  <2>3. QED
    BY <2>1, <2>2
<1> HIDE DEF g
<1>6. g[0] = start
  BY <1>1, <1>2, <1>4 DEF Reading
<1>7. ASSUME NEW k \in 1..(M + N)
      PROVE  g[k] = Take(g[k - 1], (s \o t)[k], url)
  <2>1. CASE k <= M
    <3>1. k \in 0..M /\ k - 1 \in 0..M /\ k \in 1..M
      BY <1>1, <2>1
    <3>2. g[k] = f[k] /\ g[k - 1] = f[k - 1] /\ (s \o t)[k] = s[k]
      BY <1>1, <1>4, <2>1, <3>1
    <3>3. QED
      BY <1>2, <3>1, <3>2 DEF Reading
  <2>2. CASE ~(k <= M)
    <3>1. PICK i \in 1..N : k = M + i
      <4>1. k - M \in 1..N /\ k = M + (k - M)
        BY <1>1, <2>2
      <4>2. QED
        BY <4>1
    <3>2. i \in 0..N /\ i - 1 \in 0..N /\ k - 1 = M + (i - 1) /\ k - M = i
      BY <1>1, <3>1
    <3>3. g[k] = h[i] /\ g[k - 1] = h[i - 1] /\ (s \o t)[k] = t[i]
      BY <1>1, <1>5, <2>2, <3>1, <3>2
    <3>4. h[i] = Take(h[i - 1], t[i], url)
      BY <1>3, <3>1 DEF Reading
    <3>5. QED
      BY <3>3, <3>4
  <2>3. QED
    BY <2>1, <2>2
<1>8. Reading(g, s \o t, url, start)
  BY <1>1, <1>6, <1>7 DEF Reading
<1>9. ReadOver(s \o t, url, start) = g[M + N]
  <2>1. Len(s \o t) \in Nat
    BY <1>1
  <2>2. ReadOver(s \o t, url, start) = g[Len(s \o t)]
    BY <1>8, <2>1, ReadingEnds
  <2>3. QED
    BY <1>1, <2>2
<1>10. g[M + N] = h[N]
  BY <1>1, <1>5
<1>11. QED
  BY <1>2, <1>3, <1>9, <1>10

-----------------------------------------------------------------------------
(* What one element takes.                                                 *)

CppTypes == {"int", "uint", "double", "string"}
Values(url) ==
  {NumberValue(url, p) : p \in 1..Len(url)}
    \cup {SubSeq(url, p, e - 1) : p \in 1..Len(url), e \in 1..(Len(url) + 1)}
Pairs(url) == CppTypes \X Values(url)
Readers(url) == [pos : 0..(Len(url) + 1), given : Seq(Pairs(url))]
At(pos) == [pos |-> pos, given |-> <<>>]

LEMMA LeastOf ==
  ASSUME NEW S, S \subseteq Nat, S # {}
  PROVE  \E x \in S : \A y \in S : x <= y
<1>1. PICK x \in S : \A y \in S : <<y, x>> \notin OpToRel(<, Nat)
  BY WFMin, NatLessThanWellFounded, Zenon
<1>2. ASSUME NEW y \in S
      PROVE  x <= y
  <2>1. x \in Nat /\ y \in Nat
    OBVIOUS
  <2>2. ~(y < x)
    BY <1>1, <2>1 DEF OpToRel
  <2>3. QED
    BY <2>1, <2>2
<1>3. QED
  BY <1>2

LEMMA SegmentBounds ==
  ASSUME NEW url, Len(url) \in Nat, NEW pos \in 1..Len(url)
  PROVE  SegmentEnd(url, pos) \in pos..(Len(url) + 1)
<1> DEFINE L == Len(url)
           D == {e \in pos..(L + 1) : e > L \/ url[e] = "/"}
<1>1. D \subseteq Nat /\ L + 1 \in D
  OBVIOUS
<1>2. PICK x \in D : \A y \in D : x <= y
  BY <1>1, LeastOf
<1>3. ASSUME NEW i \in pos..(x - 1)
      PROVE  url[i] # "/"
  <2>1. i \in pos..(L + 1) /\ ~(x <= i)
    BY <1>2
  <2>2. i \notin D
    BY <1>2, <2>1
  <2>3. QED
    BY <2>1, <2>2
<1>4. \E e \in pos..(L + 1) :
        /\ \A i \in pos..(e - 1) : url[i] # "/"
        /\ e > L \/ url[e] = "/"
  BY <1>2, <1>3
<1>5. QED
  BY <1>4, Zenon DEF SegmentEnd

LEMMA NumberBounds ==
  ASSUME NEW url, Len(url) \in Nat, NEW pos \in 1..Len(url)
  PROVE  LET number == NumberAt(url, pos) IN
         /\ number.end \in pos..(Len(url) + 1)
         /\ number.value = NumberValue(url, pos)
         /\ number.end # pos => IsDigit(url[pos]) \/ url[pos] \in {"+", "-"}
<1> DEFINE L == Len(url)
           first == NumberStart(url, pos)
           D == {e \in first..(L + 1) : e > L \/ ~IsDigit(url[e])}
           last == NumberEnd(url, pos)
<1>1. first = pos \/ first = pos + 1
  BY DEF NumberStart
<1>2. first \in pos..(L + 1) /\ first \in Nat
  BY <1>1
<1> HIDE DEF first
<1>3. D \subseteq Nat /\ L + 1 \in D
  BY <1>2
<1>4. PICK x \in D : \A y \in D : x <= y
  BY <1>3, LeastOf
<1>5. ASSUME NEW i \in first..(x - 1)
      PROVE  IsDigit(url[i])
  <2>1. i \in first..(L + 1) /\ ~(x <= i)
    BY <1>2, <1>4
  <2>2. i \notin D
    BY <1>4, <2>1
  <2>3. QED
    BY <2>1, <2>2
<1>6. \E e \in first..(L + 1) :
        /\ \A i \in first..(e - 1) : IsDigit(url[i])
        /\ e > L \/ ~IsDigit(url[e])
  BY <1>4, <1>5
<1>7. /\ last \in first..(L + 1)
      /\ \A i \in first..(last - 1) : IsDigit(url[i])
  BY <1>6, Zenon DEF NumberEnd, first
<1> HIDE DEF last
<1>8. /\ NumberAt(url, pos).end = (IF last = first THEN pos ELSE last)
      /\ NumberAt(url, pos).value = NumberValue(url, pos)
  BY DEF NumberAt, last, first
<1>9. NumberAt(url, pos).end \in pos..(L + 1)
  BY <1>2, <1>7, <1>8
<1>10. ASSUME NumberAt(url, pos).end # pos
       PROVE  IsDigit(url[pos]) \/ url[pos] \in {"+", "-"}
  <2>1. last # first
    BY <1>8, <1>10
  <2>2. CASE first = pos
    <3>1. pos \in first..(last - 1)
      BY <1>2, <1>7, <2>1, <2>2
    <3>2. QED
      BY <1>7, <3>1
  <2>3. CASE first # pos
    BY <2>3 DEF first, NumberStart
  <2>4. QED
    BY <2>2, <2>3
<1>11. QED
  BY <1>8, <1>9, <1>10

LEMMA TagKinds ==
  /\ TypeOfTag("<str>") = "string" /\ TypeOfTag("<path>") = "path"
  /\ \A e \in TagNames \ {"<str>", "<path>"} : TypeOfTag(e) \in {"int", "uint", "double"}
  /\ {"<str>", "<path>"} \subseteq TagNames
<1>1. {"<str>", "<path>"} \subseteq TagNames
  <2>1. /\ "string" \in DOMAIN Tags /\ Tags["string"] = "<str>"
        /\ "path" \in DOMAIN Tags /\ Tags["path"] = "<path>"
    BY DEF Tags
  <2>2. QED
    BY <2>1 DEF TagNames
<1>2. \A p \in DOMAIN Tags : p \in {"int", "uint", "double", "string", "path"}
  BY DEF Tags
<1>3. /\ Tags["int"] = "<int>" /\ Tags["uint"] = "<uint>" /\ Tags["double"] = "<double>"
      /\ Tags["string"] = "<str>" /\ Tags["path"] = "<path>"
  BY DEF Tags
<1>4. ASSUME NEW e \in TagNames
      PROVE  /\ TypeOfTag(e) \in {"int", "uint", "double", "string", "path"}
             /\ Tags[TypeOfTag(e)] = e
  BY <1>2, TagTypes
<1>5. QED
  BY <1>1, <1>3, <1>4

\* The effect of an element on a reader: where it goes on, and what it is given.
Effect(e, url, pos, end, new) ==
  /\ end \in (pos + 1)..(Len(url) + 1)
  /\ new \in Seq(Pairs(url))
  /\ e \in TagNames =>
       \E v \in Values(url) : new = <<<<CppType(TypeOfTag(e)), v>>>>
  /\ e \notin TagNames => new = <<>>
  /\ \A given : Take([pos |-> pos, given |-> given], e, url)
                  = [pos |-> end, given |-> given \o new]

Refused(e, url, pos) ==
  \A given : Take([pos |-> pos, given |-> given], e, url) = Lost

LEMMA TakeText ==
  ASSUME NEW url \in Seq(PathChars), NEW pos \in 1..Len(url),
         NEW e \in {"<str>", "<path>"},
         NEW end, end = (IF e = "<str>" THEN SegmentEnd(url, pos) ELSE Len(url) + 1)
  PROVE  IF end # pos
         THEN Effect(e, url, pos, end, <<<<"string", SubSeq(url, pos, end - 1)>>>>)
         ELSE Refused(e, url, pos)
<1> DEFINE v == SubSeq(url, pos, end - 1)
           new == <<<<"string", v>>>>
<1>1. Len(url) \in Nat
  OBVIOUS
<1>2. end \in pos..(Len(url) + 1)
  <2>1. Len(url) + 1 \in pos..(Len(url) + 1)
    BY <1>1
  <2>2. QED
    BY <1>1, <2>1, SegmentBounds
<1>3. v \in Values(url)
  <2>1. end \in 1..(Len(url) + 1)
    BY <1>1, <1>2
  <2>2. QED
    BY <2>1 DEF Values
<1>4. new \in Seq(Pairs(url))
  <2> HIDE DEF v
  <2>1. <<"string", v>> \in Pairs(url)
    BY <1>3 DEF Pairs, CppTypes
  <2>2. QED
    BY <2>1
<1>5. CppType(TypeOfTag(e)) = "string" /\ e \in TagNames
  BY TagKinds DEF CppType
<1>6. ASSUME NEW given
      PROVE  Take([pos |-> pos, given |-> given], e, url)
               = IF end # pos THEN [pos |-> end, given |-> given \o new] ELSE Lost
  <2> DEFINE r == [pos |-> pos, given |-> given]
  <2>1. r.pos = pos /\ r.given = given
    OBVIOUS
  <2> HIDE DEF r
  <2>2. Take(r, e, url) = ReadText(r, end, url)
    <3>1. CASE e = "<str>"
      BY <2>1, <3>1, TagKinds DEF Take
    <3>2. CASE e = "<path>"
      BY <2>1, <3>2, TagKinds DEF Take
    <3>3. QED
      BY <3>1, <3>2
  <2>3. QED
    BY <2>1, <2>2 DEF ReadText, ReadOn, r
<1> HIDE DEF v
<1>7. CASE end # pos
  <2>1. end \in (pos + 1)..(Len(url) + 1)
    BY <1>1, <1>2, <1>7
  <2>2. \E w \in Values(url) : new = <<<<CppType(TypeOfTag(e)), w>>>>
    BY <1>3, <1>5
  <2>3. QED
    BY <1>4, <1>5, <1>6, <1>7, <2>1, <2>2 DEF Effect, v
<1>8. CASE end = pos
  BY <1>6, <1>8 DEF Refused
<1>9. QED
  BY <1>7, <1>8

LEMMA TakeNumber ==
  ASSUME NEW url \in Seq(PathChars), NEW pos \in 1..Len(url),
         NEW e \in TagNames \ {"<str>", "<path>"}
  PROVE  LET number == NumberAt(url, pos)
             type   == TypeOfTag(e)
         IN  IF number.end # pos /\ InRange(type, number.value)
                /\ (url[pos] # "-" \/ type # "uint")
             THEN Effect(e, url, pos, number.end, <<<<type, number.value>>>>)
             ELSE Refused(e, url, pos)
<1> DEFINE number == NumberAt(url, pos)
           end == number.end
           v == number.value
           type == TypeOfTag(e)
           new == <<<<type, v>>>>
           cond == end # pos /\ InRange(type, v) /\ (url[pos] # "-" \/ type # "uint")
<1>1. Len(url) \in Nat
  OBVIOUS
<1>2. end \in pos..(Len(url) + 1) /\ v = NumberValue(url, pos)
  BY <1>1, NumberBounds
<1>3. v \in Values(url)
  BY <1>2 DEF Values
<1>4. type \in {"int", "uint", "double"} /\ CppType(type) = type /\ type \in CppTypes
  BY TagKinds DEF CppType, CppTypes
<1>5. ASSUME NEW given
      PROVE  Take([pos |-> pos, given |-> given], e, url)
               = IF cond THEN [pos |-> end, given |-> given \o new] ELSE Lost
  <2> DEFINE r == [pos |-> pos, given |-> given]
  <2>1. r.pos = pos /\ r.given = given
    OBVIOUS
  <2> HIDE DEF r
  <2>2. Take(r, e, url) = ReadNumber(r, type, url)
    BY <2>1 DEF Take
  <2>3. QED
    BY <2>1, <2>2 DEF ReadNumber, ReadOn, r
<1> HIDE DEF v, type, end, number
<1>6. new \in Seq(Pairs(url))
  BY <1>3, <1>4 DEF Pairs
<1>7. CASE cond
  <2>1. end \in (pos + 1)..(Len(url) + 1)
    BY <1>1, <1>2, <1>7
  <2>2. \E w \in Values(url) : new = <<<<CppType(TypeOfTag(e)), w>>>>
    BY <1>3, <1>4 DEF type
  <2>3. Effect(e, url, pos, end, new)
    BY <1>5, <1>6, <1>7, <2>1, <2>2 DEF Effect
  <2>4. QED
    BY <1>7, <2>3 DEF v, type, end, number
<1>8. CASE ~cond
  <2>1. Refused(e, url, pos)
    BY <1>5, <1>8 DEF Refused
  <2>2. QED
    BY <1>8, <2>1 DEF v, type, end, number
<1>9. QED
  BY <1>7, <1>8

LEMMA TakeLetter ==
  ASSUME NEW url \in Seq(PathChars), NEW pos \in 1..Len(url), NEW e, e \notin TagNames
  PROVE  IF url[pos] = e THEN Effect(e, url, pos, pos + 1, <<>>) ELSE Refused(e, url, pos)
<1>1. ASSUME NEW given
      PROVE  Take([pos |-> pos, given |-> given], e, url)
               = IF url[pos] = e THEN [pos |-> pos + 1, given |-> given \o <<>>] ELSE Lost
  <2> DEFINE r == [pos |-> pos, given |-> given]
  <2>1. r.pos = pos /\ r.given = given
    OBVIOUS
  <2> HIDE DEF r
  <2>2. Take(r, e, url) = ReadLetter(r, e, url)
    BY <2>1, TagKinds DEF Take
  <2>3. QED
    BY <2>1, <2>2 DEF ReadLetter, ReadOn, r
<1>2. CASE url[pos] = e
  <2>1. pos + 1 \in (pos + 1)..(Len(url) + 1) /\ <<>> \in Seq(Pairs(url))
    OBVIOUS
  <2>2. QED
    BY <1>1, <1>2, <2>1 DEF Effect
<1>3. CASE url[pos] # e
  BY <1>1, <1>3 DEF Refused
<1>4. QED
  BY <1>2, <1>3

LEMMA TakeIs ==
  ASSUME NEW url \in Seq(PathChars), NEW pos \in 1..Len(url), NEW e
  PROVE  \/ \E end, new : Effect(e, url, pos, end, new)
         \/ Refused(e, url, pos)
<1>1. CASE e \in {"<str>", "<path>"}
  <2> DEFINE end == IF e = "<str>" THEN SegmentEnd(url, pos) ELSE Len(url) + 1
  <2>1. IF end # pos
        THEN Effect(e, url, pos, end, <<<<"string", SubSeq(url, pos, end - 1)>>>>)
        ELSE Refused(e, url, pos)
    BY <1>1, TakeText
  <2>2. QED
    BY <2>1
<1>2. CASE e \in TagNames \ {"<str>", "<path>"}
  BY <1>2, TakeNumber
<1>3. CASE e \notin TagNames
  BY <1>3, TakeLetter
<1>4. QED
  BY <1>1, <1>2, <1>3, TagKinds

-----------------------------------------------------------------------------
(* What a template takes.                                                  *)

LEMMA TakeOutside ==
  ASSUME NEW url, NEW r, r.pos \notin 1..Len(url), NEW e
  PROVE  Take(r, e, url) = Lost
BY DEF Take

LEMMA ReadLost ==
  ASSUME NEW url, NEW r, r.pos \notin 1..Len(url), NEW template \in Templates, template # <<>>
  PROVE  ReadOver(template, url, r) = Lost
<1> DEFINE N == Len(template)
<1>1. N \in Nat /\ N # 0
  BY EmptySeq, LenProperties DEF Templates
<1>2. PICK f : Reading(f, template, url, r) /\ ReadOver(template, url, r) = f[N]
  BY <1>1, ReadingIs
<1>3. Lost.pos \notin 1..Len(url)
  <2>1. Lost.pos = 0
    BY DEF Lost
  <2>2. QED
    BY <2>1
<1> DEFINE S == {k \in Nat : k <= N => f[k].pos \notin 1..Len(url) /\ (k # 0 => f[k] = Lost)}
<1>4. 0 \in S
  BY <1>2 DEF Reading
<1>5. ASSUME NEW k \in Nat, k \in S
      PROVE  k + 1 \in S
  <2>1. SUFFICES ASSUME k + 1 <= N
                 PROVE  f[k + 1] = Lost
    BY <1>3
  <2>2. f[k].pos \notin 1..Len(url)
    BY <1>1, <1>5, <2>1
  <2>3. k + 1 \in 1..N /\ k + 1 - 1 = k
    BY <1>1, <2>1
  <2>4. f[k + 1] = Take(f[k], template[k + 1], url)
    BY <1>2, <2>3 DEF Reading
  <2>5. QED
    BY <2>2, <2>4, TakeOutside
<1>6. N \in S
  BY <1>1, <1>4, <1>5, Induction
<1>7. QED
  BY <1>1, <1>2, <1>6

LEMMA ListJoin ==
  ASSUME NEW S
  PROVE  \A x, y, z \in Seq(S) : (x \o y) \o z = x \o (y \o z) /\ y \o z \in Seq(S)
<1>1. \A x, y, z \in Seq(S) : (x \o y) \o z = x \o (y \o z)
  BY ConcatAssociative
<1>2. \A y, z \in Seq(S) : y \o z \in Seq(S)
  BY ConcatProperties
<1>3. QED
  BY <1>1, <1>2

\* The same template, by a reader that was given something before.
LEMMA ReadShift ==
  ASSUME NEW url \in Seq(PathChars), NEW pos \in 0..(Len(url) + 1),
         NEW given \in Seq(Pairs(url)), NEW template \in Templates
  PROVE  LET a == ReadOver(template, url, At(pos))
             b == ReadOver(template, url, [pos |-> pos, given |-> given])
         IN  /\ a \in Readers(url)
             /\ IF a.pos = 0 THEN b.pos = 0
                ELSE b = [pos |-> a.pos, given |-> given \o a.given]
<1> DEFINE N == Len(template)
           start == [pos |-> pos, given |-> given]
           L == Len(url)
           P == Pairs(url)
<1>1. N \in Nat /\ L \in Nat
  BY LenProperties DEF Templates
<1>2. PICK f : Reading(f, template, url, At(pos)) /\ ReadOver(template, url, At(pos)) = f[N]
  BY <1>1, ReadingIs
<1>3. PICK g : Reading(g, template, url, start) /\ ReadOver(template, url, start) = g[N]
  BY <1>1, ReadingIs
<1> DEFINE Same(a, b) ==
             /\ a \in Readers(url)
             /\ a.pos = 0 => b.pos = 0
             /\ a.pos # 0 => b = [pos |-> a.pos, given |-> given \o a.given]
           S == {k \in Nat : k <= N => Same(f[k], g[k])}
<1>4. Same(At(pos), start)
  <2>1. At(pos) \in Readers(url) /\ At(pos).pos = pos /\ At(pos).given = <<>>
    BY DEF At, Readers
  <2>2. given \o <<>> = given
    BY ConcatEmptySeq
  <2>3. QED
    BY <2>1, <2>2
<1>5. Lost \in Readers(url) /\ Lost.pos = 0
  BY <1>1 DEF Lost, Readers
<1>6. 0 \in S
  <2>1. f[0] = At(pos) /\ g[0] = start
    BY <1>2, <1>3 DEF Reading
  <2> HIDE DEF start, Same
  <2>2. QED
    BY <1>4, <2>1
<1>7. ASSUME NEW k \in Nat, k \in S
      PROVE  k + 1 \in S
  <2>1. SUFFICES ASSUME k + 1 <= N
                 PROVE  Same(f[k + 1], g[k + 1])
    OBVIOUS
  <2>2. Same(f[k], g[k])
    BY <1>1, <1>7, <2>1
  <2>3. k + 1 \in 1..N /\ k + 1 - 1 = k
    BY <1>1, <2>1
  <2> DEFINE e == template[k + 1]
  <2>4. f[k + 1] = Take(f[k], e, url) /\ g[k + 1] = Take(g[k], e, url)
    BY <1>2, <1>3, <2>3 DEF Reading
  <2> HIDE DEF e
  <2>5. CASE f[k].pos \notin 1..L
    <3>1. g[k].pos \notin 1..L
      BY <1>1, <2>2, <2>5
    <3>2. f[k + 1] = Lost /\ g[k + 1] = Lost
      BY <2>4, <2>5, <3>1, TakeOutside
    <3>3. QED
      BY <1>5, <3>2
  <2>6. CASE f[k].pos \in 1..L
    <3>1. PICK p \in 1..L, h \in Seq(P) : f[k] = [pos |-> p, given |-> h]
      BY <2>2, <2>6 DEF Readers
    <3>2. f[k].pos = p /\ f[k].given = h /\ p # 0
      BY <1>1, <3>1
    <3>3. g[k] = [pos |-> p, given |-> given \o h]
      BY <2>2, <3>2
    <3>4. CASE Refused(e, url, p)
      <4>1. f[k + 1] = Lost /\ g[k + 1] = Lost
        BY <2>4, <3>1, <3>3, <3>4 DEF Refused
      <4>2. QED
        BY <1>5, <4>1
    <3>5. ASSUME NEW end, NEW new, Effect(e, url, p, end, new)
          PROVE  Same(f[k + 1], g[k + 1])
      <4>1. end \in (p + 1)..(L + 1) /\ new \in Seq(P)
        BY <3>5 DEF Effect
      <4>2. f[k + 1] = [pos |-> end, given |-> h \o new]
        BY <2>4, <3>1, <3>5 DEF Effect
      <4>3. g[k + 1] = [pos |-> end, given |-> (given \o h) \o new]
        BY <2>4, <3>3, <3>5 DEF Effect
      <4>4. (given \o h) \o new = given \o (h \o new) /\ h \o new \in Seq(P)
        <5>1. given \in Seq(P)
          OBVIOUS
        <5>2. \A x, y, z \in Seq(P) : (x \o y) \o z = x \o (y \o z) /\ y \o z \in Seq(P)
          BY ListJoin
        <5> HIDE DEF P
        <5>3. QED
          BY <3>1, <4>1, <5>1, <5>2
      <4>5. end \in 0..(L + 1) /\ end # 0
        BY <1>1, <4>1
      <4>6. f[k + 1] \in Readers(url)
        BY <4>2, <4>4, <4>5 DEF Readers
      <4>7. f[k + 1].pos = end /\ f[k + 1].given = h \o new
        BY <4>2
      <4>8. QED
        BY <4>3, <4>4, <4>5, <4>6, <4>7
    <3>6. QED
      BY <3>4, <3>5, TakeIs
  <2>7. QED
    BY <2>5, <2>6
<1>8. N \in S
  BY <1>1, <1>6, <1>7, Induction
<1>9. Same(f[N], g[N])
  BY <1>1, <1>8
<1>10. QED
  BY <1>2, <1>3, <1>9

\* One template after another: the second reads from where the first ended.
LEMMA ReadGoesOn ==
  ASSUME NEW url \in Seq(PathChars), NEW pos \in 1..(Len(url) + 1),
         NEW s \in Templates, NEW t \in Templates
  PROVE  LET a == ReadOver(s, url, At(pos))
             b == ReadOver(t, url, At(a.pos))
             c == ReadOver(s \o t, url, At(pos))
         IN  /\ a \in Readers(url)
             /\ IF a.pos = 0 \/ b.pos = 0 THEN c.pos = 0
                ELSE /\ b \in Readers(url)
                     /\ c = [pos |-> b.pos, given |-> a.given \o b.given]
<1> DEFINE a == ReadOver(s, url, At(pos))
           b == ReadOver(t, url, At(a.pos))
           c == ReadOver(s \o t, url, At(pos))
<1>1. Len(url) \in Nat
  OBVIOUS
<1>2. a \in Readers(url)
  <2>1. pos \in 0..(Len(url) + 1) /\ <<>> \in Seq(Pairs(url))
    BY <1>1
  <2>2. QED
    BY <2>1, ReadShift
<1>3. c = ReadOver(t, url, a)
  BY ReadJoin
<1> HIDE DEF a, c
<1>4. PICK p \in 0..(Len(url) + 1), h \in Seq(Pairs(url)) : a = [pos |-> p, given |-> h]
  BY <1>2 DEF Readers
<1>5. a.pos = p /\ a.given = h
  BY <1>4
<1>6. /\ b \in Readers(url)
      /\ IF b.pos = 0 THEN c.pos = 0 ELSE c = [pos |-> b.pos, given |-> h \o b.given]
  BY <1>3, <1>4, <1>5, ReadShift
<1>7. CASE a.pos = 0
  <2>1. a.pos \notin 1..Len(url)
    BY <1>1, <1>7
  <2>2. CASE t = <<>>
    <3>1. c = a
      BY <1>3, <2>2, ReadNone
    <3>2. QED
      BY <1>2, <1>7, <3>1 DEF a, c
  <2>3. CASE t # <<>>
    <3>1. c = Lost
      BY <1>3, <2>1, <2>3, ReadLost
    <3>2. c.pos = 0
      BY <3>1 DEF Lost
    <3>3. QED
      BY <1>2, <1>7, <3>2 DEF a, c
  <2>4. QED
    BY <2>2, <2>3
<1>8. CASE a.pos # 0
  BY <1>2, <1>5, <1>6, <1>8 DEF a, c
<1>9. QED
  BY <1>7, <1>8

\* A text without tags takes itself.
LEMMA ReadLiteral ==
  ASSUME NEW url \in Seq(PathChars), NEW pos \in 1..Len(url), NEW text \in Seq(Letters)
  PROVE  IF StandsAt(text, url, pos)
         THEN ReadOver(text, url, At(pos)) = At(pos + Len(text))
         ELSE ReadOver(text, url, At(pos)).pos = 0
<1> DEFINE N == Len(text)
           L == Len(url)
<1>1. N \in Nat /\ L \in Nat
  OBVIOUS
<1>2. PICK f : Reading(f, text, url, At(pos)) /\ ReadOver(text, url, At(pos)) = f[N]
  BY <1>1, ReadingIs
<1> DEFINE Agree(k) == \A i \in 1..k : pos + i - 1 <= L /\ url[pos + i - 1] = text[i]
           S == {k \in Nat : k <= N => IF Agree(k) THEN f[k] = At(pos + k) ELSE f[k] = Lost}
<1>3. 0 \in S
  BY <1>2 DEF Reading
<1> HIDE DEF Agree
<1>4. ASSUME NEW k \in Nat, k \in S
      PROVE  k + 1 \in S
  <2>1. SUFFICES ASSUME k + 1 <= N
                 PROVE  IF Agree(k + 1) THEN f[k + 1] = At(pos + (k + 1)) ELSE f[k + 1] = Lost
    OBVIOUS
  <2>2. IF Agree(k) THEN f[k] = At(pos + k) ELSE f[k] = Lost
    BY <1>1, <1>4, <2>1
  <2>3. k + 1 \in 1..N /\ k + 1 - 1 = k
    BY <1>1, <2>1
  <2> DEFINE e == text[k + 1]
  <2>4. f[k + 1] = Take(f[k], e, url)
    BY <1>2, <2>3 DEF Reading
  <2>5. e \notin TagNames
    BY <2>3 DEF Letters
  <2>6. Agree(k + 1) <=> Agree(k) /\ pos + k <= L /\ url[pos + k] = e
    <3>1. \A i : i \in 1..(k + 1) <=> i \in 1..k \/ i = k + 1
      BY <2>3
    <3>2. pos + (k + 1) - 1 = pos + k
      OBVIOUS
    <3>3. QED
      BY <3>1, <3>2 DEF Agree
  <2> HIDE DEF e
  <2>7. CASE ~Agree(k)
    <3>1. f[k] = Lost /\ Lost.pos \notin 1..L
      BY <1>1, <2>2, <2>7 DEF Lost
    <3>2. f[k + 1] = Lost
      BY <2>4, <3>1, TakeOutside
    <3>3. QED
      BY <2>6, <2>7, <3>2
  <2>8. CASE Agree(k) /\ ~(pos + k <= L)
    <3>1. f[k] = At(pos + k) /\ At(pos + k).pos = pos + k
      BY <2>2, <2>8 DEF At
    <3>2. f[k].pos \notin 1..L
      BY <1>1, <2>8, <3>1
    <3>3. f[k + 1] = Lost
      BY <2>4, <3>2, TakeOutside
    <3>4. QED
      BY <2>6, <2>8, <3>3
  <2>9. CASE Agree(k) /\ pos + k <= L
    <3>1. f[k] = [pos |-> pos + k, given |-> <<>>]
      BY <2>2, <2>9 DEF At
    <3>2. pos + k \in 1..L
      BY <1>1, <2>9
    <3>3. CASE url[pos + k] = e
      <4>1. Effect(e, url, pos + k, pos + k + 1, <<>>)
        BY <2>5, <3>2, <3>3, TakeLetter
      <4>2. f[k + 1] = [pos |-> pos + k + 1, given |-> <<>> \o <<>>]
        BY <2>4, <3>1, <4>1 DEF Effect
      <4>3. <<>> \o <<>> = <<>> /\ pos + k + 1 = pos + (k + 1)
        BY ConcatEmptySeq, EmptySeq
      <4>4. f[k + 1] = At(pos + (k + 1))
        BY <4>2, <4>3 DEF At
      <4>5. QED
        BY <2>6, <2>9, <3>3, <4>4
    <3>4. CASE url[pos + k] # e
      <4>1. Refused(e, url, pos + k)
        BY <2>5, <3>2, <3>4, TakeLetter
      <4>2. f[k + 1] = Lost
        BY <2>4, <3>1, <4>1 DEF Refused
      <4>3. QED
        BY <2>6, <2>9, <3>4, <4>2
    <3>5. QED
      BY <3>3, <3>4
  <2>10. QED
    BY <2>7, <2>8, <2>9
<1>5. N \in S
  BY <1>1, <1>3, <1>4, Induction
<1>6. IF Agree(N) THEN f[N] = At(pos + N) ELSE f[N] = Lost
  BY <1>1, <1>5
<1>7. StandsAt(text, url, pos) <=> Agree(N)
  <2> DEFINE part == SubSeq(url, pos, pos + N - 1)
             C == PathChars \cup Letters
  <2>1. CASE pos + N - 1 <= L
    <3>1. /\ part \in Seq(PathChars) /\ Len(part) = N
          /\ \A i \in 1..N : part[i] = url[pos + i - 1]
      <4>1. \A i \in pos..(pos + N - 1) : url[i] \in PathChars
        <5>1. \A i \in pos..(pos + N - 1) : i \in 1..L
          BY <1>1, <2>1
        <5>2. QED
          BY <5>1
      <4>2. /\ part \in Seq(PathChars)
            /\ Len(part) = IF pos <= pos + N - 1 THEN pos + N - 1 - pos + 1 ELSE 0
            /\ \A i \in 1..(pos + N - 1 - pos + 1) : part[i] = url[pos + i - 1]
        BY <1>1, <4>1, SubSeqProperties
      <4>3. pos + N - 1 - pos + 1 = N
        BY <1>1
      <4> HIDE DEF part
      <4>4. QED
        BY <1>1, <4>2, <4>3
    <3> HIDE DEF part
    <3>2. part \in Seq(C) /\ text \in Seq(C)
      BY <3>1
    <3>3. part = text <=> \A i \in 1..N : part[i] = text[i]
      BY <3>1, <3>2, SeqEqual
    <3>4. \A i \in 1..N : pos + i - 1 <= L
      BY <1>1, <2>1
    <3>5. StandsAt(text, url, pos) <=> part = text
      BY <2>1 DEF StandsAt, part
    <3>6. QED
      BY <3>1, <3>3, <3>4, <3>5 DEF Agree
  <2>2. CASE ~(pos + N - 1 <= L)
    <3>1. N \in 1..N
      BY <1>1, <2>2
    <3>2. QED
      BY <2>2, <3>1 DEF StandsAt, Agree
  <2>3. QED
    BY <2>1, <2>2
<1>8. Lost.pos = 0
  BY DEF Lost
<1>9. QED
  BY <1>2, <1>6, <1>7, <1>8

-----------------------------------------------------------------------------
(* The branches of a node are its edges that a reader gets over.           *)

Over(e, url, pos) == ReadOver(e[1], url, At(pos))
Branch(e, url, pos) ==
  [to |-> e[2], pos |-> Over(e, url, pos).pos, pushes |-> Over(e, url, pos).given]
Open(node, url, pos) == {e \in Edges(node) : Over(e, url, pos).pos # 0}

LEMMA TagOfType ==
  ASSUME NEW t \in DOMAIN Tags
  PROVE  Tags[t] \in TagNames /\ TypeOfTag(Tags[t]) = t
<1>1. Tags[t] \in TagNames
  BY DEF TagNames
<1>2. Tags[TypeOfTag(Tags[t])] = Tags[t] /\ TypeOfTag(Tags[t]) \in DOMAIN Tags
  BY <1>1, TagTypes
<1>3. \A p, q \in DOMAIN Tags : Tags[p] = Tags[q] => p = q
  BY DEF Tags
<1>4. QED
  BY <1>1, <1>2, <1>3

LEMMA ReadRefused ==
  ASSUME NEW url, NEW pos, NEW e, Refused(e, url, pos)
  PROVE  ReadOver(<<e>>, url, At(pos)).pos = 0
<1>1. ReadOver(<<e>>, url, At(pos)) = Take([pos |-> pos, given |-> <<>>], e, url)
  BY ReadOne DEF At
<1>2. QED
  BY <1>1 DEF Refused, Lost

LEMMA ReadEffect ==
  ASSUME NEW url \in Seq(PathChars), NEW pos \in 1..Len(url), NEW e, NEW end, NEW new,
         Effect(e, url, pos, end, new)
  PROVE  ReadOver(<<e>>, url, At(pos)) = [pos |-> end, given |-> new] /\ end # 0
<1>1. ReadOver(<<e>>, url, At(pos)) = Take([pos |-> pos, given |-> <<>>], e, url)
  BY ReadOne DEF At
<1>2. /\ end \in (pos + 1)..(Len(url) + 1) /\ new \in Seq(Pairs(url))
      /\ Take([pos |-> pos, given |-> <<>>], e, url) = [pos |-> end, given |-> <<>> \o new]
  BY DEF Effect
<1>3. <<>> \o new = new
  BY <1>2, ConcatEmptySeq
<1>4. QED
  BY <1>1, <1>2, <1>3

LEMMA NumberEdge ==
  ASSUME NEW url \in Seq(PathChars), NEW pos \in 1..Len(url), NEW t \in DOMAIN Signs
  PROVE  LET number == NumberAt(url, pos)
             r      == ReadOver(<<Tags[t]>>, url, At(pos))
         IN  IF /\ IsDigit(url[pos]) \/ url[pos] \in Signs[t]
                /\ number.end # pos
                /\ InRange(t, number.value)
             THEN r = [pos |-> number.end, given |-> <<<<t, number.value>>>>] /\ r.pos # 0
             ELSE r.pos = 0
<1> DEFINE number == NumberAt(url, pos)
           e == Tags[t]
           r == ReadOver(<<e>>, url, At(pos))
<1>1. Len(url) \in Nat /\ t \in {"int", "uint", "double"}
  BY DEF Signs
<1>2. e \in TagNames \ {"<str>", "<path>"} /\ TypeOfTag(e) = t
  <2>1. t \in DOMAIN Tags /\ Tags[t] \notin {"<str>", "<path>"}
    BY <1>1 DEF Tags
  <2>2. QED
    BY <2>1, TagOfType
<1>3. IF number.end # pos /\ InRange(t, number.value) /\ (url[pos] # "-" \/ t # "uint")
      THEN Effect(e, url, pos, number.end, <<<<t, number.value>>>>)
      ELSE Refused(e, url, pos)
  BY <1>2, TakeNumber
<1>4. number.end # pos => IsDigit(url[pos]) \/ url[pos] \in {"+", "-"}
  BY <1>1, NumberBounds
<1>5. number.end # pos =>
        ((url[pos] # "-" \/ t # "uint") <=> (IsDigit(url[pos]) \/ url[pos] \in Signs[t]))
  <2>1. ~IsDigit("-")
    BY DigitsAssumption DEF IsDigit
  <2>2. CASE t = "uint"
    <3>1. Signs[t] = {"+"}
      BY <2>2 DEF Signs
    <3>2. QED
      BY <1>4, <2>1, <2>2, <3>1
  <2>3. CASE t # "uint"
    <3>1. Signs[t] = {"+", "-"}
      BY <1>1, <2>3 DEF Signs
    <3>2. QED
      BY <1>4, <2>3, <3>1
  <2>4. QED
    BY <2>2, <2>3
<1> HIDE DEF number, e
<1>6. CASE /\ IsDigit(url[pos]) \/ url[pos] \in Signs[t]
           /\ number.end # pos
           /\ InRange(t, number.value)
  <2>1. Effect(e, url, pos, number.end, <<<<t, number.value>>>>)
    BY <1>3, <1>5, <1>6
  <2>2. r = [pos |-> number.end, given |-> <<<<t, number.value>>>>] /\ number.end # 0
    BY <2>1, ReadEffect
  <2>3. QED
    BY <1>6, <2>2 DEF number, e
<1>7. CASE ~(/\ IsDigit(url[pos]) \/ url[pos] \in Signs[t]
             /\ number.end # pos
             /\ InRange(t, number.value))
  <2>1. Refused(e, url, pos)
    BY <1>3, <1>5, <1>7
  <2>2. r.pos = 0
    BY <2>1, ReadRefused
  <2>3. QED
    BY <1>7, <2>2 DEF number, e
<1>8. QED
  BY <1>6, <1>7

TextTypes == {"string", "path"}
TextEnd(t, url, pos) == IF t = "string" THEN SegmentEnd(url, pos) ELSE Len(url) + 1

LEMMA TextEdge ==
  ASSUME NEW url \in Seq(PathChars), NEW pos \in 1..Len(url), NEW t \in TextTypes,
         NEW end, end = TextEnd(t, url, pos)
  PROVE  LET r == ReadOver(<<Tags[t]>>, url, At(pos)) IN
         IF end # pos
         THEN r = [pos |-> end, given |-> <<<<"string", SubSeq(url, pos, end - 1)>>>>]
                /\ r.pos # 0
         ELSE r.pos = 0
<1> DEFINE e == Tags[t]
           r == ReadOver(<<e>>, url, At(pos))
           new == <<<<"string", SubSeq(url, pos, end - 1)>>>>
<1>1. e \in {"<str>", "<path>"} /\ (e = "<str>" <=> t = "string")
  BY DEF Tags, TextTypes
<1> HIDE DEF e
<1>2. end = (IF e = "<str>" THEN SegmentEnd(url, pos) ELSE Len(url) + 1)
  BY <1>1 DEF TextEnd
<1>3. IF end # pos THEN Effect(e, url, pos, end, new) ELSE Refused(e, url, pos)
  BY <1>1, <1>2, TakeText
<1> HIDE DEF new
<1>4. IF end # pos THEN r = [pos |-> end, given |-> new] /\ end # 0 ELSE r.pos = 0
  BY <1>3, ReadEffect, ReadRefused
<1>5. QED
  BY <1>4 DEF new, e

LEMMA LiteralEdge ==
  ASSUME NEW url \in Seq(PathChars), NEW pos \in 1..Len(url), NEW f \in Seq(Letters)
  PROVE  LET r == ReadOver(f, url, At(pos)) IN
         IF StandsAt(f, url, pos)
         THEN r = [pos |-> pos + Len(f), given |-> <<>>] /\ r.pos # 0
         ELSE r.pos = 0
<1>1. CASE StandsAt(f, url, pos)
  <2>1. ReadOver(f, url, At(pos)) = [pos |-> pos + Len(f), given |-> <<>>]
    BY <1>1, ReadLiteral DEF At
  <2>2. Len(f) \in Nat /\ pos + Len(f) # 0
    OBVIOUS
  <2>3. QED
    BY <1>1, <2>1, <2>2
<1>2. CASE ~StandsAt(f, url, pos)
  BY <1>2, ReadLiteral
<1>3. QED
  BY <1>1, <1>2

LEMMA BranchesAre ==
  ASSUME NEW top, NEW trie, TrieOK(trie, top), LiteralKids(trie), NEW n \in 1..Len(trie),
         NEW url \in Seq(PathChars), NEW pos \in 1..Len(url)
  PROVE  Branches(trie[n], url, pos)
           = {Branch(e, url, pos) : e \in Open(trie[n], url, pos)}
<1> DEFINE node == trie[n]
           number == NumberAt(url, pos)
           ends == [string |-> SegmentEnd(url, pos), path |-> Len(url) + 1]
           B == {Branch(e, url, pos) : e \in Open(node, url, pos)}
<1>1. /\ DOMAIN Signs = {"int", "uint", "double"} /\ DOMAIN ends = {"string", "path"}
      /\ DOMAIN Tags = DOMAIN Signs \cup DOMAIN ends
      /\ \A t \in DOMAIN ends : ends[t] = TextEnd(t, url, pos)
  BY DEF Signs, Tags, TextEnd
<1>2. DOMAIN node.kids \subseteq Seq(Letters)
  BY DEF LiteralKids, Letters
<1> DEFINE tag(t) == <<<<Tags[t]>>, node.params[t]>>
           lit(f) == <<f, node.kids[f]>>
<1>3. \A t : tag(t)[1] = <<Tags[t]>> /\ tag(t)[2] = node.params[t]
  OBVIOUS
<1>4. \A f : lit(f)[1] = f /\ lit(f)[2] = node.kids[f]
  OBVIOUS
<1>5. Edges(node) = {tag(t) : t \in {q \in DOMAIN Tags : node.params[q] # 0}}
                      \cup {lit(f) : f \in DOMAIN node.kids}
  BY DEF Edges
<1> HIDE DEF tag, lit, node
<1> DEFINE NumberOpen(t) == /\ IsDigit(url[pos]) \/ url[pos] \in Signs[t]
                            /\ number.end # pos
                            /\ InRange(t, number.value)
           numberBranch(t) == [to |-> node.params[t], pos |-> number.end,
                               pushes |-> <<<<t, number.value>>>>]
           textBranch(t) == [to |-> node.params[t], pos |-> ends[t],
                             pushes |-> <<<<"string", SubSeq(url, pos, ends[t] - 1)>>>>]
           litBranch(f) == [to |-> node.kids[f], pos |-> pos + Len(f), pushes |-> <<>>]
<1>6. ASSUME NEW t \in DOMAIN Signs
      PROVE  IF NumberOpen(t)
             THEN Branch(tag(t), url, pos) = numberBranch(t) /\ Over(tag(t), url, pos).pos # 0
             ELSE Over(tag(t), url, pos).pos = 0
  <2> DEFINE r == ReadOver(<<Tags[t]>>, url, At(pos))
  <2>1. Over(tag(t), url, pos) = r
    BY <1>3 DEF Over
  <2>2. IF NumberOpen(t)
        THEN r = [pos |-> number.end, given |-> <<<<t, number.value>>>>] /\ r.pos # 0
        ELSE r.pos = 0
    BY NumberEdge
  <2> HIDE DEF r, NumberOpen, number
  <2>3. QED
    BY <1>3, <2>1, <2>2 DEF Branch
<1>7. ASSUME NEW t \in DOMAIN ends
      PROVE  IF ends[t] # pos
             THEN Branch(tag(t), url, pos) = textBranch(t) /\ Over(tag(t), url, pos).pos # 0
             ELSE Over(tag(t), url, pos).pos = 0
  <2> DEFINE r == ReadOver(<<Tags[t]>>, url, At(pos))
  <2>1. Over(tag(t), url, pos) = r
    BY <1>3 DEF Over
  <2> DEFINE end == ends[t]
           new == <<<<"string", SubSeq(url, pos, end - 1)>>>>
  <2>2. t \in TextTypes /\ end = TextEnd(t, url, pos)
    BY <1>1 DEF TextTypes
  <2>3. textBranch(t) = [to |-> node.params[t], pos |-> end, pushes |-> new]
    OBVIOUS
  <2> HIDE DEF textBranch, ends, end
  <2>4. \A u \in TextTypes :
          end = TextEnd(u, url, pos) =>
            IF end # pos
            THEN /\ ReadOver(<<Tags[u]>>, url, At(pos)) = [pos |-> end, given |-> new]
                 /\ ReadOver(<<Tags[u]>>, url, At(pos)).pos # 0
            ELSE ReadOver(<<Tags[u]>>, url, At(pos)).pos = 0
    BY TextEdge
  <2> HIDE DEF new
  <2>5. IF end # pos THEN r = [pos |-> end, given |-> new] /\ r.pos # 0 ELSE r.pos = 0
    BY <2>2, <2>4
  <2> HIDE DEF r
  <2>6. IF end # pos
        THEN Branch(tag(t), url, pos) = textBranch(t) /\ Over(tag(t), url, pos).pos # 0
        ELSE Over(tag(t), url, pos).pos = 0
    BY <1>3, <2>1, <2>3, <2>5 DEF Branch
  <2>7. QED
    BY <2>6 DEF end
<1>8. ASSUME NEW f \in DOMAIN node.kids
      PROVE  IF StandsAt(f, url, pos)
             THEN Branch(lit(f), url, pos) = litBranch(f) /\ Over(lit(f), url, pos).pos # 0
             ELSE Over(lit(f), url, pos).pos = 0
  <2> DEFINE r == ReadOver(f, url, At(pos))
  <2>1. Over(lit(f), url, pos) = r
    BY <1>4 DEF Over
  <2>2. IF StandsAt(f, url, pos)
        THEN r = [pos |-> pos + Len(f), given |-> <<>>] /\ r.pos # 0
        ELSE r.pos = 0
    BY <1>2, LiteralEdge
  <2> HIDE DEF r
  <2>3. QED
    BY <1>4, <2>1, <2>2 DEF Branch
<1> HIDE DEF number, ends
<1>9. NumberBranches(node, url, pos)
        = {numberBranch(t) : t \in {q \in DOMAIN Signs : node.params[q] # 0 /\ NumberOpen(q)}}
  BY DEF NumberBranches, number
<1>10. TextBranches(node, url, pos)
        = {textBranch(t) : t \in {q \in DOMAIN ends : node.params[q] # 0 /\ ends[q] # pos}}
  BY DEF TextBranches, ends
<1>11. LiteralBranches(node, url, pos)
         = {litBranch(f) : f \in {g \in DOMAIN node.kids : StandsAt(g, url, pos)}}
  BY DEF LiteralBranches
<1> HIDE DEF NumberOpen, numberBranch, textBranch, litBranch
<1>12. ASSUME NEW b \in Branches(node, url, pos)
       PROVE  b \in B
  <2>1. CASE b \in NumberBranches(node, url, pos)
    <3>1. PICK t \in DOMAIN Signs : node.params[t] # 0 /\ NumberOpen(t) /\ b = numberBranch(t)
      BY <1>9, <2>1
    <3>2. tag(t) \in Edges(node)
      BY <1>1, <1>5, <3>1
    <3>3. QED
      BY <1>6, <3>1, <3>2 DEF Open
  <2>2. CASE b \in TextBranches(node, url, pos)
    <3>1. PICK t \in DOMAIN ends : node.params[t] # 0 /\ ends[t] # pos /\ b = textBranch(t)
      BY <1>10, <2>2
    <3>2. tag(t) \in Edges(node)
      BY <1>1, <1>5, <3>1
    <3>3. QED
      BY <1>7, <3>1, <3>2 DEF Open
  <2>3. CASE b \in LiteralBranches(node, url, pos)
    <3>1. PICK f \in DOMAIN node.kids : StandsAt(f, url, pos) /\ b = litBranch(f)
      BY <1>11, <2>3
    <3>2. lit(f) \in Edges(node)
      BY <1>5
    <3>3. QED
      BY <1>8, <3>1, <3>2 DEF Open
  <2>4. QED
    BY <2>1, <2>2, <2>3 DEF Branches
<1>13. ASSUME NEW e \in Open(node, url, pos)
       PROVE  Branch(e, url, pos) \in Branches(node, url, pos)
  <2>1. e \in Edges(node) /\ Over(e, url, pos).pos # 0
    BY DEF Open
  <2>2. ASSUME NEW t \in DOMAIN Signs, node.params[t] # 0, e = tag(t)
        PROVE  Branch(e, url, pos) \in NumberBranches(node, url, pos)
    BY <1>6, <1>9, <2>1, <2>2
  <2>3. ASSUME NEW t \in DOMAIN ends, node.params[t] # 0, e = tag(t)
        PROVE  Branch(e, url, pos) \in TextBranches(node, url, pos)
    BY <1>7, <1>10, <2>1, <2>3
  <2>4. ASSUME NEW f \in DOMAIN node.kids, e = lit(f)
        PROVE  Branch(e, url, pos) \in LiteralBranches(node, url, pos)
    BY <1>8, <1>11, <2>1, <2>4
  <2>5. QED
    BY <1>1, <1>5, <2>1, <2>2, <2>3, <2>4 DEF Branches
<1>14. QED
  BY <1>12, <1>13 DEF node

\* Where an open edge leads, and what is pushed there.
LEMMA OpenType ==
  ASSUME NEW top, NEW trie, TrieOK(trie, top), LiteralKids(trie), NEW n \in 1..Len(trie),
         NEW url \in Seq(PathChars), NEW pos \in 1..Len(url), NEW e \in Open(trie[n], url, pos)
  PROVE  /\ e \in Edges(trie[n]) /\ e[1] \in Templates
         /\ e[2] \in (n + 1)..Len(trie) /\ e[2] \in 1..Len(trie)
         /\ Over(e, url, pos) \in Readers(url)
         /\ Over(e, url, pos).pos \in 1..(Len(url) + 1)
         /\ \/ Over(e, url, pos).given = <<>>
            \/ \E p \in Pairs(url) : Over(e, url, pos).given = <<p>>
<1>1. e \in Edges(trie[n]) /\ Over(e, url, pos).pos # 0 /\ Len(url) \in Nat
  BY DEF Open
<1>2. e[1] \in Templates /\ e[2] \in (n + 1)..Len(trie) /\ e[2] \in 1..Len(trie)
  BY <1>1, EdgesType
<1>3. Over(e, url, pos) \in Readers(url)
  <2>1. pos \in 0..(Len(url) + 1) /\ <<>> \in Seq(Pairs(url))
    BY <1>1
  <2>2. QED
    BY <1>2, <2>1, ReadShift DEF Over
<1>4. Over(e, url, pos).pos \in 1..(Len(url) + 1)
  <2>1. Over(e, url, pos).pos \in 0..(Len(url) + 1)
    BY <1>3 DEF Readers
  <2>2. QED
    BY <1>1, <2>1
<1>5. ASSUME NEW p \in DOMAIN Tags, e[1] = <<Tags[p]>>
      PROVE  \E q \in Pairs(url) : Over(e, url, pos).given = <<q>>
  <2> DEFINE tag == Tags[p]
  <2>1. Over(e, url, pos) = ReadOver(<<tag>>, url, At(pos))
    BY <1>5 DEF Over
  <2>2. tag \in TagNames
    BY TagOfType
  <2> HIDE DEF tag
  <2>3. ~Refused(tag, url, pos)
    BY <1>1, <2>1, ReadRefused
  <2>4. PICK end, new : Effect(tag, url, pos, end, new)
    BY <2>3, TakeIs
  <2>5. Over(e, url, pos) = [pos |-> end, given |-> new]
    BY <2>1, <2>4, ReadEffect
  <2>6. new \in Seq(Pairs(url)) /\ \E v : new = <<v>>
    BY <2>2, <2>4 DEF Effect
  <2>7. PICK v : new = <<v>>
    BY <2>6
  <2>8. v \in Pairs(url)
    BY <2>6, <2>7
  <2>9. QED
    BY <2>5, <2>7, <2>8
<1>6. ASSUME NEW f \in DOMAIN trie[n].kids, e[1] = f
      PROVE  Over(e, url, pos).given = <<>>
  <2>1. f \in Seq(Letters)
    BY DEF LiteralKids, Letters
  <2>2. Over(e, url, pos) = ReadOver(f, url, At(pos))
    BY <1>6 DEF Over
  <2>3. Over(e, url, pos) = [pos |-> pos + Len(f), given |-> <<>>]
    BY <1>1, <2>1, <2>2, LiteralEdge
  <2>4. QED
    BY <2>3
<1>7. \/ \E p \in DOMAIN Tags : e[1] = <<Tags[p]>>
      \/ \E f \in DOMAIN trie[n].kids : e[1] = f
  BY <1>1 DEF Edges
<1>8. QED
  BY <1>1, <1>2, <1>3, <1>4, <1>5, <1>6, <1>7

-----------------------------------------------------------------------------
(* Gathering: the lists of values by their types, from the last value on.  *)

Params(V) == [CppTypes -> Seq(V)]
Pushed(pair, params) == [params EXCEPT ![pair[1]] = <<pair[2]>> \o @]

\* f[k] has the values from the k-th on.
GatherTable(f, given) ==
  /\ f[Len(given) + 1] = NoParams
  /\ \A k \in 1..Len(given) : f[k] = Pushed(given[k], f[k + 1])

Gathers(params, given) == \E f : GatherTable(f, given) /\ params = f[1]

LEMMA GatherNone == Gathers(NoParams, <<>>)
<1> DEFINE f == [k \in 1..1 |-> NoParams]
<1>1. GatherTable(f, <<>>) /\ NoParams = f[1]
  BY DEF GatherTable
<1>2. QED
  BY <1>1 DEF Gathers

LEMMA PutFirst ==
  ASSUME NEW S, NEW v \in S, NEW h \in Seq(S)
  PROVE  /\ Len(<<v>> \o h) = Len(h) + 1 /\ (<<v>> \o h)[1] = v
         /\ \A k \in 1..Len(h) : (<<v>> \o h)[k + 1] = h[k]
<1> DEFINE all == <<v>> \o h
           N == Len(h)
<1>1. <<v>> \in Seq(S) /\ Len(<<v>>) = 1 /\ N \in Nat
  OBVIOUS
<1>2. /\ Len(all) = 1 + N
      /\ \A i \in 1..(1 + N) : all[i] = IF i <= 1 THEN <<v>>[i] ELSE h[i - 1]
  BY <1>1, ConcatProperties
<1> HIDE DEF all
<1>3. QED
  BY <1>1, <1>2 DEF all

LEMMA GatherMore ==
  ASSUME NEW S, NEW pair \in S, NEW h \in Seq(S), NEW params, Gathers(params, h)
  PROVE  Gathers(Pushed(pair, params), <<pair>> \o h)
<1> DEFINE N == Len(h)
           all == <<pair>> \o h
<1>1. N \in Nat
  OBVIOUS
<1>2. PICK f : GatherTable(f, h) /\ params = f[1]
  BY DEF Gathers
<1>3. /\ Len(all) = N + 1 /\ all[1] = pair
      /\ \A k \in 1..N : all[k + 1] = h[k]
  BY PutFirst
<1> HIDE DEF all
<1> DEFINE g == [k \in 1..(N + 2) |-> IF k = 1 THEN Pushed(pair, params) ELSE f[k - 1]]
<1>4. g[1] = Pushed(pair, params)
  BY <1>1
<1>5. ASSUME NEW k \in 1..(N + 1)
      PROVE  g[k + 1] = f[k]
  <2>1. k + 1 \in 1..(N + 2) /\ k + 1 # 1 /\ k + 1 - 1 = k
    BY <1>1
  <2>2. QED
    BY <2>1
<1> HIDE DEF g
<1>6. g[Len(all) + 1] = NoParams
  <2>1. N + 1 \in 1..(N + 1) /\ Len(all) + 1 = N + 1 + 1
    BY <1>1, <1>3
  <2>2. QED
    BY <1>2, <1>5, <2>1 DEF GatherTable
<1>7. ASSUME NEW k \in 1..Len(all)
      PROVE  g[k] = Pushed(all[k], g[k + 1])
  <2>1. CASE k = 1
    <3>1. g[1 + 1] = f[1]
      BY <1>1, <1>5
    <3>2. QED
      BY <1>2, <1>3, <1>4, <2>1, <3>1
  <2>2. CASE k # 1
    <3>1. PICK j \in 1..N : k = j + 1
      <4>1. k - 1 \in 1..N /\ k = (k - 1) + 1
        BY <1>1, <1>3, <2>2
      <4>2. QED
        BY <4>1
    <3>2. j \in 1..(N + 1) /\ j + 1 \in 1..(N + 1)
      BY <1>1, <3>1
    <3>3. g[j + 1] = f[j] /\ g[(j + 1) + 1] = f[j + 1]
      BY <1>5, <3>2
    <3>4. f[j] = Pushed(h[j], f[j + 1]) /\ all[j + 1] = h[j]
      BY <1>2, <1>3, <3>1 DEF GatherTable
    <3>5. QED
      BY <3>1, <3>3, <3>4
  <2>3. QED
    BY <2>1, <2>2
<1>8. GatherTable(g, all)
  BY <1>6, <1>7 DEF GatherTable
<1>9. QED
  BY <1>4, <1>8 DEF Gathers, all

LEMMA GatherOnce ==
  ASSUME NEW given, Len(given) \in Nat, NEW p, Gathers(p, given), NEW q, Gathers(q, given)
  PROVE  p = q
<1> DEFINE N == Len(given)
<1>1. PICK f : GatherTable(f, given) /\ p = f[1]
  BY DEF Gathers
<1>2. PICK g : GatherTable(g, given) /\ q = g[1]
  BY DEF Gathers
<1> DEFINE T == {m \in Nat : m <= N => f[N + 1 - m] = g[N + 1 - m]}
<1>3. 0 \in T
  <2>1. N + 1 - 0 = N + 1
    OBVIOUS
  <2>2. QED
    BY <1>1, <1>2, <2>1 DEF GatherTable
<1>4. ASSUME NEW m \in Nat, m \in T
      PROVE  m + 1 \in T
  <2>1. SUFFICES ASSUME m + 1 <= N
                 PROVE  f[N + 1 - (m + 1)] = g[N + 1 - (m + 1)]
    OBVIOUS
  <2>2. f[N + 1 - m] = g[N + 1 - m]
    BY <1>4, <2>1
  <2>3. PICK k \in 1..N : k = N + 1 - (m + 1) /\ k + 1 = N + 1 - m
    <3>1. N + 1 - (m + 1) \in 1..N /\ N + 1 - (m + 1) + 1 = N + 1 - m
      BY <2>1
    <3>2. QED
      BY <3>1
  <2>4. f[k] = Pushed(given[k], f[k + 1]) /\ g[k] = Pushed(given[k], g[k + 1])
    BY <1>1, <1>2, <2>3 DEF GatherTable
  <2>5. QED
    BY <2>2, <2>3, <2>4
<1>5. N \in T
  BY <1>3, <1>4, Induction
<1>6. f[1] = g[1]
  <2>1. N <= N /\ N + 1 - N = 1
    OBVIOUS
  <2>2. QED
    BY <1>5, <2>1
<1>7. QED
  BY <1>1, <1>2, <1>6

LEMMA NoParamsType ==
  ASSUME NEW V
  PROVE  NoParams \in Params(V) /\ DOMAIN NoParams = CppTypes
         /\ \A t \in CppTypes : NoParams[t] = <<>>
<1>1. DOMAIN NoParams = CppTypes /\ \A t \in CppTypes : NoParams[t] = <<>>
  BY DEF NoParams, CppTypes
<1>2. NoParams = [t \in CppTypes |-> NoParams[t]]
  BY DEF NoParams, CppTypes
<1>3. <<>> \in Seq(V)
  BY EmptySeq
<1> HIDE DEF NoParams, CppTypes
<1>4. QED
  BY <1>1, <1>2, <1>3 DEF Params

LEMMA PushedType ==
  ASSUME NEW V, NEW pair \in CppTypes \X V, NEW params \in Params(V)
  PROVE  /\ Pushed(pair, params) \in Params(V)
         /\ \A t \in CppTypes :
              Pushed(pair, params)[t] = IF t = pair[1] THEN <<pair[2]>> \o params[t] ELSE params[t]
<1>1. PICK t \in CppTypes, v \in V : pair = <<t, v>>
  OBVIOUS
<1>2. pair[1] = t /\ pair[2] = v
  BY <1>1
<1>3. params[t] \in Seq(V) /\ <<v>> \in Seq(V)
  BY DEF Params
<1>4. <<v>> \o params[t] \in Seq(V)
  BY <1>3, ConcatProperties
<1> DEFINE more == <<v>> \o params[t]
<1>5. Pushed(pair, params) = [params EXCEPT ![t] = more]
  BY <1>2 DEF Pushed
<1> HIDE DEF more
<1>6. more \in Seq(V)
  BY <1>4 DEF more
<1>7. /\ [params EXCEPT ![t] = more] \in Params(V)
      /\ \A u \in CppTypes : [params EXCEPT ![t] = more][u] = IF u = t THEN more ELSE params[u]
  BY <1>6 DEF Params
<1>8. QED
  BY <1>2, <1>5, <1>7 DEF more

\* The i-th value stands behind the earlier ones of its type.
CountFrom(given, k, i) == Cardinality({j \in k..i : given[j][1] = given[i][1]})

Placed(params, given, k) ==
  \A i \in k..Len(given) :
    /\ given[i][1] \in CppTypes
    /\ CountFrom(given, k, i) \in 1..Len(params[given[i][1]])
    /\ params[given[i][1]][CountFrom(given, k, i)] = given[i][2]

LEMMA CountIs ==
  ASSUME NEW given, NEW k \in Nat \ {0}, NEW i \in Nat
  PROVE  /\ CountFrom(given, k, i) \in Nat
         /\ i = k => CountFrom(given, k, i) = 1
         /\ i > k /\ given[k][1] = given[i][1] =>
              CountFrom(given, k, i) = CountFrom(given, k + 1, i) + 1
         /\ i > k /\ given[k][1] # given[i][1] =>
              CountFrom(given, k, i) = CountFrom(given, k + 1, i)
<1> DEFINE S(m) == {j \in m..i : given[j][1] = given[i][1]}
<1>1. \A m \in Nat : IsFiniteSet(S(m))
  <2>1. SUFFICES ASSUME NEW m \in Nat PROVE IsFiniteSet(S(m))
    OBVIOUS
  <2>2. IsFiniteSet(m..i) /\ S(m) \in SUBSET (m..i)
    BY FS_Interval
  <2> HIDE DEF S
  <2>3. QED
    BY <2>2, FS_Subset
<1>2. CountFrom(given, k, i) \in Nat
  BY <1>1, FS_CardinalityType DEF CountFrom
<1>3. ASSUME i = k
      PROVE  CountFrom(given, k, i) = 1
  <2>1. S(k) = {k}
    BY <1>3
  <2>2. QED
    BY <2>1, FS_Singleton DEF CountFrom
<1>4. ASSUME i > k
      PROVE  /\ given[k][1] = given[i][1] =>
                  CountFrom(given, k, i) = CountFrom(given, k + 1, i) + 1
             /\ given[k][1] # given[i][1] =>
                  CountFrom(given, k, i) = CountFrom(given, k + 1, i)
  <2>1. \A j : j \in k..i <=> j = k \/ j \in (k + 1)..i
    BY <1>4
  <2>2. CASE given[k][1] = given[i][1]
    <3>1. S(k) = S(k + 1) \cup {k} /\ k \notin S(k + 1)
      BY <2>1, <2>2
    <3>2. IsFiniteSet(S(k + 1))
      BY <1>1
    <3> HIDE DEF S
    <3>3. Cardinality(S(k)) = Cardinality(S(k + 1)) + 1
      BY <3>1, <3>2, FS_AddElement
    <3>4. QED
      BY <2>2, <3>3 DEF CountFrom, S
  <2>3. CASE given[k][1] # given[i][1]
    <3>1. S(k) = S(k + 1)
      BY <2>1, <2>3
    <3>2. QED
      BY <2>3, <3>1 DEF CountFrom
  <2>4. QED
    BY <2>2, <2>3
<1>5. QED
  BY <1>2, <1>3, <1>4

LEMMA GatherPlaces ==
  ASSUME NEW V, NEW given \in Seq(CppTypes \X V), NEW params, Gathers(params, given)
  PROVE  params \in Params(V) /\ Placed(params, given, 1)
<1> DEFINE N == Len(given)
<1>1. N \in Nat
  OBVIOUS
<1>2. PICK f : GatherTable(f, given) /\ params = f[1]
  BY DEF Gathers
<1> DEFINE Good(k) == f[k] \in Params(V) /\ Placed(f[k], given, k)
           T == {m \in Nat : m <= N => Good(N + 1 - m)}
<1>3. 0 \in T
  <2>1. N + 1 - 0 = N + 1
    BY <1>1
  <2>2. Placed(f[N + 1], given, N + 1)
    BY <1>1 DEF Placed
  <2>3. f[N + 1] \in Params(V)
    BY <1>2, NoParamsType DEF GatherTable
  <2>4. QED
    BY <2>1, <2>2, <2>3
<1> HIDE DEF Good
<1>4. ASSUME NEW m \in Nat, m \in T
      PROVE  m + 1 \in T
  <2>1. SUFFICES ASSUME m + 1 <= N
                 PROVE  Good(N + 1 - (m + 1))
    OBVIOUS
  <2>2. Good(N + 1 - m)
    BY <1>1, <1>4, <2>1
  <2>3. PICK k \in 1..N : k = N + 1 - (m + 1) /\ k + 1 = N + 1 - m
    <3>1. N + 1 - (m + 1) \in 1..N /\ N + 1 - (m + 1) + 1 = N + 1 - m
      BY <1>1, <2>1
    <3>2. QED
      BY <3>1
  <2>4. Good(k + 1)
    BY <2>2, <2>3
  <2> DEFINE pair == given[k]
             rest == f[k + 1]
  <2>5. f[k] = Pushed(pair, rest) /\ pair \in CppTypes \X V
    BY <1>2, <2>3 DEF GatherTable
  <2>6. rest \in Params(V) /\ Placed(rest, given, k + 1)
    BY <2>4 DEF Good
  <2> HIDE DEF rest
  <2>7. /\ f[k] \in Params(V)
        /\ \A t \in CppTypes :
             f[k][t] = IF t = pair[1] THEN <<pair[2]>> \o rest[t] ELSE rest[t]
    BY <2>5, <2>6, PushedType
  <2>8. pair[1] \in CppTypes /\ pair[2] \in V
    BY <2>5
  <2>9. ASSUME NEW i \in k..N
        PROVE  /\ given[i][1] \in CppTypes
               /\ CountFrom(given, k, i) \in 1..Len(f[k][given[i][1]])
               /\ f[k][given[i][1]][CountFrom(given, k, i)] = given[i][2]
    <3> DEFINE t == given[i][1]
               c == CountFrom(given, k + 1, i)
               list == rest[t]
    <3>1. t \in CppTypes /\ i \in Nat
      BY <1>1, <2>3
    <3>2. list \in Seq(V) /\ Len(list) \in Nat
      BY <2>6, <3>1 DEF Params
    <3> DEFINE v == pair[2]
               more == <<v>> \o list
    <3> HIDE DEF v, list
    <3>3. /\ Len(more) = Len(list) + 1 /\ more[1] = v
          /\ \A j \in 1..Len(list) : more[j + 1] = list[j]
      BY <2>8, <3>2, PutFirst DEF v
    <3> HIDE DEF more
    <3>4. f[k][t] = IF t = pair[1] THEN more ELSE list
      BY <2>7, <3>1 DEF more, list, v
    <3>5. CASE i = k
      <4>1. CountFrom(given, k, i) = 1 /\ t = pair[1] /\ given[i][2] = v
        BY <2>3, <3>1, <3>5, CountIs DEF v
      <4>2. QED
        BY <3>1, <3>2, <3>3, <3>4, <4>1
    <3>6. CASE i # k
      <4>1. i > k /\ i \in (k + 1)..N
        BY <1>1, <2>3, <3>6
      <4>2. c \in 1..Len(list) /\ list[c] = given[i][2]
        BY <2>6, <4>1 DEF Placed, list
      <4>3. /\ pair[1] = t => CountFrom(given, k, i) = c + 1
            /\ pair[1] # t => CountFrom(given, k, i) = c
        <5>1. k \in Nat \ {0} /\ i \in Nat /\ i > k
          BY <2>3, <3>1, <4>1
        <5>2. /\ i > k /\ given[k][1] = given[i][1] =>
                   CountFrom(given, k, i) = CountFrom(given, k + 1, i) + 1
              /\ i > k /\ given[k][1] # given[i][1] =>
                   CountFrom(given, k, i) = CountFrom(given, k + 1, i)
          BY <5>1, CountIs, Zenon
        <5>3. QED
          BY <5>1, <5>2
      <4> HIDE DEF c, t
      <4>4. CASE pair[1] = t
        <5>1. c + 1 \in 1..(Len(list) + 1) /\ more[c + 1] = list[c]
          BY <3>2, <3>3, <4>2
        <5>2. QED
          BY <3>1, <3>3, <3>4, <4>2, <4>3, <4>4, <5>1 DEF t
      <4>5. CASE pair[1] # t
        BY <3>1, <3>4, <4>2, <4>3, <4>5 DEF t
      <4>6. QED
        BY <4>4, <4>5
    <3>7. QED
      BY <3>5, <3>6
  <2>10. Placed(f[k], given, k)
    BY <2>9 DEF Placed
  <2>11. QED
    BY <2>3, <2>7, <2>10 DEF Good
<1>5. N \in T
  BY <1>1, <1>3, <1>4, Induction
<1>6. Good(1)
  <2>1. N <= N /\ N + 1 - N = 1
    BY <1>1
  <2>2. QED
    BY <1>1, <1>5, <2>1
<1>7. QED
  BY <1>2, <1>6 DEF Good

-----------------------------------------------------------------------------
(* find: its answer is the least rule that is spelled below a node by a    *)
(* template that takes the rest of the path.                               *)

Routes(url) == [rule : Nat, params : Params(Values(url))]

BestOf(f, trie, url, n, pos) ==
  Smallest({Along(b, f[b.to][b.pos]) : b \in Branches(trie[n], url, pos)})

FindStep(f, trie, url, n) ==
  [pos \in 1..(Len(url) + 1) |->
     IF pos > Len(url) THEN [rule |-> trie[n].rule, params |-> NoParams]
     ELSE BestOf(f, trie, url, n, pos)]

\* f is a table of the answers at the last k nodes.
FindFrom(f, trie, url, k) ==
  f = [n \in (Len(trie) + 1 - k)..Len(trie) |-> FindStep(f, trie, url, n)]

LEMMA BranchTo ==
  ASSUME NEW top, NEW trie, TrieOK(trie, top), LiteralKids(trie), NEW n \in 1..Len(trie),
         NEW url \in Seq(PathChars), NEW pos \in 1..Len(url),
         NEW b \in Branches(trie[n], url, pos)
  PROVE  b.to \in (n + 1)..Len(trie)
<1>1. Branches(trie[n], url, pos) = {Branch(e, url, pos) : e \in Open(trie[n], url, pos)}
  BY BranchesAre
<1>2. PICK e \in Open(trie[n], url, pos) : b = Branch(e, url, pos)
  BY <1>1
<1>3. b.to = e[2]
  BY <1>2 DEF Branch
<1>4. QED
  BY <1>3, OpenType

LEMMA SomeFind ==
  ASSUME NEW top, NEW trie, TrieOK(trie, top), LiteralKids(trie), NEW url \in Seq(PathChars)
  PROVE  \E f : FindFrom(f, trie, url, Len(trie))
<1> DEFINE N == Len(trie)
           T == {k \in Nat : k <= N => \E f : FindFrom(f, trie, url, k)}
<1>1. N \in Nat
  BY DEF TrieOK
<1>2. 0 \in T
  <2> DEFINE g == [n \in (N + 1 - 0)..N |-> 0]
  <2>1. \A n : n \notin (N + 1 - 0)..N
    BY <1>1
  <2>2. g = [n \in (N + 1 - 0)..N |-> FindStep(g, trie, url, n)]
    BY <2>1
  <2>3. QED
    BY <2>2 DEF FindFrom
<1>3. ASSUME NEW k \in Nat, k \in T
      PROVE  k + 1 \in T
  <2>1. SUFFICES ASSUME k + 1 <= N
                 PROVE  \E f : FindFrom(f, trie, url, k + 1)
    OBVIOUS
  <2>2. PICK f : FindFrom(f, trie, url, k)
    BY <1>1, <1>3, <2>1
  <2> DEFINE g == [n \in (N + 1 - (k + 1))..N |-> FindStep(f, trie, url, n)]
  <2>3. \A n \in (N + 1 - k)..N : g[n] = f[n]
    <3>1. SUFFICES ASSUME NEW n \in (N + 1 - k)..N PROVE g[n] = f[n]
      OBVIOUS
    <3>2. n \in (N + 1 - (k + 1))..N
      BY <1>1, <2>1
    <3>3. f[n] = FindStep(f, trie, url, n)
      BY <2>2 DEF FindFrom
    <3>4. QED
      BY <3>2, <3>3
  <2>4. ASSUME NEW n \in (N + 1 - (k + 1))..N
        PROVE  FindStep(g, trie, url, n) = FindStep(f, trie, url, n)
    <3> HIDE DEF g
    <3>1. n \in 1..N
      BY <1>1, <2>1
    <3>2. ASSUME NEW pos \in 1..(Len(url) + 1), ~(pos > Len(url))
          PROVE  {Along(b, g[b.to][b.pos]) : b \in Branches(trie[n], url, pos)}
                   = {Along(b, f[b.to][b.pos]) : b \in Branches(trie[n], url, pos)}
      <4>1. pos \in 1..Len(url)
        BY <3>2
      <4>2. ASSUME NEW b \in Branches(trie[n], url, pos)
            PROVE  g[b.to] = f[b.to]
        <5>1. b.to \in (n + 1)..N
          BY <3>1, <4>1, BranchTo
        <5>2. b.to \in (N + 1 - k)..N
          BY <1>1, <2>1, <5>1
        <5>3. QED
          BY <2>3, <5>2
      <4>3. QED
        BY <4>2
    <3>3. QED
      BY <3>2 DEF FindStep, BestOf
  <2>5. g = [n \in (N + 1 - (k + 1))..N |-> FindStep(g, trie, url, n)]
    BY <2>4
  <2>6. FindFrom(g, trie, url, k + 1)
    BY <2>5 DEF FindFrom
  <2>7. QED
    BY <2>6
<1>4. N \in T
  BY <1>1, <1>2, <1>3, Induction
<1>5. QED
  BY <1>1, <1>4

LEMMA SmallestIs ==
  ASSUME NEW url, NEW A, A \subseteq Routes(url)
  PROVE  LET r == Smallest(A) IN
         /\ r \in Routes(url)
         /\ r.rule # 0 => r \in A
         /\ \A a \in A : a.rule # 0 => r.rule # 0 /\ r.rule <= a.rule
<1> DEFINE hits == {a \in A : a.rule # 0}
           r == Smallest(A)
<1>1. CASE hits = {}
  <2>1. r = NoRoute
    BY <1>1 DEF Smallest
  <2>2. NoRoute \in Routes(url) /\ NoRoute.rule = 0
    BY NoParamsType DEF NoRoute, Routes
  <2>3. QED
    BY <1>1, <2>1, <2>2
<1>2. CASE hits # {}
  <2> DEFINE rules == {a.rule : a \in hits}
  <2>1. rules \subseteq Nat /\ rules # {}
    BY <1>2 DEF Routes
  <2>2. PICK x \in rules : \A y \in rules : x <= y
    BY <2>1, LeastOf
  <2>3. PICK d \in hits : x = d.rule
    BY <2>2
  <2>4. \A b \in hits : d.rule <= b.rule
    BY <2>2, <2>3
  <2>5. r = CHOOSE a \in hits : \A b \in hits : a.rule <= b.rule
    BY <1>2 DEF Smallest
  <2>6. r \in hits /\ \A b \in hits : r.rule <= b.rule
    <3>1. \E c \in hits : \A b \in hits : c.rule <= b.rule
      BY <2>4
    <3> HIDE DEF hits, r
    <3>2. QED
      BY <2>5, <3>1, Zenon
  <2> HIDE DEF r
  <2>7. /\ r \in Routes(url) /\ r \in A
        /\ \A a \in A : a.rule # 0 => r.rule # 0 /\ r.rule <= a.rule
    BY <2>6
  <2>8. QED
    BY <2>7 DEF r
<1>3. QED
  BY <1>1, <1>2

LEMMA AlongIs ==
  ASSUME NEW url, NEW branch, NEW route \in Routes(url),
         branch.pushes = <<>> \/ \E p \in Pairs(url) : branch.pushes = <<p>>
  PROVE  LET r == Along(branch, route) IN
         /\ r \in Routes(url) /\ r.rule = route.rule
         /\ \A h \in Seq(Pairs(url)) :
              Gathers(route.params, h) => Gathers(r.params, branch.pushes \o h)
<1> DEFINE V == Values(url)
           r == Along(branch, route)
<1>1. PICK i \in Nat, params \in Params(V) : route = [rule |-> i, params |-> params]
  BY DEF Routes
<1>2. route.rule = i /\ route.params = params
  BY <1>1
<1>3. CASE branch.pushes = <<>>
  <2>1. r = route
    BY <1>3 DEF Along
  <2>2. \A h \in Seq(Pairs(url)) : <<>> \o h = h
    BY ConcatEmptySeq
  <2>3. QED
    BY <1>3, <2>1, <2>2
<1>4. ASSUME NEW p \in Pairs(url), branch.pushes = <<p>>
      PROVE  /\ r \in Routes(url) /\ r.rule = route.rule
             /\ \A h \in Seq(Pairs(url)) :
                  Gathers(route.params, h) => Gathers(r.params, branch.pushes \o h)
  <2>1. PICK t \in CppTypes, v \in V : p = <<t, v>>
    BY DEF Pairs
  <2>2. branch.pushes[1][1] = t /\ branch.pushes[1][2] = v /\ branch.pushes # <<>>
    BY <1>4, <2>1
  <2>3. r = [route EXCEPT !.params[t] = <<v>> \o @]
    BY <2>2 DEF Along
  <2> DEFINE more == Pushed(p, params)
  <2>4. more = [params EXCEPT ![t] = <<v>> \o @]
    BY <2>1 DEF Pushed
  <2>5. r = [rule |-> i, params |-> more]
    BY <1>1, <2>3, <2>4
  <2> HIDE DEF more, r
  <2>6. r.rule = i /\ r.params = more
    BY <2>5
  <2>7. more \in Params(V)
    BY <1>1, PushedType DEF more, Pairs
  <2>8. \A h \in Seq(Pairs(url)) : Gathers(params, h) => Gathers(more, <<p>> \o h)
    BY <1>2, GatherMore DEF more
  <2>9. QED
    BY <1>2, <1>4, <2>5, <2>6, <2>7, <2>8 DEF Routes, r
<1>5. QED
  BY <1>3, <1>4

\* A way to a rule from node n that takes the path from pos on.
Hit(trie, n, url, pos, s, x) ==
  /\ <<n, s, x>> \in Names(trie) /\ trie[x].rule # 0
  /\ ReadOver(s, url, At(pos)).pos = Len(url) + 1

Right(trie, n, url, pos, r) ==
  /\ r \in Routes(url)
  /\ r.rule # 0 =>
       \E s, x : /\ Hit(trie, n, url, pos, s, x) /\ r.rule = trie[x].rule
                 /\ Gathers(r.params, ReadOver(s, url, At(pos)).given)
  /\ \A s, x : Hit(trie, n, url, pos, s, x) => r.rule # 0 /\ r.rule <= trie[x].rule

LEMMA RightAtEnd ==
  ASSUME NEW top, NEW trie, TrieOK(trie, top), NEW n \in 1..Len(trie),
         NEW url \in Seq(PathChars)
  PROVE  Right(trie, n, url, Len(url) + 1, [rule |-> trie[n].rule, params |-> NoParams])
<1> DEFINE r == [rule |-> trie[n].rule, params |-> NoParams]
           end == Len(url) + 1
<1>1. Len(url) \in Nat /\ trie[n].rule \in Nat
  <2>1. trie[n] \in Nodes
    BY DEF TrieOK
  <2>2. QED
    BY <2>1 DEF Nodes
<1>2. r \in Routes(url) /\ r.rule = trie[n].rule /\ r.params = NoParams
  BY <1>1, NoParamsType DEF Routes
<1> HIDE DEF r
<1>3. ReadOver(<<>>, url, At(end)) = At(end) /\ At(end).pos = end /\ At(end).given = <<>>
  BY ReadNone DEF At
<1>4. ASSUME r.rule # 0
      PROVE  \E s, x : /\ Hit(trie, n, url, end, s, x) /\ r.rule = trie[x].rule
                       /\ Gathers(r.params, ReadOver(s, url, At(end)).given)
  <2>1. <<n, <<>>, n>> \in Names(trie)
    BY NamesRoot
  <2>2. Hit(trie, n, url, end, <<>>, n)
    BY <1>2, <1>3, <1>4, <2>1 DEF Hit
  <2>3. QED
    BY <1>2, <1>3, <2>2, GatherNone
<1>5. ASSUME NEW s, NEW x, Hit(trie, n, url, end, s, x)
      PROVE  r.rule # 0 /\ r.rule <= trie[x].rule
  <2>1. <<n, s, x>> \in Names(trie) /\ s \in Templates
    BY <1>5, NamesType DEF Hit
  <2>2. s = <<>>
    <3>1. SUFFICES ASSUME s # <<>> PROVE FALSE
      OBVIOUS
    <3>2. At(end).pos \notin 1..Len(url)
      BY <1>1, <1>3
    <3>3. ReadOver(s, url, At(end)) = Lost
      BY <2>1, <3>1, <3>2, ReadLost
    <3>4. QED
      BY <1>1, <1>5, <3>3 DEF Hit, Lost
  <2>3. x = n
    <3>1. SUFFICES ASSUME x # n PROVE FALSE
      OBVIOUS
    <3>2. \E e \in Edges(trie[n]) : \E t \in Templates :
             s = e[1] \o t /\ <<e[2], t, x>> \in Names(trie)
      BY <2>1, <3>1, NamesBack
    <3>3. PICK e \in Edges(trie[n]) : \E t \in Templates : s = e[1] \o t
      BY <3>2
    <3>4. PICK t \in Templates : s = e[1] \o t
      BY <3>3
    <3>5. e[1] \in Templates /\ e[1] # <<>>
      BY EdgesType
    <3>6. QED
      BY <2>2, <3>4, <3>5, JoinType
  <2>4. QED
    BY <1>1, <1>2, <1>5, <2>3 DEF Hit
<1>6. QED
  BY <1>2, <1>4, <1>5 DEF Right, r

\* A way over an edge: the edge lets the path through, and the rest takes the rest.
LEMMA ReadEdge ==
  ASSUME NEW top, NEW trie, TrieOK(trie, top), NEW n \in 1..Len(trie),
         NEW url \in Seq(PathChars), NEW pos \in 1..Len(url), NEW e \in Edges(trie[n]),
         NEW t \in Templates
  PROVE  LET a == Over(e, url, pos)
             b == ReadOver(t, url, At(a.pos))
             c == ReadOver(e[1] \o t, url, At(pos))
         IN  /\ c.pos # 0 => a.pos # 0 /\ b.pos # 0
             /\ a.pos # 0 /\ b.pos # 0 =>
                  /\ c.pos = b.pos /\ c.given = a.given \o b.given
                  /\ b.given \in Seq(Pairs(url))
<1> DEFINE a == Over(e, url, pos)
           b == ReadOver(t, url, At(a.pos))
           c == ReadOver(e[1] \o t, url, At(pos))
<1>1. e[1] \in Templates /\ pos \in 1..(Len(url) + 1)
  BY EdgesType
<1>2. IF a.pos = 0 \/ b.pos = 0 THEN c.pos = 0
      ELSE b \in Readers(url) /\ c = [pos |-> b.pos, given |-> a.given \o b.given]
  BY <1>1, ReadGoesOn DEF Over
<1> HIDE DEF a, b, c
<1>3. b \in Readers(url) => b.given \in Seq(Pairs(url))
  BY DEF Readers
<1>4. c.pos # 0 => a.pos # 0 /\ b.pos # 0
  BY <1>2
<1>5. ASSUME a.pos # 0, b.pos # 0
      PROVE  /\ c.pos = b.pos /\ c.given = a.given \o b.given
             /\ b.given \in Seq(Pairs(url))
  <2> DEFINE both == a.given \o b.given
  <2>1. b \in Readers(url) /\ c = [pos |-> b.pos, given |-> both]
    BY <1>2, <1>5
  <2> HIDE DEF both
  <2>2. c.pos = b.pos /\ c.given = both
    BY <2>1
  <2>3. QED
    BY <1>3, <2>1, <2>2 DEF both
<1>6. QED
  BY <1>4, <1>5 DEF a, b, c

LEMMA RightFromBranches ==
  ASSUME NEW top, NEW trie, TrieOK(trie, top), LiteralKids(trie), NEW n \in 1..Len(trie),
         NEW url \in Seq(PathChars), NEW pos \in 1..Len(url), NEW f,
         \A m \in 1..Len(trie) : m > n =>
           \A p \in 1..(Len(url) + 1) : Right(trie, m, url, p, f[m][p])
  PROVE  Right(trie, n, url, pos, BestOf(f, trie, url, n, pos))
<1> DEFINE end == Len(url) + 1
           Opens == Open(trie[n], url, pos)
           ans(e) == Along(Branch(e, url, pos), f[e[2]][Over(e, url, pos).pos])
           A == {Along(b, f[b.to][b.pos]) : b \in Branches(trie[n], url, pos)}
           r == Smallest(A)
<1>1. Len(url) \in Nat /\ Len(trie) \in Nat /\ pos \in 1..(Len(url) + 1)
  BY DEF TrieOK
<1>2. A = {ans(e) : e \in Opens}
  <2>1. Branches(trie[n], url, pos) = {Branch(e, url, pos) : e \in Opens}
    BY BranchesAre
  <2>2. \A e : Branch(e, url, pos).to = e[2] /\ Branch(e, url, pos).pos = Over(e, url, pos).pos
    BY DEF Branch
  <2> DEFINE g(b) == Along(b, f[b.to][b.pos])
  <2>3. \A e : g(Branch(e, url, pos)) = ans(e)
    BY <2>2
  <2>4. A = {g(b) : b \in Branches(trie[n], url, pos)}
    OBVIOUS
  <2> HIDE DEF Opens, A, g, ans
  <2>5. QED
    BY <2>1, <2>3, <2>4
<1> HIDE DEF A, ans, r
\* An answer by way of an edge, and the ways over the edge.
<1>3. ASSUME NEW e \in Opens
      PROVE  /\ ans(e) \in Routes(url)
             /\ ans(e).rule # 0 =>
                  \E s, x : /\ Hit(trie, n, url, pos, s, x) /\ ans(e).rule = trie[x].rule
                            /\ Gathers(ans(e).params, ReadOver(s, url, At(pos)).given)
             /\ \A t, x : Hit(trie, e[2], url, Over(e, url, pos).pos, t, x) =>
                  ans(e).rule # 0 /\ ans(e).rule <= trie[x].rule
  <2> DEFINE p == Over(e, url, pos).pos
             a == Over(e, url, pos)
             m == e[2]
             route == f[m][p]
  <2>1. /\ e \in Edges(trie[n]) /\ e[1] \in Templates
        /\ m \in (n + 1)..Len(trie) /\ m \in 1..Len(trie)
        /\ p \in 1..(Len(url) + 1)
        /\ a.given = <<>> \/ \E q \in Pairs(url) : a.given = <<q>>
    BY OpenType
  <2>2. m > n
    BY <1>1, <2>1
  <2>3. Right(trie, m, url, p, route)
    BY <2>1, <2>2
  <2>4. Branch(e, url, pos).pushes = a.given
    BY DEF Branch
  <2>5. ans(e) = Along(Branch(e, url, pos), route)
    BY DEF ans
  <2> HIDE DEF p, a, m, route
  <2>6. route \in Routes(url)
    BY <2>3 DEF Right
  <2>7. /\ ans(e) \in Routes(url) /\ ans(e).rule = route.rule
        /\ \A h \in Seq(Pairs(url)) :
             Gathers(route.params, h) => Gathers(ans(e).params, a.given \o h)
    BY <2>1, <2>4, <2>5, <2>6, AlongIs
  <2>8. ASSUME ans(e).rule # 0
        PROVE  \E s, x : /\ Hit(trie, n, url, pos, s, x) /\ ans(e).rule = trie[x].rule
                         /\ Gathers(ans(e).params, ReadOver(s, url, At(pos)).given)
    <3>1. PICK t, x : /\ Hit(trie, m, url, p, t, x) /\ route.rule = trie[x].rule
                      /\ Gathers(route.params, ReadOver(t, url, At(p)).given)
      BY <2>3, <2>7, <2>8 DEF Right
    <3> DEFINE b == ReadOver(t, url, At(p))
               c == ReadOver(e[1] \o t, url, At(pos))
    <3>2. <<m, t, x>> \in Names(trie) /\ trie[x].rule # 0 /\ b.pos = end /\ t \in Templates
      BY <3>1, NamesType DEF Hit
    <3>3. a.pos # 0 /\ b.pos # 0 /\ a.pos = p
      BY <1>1, <2>1, <3>2 DEF p, a
    <3>4. c.pos = b.pos /\ c.given = a.given \o b.given /\ b.given \in Seq(Pairs(url))
      BY <2>1, <3>2, <3>3, ReadEdge DEF p, a
    <3>5. <<n, e[1] \o t, x>> \in Names(trie)
      BY <2>1, <3>2, NamesStep DEF m
    <3> HIDE DEF b, c
    <3>6. Gathers(ans(e).params, c.given)
      BY <2>7, <3>1, <3>4 DEF b
    <3>7. Hit(trie, n, url, pos, e[1] \o t, x)
      BY <3>2, <3>4, <3>5 DEF Hit, c
    <3>8. QED
      BY <2>7, <3>1, <3>6, <3>7 DEF c
  <2>9. \A t, x : Hit(trie, m, url, p, t, x) => ans(e).rule # 0 /\ ans(e).rule <= trie[x].rule
    BY <2>3, <2>7 DEF Right
  <2>10. QED
    BY <2>7, <2>8, <2>9 DEF p, m
<1>4. ASSUME NEW s, NEW x, Hit(trie, n, url, pos, s, x)
      PROVE  \E e \in Opens : \E t : Hit(trie, e[2], url, Over(e, url, pos).pos, t, x)
  <2>1. /\ <<n, s, x>> \in Names(trie) /\ trie[x].rule # 0
        /\ ReadOver(s, url, At(pos)).pos = end
    BY <1>4 DEF Hit
  <2>2. s # <<>>
    <3>1. SUFFICES ASSUME s = <<>> PROVE FALSE
      OBVIOUS
    <3>2. ReadOver(s, url, At(pos)).pos = pos
      BY <3>1, ReadNone DEF At
    <3>3. QED
      BY <1>1, <2>1, <3>2
  <2>3. \E e \in Edges(trie[n]) : \E t \in Templates :
          s = e[1] \o t /\ <<e[2], t, x>> \in Names(trie)
    BY <2>1, <2>2, NamesBack
  <2>4. PICK e \in Edges(trie[n]) : \E t \in Templates :
          s = e[1] \o t /\ <<e[2], t, x>> \in Names(trie)
    BY <2>3
  <2>5. PICK t \in Templates : s = e[1] \o t /\ <<e[2], t, x>> \in Names(trie)
    BY <2>4
  <2> DEFINE a == Over(e, url, pos)
             b == ReadOver(t, url, At(a.pos))
             c == ReadOver(e[1] \o t, url, At(pos))
  <2>6. c.pos = end /\ end # 0
    BY <1>1, <2>1, <2>5
  <2>7. a.pos # 0 /\ b.pos # 0 /\ c.pos = b.pos
    <3>1. /\ c.pos # 0 => a.pos # 0 /\ b.pos # 0
          /\ a.pos # 0 /\ b.pos # 0 =>
               /\ c.pos = b.pos /\ c.given = a.given \o b.given
               /\ b.given \in Seq(Pairs(url))
      BY ReadEdge, Zenon
    <3> HIDE DEF a, b, c
    <3>2. QED
      BY <2>6, <3>1
  <2>8. e \in Opens
    BY <2>7 DEF Open
  <2>9. Hit(trie, e[2], url, a.pos, t, x)
    BY <2>1, <2>5, <2>6, <2>7 DEF Hit
  <2>10. QED
    BY <2>8, <2>9
<1> HIDE DEF Opens
<1>5. A \subseteq Routes(url)
  BY <1>2, <1>3
<1>6. /\ r \in Routes(url)
      /\ r.rule # 0 => r \in A
      /\ \A a \in A : a.rule # 0 => r.rule # 0 /\ r.rule <= a.rule
  BY <1>5, SmallestIs DEF r
<1>7. ASSUME r.rule # 0
      PROVE  \E s, x : /\ Hit(trie, n, url, pos, s, x) /\ r.rule = trie[x].rule
                       /\ Gathers(r.params, ReadOver(s, url, At(pos)).given)
  <2>1. PICK e \in Opens : r = ans(e)
    BY <1>2, <1>6, <1>7
  <2>2. QED
    BY <1>3, <1>7, <2>1
<1>8. ASSUME NEW s, NEW x, Hit(trie, n, url, pos, s, x)
      PROVE  r.rule # 0 /\ r.rule <= trie[x].rule
  <2>1. PICK e \in Opens : \E t : Hit(trie, e[2], url, Over(e, url, pos).pos, t, x)
    BY <1>4, <1>8
  <2>2. ans(e).rule # 0 /\ ans(e).rule <= trie[x].rule
    BY <1>3, <2>1
  <2>3. r.rule # 0 /\ r.rule <= ans(e).rule
    BY <1>2, <1>6, <2>2
  <2>4. r.rule \in Nat /\ ans(e).rule \in Nat
    BY <1>3, <1>6 DEF Routes
  <2>5. trie[x].rule \in Nat
    <3>1. x \in 1..Len(trie)
      BY <1>8, NamesType DEF Hit
    <3>2. trie[x] \in Nodes
      BY <3>1 DEF TrieOK
    <3>3. QED
      BY <3>2 DEF Nodes
  <2>6. QED
    BY <2>2, <2>3, <2>4, <2>5
<1>9. QED
  BY <1>6, <1>7, <1>8 DEF Right, r, A, BestOf

LEMMA FindIs ==
  ASSUME NEW top, NEW trie, GoodTrie(trie, top), NEW url \in Seq(PathChars)
  PROVE  Right(trie, 1, url, 1, Find(trie, url))
<1> DEFINE N == Len(trie)
           L == Len(url)
           f == CHOOSE f : f = [n \in DOMAIN trie |-> FindStep(f, trie, url, n)]
<1>1. /\ TrieOK(trie, top) /\ LiteralKids(trie) /\ N \in Nat /\ DOMAIN trie = 1..N /\ N >= 1
      /\ L \in Nat
  BY DEF GoodTrie, TrieOK
<1>2. f = [n \in DOMAIN trie |-> FindStep(f, trie, url, n)]
  <2>1. \E g : FindFrom(g, trie, url, N)
    BY <1>1, SomeFind
  <2>2. N + 1 - N = 1
    BY <1>1
  <2>3. \E g : g = [n \in DOMAIN trie |-> FindStep(g, trie, url, n)]
    BY <1>1, <2>1, <2>2 DEF FindFrom
  <2>4. QED
    BY <2>3, Zenon
<1>3. Find(trie, url) = f[1][1]
  BY Zenon DEF Find, FindStep, BestOf
<1> HIDE DEF f
<1>4. \A n \in 1..N : f[n] = FindStep(f, trie, url, n)
  BY <1>1, <1>2
<1> DEFINE P(n) == \A pos \in 1..(L + 1) : Right(trie, n, url, pos, f[n][pos])
           T == {k \in Nat : \A n \in 1..N : n + k >= N => P(n)}
<1>5. ASSUME NEW n \in 1..N, \A m \in 1..N : m > n => P(m)
      PROVE  P(n)
  <2>1. SUFFICES ASSUME NEW pos \in 1..(L + 1)
                 PROVE  Right(trie, n, url, pos, f[n][pos])
    OBVIOUS
  <2>2. CASE pos > L
    <3>1. pos = L + 1
      BY <1>1, <2>2
    <3>2. f[n][pos] = [rule |-> trie[n].rule, params |-> NoParams]
      BY <1>4, <2>1, <2>2 DEF FindStep
    <3>3. QED
      BY <1>1, <3>1, <3>2, RightAtEnd
  <2>3. CASE ~(pos > L)
    <3>1. pos \in 1..L
      BY <1>1, <2>3
    <3>2. f[n][pos] = BestOf(f, trie, url, n, pos)
      BY <1>4, <2>1, <2>3 DEF FindStep
    <3>3. \A m \in 1..Len(trie) : m > n =>
            \A p \in 1..(Len(url) + 1) : Right(trie, m, url, p, f[m][p])
      BY <1>5
    <3>4. Right(trie, n, url, pos, BestOf(f, trie, url, n, pos))
      BY <1>1, <3>1, <3>3, RightFromBranches
    <3>5. QED
      BY <3>2, <3>4
  <2>4. QED
    BY <2>2, <2>3
<1> HIDE DEF P
<1>6. 0 \in T
  <2>1. SUFFICES ASSUME NEW n \in 1..N, n + 0 >= N
                 PROVE  P(n)
    OBVIOUS
  <2>2. \A m \in 1..N : ~(m > n)
    BY <1>1, <2>1
  <2>3. QED
    BY <1>5, <2>2
<1>7. ASSUME NEW k \in Nat, k \in T
      PROVE  k + 1 \in T
  <2>1. SUFFICES ASSUME NEW n \in 1..N, n + (k + 1) >= N
                 PROVE  P(n)
    OBVIOUS
  <2>2. ASSUME NEW m \in 1..N, m > n
        PROVE  P(m)
    <3>1. m + k >= N
      BY <1>1, <2>1, <2>2
    <3>2. QED
      BY <1>7, <3>1
  <2>3. QED
    BY <1>5, <2>2
<1>8. N \in T
  BY <1>1, <1>6, <1>7, Induction
<1>9. P(1)
  <2>1. 1 \in 1..N /\ 1 + N >= N
    BY <1>1
  <2>2. QED
    BY <1>8, <2>1
<1>10. 1 \in 1..(L + 1)
  BY <1>1
<1>11. QED
  BY <1>3, <1>9, <1>10 DEF P

-----------------------------------------------------------------------------
(* find, by what is spelled; and the values a template reads by its types. *)

Reads(t, url) == ReadOver(t, url, At(1)).pos = Len(url) + 1
GivenBy(t, url) == ReadOver(t, url, At(1)).given

FindTells(trie, url, r) ==
  /\ r \in Routes(url)
  /\ r.rule # 0 =>
       \E t : /\ Spelled(trie, t, r.rule) /\ Reads(t, url)
              /\ Gathers(r.params, GivenBy(t, url))
  /\ \A t, i : Spelled(trie, t, i) /\ Reads(t, url) => r.rule # 0 /\ r.rule <= i

\* The least rule spelled by a template that reads the path, with its values.
LEMMA FindSpelled ==
  ASSUME NEW top, NEW trie, GoodTrie(trie, top), NEW url \in Seq(PathChars)
  PROVE  FindTells(trie, url, Find(trie, url))
<1> DEFINE r == Find(trie, url)
<1>1. Right(trie, 1, url, 1, r)
  BY FindIs
<1> HIDE DEF r
<1>2. ASSUME r.rule # 0
      PROVE  \E t : /\ Spelled(trie, t, r.rule) /\ Reads(t, url)
                    /\ Gathers(r.params, GivenBy(t, url))
  <2>1. PICK s, x : /\ Hit(trie, 1, url, 1, s, x) /\ r.rule = trie[x].rule
                    /\ Gathers(r.params, ReadOver(s, url, At(1)).given)
    BY <1>1, <1>2 DEF Right
  <2>2. <<1, s, x>> \in Names(trie) /\ x \in 1..Len(trie)
    BY <2>1, NamesType DEF Hit
  <2>3. QED
    BY <1>2, <2>1, <2>2 DEF Hit, Spelled, Reads, GivenBy
<1>3. ASSUME NEW t, NEW i, Spelled(trie, t, i), Reads(t, url)
      PROVE  r.rule # 0 /\ r.rule <= i
  <2>1. PICK x \in 1..Len(trie) : <<1, t, x>> \in Names(trie) /\ trie[x].rule = i
    BY <1>3 DEF Spelled
  <2>2. Hit(trie, 1, url, 1, t, x)
    BY <1>3, <2>1 DEF Hit, Spelled, Reads
  <2>3. QED
    BY <1>1, <2>1, <2>2 DEF Right
<1>4. QED
  BY <1>1, <1>2, <1>3 DEF FindTells, Right, r

\* f[k] has the types of the tags among the first k elements.
Typing(f, template) ==
  /\ f[0] = <<>>
  /\ \A k \in 1..Len(template) :
       f[k] = IF template[k] \in TagNames THEN Append(f[k - 1], TypeOfTag(template[k]))
              ELSE f[k - 1]

LEMMA TypingIs ==
  ASSUME NEW template, Len(template) \in Nat
  PROVE  \E f : Typing(f, template) /\ TypesOf(template) = f[Len(template)]
<1> DEFINE N == Len(template)
           f == CHOOSE f : f = [k \in 0..N |-> TypesStep(f, template, k)]
<1>1. f = [k \in 0..N |-> TypesStep(f, template, k)]
  BY SomeTypes, Zenon DEF TypesUpTo
<1>2. TypesOf(template) = f[N]
  BY Zenon DEF TypesOf, TypesStep
<1> HIDE DEF f
<1>3. f[0] = <<>>
  BY <1>1 DEF TypesStep
<1>4. ASSUME NEW k \in 1..N
      PROVE  f[k] = IF template[k] \in TagNames THEN Append(f[k - 1], TypeOfTag(template[k]))
                    ELSE f[k - 1]
  <2>1. k \in 0..N /\ k # 0
    OBVIOUS
  <2>2. QED
    BY <1>1, <2>1 DEF TypesStep
<1>5. Typing(f, template)
  BY <1>3, <1>4 DEF Typing
<1>6. QED
  BY <1>2, <1>5

LEMMA TypingEnds ==
  ASSUME NEW template, Len(template) \in Nat, NEW g, Typing(g, template)
  PROVE  TypesOf(template) = g[Len(template)]
<1> DEFINE N == Len(template)
           T == {k \in Nat : k <= N => \A f : Typing(f, template) => f[k] = g[k]}
<1>1. 0 \in T
  BY DEF Typing
<1>2. ASSUME NEW k \in Nat, k \in T
      PROVE  k + 1 \in T
  <2>1. SUFFICES ASSUME k + 1 <= N, NEW f, Typing(f, template)
                 PROVE  f[k + 1] = g[k + 1]
    OBVIOUS
  <2>2. k + 1 \in 1..N /\ (k + 1) - 1 = k /\ f[k] = g[k]
    BY <1>2, <2>1
  <2>3. QED
    BY <2>1, <2>2 DEF Typing
<1>3. N \in T
  BY <1>1, <1>2, Induction
<1>4. QED
  BY <1>3, TypingIs

\* A list of values, each of the type of its tag.
Fits(given, types) ==
  /\ Len(given) = Len(types)
  /\ \A i \in 1..Len(types) : given[i][1] = CppType(types[i])

LEMMA ReadFits ==
  ASSUME NEW url \in Seq(PathChars), NEW template \in Templates,
         ReadOver(template, url, At(1)).pos # 0
  PROVE  GivenBy(template, url) \in Seq(Pairs(url)) /\ Fits(GivenBy(template, url), TypesOf(template))
<1> DEFINE N == Len(template)
           L == Len(url)
           P == Pairs(url)
<1>1. N \in Nat /\ L \in Nat
  BY LenProperties DEF Templates
<1>2. PICK f : Reading(f, template, url, At(1)) /\ ReadOver(template, url, At(1)) = f[N]
  BY <1>1, ReadingIs
<1>3. PICK g : Typing(g, template) /\ TypesOf(template) = g[N]
  BY <1>1, TypingIs
<1> DEFINE OK(a, b) ==
             a.pos # 0 => \E p \in Nat : \E h \in Seq(P) :
                            /\ a = [pos |-> p, given |-> h]
                            /\ b \in Seq(DOMAIN Tags) /\ Fits(h, b)
           S == {k \in Nat : k <= N => OK(f[k], g[k])}
<1> HIDE DEF P
<1>4. 0 \in S
  <2>1. f[0] = [pos |-> 1, given |-> <<>>] /\ g[0] = <<>>
    BY <1>2, <1>3 DEF Reading, Typing, At
  <2>2. <<>> \in Seq(P) /\ <<>> \in Seq(DOMAIN Tags) /\ Fits(<<>>, <<>>)
    BY DEF Fits
  <2>3. OK(f[0], g[0])
    BY <2>1, <2>2
  <2> HIDE DEF OK
  <2>4. QED
    BY <2>3
<1>5. ASSUME NEW k \in Nat, k \in S
      PROVE  k + 1 \in S
  <2> HIDE DEF OK
  <2>1. SUFFICES ASSUME k + 1 <= N
                 PROVE  OK(f[k + 1], g[k + 1])
    OBVIOUS
  <2>2. k + 1 \in 1..N /\ (k + 1) - 1 = k /\ OK(f[k], g[k])
    BY <1>1, <1>5, <2>1
  <2> USE DEF OK
  <2>3. SUFFICES ASSUME f[k + 1].pos # 0
                 PROVE  OK(f[k + 1], g[k + 1])
    OBVIOUS
  <2> DEFINE e == template[k + 1]
  <2>4. f[k + 1] = Take(f[k], e, url)
    BY <1>2, <2>2 DEF Reading
  <2>5. g[k + 1] = IF e \in TagNames THEN Append(g[k], TypeOfTag(e)) ELSE g[k]
    BY <1>3, <2>2 DEF Typing
  <2> HIDE DEF e
  <2>6. f[k].pos \in 1..L
    <3>1. Lost.pos = 0
      BY DEF Lost
    <3>2. QED
      BY <2>3, <2>4, <3>1, TakeOutside
  <2>7. f[k].pos # 0
    BY <1>1, <2>6
  <2>8. \E p \in Nat : \E h \in Seq(P) :
           /\ f[k] = [pos |-> p, given |-> h]
           /\ g[k] \in Seq(DOMAIN Tags) /\ Fits(h, g[k])
    BY <2>2, <2>7
  <2>9. PICK p \in Nat, h \in Seq(P) :
           /\ f[k] = [pos |-> p, given |-> h]
           /\ g[k] \in Seq(DOMAIN Tags) /\ Fits(h, g[k])
    BY <2>8
  <2>10. p \in 1..L /\ f[k].given = h /\ f[k].pos # 0
    BY <1>1, <2>6, <2>9
  <2>11. g[k] \in Seq(DOMAIN Tags) /\ Fits(h, g[k])
    BY <2>9
  <2>12. PICK end, new : Effect(e, url, p, end, new)
    <3>1. ~Refused(e, url, p)
      BY <2>3, <2>4, <2>9 DEF Refused, Lost
    <3>2. QED
      BY <2>10, <3>1, TakeIs
  <2>13. f[k + 1] = [pos |-> end, given |-> h \o new] /\ end \in Nat /\ new \in Seq(P)
    <3>1. Take(f[k], e, url) = [pos |-> end, given |-> h \o new]
      BY <2>9, <2>12 DEF Effect
    <3>2. end \in (p + 1)..(L + 1) /\ new \in Seq(P)
      BY <2>12 DEF Effect, P
    <3>3. QED
      BY <1>1, <2>4, <2>10, <3>1, <3>2
  <2>14. h \o new \in Seq(P)
    BY <2>13, ConcatProperties
  <2>15. CASE e \notin TagNames
    <3>1. new = <<>> /\ g[k + 1] = g[k]
      BY <2>5, <2>12, <2>15 DEF Effect
    <3>2. h \o new = h
      BY <3>1, ConcatEmptySeq
    <3>3. /\ f[k + 1] = [pos |-> end, given |-> h] /\ end \in Nat
          /\ g[k + 1] \in Seq(DOMAIN Tags) /\ Fits(h, g[k + 1])
      BY <2>11, <2>13, <3>1, <3>2
    <3>4. QED
      BY <3>3
  <2>16. CASE e \in TagNames
    <3> DEFINE type == TypeOfTag(e)
    <3>1. type \in DOMAIN Tags /\ g[k + 1] = Append(g[k], type)
      BY <2>5, <2>16, TagTypes
    <3>2. PICK v \in Values(url) : new = <<<<CppType(type), v>>>>
      BY <2>12, <2>16 DEF Effect
    <3> HIDE DEF type
    <3> DEFINE pair == <<CppType(type), v>>
    <3>3. pair \in P /\ new = <<pair>> /\ pair[1] = CppType(type)
      <4> HIDE DEF P
      <4>1. new = <<pair>> /\ Len(new) = 1 /\ new[1] = pair
        BY <3>2
      <4>2. new[1] \in P
        BY <2>13, <4>1
      <4>3. QED
        BY <4>1, <4>2
    <3> HIDE DEF pair
    <3>4. h \o new = Append(h, pair)
      BY <3>3
    <3>5. g[k + 1] \in Seq(DOMAIN Tags) /\ Fits(Append(h, pair), g[k + 1])
      <4>1. g[k + 1] \in Seq(DOMAIN Tags) /\ Len(g[k + 1]) = Len(g[k]) + 1
            /\ Len(Append(h, pair)) = Len(h) + 1
        BY <2>11, <3>1, <3>3
      <4>2. Len(h) = Len(g[k]) /\ Len(h) \in Nat
        BY <2>11 DEF Fits
      <4>3. ASSUME NEW i \in 1..Len(g[k + 1])
            PROVE  Append(h, pair)[i][1] = CppType(g[k + 1][i])
        <5>1. CASE i = Len(h) + 1
          <6>1. Append(h, pair)[i] = pair /\ g[k + 1][i] = type
            BY <2>11, <3>1, <3>3, <4>2, <5>1
          <6>2. QED
            BY <3>3, <6>1
        <5>2. CASE i # Len(h) + 1
          <6>1. i \in 1..Len(h)
            BY <4>1, <4>2, <5>2
          <6>2. Append(h, pair)[i] = h[i] /\ g[k + 1][i] = g[k][i]
            BY <2>11, <3>1, <3>3, <4>2, <6>1
          <6>3. QED
            BY <2>11, <4>2, <6>1, <6>2 DEF Fits
        <5>3. QED
          BY <5>1, <5>2
      <4>4. QED
        BY <4>1, <4>2, <4>3 DEF Fits
    <3> DEFINE more == Append(h, pair)
    <3>6. f[k + 1] = [pos |-> end, given |-> more] /\ end \in Nat /\ more \in Seq(P)
      BY <2>13, <2>14, <3>4
    <3> HIDE DEF more
    <3>7. g[k + 1] \in Seq(DOMAIN Tags) /\ Fits(more, g[k + 1])
      BY <3>5 DEF more
    <3>8. QED
      BY <3>6, <3>7
  <2>17. QED
    BY <2>15, <2>16
<1>6. N \in S
  BY <1>1, <1>4, <1>5, Induction
<1>7. OK(f[N], g[N])
  BY <1>1, <1>6
<1>8. PICK p \in Nat, h \in Seq(P) :
         f[N] = [pos |-> p, given |-> h] /\ Fits(h, g[N])
  BY <1>2, <1>7
<1>9. GivenBy(template, url) = h
  BY <1>2, <1>8 DEF GivenBy
<1>10. QED
  BY <1>3, <1>8, <1>9 DEF P

-----------------------------------------------------------------------------
(* The two forms of a template, and the arguments of its handler.          *)

LEMMA SlashIsNoTag == "/" \notin TagNames
BY DEF TagNames, Tags

LEMMA FrontIs ==
  ASSUME NEW u \in Seq(Elements), HasDirectoryForm(u)
  PROVE  /\ Front(u) \in Templates /\ <<"/">> \in Templates /\ u \in Templates
         /\ Len(u) \in Nat /\ Len(u) >= 1 /\ Len(Front(u)) = Len(u) - 1 /\ u[Len(u)] = "/"
         /\ \A k \in 1..(Len(u) - 1) : Front(u)[k] = u[k]
         /\ u = Front(u) \o <<"/">>
<1> DEFINE L == Len(u)
<1>1. L \in Nat
  OBVIOUS
<1>2. L >= 1
  <2>1. L > 2 \/ \E i \in DOMAIN u : TRUE
    BY DEF HasDirectoryForm, LongerThanTwo
  <2>2. QED
    BY <2>1
<1>3. u[L] = "/"
  BY DEF HasDirectoryForm, Last
<1>4. Front(u) = SubSeq(u, 1, L - 1)
  BY DEF Front
<1>5. /\ SubSeq(u, 1, L - 1) \in Seq(Elements)
      /\ Len(SubSeq(u, 1, L - 1)) = IF 1 <= L - 1 THEN L - 1 - 1 + 1 ELSE 0
      /\ \A i \in 1..(L - 1 - 1 + 1) : SubSeq(u, 1, L - 1)[i] = u[1 + i - 1]
  <2>1. 1 \in Int /\ L - 1 \in Int /\ \A i \in 1..(L - 1) : u[i] \in Elements
    BY <1>1
  <2>2. QED
    BY <2>1, SubSeqProperties
<1>6. Len(Front(u)) = L - 1
  <2>1. PICK l \in Nat : l = L /\ l >= 1
    BY <1>1, <1>2
  <2>2. CASE l = 1
    <3>1. ~(1 <= l - 1) /\ l - 1 = 0
      BY <2>2
    <3>2. QED
      BY <1>4, <1>5, <2>1, <3>1
  <2>3. CASE l # 1
    <3>1. 1 <= l - 1 /\ l - 1 - 1 + 1 = l - 1
      BY <2>1, <2>3
    <3>2. QED
      BY <1>4, <1>5, <2>1, <3>1
  <2>4. QED
    BY <2>2, <2>3
<1>7. \A k \in 1..(L - 1) : Front(u)[k] = u[k]
  <2>1. \A k \in 1..(L - 1) : k \in 1..(L - 1 - 1 + 1) /\ 1 + k - 1 = k
    BY <1>1
  <2>2. QED
    BY <1>4, <1>5, <2>1
<1>8. "/" \in Elements
  BY <1>1, <1>2, <1>3
<1>9. Front(u) \in Seq(Chars) /\ <<"/">> \in Seq(Chars) /\ u \in Seq(Chars)
  <2>1. "/" \in Chars
    BY <1>8 DEF Chars
  <2>2. QED
    BY <1>4, <1>5, <2>1 DEF Chars
<1>10. u = Front(u) \o <<"/">>
  <2> DEFINE v == Front(u)
  <2>1. v \in Seq(Chars) /\ Len(v) = L - 1
    BY <1>6, <1>9
  <2> HIDE DEF v
  <2>2. /\ v \o <<"/">> \in Seq(Chars) /\ Len(v \o <<"/">>) = L
        /\ \A k \in 1..L : (v \o <<"/">>)[k] = IF k <= L - 1 THEN v[k] ELSE "/"
    BY <1>1, <1>9, <2>1
  <2>3. \A k \in 1..L : (v \o <<"/">>)[k] = u[k]
    <3>1. \A k \in 1..L : k \in 1..(L - 1) \/ k = L
      BY <1>1
    <3>2. QED
      BY <1>1, <1>3, <1>7, <2>2, <3>1 DEF v
  <2>4. QED
    BY <1>9, <2>2, <2>3 DEF v
<1>11. QED
  BY <1>1, <1>2, <1>3, <1>6, <1>7, <1>9, <1>10 DEF Templates

\* The slash at the end gives nothing.
LEMMA FrontTypes ==
  ASSUME NEW u \in Seq(Elements), HasDirectoryForm(u)
  PROVE  TypesOf(Front(u)) = TypesOf(u)
<1> DEFINE L == Len(u)
<1>1. /\ L \in Nat /\ L >= 1 /\ Len(Front(u)) = L - 1 /\ u[L] = "/"
      /\ \A k \in 1..(L - 1) : Front(u)[k] = u[k]
  BY FrontIs
<1>2. PICK g : Typing(g, u) /\ TypesOf(u) = g[L]
  BY <1>1, TypingIs
<1>3. g[L] = g[L - 1]
  BY <1>1, <1>2, SlashIsNoTag DEF Typing
<1>4. Typing(g, Front(u))
  <2>1. \A k \in 1..(L - 1) : k \in 1..L /\ Front(u)[k] = u[k]
    BY <1>1
  <2>2. QED
    BY <1>1, <1>2, <2>1 DEF Typing
<1>5. TypesOf(Front(u)) = g[L - 1]
  BY <1>1, <1>4, TypingEnds
<1>6. QED
  BY <1>2, <1>3, <1>5

\* No path is read by both.
LEMMA OneForm ==
  ASSUME NEW u \in Seq(Elements), HasDirectoryForm(u), NEW url \in Seq(PathChars),
         Reads(u, url), Reads(Front(u), url)
  PROVE  FALSE
<1> DEFINE s == Front(u)
           r == ReadOver(s, url, At(1))
<1>1. s \in Templates /\ <<"/">> \in Templates /\ u = s \o <<"/">>
  BY FrontIs
<1>2. r.pos = Len(url) + 1 /\ Len(url) \in Nat
  BY DEF Reads
<1> HIDE DEF s
<1>3. ReadOver(s \o <<"/">>, url, At(1)) = ReadOver(<<"/">>, url, r)
  BY <1>1, ReadJoin
<1> HIDE DEF r
<1>4. r.pos \notin 1..Len(url)
  BY <1>2
<1>5. <<"/">> # <<>>
  OBVIOUS
<1>6. ReadOver(<<"/">>, url, r) = Lost
  BY <1>1, <1>4, <1>5, ReadLost
<1>7. QED
  BY <1>1, <1>3, <1>2, <1>6 DEF Reads, Lost

LEMMA RegisteredFits ==
  ASSUME NEW rule \in Registered, rule.handler
  PROVE  /\ rule.takes \in Seq(DOMAIN Tags) /\ Len(rule.takes) = Len(TypesOf(rule.url))
         /\ \A i \in 1..Len(rule.takes) : CppType(rule.takes[i]) = CppType(TypesOf(rule.url)[i])
<1>1. PICK choice \in Accepted : rule = RuleOf(choice)
  BY DEF Registered
<1>2. choice \in RuleChoices /\ (choice.handler => Wraps(choice))
  BY <1>1 DEF Accepted
<1>3. /\ rule.url = choice.url /\ rule.takes = choice.takes
      /\ rule.handler = choice.handler
  BY <1>1 DEF RuleOf
<1>4. Wraps(choice)
  BY <1>2, <1>3
<1>5. TypesOf(choice.url) \in Seq(DOMAIN Tags) /\ choice.takes \in Seq(DOMAIN Tags)
  BY <1>2, RouterAssumption, TypesOfType
<1> DEFINE s == TypesOf(choice.url)
           t == choice.takes
<1> HIDE DEF s, t
<1>6. s \in Seq(DOMAIN Tags) /\ t \in Seq(DOMAIN Tags)
  BY <1>5 DEF s, t
<1>7. /\ Len(s) = Len(t)
      /\ \A i \in 1..Len(s) : CppType(s[i]) = CppType(t[i])
  BY <1>4, <1>6, AgreeingTypes DEF s, t, Wraps, ParameterTag
<1>8. QED
  BY <1>3, <1>6, <1>7 DEF s, t

Seconds(given) == [i \in DOMAIN given |-> given[i][2]]

\* get<T> gives a handler the values in the order in which its template read them.
LEMMA ArgumentsAre ==
  ASSUME NEW url, NEW takes \in Seq(DOMAIN Tags), NEW given \in Seq(Pairs(url)),
         Fits(given, takes), NEW params, Gathers(params, given)
  PROVE  Arguments(takes, params) = Seconds(given)
<1>1. /\ Len(given) = Len(takes) /\ DOMAIN given = DOMAIN takes
      /\ \A i \in DOMAIN takes : given[i][1] = CppType(takes[i])
  BY DEF Fits
<1>2. Placed(params, given, 1)
  <2>1. given \in Seq(CppTypes \X Values(url))
    BY DEF Pairs
  <2>2. QED
    BY <2>1, GatherPlaces
<1>3. ASSUME NEW i \in DOMAIN takes
      PROVE  params[CppType(takes[i])]
               [Cardinality({j \in 1..i : CppType(takes[j]) = CppType(takes[i])})]
             = given[i][2]
  <2>1. \A j \in 1..i : j \in DOMAIN takes
    OBVIOUS
  <2>2. {j \in 1..i : CppType(takes[j]) = CppType(takes[i])}
          = {j \in 1..i : given[j][1] = given[i][1]}
    BY <1>1, <2>1
  <2>3. i \in 1..Len(given)
    BY <1>1
  <2>4. params[given[i][1]][CountFrom(given, 1, i)] = given[i][2]
    BY <1>2, <2>3 DEF Placed
  <2>5. CppType(takes[i]) = given[i][1]
    BY <1>1
  <2>6. QED
    BY <2>2, <2>4, <2>5 DEF CountFrom
<1>4. Arguments(takes, params) = [i \in DOMAIN takes |-> given[i][2]]
  BY <1>3 DEF Arguments
<1>5. QED
  BY <1>1, <1>4 DEF Seconds

-----------------------------------------------------------------------------
(* validate: what is spelled in the trie of a method is what its rules say. *)

LEMMA GoodMore ==
  ASSUME NEW top \in Nat, NEW trie, GoodTrie(trie, top)
  PROVE  GoodTrie(trie, top + 1)
BY MoreRules DEF GoodTrie

\* Each index spells the forms of its rule.
Spelling(table) ==
  \A t, i : Spelled(table.trie, t, i)
              <=> i \in 1..Len(table.rules) /\ t \in Forms(table.rules[i])

\* All rules of the method before the rule at an index have an index before it.
Lined(table, m) ==
  \A i \in 1..Len(table.rules) : \A n \in 1..Len(allRules) :
    n < table.rules[i] /\ m \in allRules[n].methods => \E k \in 1..(i - 1) : table.rules[k] = n

Sound(table, m) ==
  /\ table.rules \in Seq(1..Len(allRules))
  /\ GoodTrie(table.trie, Len(table.rules))
  /\ Spelling(table)
  /\ \A i \in 1..Len(table.rules) :
       m \in allRules[table.rules[i]].methods /\ allRules[table.rules[i]].handler
  /\ Lined(table, m)

\* The first n rules of the method are in the table.
Covers(table, m, n) ==
  \A r \in 1..n : m \in allRules[r].methods => \E k \in 1..Len(table.rules) : table.rules[k] = r

Longer(old, new) ==
  /\ Len(old.rules) <= Len(new.rules)
  /\ \A i \in 1..Len(old.rules) : new.rules[i] = old.rules[i]

Ready(table, old, m, n) ==
  /\ Sound(table, m) /\ Covers(table, m, n) /\ Longer(old, table)
  /\ Letterwise(old.trie) => Letterwise(table.trie)

\* The table after optimize.
Served(table, old, m, n) ==
  /\ Sound(table, m) /\ Covers(table, m, n) /\ Longer(old, table)
  /\ Letterwise(old.trie) => Evenly(table.trie)

LEMMA AddToMethodSound ==
  ASSUME allRules \in Seq(Registered), NEW n \in 1..Len(allRules), allRules[n].handler,
         NEW m \in allRules[n].methods, NEW table, NEW old, Len(old.rules) \in Nat,
         Ready(table, old, m, n - 1), AddToMethod(table, allRules[n], n).ok
  PROVE  Ready(AddToMethod(table, allRules[n], n).table, old, m, n)
<1> DEFINE rule   == allRules[n]
           url    == rule.url
           rules  == Append(table.rules, n)
           L      == Len(table.rules)
           first  == Add(table.trie, url, Len(rules))
           second == IF HasDirectoryForm(url) THEN Add(first.nodes, Front(url), Len(rules))
                     ELSE first
           added  == AddToMethod(table, rule, n)
           after  == added.table
<1>1. /\ rule \in Registered /\ Len(allRules) \in Nat /\ n \in Nat /\ n - 1 \in Nat
      /\ url \in Seq(Elements)
  BY RegisteredType
<1>2. /\ table.rules \in Seq(1..Len(allRules)) /\ L \in Nat
      /\ GoodTrie(table.trie, L) /\ Spelling(table) /\ Lined(table, m)
      /\ \A i \in 1..L : m \in allRules[table.rules[i]].methods /\ allRules[table.rules[i]].handler
      /\ Covers(table, m, n - 1) /\ Longer(old, table)
      /\ Letterwise(old.trie) => Letterwise(table.trie)
  BY DEF Ready, Sound
<1>3. /\ rules \in Seq(1..Len(allRules)) /\ Len(rules) = L + 1 /\ rules[L + 1] = n
      /\ \A i \in 1..L : rules[i] = table.rules[i]
  BY <1>2
<1>4. added = [ok |-> first.ok /\ second.ok, table |-> [rules |-> rules, trie |-> second.nodes]]
  BY DEF AddToMethod
<1>5. Forms(n) = {url} \cup IF HasDirectoryForm(url) THEN {Front(url)} ELSE {}
  BY DEF Forms
<1> HIDE DEF url, rules
<1>6. GoodTrie(table.trie, L + 1) /\ L + 1 \in Nat /\ L + 1 \in 1..(L + 1)
  BY <1>2, GoodMore
<1> DEFINE add == Add(table.trie, url, L + 1)
<1>7. /\ add.ok \in BOOLEAN
      /\ add.ok =>
           /\ GoodTrie(add.nodes, L + 1)
           /\ \A t, i : Spelled(add.nodes, t, i)
                          <=> Spelled(table.trie, t, i) \/ (t = url /\ i = L + 1)
           /\ Letterwise(table.trie) => Letterwise(add.nodes)
  <2>1. url \in Seq(Elements)
    BY <1>1 DEF url
  <2>2. LET a == Add(table.trie, url, L + 1) IN
        /\ a.ok \in BOOLEAN
        /\ a.ok =>
             /\ GoodTrie(a.nodes, L + 1)
             /\ \A t, i : Spelled(a.nodes, t, i)
                            <=> Spelled(table.trie, t, i) \/ (t = url /\ i = L + 1)
             /\ Letterwise(table.trie) => Letterwise(a.nodes)
    BY <1>6, <2>1, AddSpells
  <2>3. QED
    BY <2>2
<1>8. first = add
  BY <1>3
<1> HIDE DEF add, first
<1> DEFINE more == Add(first.nodes, Front(url), L + 1)
<1>9. (add.ok /\ HasDirectoryForm(url)) =>
        /\ more.ok \in BOOLEAN
        /\ more.ok =>
             /\ GoodTrie(more.nodes, L + 1)
             /\ \A t, i : Spelled(more.nodes, t, i)
                            <=> Spelled(first.nodes, t, i) \/ (t = Front(url) /\ i = L + 1)
             /\ Letterwise(first.nodes) => Letterwise(more.nodes)
  <2>1. SUFFICES ASSUME add.ok, HasDirectoryForm(url)
                 PROVE  /\ more.ok \in BOOLEAN
                        /\ more.ok =>
                             /\ GoodTrie(more.nodes, L + 1)
                             /\ \A t, i : Spelled(more.nodes, t, i)
                                  <=> Spelled(first.nodes, t, i) \/ (t = Front(url) /\ i = L + 1)
                             /\ Letterwise(first.nodes) => Letterwise(more.nodes)
    OBVIOUS
  <2>2. GoodTrie(first.nodes, L + 1) /\ Front(url) \in Seq(Elements)
    BY <1>1, <1>7, <1>8, <2>1, DirectoryForm DEF url
  <2>3. LET a == Add(first.nodes, Front(url), L + 1) IN
        /\ a.ok \in BOOLEAN
        /\ a.ok =>
             /\ GoodTrie(a.nodes, L + 1)
             /\ \A t, i : Spelled(a.nodes, t, i)
                            <=> Spelled(first.nodes, t, i) \/ (t = Front(url) /\ i = L + 1)
             /\ Letterwise(first.nodes) => Letterwise(a.nodes)
    BY <1>6, <2>2, AddSpells
  <2>4. QED
    BY <2>3
<1>10. second = IF HasDirectoryForm(url) THEN more ELSE first
  BY <1>3
<1> HIDE DEF more, second
<1> HIDE DEF added
<1>11. /\ added.ok = (first.ok /\ second.ok)
       /\ after = [rules |-> rules, trie |-> second.nodes]
  BY <1>4, Zenon
<1>12. first.ok /\ second.ok
  BY <1>11 DEF rule, added
<1> HIDE DEF after
<1>13. after.rules = rules /\ after.trie = second.nodes
  BY <1>11
<1>14. /\ GoodTrie(second.nodes, L + 1)
       /\ \A t, i : Spelled(second.nodes, t, i)
                      <=> Spelled(table.trie, t, i) \/ (t \in Forms(n) /\ i = L + 1)
       /\ Letterwise(table.trie) => Letterwise(second.nodes)
  <2>1. CASE HasDirectoryForm(url)
    BY <1>5, <1>7, <1>8, <1>9, <1>10, <1>12, <2>1
  <2>2. CASE ~HasDirectoryForm(url)
    BY <1>5, <1>7, <1>8, <1>10, <1>12, <2>2
  <2>3. QED
    BY <2>1, <2>2
<1>15. Spelling(after)
  <2>1. SUFFICES ASSUME NEW t, NEW i
                 PROVE  Spelled(second.nodes, t, i)
                          <=> i \in 1..(L + 1) /\ t \in Forms(rules[i])
    BY <1>3, <1>13 DEF Spelling
  <2>2. Spelled(table.trie, t, i) <=> i \in 1..L /\ t \in Forms(table.rules[i])
    BY <1>2 DEF Spelling
  <2>3. i \in 1..(L + 1) <=> i \in 1..L \/ i = L + 1
    BY <1>2
  <2>4. i = L + 1 => i \notin 1..L
    BY <1>2
  <2>5. QED
    BY <1>3, <1>14, <2>2, <2>3, <2>4
<1>16. \A i \in 1..(L + 1) : i \in 1..L \/ i = L + 1
  <2>1. PICK l \in Nat : l = L
    BY <1>2
  <2>2. \A i \in 1..(l + 1) : i \in 1..l \/ i = l + 1
    OBVIOUS
  <2>3. QED
    BY <2>1, <2>2
<1>17. \A i \in 1..(L + 1) : m \in allRules[rules[i]].methods /\ allRules[rules[i]].handler
  BY <1>2, <1>3, <1>16
<1>18. Lined(after, m)
  <2>1. SUFFICES ASSUME NEW i \in 1..(L + 1), NEW r \in 1..Len(allRules), r < rules[i],
                        m \in allRules[r].methods
                 PROVE  \E k \in 1..(i - 1) : rules[k] = r
    BY <1>3, <1>13 DEF Lined
  <2>2. CASE i \in 1..L
    <3>1. PICK k \in 1..(i - 1) : table.rules[k] = r
      BY <1>2, <1>3, <2>1, <2>2 DEF Lined
    <3>2. k \in 1..L
      BY <1>2, <2>2
    <3>3. QED
      BY <1>3, <3>1, <3>2
  <2>3. CASE i = L + 1
    <3>1. r \in 1..(n - 1) /\ i - 1 = L
      BY <1>1, <1>2, <1>3, <2>1, <2>3
    <3>2. PICK k \in 1..L : table.rules[k] = r
      BY <1>2, <2>1, <3>1 DEF Covers
    <3>3. QED
      BY <1>3, <3>1, <3>2
  <2>4. QED
    BY <1>16, <2>2, <2>3
<1>19. Covers(after, m, n)
  <2>1. SUFFICES ASSUME NEW r \in 1..n, m \in allRules[r].methods
                 PROVE  \E k \in 1..(L + 1) : rules[k] = r
    BY <1>3, <1>13 DEF Covers
  <2>2. CASE r = n
    BY <1>3, <1>6, <2>2
  <2>3. CASE r # n
    <3>1. r \in 1..(n - 1)
      BY <1>1, <2>3
    <3>2. PICK k \in 1..L : table.rules[k] = r
      BY <1>2, <2>1, <3>1 DEF Covers
    <3>3. k \in 1..(L + 1)
      BY <1>2
    <3>4. QED
      BY <1>3, <3>2, <3>3
  <2>4. QED
    BY <2>2, <2>3
<1>20. Longer(old, after)
  <2>1. Len(old.rules) <= L /\ \A i \in 1..Len(old.rules) : table.rules[i] = old.rules[i]
    BY <1>2 DEF Longer
  <2>2. Len(old.rules) <= L + 1 /\ \A i \in 1..Len(old.rules) : i \in 1..L
    BY <1>2, <2>1
  <2>3. QED
    BY <1>3, <1>13, <2>1, <2>2 DEF Longer
<1>21. Sound(after, m)
  BY <1>3, <1>13, <1>14, <1>15, <1>17, <1>18 DEF Sound
<1>22. Letterwise(old.trie) => Letterwise(after.trie)
  BY <1>2, <1>13, <1>14
<1>23. QED
  BY <1>19, <1>20, <1>21, <1>22 DEF Ready, after, added, rule

LEMMA CoversMore ==
  ASSUME NEW n \in 1..Len(allRules), NEW table, NEW old, NEW m, m \notin allRules[n].methods,
         Ready(table, old, m, n - 1)
  PROVE  Ready(table, old, m, n)
<1>1. SUFFICES ASSUME NEW r \in 1..n, m \in allRules[r].methods
               PROVE  \E k \in 1..Len(table.rules) : table.rules[k] = r
  BY DEF Ready, Covers
<1>2. r \in 1..(n - 1)
  BY <1>1
<1>3. QED
  BY <1>1, <1>2 DEF Ready, Covers

LEMMA OptimizedServed ==
  ASSUME NEW table, NEW old, NEW m, NEW n, Ready(table, old, m, n), NEW after,
         after.rules = table.rules, after.trie = Optimize(table.trie)
  PROVE  Served(after, old, m, n)
<1>1. GoodTrie(table.trie, Len(table.rules)) /\ Len(table.rules) \in Nat
  BY DEF Ready, Sound
<1>2. /\ GoodTrie(after.trie, Len(table.rules))
      /\ \A t, i : Spelled(after.trie, t, i) <=> Spelled(table.trie, t, i)
  BY <1>1, OptimizeGood
<1>3. Sound(after, m)
  BY <1>2 DEF Ready, Sound, Spelling, Lined
<1>4. Letterwise(old.trie) => Evenly(after.trie)
  BY <1>1, OptimizedEvenly DEF Ready
<1>5. QED
  BY <1>3, <1>4 DEF Ready, Served, Covers, Longer

\* Unless something was thrown, the tables of the methods in done have the
\* first n rules and the others one less, each grown from its old table.
Rising(acc, old, done, n) ==
  acc.ok => /\ \A m \in done : Ready(acc.tables[m], old[m], m, n)
            /\ \A m \in Methods \ done : Ready(acc.tables[m], old[m], m, n - 1)

Old(old) == \A m \in Methods : Len(old[m].rules) \in Nat

LEMMA AddedForMethodRises ==
  ASSUME allRules \in Seq(Registered), NEW n \in 1..Len(allRules), allRules[n].handler,
         NEW acc, AccOK(acc), NEW old, Old(old), NEW m \in Methods, NEW done, m \notin done,
         done \subseteq Methods, Rising(acc, old, done, n)
  PROVE  Rising(AddedForMethod(acc, m, n), old, done \cup {m}, n)
<1> DEFINE r == AddedForMethod(acc, m, n)
           added == AddToMethod(acc.tables[m], allRules[n], n)
<1>1. CASE ~acc.ok
  <2>1. r = acc
    BY <1>1, Zenon DEF AddedForMethod
  <2>2. QED
    BY <1>1, <2>1, Zenon DEF Rising
<1>2. CASE acc.ok /\ m \notin allRules[n].methods
  <2>1. r = acc
    BY <1>2, Zenon DEF AddedForMethod
  <2>2. /\ \A k \in done : Ready(acc.tables[k], old[k], k, n)
        /\ \A k \in Methods \ done : Ready(acc.tables[k], old[k], k, n - 1)
    BY <1>2, Zenon DEF Rising
  <2>3. Ready(acc.tables[m], old[m], m, n)
    BY <1>2, <2>2, CoversMore
  <2>4. QED
    BY <2>1, <2>2, <2>3, Zenon DEF Rising
<1>3. CASE acc.ok /\ m \in allRules[n].methods
  <2> DEFINE tables == [acc.tables EXCEPT ![m] = added.table]
  <2>1. r = [ok |-> added.ok, tables |-> tables]
    BY <1>3, Zenon DEF AddedForMethod
  <2> HIDE DEF r
  <2>2. r.ok = added.ok /\ r.tables = tables
    BY <2>1
  <2>3. acc.tables = [k \in Methods |-> acc.tables[k]]
    BY DEF AccOK
  <2>4. /\ \A k \in done : Ready(acc.tables[k], old[k], k, n)
        /\ \A k \in Methods \ done : Ready(acc.tables[k], old[k], k, n - 1)
    BY <1>3, Zenon DEF Rising
  <2>5. added.ok => Ready(added.table, old[m], m, n)
    <3>1. Ready(acc.tables[m], old[m], m, n - 1) /\ Len(old[m].rules) \in Nat
      BY <2>4 DEF Old
    <3>2. QED
      BY <1>3, <3>1, AddToMethodSound
  <2> HIDE DEF added
  <2>6. /\ tables[m] = added.table
        /\ \A k \in Methods : k # m => tables[k] = acc.tables[k]
    BY <2>3
  <2> HIDE DEF tables
  <2>7. ASSUME r.ok
        PROVE  /\ \A k \in done \cup {m} : Ready(r.tables[k], old[k], k, n)
               /\ \A k \in Methods \ (done \cup {m}) : Ready(r.tables[k], old[k], k, n - 1)
    <3>1. Ready(tables[m], old[m], m, n)
      BY <2>2, <2>5, <2>6, <2>7, Zenon
    <3>2. \A k \in done \cup {m} : Ready(tables[k], old[k], k, n)
      BY <2>4, <2>6, <3>1
    <3>3. \A k \in Methods \ (done \cup {m}) : Ready(tables[k], old[k], k, n - 1)
      BY <2>4, <2>6
    <3>4. QED
      BY <2>2, <3>2, <3>3
  <2>8. QED
    BY <2>7, Zenon DEF Rising, r
<1>4. QED
  BY <1>1, <1>2, <1>3, Zenon

LEMMA InternalAddRises ==
  ASSUME allRules \in Seq(Registered), NEW n \in 1..Len(allRules), allRules[n].handler,
         NEW tables, AccOK([ok |-> TRUE, tables |-> tables]), NEW old, Old(old),
         \A m \in Methods : Ready(tables[m], old[m], m, n - 1)
  PROVE  Rising(InternalAddRuleObject(tables, n), old, Methods, n)
<1> DEFINE N == Len(MethodOrder)
           f == CHOOSE f : f = [k \in 0..N |-> MethodStep(f, tables, n, k)]
           start == [ok |-> TRUE, tables |-> tables]
<1>1. N \in Nat
  BY MethodOrderIs
<1>2. f = [k \in 0..N |-> MethodStep(f, tables, n, k)]
  <2>1. \E g : MethodsUpTo(g, tables, n, N)
    BY <1>1, SomeMethods
  <2>2. QED
    BY <2>1, Zenon DEF MethodsUpTo
<1>3. InternalAddRuleObject(tables, n) = f[N]
  BY Zenon DEF InternalAddRuleObject, MethodStep
<1> HIDE DEF f
<1>4. \A k \in 0..N : f[k] = MethodStep(f, tables, n, k)
  BY <1>2
<1>5. f[0] = start
  <2>1. 0 \in 0..N
    BY <1>1
  <2>2. f[0] = MethodStep(f, tables, n, 0)
    BY <1>4, <2>1
  <2>3. QED
    BY <2>2, Zenon DEF MethodStep
<1> DEFINE Done(k) == {MethodOrder[i] : i \in 1..k}
           T == {k \in Nat : k <= N => AccOK(f[k]) /\ Rising(f[k], old, Done(k), n)}
<1>6. start.ok /\ start.tables = tables
  BY Zenon
<1>7. 0 \in T
  <2>1. Done(0) = {}
    OBVIOUS
  <2>2. Rising(start, old, {}, n)
    BY <1>6, Zenon DEF Rising
  <2> HIDE DEF Done
  <2>3. QED
    BY <1>5, <2>1, <2>2
<1>8. ASSUME NEW k \in Nat, k \in T
      PROVE  k + 1 \in T
  <2>1. SUFFICES ASSUME k + 1 <= N
                 PROVE  AccOK(f[k + 1]) /\ Rising(f[k + 1], old, Done(k + 1), n)
    OBVIOUS
  <2>2. AccOK(f[k]) /\ Rising(f[k], old, Done(k), n)
    BY <1>1, <1>8, <2>1
  <2> DEFINE m == MethodOrder[k + 1]
  <2>3. k + 1 \in 0..N /\ k + 1 # 0 /\ k + 1 - 1 = k /\ k + 1 \in 1..N
    BY <1>1, <2>1
  <2>4. f[k + 1] = AddedForMethod(f[k], m, n)
    BY <1>4, <2>3 DEF MethodStep
  <2>5. m \in Methods /\ m \notin Done(k) /\ Done(k) \subseteq Methods
    <3>1. \A i \in 1..k : i \in 1..N /\ i # k + 1
      BY <1>1, <2>1
    <3>2. QED
      BY <2>3, <3>1, MethodOrderIs
  <2>6. Done(k + 1) = Done(k) \cup {m}
    <3>1. \A i \in 1..(k + 1) : i \in 1..k \/ i = k + 1
      OBVIOUS
    <3>2. \A i \in 1..k : i \in 1..(k + 1)
      OBVIOUS
    <3>3. QED
      BY <3>1, <3>2
  <2> HIDE DEF Done, m
  <2>7. AccOK(f[k + 1])
    BY <2>2, <2>4, <2>5, AddedForMethodIs
  <2>8. QED
    BY <2>2, <2>4, <2>5, <2>6, <2>7, AddedForMethodRises
<1>9. N \in T
  BY <1>1, <1>7, <1>8, Induction
<1>10. Rising(f[N], old, Done(N), n)
  BY <1>1, <1>9
<1>11. Done(N) = Methods
  BY MethodOrderIs
<1> HIDE DEF N, Done
<1>12. QED
  BY <1>3, <1>10, <1>11

LEMMA AddedRuleRises ==
  ASSUME allRules \in Seq(Registered), NEW n \in 1..Len(allRules), NEW acc, AccOK(acc),
         NEW old, Old(old), Rising(acc, old, Methods, n - 1)
  PROVE  Rising(AddedRule(acc, n), old, Methods, n)
<1> DEFINE r == AddedRule(acc, n)
<1>1. CASE ~acc.ok \/ ~allRules[n].handler
  <2>1. r = [acc EXCEPT !.ok = FALSE]
    BY <1>1, Zenon DEF AddedRule
  <2>2. acc = [ok |-> acc.ok, tables |-> acc.tables]
    BY DEF AccOK
  <2>3. r = [ok |-> FALSE, tables |-> acc.tables]
    BY <2>1, <2>2
  <2> HIDE DEF r
  <2>4. r.ok = FALSE
    BY <2>3
  <2>5. QED
    BY <2>4, Zenon DEF Rising, r
<1>2. CASE acc.ok /\ allRules[n].handler
  <2>1. r = InternalAddRuleObject(acc.tables, n)
    BY <1>2, Zenon DEF AddedRule
  <2>2. acc.ok = TRUE
    BY <1>2, Zenon DEF AccOK
  <2>3. AccOK([ok |-> TRUE, tables |-> acc.tables])
    <3>1. acc = [ok |-> acc.ok, tables |-> acc.tables]
      BY DEF AccOK
    <3>2. QED
      BY <2>2, <3>1, Zenon
  <2>4. \A m \in Methods : Ready(acc.tables[m], old[m], m, n - 1)
    BY <1>2, Zenon DEF Rising
  <2>5. QED
    BY <1>2, <2>1, <2>3, <2>4, InternalAddRises
<1>3. QED
  BY <1>1, <1>2, Zenon

\* An index is never taken from a rule, and those of a call come after those
\* of the calls before it.
LEMMA AddAllRulesRises ==
  ASSUME allRules \in Seq(Registered), AccOK([ok |-> TRUE, tables |-> perMethods]),
         Old(perMethods), \A m \in Methods : Sound(perMethods[m], m), AddAllRules.ok
  PROVE  \A m \in Methods : Ready(AddAllRules.tables[m], perMethods[m], m, Len(allRules))
<1> DEFINE N == Len(allRules)
           f == CHOOSE f : f = [k \in 0..N |-> RuleStep(f, k)]
           start == [ok |-> TRUE, tables |-> perMethods]
<1>1. N \in Nat
  OBVIOUS
<1>2. f = [k \in 0..N |-> RuleStep(f, k)]
  <2>1. \E g : RulesUpTo(g, N)
    BY <1>1, SomeRules
  <2>2. QED
    BY <2>1, Zenon DEF RulesUpTo
<1>3. AddAllRules = f[N]
  BY Zenon DEF AddAllRules, RuleStep
<1> HIDE DEF f
<1>4. \A k \in 0..N : f[k] = RuleStep(f, k)
  BY <1>2
<1>5. f[0] = start
  <2>1. 0 \in 0..N
    BY <1>1
  <2>2. f[0] = RuleStep(f, 0)
    BY <1>4, <2>1
  <2>3. QED
    BY <2>2, Zenon DEF RuleStep
<1> DEFINE T == {k \in Nat : k <= N => AccOK(f[k]) /\ Rising(f[k], perMethods, Methods, k)}
<1>6. start.ok /\ start.tables = perMethods
  BY Zenon
<1>7. 0 \in T
  <2>1. ASSUME NEW m \in Methods
        PROVE  Ready(perMethods[m], perMethods[m], m, 0)
    <3>1. Sound(perMethods[m], m) /\ Len(perMethods[m].rules) \in Nat
      BY DEF Old
    <3>2. Covers(perMethods[m], m, 0)
      BY DEF Covers
    <3>3. Longer(perMethods[m], perMethods[m])
      BY <3>1 DEF Longer
    <3>4. QED
      BY <3>1, <3>2, <3>3 DEF Ready
  <2>2. Rising(start, perMethods, Methods, 0)
    <3>1. Methods \ Methods = {}
      OBVIOUS
    <3>2. QED
      BY <1>6, <2>1, <3>1, Zenon DEF Rising
  <2>3. QED
    BY <1>5, <2>2
<1>8. ASSUME NEW k \in Nat, k \in T
      PROVE  k + 1 \in T
  <2>1. SUFFICES ASSUME k + 1 <= N
                 PROVE  AccOK(f[k + 1]) /\ Rising(f[k + 1], perMethods, Methods, k + 1)
    OBVIOUS
  <2>2. AccOK(f[k]) /\ Rising(f[k], perMethods, Methods, k)
    BY <1>1, <1>8, <2>1
  <2>3. PICK n \in 1..N : n = k + 1 /\ n - 1 = k /\ n \in 0..N /\ n # 0
    <3>1. k + 1 \in 1..N /\ k + 1 - 1 = k /\ k + 1 \in 0..N /\ k + 1 # 0
      BY <1>1, <2>1
    <3>2. QED
      BY <3>1
  <2>4. f[n] = AddedRule(f[k], n)
    BY <1>4, <2>3 DEF RuleStep
  <2>5. AccOK(f[n])
    BY <2>2, <2>3, <2>4, AddedRuleIs
  <2>6. Rising(f[n], perMethods, Methods, n)
    BY <2>2, <2>3, <2>4, AddedRuleRises
  <2>7. QED
    BY <2>3, <2>5, <2>6
<1>9. N \in T
  BY <1>1, <1>7, <1>8, Induction
<1>10. Rising(AddAllRules, perMethods, Methods, N)
  BY <1>1, <1>3, <1>9
<1>11. QED
  BY <1>10, Zenon DEF Rising

-----------------------------------------------------------------------------
(* The tables from which the router answers.                               *)

TablesSound == phase = "serving" => \A m \in Methods : Sound(perMethods[m], m)

LEMMA FreshSound ==
  ASSUME NEW m
  PROVE  Sound(Fresh, m)
<1>1. /\ Fresh.rules = <<>> /\ Fresh.trie = NewTrie /\ TrieOK(NewTrie, 0)
  BY FreshFilled DEF Fresh, Filled, TableOK
<1>2. Len(NewTrie) = 1 /\ NewTrie[1] = EmptyNode /\ 1..1 = {1}
  BY DEF NewTrie
<1>3. ASSUME NEW n, NEW s, NEW x, <<n, s, x>> \in Names(NewTrie)
      PROVE  s = <<>>
  <2>1. n \in 1..1 /\ x \in 1..1
    BY <1>2, <1>3, NamesType
  <2>2. n = 1 /\ x = 1
    BY <2>1
  <2>3. SUFFICES ASSUME s # <<>> PROVE FALSE
    BY <2>2
  <2>4. \E e \in Edges(NewTrie[1]) : \E t \in Templates :
          s = e[1] \o t /\ <<e[2], t, x>> \in Names(NewTrie)
    BY <1>1, <1>3, <2>2, <2>3, NamesBack
  <2>5. QED
    BY <1>2, <2>4, EmptyNodeEdges
<1>4. Unique(NewTrie)
  BY <1>3 DEF Unique
<1>5. LiteralKids(NewTrie) /\ Settled(NewTrie)
  <2>1. \A n \in 1..Len(NewTrie) : DOMAIN NewTrie[n].kids = {}
    BY <1>2, EmptyNodeEdges
  <2>2. QED
    BY <2>1 DEF LiteralKids, Settled, OneLetter
<1>6. GoodTrie(NewTrie, 0)
  BY <1>1, <1>4, <1>5 DEF GoodTrie
<1>7. \A t, i : ~Spelled(NewTrie, t, i)
  <2>1. \A x \in 1..Len(NewTrie) : NewTrie[x].rule = 0
    BY <1>2 DEF EmptyNode
  <2>2. QED
    BY <2>1 DEF Spelled
<1>8. Len(Fresh.rules) = 0 /\ 1..0 = {} /\ Fresh.rules \in Seq(1..Len(allRules))
  BY <1>1
<1>9. Spelling(Fresh)
  BY <1>1, <1>7, <1>8 DEF Spelling
<1>10. QED
  BY <1>1, <1>6, <1>8, <1>9 DEF Sound, Lined

LEMMA SoundMore ==
  ASSUME allRules \in Seq(Registered), NEW m \in Methods, Sound(perMethods[m], m),
         NEW rule, allRules' = Append(allRules, rule), perMethods' = perMethods
  PROVE  Sound(perMethods[m], m)'
<1> DEFINE table == perMethods[m]
           L == Len(table.rules)
           N == Len(allRules)
<1>1. /\ N \in Nat /\ Len(allRules') = N + 1
      /\ \A n \in 1..N : allRules'[n] = allRules[n]
  OBVIOUS
<1>2. /\ table.rules \in Seq(1..N) /\ GoodTrie(table.trie, L) /\ Spelling(table)
      /\ \A i \in 1..L : m \in allRules[table.rules[i]].methods /\ allRules[table.rules[i]].handler
      /\ Lined(table, m)
  BY DEF Sound
<1>3. \A i \in 1..L : table.rules[i] \in 1..N
  BY <1>2
<1>4. \A n \in 1..N : (Forms(n))' = Forms(n)
  BY <1>1 DEF Forms
<1>5. table.rules \in Seq(1..(N + 1))
  <2>1. \A n \in 1..N : n \in 1..(N + 1)
    BY <1>1
  <2>2. QED
    BY <1>2, <2>1
<1>6. table' = table
  OBVIOUS
<1>7. Spelling(perMethods[m])'
  <2>1. SUFFICES ASSUME NEW t, NEW i
                 PROVE  (Spelled(table.trie, t, i)
                          <=> i \in 1..Len(table.rules) /\ t \in Forms(table.rules[i]))'
    BY DEF Spelling
  <2>2. Spelled(table.trie, t, i) <=> i \in 1..L /\ t \in Forms(table.rules[i])
    BY <1>2 DEF Spelling
  <2>3. ASSUME i \in 1..L
        PROVE  (Forms(table.rules[i]))' = Forms(table.rules[i])
    <3>1. PICK n \in 1..N : n = table.rules[i]
      BY <1>3, <2>3
    <3>2. (Forms(table.rules[i]))' = (Forms(n))'
      BY <3>1 DEF Forms
    <3>3. QED
      BY <1>4, <3>1, <3>2
  <2>4. QED
    BY <2>2, <2>3
<1>8. Lined(perMethods[m], m)'
  <2>1. SUFFICES ASSUME NEW i \in 1..L, NEW n \in 1..(N + 1),
                        n < table.rules[i], m \in allRules'[n].methods
                 PROVE  \E k \in 1..(i - 1) : table.rules[k] = n
    BY <1>1 DEF Lined
  <2>2. n \in 1..N
    BY <1>1, <1>3, <2>1
  <2>3. m \in allRules[n].methods
    BY <1>1, <2>1, <2>2
  <2>4. QED
    BY <1>2, <2>1, <2>2, <2>3 DEF Lined
<1>9. \A i \in 1..L : m \in allRules'[table.rules[i]].methods /\ allRules'[table.rules[i]].handler
  BY <1>1, <1>2, <1>3
<1>10. QED
  BY <1>1, <1>2, <1>5, <1>7, <1>8, <1>9 DEF Sound

LEMMA SoundSame ==
  ASSUME allRules' = allRules, NEW m \in Methods, Sound(perMethods'[m], m)
  PROVE  Sound(perMethods[m], m)'
<1>1. \A n : (Forms(n))' = Forms(n)
  BY DEF Forms
<1>2. Spelling(perMethods[m])'
  BY DEF Sound, Spelling, Forms
<1>3. Lined(perMethods[m], m)'
  BY DEF Sound, Lined
<1>4. QED
  BY <1>2, <1>3 DEF Sound

\* The old tables and the new ones of a validate that came to its end.
LEMMA ValidateServed ==
  ASSUME RouterInv, TablesSound, Validate, validates' # validates, NEW m \in Methods
  PROVE  Served(perMethods'[m], perMethods[m], m, Len(allRules))
<1> DEFINE all == AddAllRules
<1>1. /\ UNCHANGED allRules /\ phase = "serving" /\ validates \in Nat
      /\ allRules \in Seq(Registered) /\ Len(allRules) \in Nat
  BY RouterAssumption DEF Validate, RouterInv, AllRulesOK
<1>2. AccOK([ok |-> TRUE, tables |-> perMethods])
  <2> DEFINE start == [ok |-> TRUE, tables |-> perMethods]
  <2>1. start.ok = TRUE /\ start.tables = perMethods
    BY Zenon
  <2>2. start = [ok |-> start.ok, tables |-> start.tables]
    BY Zenon
  <2>3. perMethods = [k \in Methods |-> perMethods[k]]
    BY DEF RouterInv, TablesOK
  <2>4. \A k \in Methods : TableOK(perMethods[k], Len(allRules))
    BY DEF RouterInv, TablesOK
  <2> HIDE DEF start
  <2>5. AccOK(start)
    BY <2>1, <2>2, <2>3, <2>4, Zenon DEF AccOK
  <2>6. QED
    BY <2>5 DEF start
<1>3. AccOK(all)
  BY <1>1, <1>2, AddAllRulesIs
<1>4. all.ok
  <2>1. SUFFICES ASSUME ~all.ok
                 PROVE  validates' = validates
    OBVIOUS
  <2>2. QED
    BY <2>1, Zenon DEF Validate
<1>5. perMethods' = [k \in Methods |-> [all.tables[k] EXCEPT !.trie = Optimize(@)]]
  BY <1>4, Zenon DEF Validate
<1>6. \A k \in Methods : Sound(perMethods[k], k)
  BY <1>1 DEF TablesSound
<1>7. Old(perMethods)
  BY <1>6 DEF Old, Sound
<1>8. Ready(all.tables[m], perMethods[m], m, Len(allRules))
  BY <1>1, <1>2, <1>4, <1>6, <1>7, AddAllRulesRises
<1>9. TableOK(all.tables[m], Len(allRules))
  BY <1>3 DEF AccOK
<1> DEFINE table == all.tables[m]
           after == perMethods'[m]
<1> HIDE DEF all
<1>10. table = [rules |-> table.rules, trie |-> table.trie]
  BY <1>9 DEF TableOK
<1>11. after = [table EXCEPT !.trie = Optimize(@)]
  BY <1>5
<1> HIDE DEF after, table
<1>12. after = [rules |-> table.rules, trie |-> Optimize(table.trie)]
  BY <1>10, <1>11
<1>13. after.rules = table.rules /\ after.trie = Optimize(table.trie)
  BY <1>12
<1>14. Ready(table, perMethods[m], m, Len(allRules))
  BY <1>8 DEF table
<1>15. QED
  BY <1>13, <1>14, OptimizedServed DEF after

LEMMA TablesAlwaysSound == Spec => []TablesSound
<1>1. Init => TablesSound
  <2>1. SUFFICES ASSUME Init, NEW m \in Methods
                 PROVE  Sound(perMethods[m], m)
    BY DEF TablesSound
  <2>2. perMethods[m] = Fresh
    BY <2>1 DEF Init, Fresh
  <2>3. QED
    BY <2>2, FreshSound
<1>2. RouterInv /\ TablesSound /\ [Next]_vars => TablesSound'
  <2>1. SUFFICES ASSUME RouterInv, TablesSound, [Next]_vars, phase' = "serving",
                        NEW m \in Methods
                 PROVE  Sound(perMethods[m], m)'
    BY DEF TablesSound, Methods, VerbNames, Special
  <2>2. ASSUME NEW choice \in RuleChoices, NewRule(choice)
        PROVE  Sound(perMethods[m], m)'
    <3>1. phase = "serving" /\ perMethods' = perMethods
      BY <2>2 DEF NewRule
    <3>2. Sound(perMethods[m], m) /\ allRules \in Seq(Registered)
      BY <2>1, <3>1 DEF TablesSound, RouterInv, AllRulesOK
    <3>3. allRules' = Append(allRules, RuleOf(choice))
      BY <2>1, <2>2 DEF NewRule
    <3>4. QED
      BY <3>1, <3>2, <3>3, SoundMore
  <2>3. CASE Validate
    <3>1. allRules' = allRules /\ phase = "serving"
      BY <2>3 DEF Validate
    <3>2. validates' # validates
      <4>1. AddAllRules.ok
        <5>1. SUFFICES ASSUME ~AddAllRules.ok
                       PROVE  phase' = "threwInValidate"
          BY <2>1
        <5>2. QED
          BY <2>3, <5>1, Zenon DEF Validate
      <4>2. validates' = validates + 1
        BY <2>3, <4>1, Zenon DEF Validate
      <4>3. validates \in Nat
        BY <2>1, RouterAssumption DEF RouterInv
      <4>4. QED
        BY <4>2, <4>3
    <3>3. Sound(perMethods'[m], m)
      BY <2>1, <2>3, <3>2, ValidateServed DEF Served
    <3>4. QED
      BY <3>1, <3>3, SoundSame
  <2>4. CASE UNCHANGED <<allRules, perMethods, validates, phase>>
    <3>1. Sound(perMethods[m], m)
      BY <2>1, <2>4 DEF TablesSound
    <3>2. Sound(perMethods'[m], m)
      BY <2>4, <3>1
    <3>3. QED
      BY <2>4, <3>2, SoundSame
  <2>5. QED
    BY <2>1, <2>2, <2>3, <2>4 DEF Next, vars, Handle, HandleUpgrade, GetRoutes, Answered
<1>3. QED
  BY <1>1, <1>2, InvHolds, PTL DEF Spec

-----------------------------------------------------------------------------
(* What the router answers for a method and a path.                        *)

LEMMA MatchesIs ==
  ASSUME NEW t, NEW url
  PROVE  Matches(t, url)
           = IF Reads(t, url) THEN {Seconds(GivenBy(t, url))} ELSE {}
BY DEF Matches, Reads, GivenBy, At, Seconds

LEMMA LeastIs ==
  ASSUME NEW S, S \subseteq Nat, NEW x \in S, \A y \in S : x <= y
  PROVE  Min(S) = x
<1>1. \E z \in S : \A y \in S : z <= y
  OBVIOUS
<1>2. Min(S) \in S /\ \A y \in S : Min(S) <= y
  BY <1>1, Zenon DEF Min
<1>3. Min(S) <= x /\ x <= Min(S) /\ Min(S) \in Nat /\ x \in Nat
  BY <1>2
<1>4. QED
  BY <1>3

LEMMA RouteIs ==
  ASSUME NEW m, NEW url, NEW found \in Routes(url), found = Find(perMethods[m].trie, url)
  PROVE  /\ found.rule = 0 => FindRouteByIndex(url, m).rule = 0
         /\ found.rule # 0 =>
              FindRouteByIndex(url, m)
                = [rule |-> perMethods[m].rules[found.rule], params |-> found.params]
<1>1. FindRouteByIndex(url, m)
        = IF found.rule = 0 THEN NoRule
          ELSE [found EXCEPT !.rule = perMethods[m].rules[@]]
  BY DEF FindRouteByIndex
<1>2. found = [rule |-> found.rule, params |-> found.params]
  BY DEF Routes
<1>3. NoRule.rule = 0
  BY DEF NoRule
<1>4. [found EXCEPT !.rule = perMethods[m].rules[@]]
        = [rule |-> perMethods[m].rules[found.rule], params |-> found.params]
  BY <1>2
<1>5. QED
  BY <1>1, <1>3, <1>4

\* The forms of a rule, its handler and the values they read.
LEMMA FormFits ==
  ASSUME allRules \in Seq(Registered), NEW n \in 1..Len(allRules), allRules[n].handler,
         NEW t \in Forms(n), NEW url \in Seq(PathChars), Reads(t, url),
         NEW params, Gathers(params, GivenBy(t, url))
  PROVE  Arguments(allRules[n].takes, params) \in Matches(t, url)
<1> DEFINE rule == allRules[n]
           u == rule.url
           takes == rule.takes
           given == GivenBy(t, url)
<1>1. rule \in Registered /\ u \in Seq(Elements)
  BY RegisteredType
<1>2. /\ takes \in Seq(DOMAIN Tags) /\ Len(takes) = Len(TypesOf(u))
      /\ \A i \in 1..Len(takes) : CppType(takes[i]) = CppType(TypesOf(u)[i])
  BY <1>1, RegisteredFits
<1>3. t \in Templates /\ TypesOf(t) = TypesOf(u)
  <2>1. CASE t = u
    BY <1>1, <2>1 DEF Templates, Chars
  <2>2. CASE HasDirectoryForm(u) /\ t = Front(u)
    BY <1>1, <2>2, FrontIs, FrontTypes
  <2>3. QED
    BY <2>1, <2>2 DEF Forms
<1>4. ReadOver(t, url, At(1)).pos # 0
  BY DEF Reads
<1>5. given \in Seq(Pairs(url)) /\ Fits(given, TypesOf(u))
  BY <1>3, <1>4, ReadFits
<1> HIDE DEF takes, given, u
<1>6. Fits(given, takes)
  BY <1>2, <1>5 DEF Fits
<1>7. Arguments(takes, params) = Seconds(given)
  <2>1. given \in Seq(Pairs(url)) /\ Gathers(params, given)
    BY <1>5 DEF given
  <2>2. takes \in Seq(DOMAIN Tags)
    BY <1>2
  <2>3. QED
    BY <1>6, <2>1, <2>2, ArgumentsAre
<1>8. Matches(t, url) = {Seconds(given)}
  BY MatchesIs DEF given
<1>9. QED
  BY <1>7, <1>8 DEF takes

LEMMA RouteRight ==
  ASSUME RouterInv, NEW m \in Methods, Sound(perMethods[m], m), NEW url \in Seq(PathChars)
  PROVE  /\ Takers(m, url) = {} => FindRouteByIndex(url, m).rule = 0
         /\ Takers(m, url) # {} =>
              /\ FindRouteByIndex(url, m).rule # 0
              /\ FindRouteByIndex(url, m).rule \in Takers(m, url)
              /\ FindRouteByIndex(url, m).rule = Min(Takers(m, url))
              /\ \E f \in Forms(FindRouteByIndex(url, m).rule) :
                   Arguments(allRules[FindRouteByIndex(url, m).rule].takes,
                             FindRouteByIndex(url, m).params) \in Matches(f, url)
<1> DEFINE table == perMethods[m]
           L == Len(table.rules)
           found == Find(table.trie, url)
           takers == Takers(m, url)
           route == FindRouteByIndex(url, m)
<1>1. /\ allRules \in Seq(Registered) /\ Len(allRules) \in Nat
      /\ table.rules \in Seq(1..Len(allRules)) /\ L \in Nat
      /\ GoodTrie(table.trie, L) /\ Spelling(table) /\ Lined(table, m)
      /\ \A i \in 1..L : m \in allRules[table.rules[i]].methods /\ allRules[table.rules[i]].handler
  BY DEF Sound, RouterInv, AllRulesOK
<1>2. FindTells(table.trie, url, found)
  BY <1>1, FindSpelled
<1>3. found \in Routes(url)
  BY <1>2 DEF FindTells
<1>4. /\ found.rule = 0 => route.rule = 0
      /\ found.rule # 0 => route = [rule |-> table.rules[found.rule], params |-> found.params]
  BY <1>3, RouteIs
<1> HIDE DEF found, route
<1>5. \A n : n \in takers <=>
               \E i \in 1..L : n = table.rules[i] /\ \E f \in Forms(n) : Reads(f, url)
  <2>1. \A f : Matches(f, url) # {} <=> Reads(f, url)
    BY MatchesIs
  <2>2. \A n : n \in Validated(m) <=> \E i \in 1..L : n = table.rules[i]
    BY <1>1 DEF Validated, ToSet
  <2>3. QED
    BY <2>1, <2>2 DEF Takers
<1> HIDE DEF takers, table
\* A rule that takes the path has an index at or after the one that was found.
<1>6. ASSUME NEW i \in 1..L, NEW f \in Forms(table.rules[i]), Reads(f, url)
      PROVE  found.rule # 0 /\ found.rule <= i
  <2>1. Spelled(table.trie, f, i)
    BY <1>1 DEF Spelling
  <2>2. QED
    BY <1>2, <1>6, <2>1 DEF FindTells
<1>7. CASE found.rule = 0
  <2>1. takers = {}
    BY <1>5, <1>6, <1>7
  <2>2. QED
    BY <1>4, <1>7, <2>1 DEF route, takers
<1>8. CASE found.rule # 0
  <2> DEFINE k == found.rule
             n == table.rules[k]
  <2>1. PICK t : Spelled(table.trie, t, k) /\ Reads(t, url) /\ Gathers(found.params, GivenBy(t, url))
    BY <1>2, <1>8 DEF FindTells
  <2>2. k \in 1..L /\ t \in Forms(n)
    BY <1>1, <2>1 DEF Spelling
  <2>3. n \in 1..Len(allRules) /\ allRules[n].handler
    BY <1>1, <2>2
  <2>4. route.rule = n /\ route.params = found.params
    BY <1>4, <1>8
  <2> HIDE DEF n
  <2>5. n \in takers
    BY <1>5, <2>1, <2>2 DEF n
  <2>6. \A y \in takers : n <= y /\ y \in Nat
    <3>1. SUFFICES ASSUME NEW y \in takers, y \in Nat => ~(n <= y)
                   PROVE  FALSE
      OBVIOUS
    <3>2. PICK i \in 1..L : y = table.rules[i] /\ \E f \in Forms(y) : Reads(f, url)
      BY <1>5
    <3>3. y \in 1..Len(allRules) /\ k <= i
      BY <1>1, <1>6, <3>2
    <3>4. y < n
      BY <1>1, <2>3, <3>1, <3>3
    <3>5. m \in allRules[y].methods
      BY <1>1, <3>2
    <3>6. PICK j \in 1..(k - 1) : table.rules[j] = y
      BY <1>1, <2>2, <3>3, <3>4, <3>5 DEF Lined, n
    <3>7. j \in 1..L /\ j < k
      BY <1>1, <2>2, <3>6
    <3>8. k <= j
      BY <1>6, <3>2, <3>6, <3>7
    <3>9. QED
      BY <1>1, <2>2, <3>7, <3>8
  <2>7. n = Min(takers)
    <3>1. takers \subseteq Nat
      BY <2>6
    <3>2. QED
      BY <2>5, <2>6, <3>1, LeastIs
  <2>8. Arguments(allRules[n].takes, found.params) \in Matches(t, url)
    BY <1>1, <2>1, <2>2, <2>3, FormFits
  <2>9. n # 0
    BY <2>3
  <2>10. QED
    BY <2>2, <2>4, <2>5, <2>7, <2>8, <2>9 DEF takers, route
<1>9. QED
  BY <1>7, <1>8

\* Whatever templates are registered, with whatever tags side by side, and
\* although optimize has joined fragments that begin alike: findRouteByIndex
\* gives the rule that comes first among those whose template takes the path,
\* and none where no template does; and the parameters it gives are those of
\* that rule's own template, in the order of its tags, not of a branch that
\* the search gave up.
THEOREM LookupsAlwaysRight == Spec => []LookupsRight
<1>1. RouterInv /\ TablesSound => LookupsRight
  <2>1. SUFFICES ASSUME RouterInv, TablesSound, phase = "serving",
                        NEW m \in Methods, NEW url \in AllUrls
                 PROVE  LET route == FindRouteByIndex(url, m)
                            takers == Takers(m, url)
                        IN  IF takers = {} THEN route.rule = 0
                            ELSE /\ route.rule = Min(takers)
                                 /\ \E f \in Forms(route.rule) :
                                      Arguments(allRules[route.rule].takes, route.params)
                                        \in Matches(f, url)
    BY Zenon DEF LookupsRight
  <2>2. Sound(perMethods[m], m) /\ url \in Seq(PathChars)
    BY <2>1, RouterAssumption DEF TablesSound
  <2>3. QED
    BY <2>1, <2>2, RouteRight
<1>2. QED
  BY <1>1, InvHolds, TablesAlwaysSound, PTL

-----------------------------------------------------------------------------
(* Answers from one validate to the next.                                  *)

RouteIn(table, url) ==
  LET found == Find(table.trie, url)
  IN  IF found.rule = 0 THEN NoRule ELSE [found EXCEPT !.rule = table.rules[@]]

LEMMA StableIs ==
  ASSUME allRules \in Seq(Registered), NEW m, NEW a, Sound(a, m), NEW b, Sound(b, m),
         Longer(a, b), NEW url \in Seq(PathChars), RouteIn(a, url).rule # 0
  PROVE  RouteIn(b, url) = RouteIn(a, url)
<1> DEFINE old == Find(a.trie, url)
           new == Find(b.trie, url)
           La == Len(a.rules)
           Lb == Len(b.rules)
<1>1. /\ a.rules \in Seq(1..Len(allRules)) /\ La \in Nat /\ GoodTrie(a.trie, La) /\ Spelling(a)
      /\ b.rules \in Seq(1..Len(allRules)) /\ Lb \in Nat /\ GoodTrie(b.trie, Lb) /\ Spelling(b)
      /\ Len(allRules) \in Nat
  BY DEF Sound
<1>2. La <= Lb /\ \A i \in 1..La : b.rules[i] = a.rules[i]
  BY DEF Longer
<1>3. FindTells(a.trie, url, old) /\ FindTells(b.trie, url, new)
  BY <1>1, FindSpelled
<1>4. old.rule # 0
  BY DEF RouteIn, NoRule
<1> HIDE DEF old, new
<1> DEFINE k == old.rule
           j == new.rule
<1>5. old \in Routes(url) /\ new \in Routes(url)
  BY <1>3 DEF FindTells
<1>6. k \in Nat /\ j \in Nat /\ old = [rule |-> k, params |-> old.params]
      /\ new = [rule |-> j, params |-> new.params]
  BY <1>5 DEF Routes
<1>7. PICK s : Spelled(a.trie, s, k) /\ Reads(s, url) /\ Gathers(old.params, GivenBy(s, url))
  BY <1>3, <1>4 DEF FindTells
<1>8. k \in 1..La /\ s \in Forms(a.rules[k])
  BY <1>1, <1>7 DEF Spelling
<1>9. j # 0 /\ j <= k
  <2>1. k \in 1..Lb /\ s \in Forms(b.rules[k])
    BY <1>1, <1>2, <1>8, SMTT(40)
  <2>2. Spelled(b.trie, s, k)
    BY <1>1, <2>1 DEF Spelling
  <2>3. QED
    BY <1>3, <1>7, <2>2 DEF FindTells
<1>10. PICK t : Spelled(b.trie, t, j) /\ Reads(t, url) /\ Gathers(new.params, GivenBy(t, url))
  BY <1>3, <1>9 DEF FindTells
<1>11. j \in 1..La /\ t \in Forms(a.rules[j])
  <2>1. j \in 1..Lb /\ t \in Forms(b.rules[j])
    BY <1>1, <1>10 DEF Spelling
  <2>2. j \in 1..La
    BY <1>1, <1>6, <1>8, <1>9
  <2>3. QED
    BY <1>2, <2>1, <2>2
<1>12. k <= j
  <2>1. Spelled(a.trie, t, j)
    BY <1>1, <1>11 DEF Spelling
  <2>2. QED
    BY <1>3, <1>10, <2>1 DEF FindTells
<1>13. j = k
  BY <1>6, <1>9, <1>12
<1> DEFINE u == allRules[a.rules[k]].url
<1>14. u \in Seq(Elements)
  <2>1. a.rules[k] \in 1..Len(allRules)
    BY <1>1, <1>8
  <2>2. QED
    BY <2>1, RegisteredType
<1>15. s = t
  <2>1. \A f : f \in Forms(a.rules[k]) => f = u \/ (HasDirectoryForm(u) /\ f = Front(u))
    BY DEF Forms
  <2>2. (s = u \/ (HasDirectoryForm(u) /\ s = Front(u)))
        /\ (t = u \/ (HasDirectoryForm(u) /\ t = Front(u)))
    BY <1>8, <1>11, <1>13, <2>1
  <2> HIDE DEF u
  <2>3. ~(HasDirectoryForm(u) /\ Reads(u, url) /\ Reads(Front(u), url))
    BY <1>14, OneForm
  <2>4. QED
    BY <1>7, <1>10, <2>2, <2>3
<1>16. Len(GivenBy(s, url)) \in Nat
  <2>1. s \in Templates
    <3>1. CASE s = u
      BY <1>14, <3>1 DEF Templates, Chars
    <3>2. CASE HasDirectoryForm(u) /\ s = Front(u)
      BY <1>14, <3>2, FrontIs
    <3>3. QED
      BY <1>8, <3>1, <3>2 DEF Forms
  <2>2. ReadOver(s, url, At(1)).pos # 0
    BY <1>7 DEF Reads
  <2>3. GivenBy(s, url) \in Seq(Pairs(url))
    BY <2>1, <2>2, ReadFits
  <2>4. QED
    BY <2>3
<1>17. new.params = old.params
  BY <1>7, <1>10, <1>15, <1>16, GatherOnce
<1>18. new = old
  BY <1>6, <1>13, <1>17
<1>19. b.rules[k] = a.rules[k]
  BY <1>2, <1>8
<1> HIDE DEF k, j
<1>20. RouteIn(a, url) = [old EXCEPT !.rule = a.rules[@]]
  BY <1>4 DEF RouteIn, old
<1>21. RouteIn(b, url) = [new EXCEPT !.rule = b.rules[@]]
  BY <1>4, <1>18 DEF RouteIn, new
<1>22. QED
  BY <1>18, <1>19, <1>20, <1>21 DEF k

Unmoved(m, url) ==
  FindRouteByIndex(url, m).rule # 0 => FindRouteByIndex(url, m)' = FindRouteByIndex(url, m)

\* Validating a second time gives every rule a second index beside the joined
\* fragments of the first: it throws, or every path that had an answer keeps
\* it, rule and parameters, whatever rules were registered in between.
THEOREM AnswersAlwaysStable == Spec => AnswersStable
<1>1. RouterInv /\ TablesSound /\ [Next]_vars =>
        [(validates > 0 /\ validates' > validates) =>
           \A m \in Methods, url \in AllUrls : Unmoved(m, url)]_vars
  <2>1. SUFFICES ASSUME RouterInv, TablesSound, [Next]_vars, validates' > validates,
                        NEW m \in Methods, NEW url \in AllUrls,
                        FindRouteByIndex(url, m).rule # 0
                 PROVE  FindRouteByIndex(url, m)' = FindRouteByIndex(url, m)
    BY DEF Unmoved
  <2>2. validates' # validates
    BY <2>1, RouterAssumption DEF RouterInv
  <2>3. Validate
    BY <2>1, <2>2 DEF Next, vars, NewRule, Handle, HandleUpgrade, GetRoutes, Answered
  <2>4. Served(perMethods'[m], perMethods[m], m, Len(allRules))
    BY <2>1, <2>2, <2>3, ValidateServed
  <2>5. /\ Sound(perMethods[m], m) /\ Sound(perMethods'[m], m)
        /\ Longer(perMethods[m], perMethods'[m])
        /\ allRules \in Seq(Registered) /\ url \in Seq(PathChars)
    BY <2>1, <2>3, <2>4, RouterAssumption
       DEF Served, TablesSound, Validate, RouterInv, AllRulesOK
  <2>6. FindRouteByIndex(url, m) = RouteIn(perMethods[m], url)
    BY DEF FindRouteByIndex, RouteIn
  <2>7. FindRouteByIndex(url, m)' = RouteIn(perMethods'[m], url)
    BY DEF FindRouteByIndex, RouteIn
  <2>8. RouteIn(perMethods'[m], url) = RouteIn(perMethods[m], url)
    BY <2>1, <2>5, <2>6, StableIs
  <2>9. QED
    BY <2>6, <2>7, <2>8
<1>2. QED
  BY <1>1, InvHolds, TablesAlwaysSound, PTL DEF Spec, AnswersStable, Unmoved

-----------------------------------------------------------------------------
(* The status and the Allow header.                                        *)

OrderStep(f, verbs, k) ==
  IF k = 0 THEN <<>>
  ELSE IF Verbs[k] \in verbs THEN Append(f[k - 1], Verbs[k])
       ELSE f[k - 1]

OrderUpTo(f, verbs, n) == f = [k \in 0..n |-> OrderStep(f, verbs, k)]

LEMMA SomeOrder ==
  ASSUME NEW verbs
  PROVE  \A n \in Nat : \E f : OrderUpTo(f, verbs, n)
<1> DEFINE T == {n \in Nat : \E f : OrderUpTo(f, verbs, n)}
<1>1. 0 \in T
  <2> DEFINE g == [k \in 0..0 |-> <<>>]
  <2>1. \A k \in 0..0 : OrderStep(g, verbs, k) = <<>>
    BY DEF OrderStep
  <2>2. OrderUpTo(g, verbs, 0)
    BY <2>1 DEF OrderUpTo
  <2>3. QED
    BY <2>2
<1>2. ASSUME NEW n \in Nat, n \in T
      PROVE  n + 1 \in T
  <2>1. PICK f : OrderUpTo(f, verbs, n)
    BY <1>2
  <2> DEFINE g == [k \in 0..(n + 1) |-> OrderStep(f, verbs, k)]
  <2>2. \A k \in 0..n : g[k] = f[k]
    BY <2>1 DEF OrderUpTo
  <2>3. ASSUME NEW k \in 0..(n + 1)
        PROVE  OrderStep(g, verbs, k) = OrderStep(f, verbs, k)
    <3>1. CASE k = 0
      BY <3>1 DEF OrderStep
    <3>2. CASE k # 0
      <4>1. k - 1 \in 0..n
        BY <3>2
      <4>2. g[k - 1] = f[k - 1]
        BY <2>2, <4>1
      <4> HIDE DEF g
      <4>3. QED
        BY <3>2, <4>2 DEF OrderStep
    <3>3. QED
      BY <3>1, <3>2
  <2>4. OrderUpTo(g, verbs, n + 1)
    BY <2>3 DEF OrderUpTo
  <2>5. QED
    BY <2>4
<1>3. QED
  BY <1>1, <1>2, Induction

LEMMA InOrderIs ==
  ASSUME NEW verbs, verbs \subseteq VerbNames
  PROVE  ToSet(InOrder(verbs)) = verbs /\ (InOrder(verbs) = <<>> <=> verbs = {})
<1> DEFINE N == Len(Verbs)
           f == CHOOSE f : f = [k \in 0..N |-> OrderStep(f, verbs, k)]
           P(v) == v \in verbs
           Some(k) == {v \in VerbNames : P(v) /\ \E i \in 1..k : Verbs[i] = v}
<1>1. N \in Nat /\ VerbNames = {Verbs[i] : i \in 1..N}
  BY RouterAssumption DEF VerbNames
<1>2. f = [k \in 0..N |-> OrderStep(f, verbs, k)]
  <2>1. \E g : OrderUpTo(g, verbs, N)
    BY <1>1, SomeOrder
  <2>2. QED
    BY <2>1, Zenon DEF OrderUpTo
<1>3. InOrder(verbs) = f[N]
  BY Zenon DEF InOrder, OrderStep
<1> HIDE DEF f
<1>4. \A k \in 0..N : f[k] = OrderStep(f, verbs, k)
  BY <1>2
<1> DEFINE OK(k) == f[k] \in Seq(VerbNames) /\ {f[k][i] : i \in 1..Len(f[k])} = Some(k)
           T == {k \in Nat : k <= N => OK(k)}
<1>5. 0 \in T
  <2>1. f[0] = <<>>
    BY <1>1, <1>4 DEF OrderStep
  <2>2. Some(0) = {}
    OBVIOUS
  <2> HIDE DEF Some
  <2>3. <<>> \in Seq(VerbNames) /\ 1..Len(<<>>) = {}
    OBVIOUS
  <2>4. OK(0)
    BY <2>1, <2>2, <2>3
  <2> HIDE DEF OK
  <2>5. QED
    BY <2>4
<1>6. ASSUME NEW k \in Nat, k \in T
      PROVE  k + 1 \in T
  <2> HIDE DEF OK
  <2>1. SUFFICES ASSUME k + 1 <= N
                 PROVE  OK(k + 1)
    OBVIOUS
  <2>2. k + 1 \in 0..N /\ k + 1 \in 1..N /\ k + 1 # 0 /\ k + 1 - 1 = k /\ OK(k)
    BY <1>1, <1>6, <2>1
  <2> DEFINE v == Verbs[k + 1]
  <2>3. v \in VerbNames
    BY <1>1, <2>2
  <2>4. f[k + 1] = IF P(v) THEN Append(f[k], v) ELSE f[k]
    BY <1>4, <2>2 DEF OrderStep
  <2>5. f[k] \in Seq(VerbNames) /\ {f[k][i] : i \in 1..Len(f[k])} = Some(k)
    BY <2>2 DEF OK
  <2>6. \A i \in 1..(k + 1) : i \in 1..k \/ i = k + 1
    OBVIOUS
  <2>7. (\A i \in 1..k : i \in 1..(k + 1)) /\ k + 1 \in 1..(k + 1)
    OBVIOUS
  <2>8. Some(k + 1) = IF P(v) THEN Some(k) \cup {v} ELSE Some(k)
    <3> HIDE DEF P
    <3>1. \A w : w \in Some(k + 1) <=> w \in Some(k) \/ (P(v) /\ w = v)
      BY <2>3, <2>6, <2>7
    <3> HIDE DEF Some
    <3>2. QED
      BY <3>1
  <2> HIDE DEF P, Some, v
  <2>9. CASE P(v)
    <3>1. f[k + 1] = Append(f[k], v)
      BY <2>4, <2>9
    <3>2. f[k + 1] \in Seq(VerbNames) /\ Len(f[k + 1]) = Len(f[k]) + 1
          /\ f[k + 1][Len(f[k]) + 1] = v /\ \A i \in 1..Len(f[k]) : f[k + 1][i] = f[k][i]
      BY <2>3, <2>5, <3>1
    <3> DEFINE L == Len(f[k])
    <3>3. L \in Nat
      BY <2>5
    <3> HIDE DEF L
    <3>4. (\A i \in 1..(L + 1) : i \in 1..L \/ i = L + 1) /\ (\A i \in 1..L : i \in 1..(L + 1))
          /\ L + 1 \in 1..(L + 1)
      BY <3>3
    <3>5. {f[k + 1][i] : i \in 1..Len(f[k + 1])} = {f[k][i] : i \in 1..Len(f[k])} \cup {v}
      BY <3>2, <3>4 DEF L
    <3>6. QED
      BY <2>5, <2>8, <2>9, <3>2, <3>5 DEF OK
  <2>10. CASE ~P(v)
    <3>1. f[k + 1] = f[k] /\ Some(k + 1) = Some(k)
      BY <2>4, <2>8, <2>10
    <3>2. QED
      BY <2>5, <3>1 DEF OK
  <2>11. QED
    BY <2>9, <2>10
<1>7. N \in T
  <2> HIDE DEF OK
  <2>1. QED
    BY <1>1, <1>5, <1>6, Induction
<1>8. f[N] \in Seq(VerbNames) /\ {f[N][i] : i \in 1..Len(f[N])} = Some(N)
  BY <1>1, <1>7
<1>9. Some(N) = {v \in VerbNames : P(v)}
  BY <1>1
<1> HIDE DEF Some, P
<1>10. ToSet(f[N]) = Some(N)
  BY <1>8 DEF ToSet
<1>11. f[N] = <<>> <=> Some(N) = {}
  <2>1. f[N] # <<>> => 1 \in 1..Len(f[N])
    BY <1>8
  <2>2. f[N] = <<>> => 1..Len(f[N]) = {}
    OBVIOUS
  <2>3. QED
    BY <1>8, <2>1, <2>2
<1>12. QED
  BY <1>3, <1>9, <1>10, <1>11 DEF P

\* Allow lists the verbs that have a rule for the path.
LEMMA AllowIs ==
  ASSUME NEW url, NEW verb
  PROVE  /\ ToSet(AllowHeader(url, verb))
              = {v \in VerbNames : FindRouteByIndex(url, v).rule # 0}
         /\ AllowHeader(url, verb) = <<>>
              <=> {v \in VerbNames : FindRouteByIndex(url, v).rule # 0} = {}
<1> DEFINE verbs == {v \in VerbNames : FindRouteByIndex(url, v).rule # 0}
<1>1. AllowHeader(url, verb) = InOrder(verbs)
  BY DEF AllowHeader
<1>2. verbs \subseteq VerbNames
  OBVIOUS
<1> HIDE DEF verbs
<1>3. QED
  BY <1>1, <1>2, InOrderIs DEF verbs

Truthful(reply, verb, url) ==
  LET verbs == {v \in VerbNames : Takers(v, url) # {}}
      refused == IF verbs = {} THEN "notFound" ELSE "methodNotAllowed"
  IN  /\ ToSet(reply.allow) = verbs
      /\ verb \in verbs <=> reply.rule \in Takers(verb, url)
      /\ verb \notin verbs =>
           IF Takers(refused, url) = {}
           THEN reply.kind = (IF verbs = {} THEN "404" ELSE "405")
           ELSE reply.rule = Min(Takers(refused, url))

LEMMA ReplyTruthful ==
  ASSUME RouterInv, \A m \in Methods : Sound(perMethods[m], m),
         NEW url \in Seq(PathChars), NEW verb \in VerbNames, NEW authorized
  PROVE  Truthful(ReplyTo(url, verb, authorized), verb, url)
<1> DEFINE reply == ReplyTo(url, verb, authorized)
           verbs == {v \in VerbNames : Takers(v, url) # {}}
           refused == IF verbs = {} THEN "notFound" ELSE "methodNotAllowed"
           allow == AllowHeader(url, verb)
           own == FindRouteByIndex(url, verb)
           route == RouteFor(url, verb)
           T(m) == Takers(m, url)
           R(m) == FindRouteByIndex(url, m).rule
<1>1. VerbNames \subseteq Methods /\ refused \in Methods
  BY DEF Methods, Special
<1>2. \A m \in Methods : /\ T(m) = {} => R(m) = 0
                         /\ T(m) # {} => R(m) # 0 /\ R(m) \in T(m) /\ R(m) = Min(T(m))
  BY RouteRight
<1>3. verbs = {v \in VerbNames : R(v) # 0}
  BY <1>1, <1>2
<1>4. ToSet(allow) = verbs /\ (allow = <<>> <=> verbs = {})
  BY <1>3, AllowIs
<1>5. route = IF R(verb) # 0 THEN own ELSE FindRouteByIndex(url, refused)
  BY <1>4 DEF RouteFor
<1>6. route.rule = IF R(verb) # 0 THEN R(verb) ELSE R(refused)
  BY <1>5
<1>7. \A kind, r : /\ Reply(kind, allow, r).allow = allow /\ Reply(kind, allow, r).rule = r.rule
                   /\ Reply(kind, allow, r).kind = kind
  BY Zenon DEF Reply
<1>8. NoRule.rule = 0
  BY DEF NoRule
<1>9. /\ reply.allow = allow /\ reply.rule = route.rule
      /\ route.rule = 0 => reply.kind = IF allow = <<>> THEN "404" ELSE "405"
  <2>1. reply = IF route.rule = 0
                THEN Reply(IF allow = <<>> THEN "404" ELSE "405", allow, NoRule)
                ELSE Reply(IF authorized THEN "handler" ELSE "nothing", allow, route)
    BY Zenon DEF ReplyTo
  <2> HIDE DEF reply, allow, route
  <2>2. CASE route.rule = 0
    <3>1. reply = Reply(IF allow = <<>> THEN "404" ELSE "405", allow, NoRule)
      BY <2>1, <2>2, Zenon
    <3>2. QED
      BY <1>7, <1>8, <2>2, <3>1
  <2>3. CASE route.rule # 0
    <3>1. reply = Reply(IF authorized THEN "handler" ELSE "nothing", allow, route)
      BY <2>1, <2>3, Zenon
    <3>2. QED
      BY <1>7, <2>3, <3>1
  <2>4. QED
    BY <2>2, <2>3
<1> HIDE DEF reply, allow, own, route, T, R
<1>10. verb \in verbs <=> R(verb) # 0
  BY <1>3
<1>11. verb \in verbs <=> T(verb) # {}
  BY DEF T
<1>12. verb \in verbs <=> reply.rule \in T(verb)
  BY <1>1, <1>2, <1>6, <1>9, <1>10, <1>11
<1>13. verb \notin verbs =>
         IF T(refused) = {} THEN reply.kind = (IF verbs = {} THEN "404" ELSE "405")
         ELSE reply.rule = Min(T(refused))
  <2>1. SUFFICES ASSUME verb \notin verbs
                 PROVE  IF T(refused) = {} THEN reply.kind = (IF verbs = {} THEN "404" ELSE "405")
                        ELSE reply.rule = Min(T(refused))
    OBVIOUS
  <2>2. route.rule = R(refused)
    BY <1>6, <1>10, <2>1
  <2> HIDE DEF verbs, refused
  <2>3. QED
    BY <1>1, <1>2, <1>4, <1>9, <2>2
<1>14. QED
  BY <1>4, <1>9, <1>12, <1>13, Zenon DEF Truthful, T, reply

LEMMA SameTakers ==
  ASSUME UNCHANGED <<allRules, perMethods>>
  PROVE  \A m, url : (Takers(m, url))' = Takers(m, url)
BY DEF Takers, Validated, Forms

LEMMA AllowTruthfulIs ==
  AllowTruthful <=>
    ((answer # <<>> /\ answer.op = "handle" /\ answer.verb \in VerbNames)
       => Truthful(answer.reply, answer.verb, answer.url))
BY Zenon DEF AllowTruthful, Truthful

\* The answer to a request, whichever rules are registered for whichever verbs
\* and paths: Allow lists exactly the verbs that have a rule for the path, 405
\* and its special handler come only where another verb has one and 404 and
\* its handler only where none has, and a request whose verb has a rule never
\* gets the rule of another.
THEOREM AllowAlwaysTruthful == Spec => []AllowTruthful
<1>1. Init => AllowTruthful
  BY DEF Init, AllowTruthful
<1>2. RouterInv /\ TablesSound /\ AllowTruthful /\ [Next]_vars => AllowTruthful'
  <2>1. SUFFICES ASSUME RouterInv, TablesSound, AllowTruthful, [Next]_vars,
                        answer' # <<>>, answer'.op = "handle", answer'.verb \in VerbNames
                 PROVE  Truthful(answer.reply, answer.verb, answer.url)'
    BY Zenon DEF AllowTruthful, Truthful
  <2>2. CASE UNCHANGED <<allRules, perMethods, answer>>
    <3>1. Truthful(answer.reply, answer.verb, answer.url)
      BY <2>1, <2>2, AllowTruthfulIs
    <3>2. QED
      BY <2>2, <3>1, SameTakers DEF Truthful
  <2>3. ASSUME NEW url \in Urls, NEW verb \in VerbNames \cup {"OTHER"}, NEW authorized \in BOOLEAN,
               Handle(url, verb, authorized)
        PROVE  Truthful(answer.reply, answer.verb, answer.url)'
    <3>1. /\ phase = "serving" /\ UNCHANGED <<allRules, perMethods>>
          /\ answer' = [op |-> "handle", url |-> url, verb |-> verb,
                        reply |-> ReplyTo(url, verb, authorized)]
      BY <2>3 DEF Handle
    <3>2. /\ answer'.verb = verb /\ answer'.url = url
          /\ answer'.reply = ReplyTo(url, verb, authorized)
      BY <3>1
    <3>3. verb \in VerbNames /\ url \in Seq(PathChars)
      BY <2>1, <3>2, RouterAssumption
    <3>4. Truthful(ReplyTo(url, verb, authorized), verb, url)
      BY <2>1, <3>1, <3>3, ReplyTruthful DEF TablesSound
    <3>5. Truthful(answer'.reply, answer'.verb, answer'.url)
      BY <3>2, <3>4
    <3>6. QED
      BY <3>1, <3>5, SameTakers DEF Truthful
  <2>4. ASSUME NEW url \in Urls, NEW verb \in VerbNames \cup {"OTHER"}, HandleUpgrade(url, verb)
        PROVE  FALSE
    BY <2>1, <2>4 DEF HandleUpgrade
  <2>5. ASSUME NEW parent \in Urls \cup {<<>>}, GetRoutes(parent)
        PROVE  FALSE
    BY <2>1, <2>5 DEF GetRoutes
  <2>6. CASE answer' = <<>>
    BY <2>1, <2>6
  <2>7. ASSUME (\E choice \in RuleChoices : NewRule(choice)) \/ Validate
        PROVE  answer' = <<>>
    BY <2>7 DEF NewRule, Validate
  <2>8. QED
    BY <2>1, <2>2, <2>3, <2>4, <2>5, <2>6, <2>7 DEF Next, vars, Answered
<1>3. QED
  BY <1>1, <1>2, InvHolds, TablesAlwaysSound, PTL DEF Spec

-----------------------------------------------------------------------------
(* Lists without repetition, put together from others.                     *)

Holds(l, x) == \E i \in 1..Len(l) : l[i] = x
Once(l) == \A i, j \in 1..Len(l) : l[i] = l[j] => i = j

LEMMA JoinHolds ==
  ASSUME NEW S, NEW a \in Seq(S), NEW b \in Seq(S)
  PROVE  /\ a \o b \in Seq(S)
         /\ \A x : Holds(a \o b, x) <=> Holds(a, x) \/ Holds(b, x)
         /\ (Once(a) /\ Once(b) /\ \A x : ~(Holds(a, x) /\ Holds(b, x))) => Once(a \o b)
<1> DEFINE A == Len(a)
           B == Len(b)
           c == a \o b
<1>1. /\ A \in Nat /\ B \in Nat /\ c \in Seq(S) /\ Len(c) = A + B
      /\ \A i \in 1..A : i \in 1..(A + B) /\ c[i] = a[i]
      /\ \A i \in 1..B : i + A \in 1..(A + B) /\ c[i + A] = b[i]
  <2>1. /\ A \in Nat /\ B \in Nat /\ c \in Seq(S) /\ Len(c) = A + B
        /\ \A i \in 1..(A + B) : c[i] = IF i <= A THEN a[i] ELSE b[i - A]
    BY ConcatProperties
  <2> HIDE DEF A, B, c
  <2>2. ASSUME NEW i \in 1..A
        PROVE  i \in 1..(A + B) /\ c[i] = a[i]
    <3>1. i \in 1..(A + B) /\ i <= A
      BY <2>1
    <3>2. QED
      BY <2>1, <3>1
  <2>3. ASSUME NEW i \in 1..B
        PROVE  i + A \in 1..(A + B) /\ c[i + A] = b[i]
    <3>1. i + A \in 1..(A + B) /\ ~(i + A <= A) /\ (i + A) - A = i
      BY <2>1
    <3>2. QED
      BY <2>1, <3>1
  <2>4. QED
    BY <2>1, <2>2, <2>3 DEF A, B, c
<1> HIDE DEF A, B, c
<1>2. \A i \in 1..(A + B) : i \in 1..A \/ \E j \in 1..B : i = j + A
  <2>1. SUFFICES ASSUME NEW i \in 1..(A + B), i \notin 1..A
                 PROVE  \E j \in 1..B : i = j + A
    OBVIOUS
  <2>2. i - A \in 1..B /\ i = (i - A) + A
    BY <1>1, <2>1
  <2>3. QED
    BY <2>2
<1>3. ASSUME NEW x
      PROVE  Holds(c, x) <=> Holds(a, x) \/ Holds(b, x)
  <2>1. Holds(a, x) => Holds(c, x)
    BY <1>1 DEF Holds, A
  <2>2. Holds(b, x) => Holds(c, x)
    BY <1>1 DEF Holds, B
  <2>3. ASSUME NEW i \in 1..(A + B), c[i] = x
        PROVE  Holds(a, x) \/ Holds(b, x)
    BY <1>1, <1>2, <2>3 DEF Holds, A, B
  <2>4. QED
    BY <1>1, <2>1, <2>2, <2>3 DEF Holds
<1>4. ASSUME Once(a), Once(b), \A x : ~(Holds(a, x) /\ Holds(b, x))
      PROVE  Once(c)
  <2>1. SUFFICES ASSUME NEW i \in 1..(A + B), NEW j \in 1..(A + B), c[i] = c[j]
                 PROVE  i = j
    BY <1>1 DEF Once
  <2>2. ASSUME NEW k \in 1..A, NEW l \in 1..B, a[k] = b[l]
        PROVE  FALSE
    <3>1. Holds(a, a[k]) /\ Holds(b, a[k])
      BY <2>2 DEF Holds, A, B
    <3>2. QED
      BY <1>4, <3>1
  <2>3. CASE i \in 1..A /\ j \in 1..A
    BY <1>1, <1>4, <2>1, <2>3 DEF Once, A
  <2>4. CASE i \in 1..A /\ j \notin 1..A
    <3>1. PICK l \in 1..B : j = l + A
      BY <1>2, <2>4
    <3>2. QED
      BY <1>1, <2>1, <2>2, <2>4, <3>1
  <2>5. CASE i \notin 1..A /\ j \in 1..A
    <3>1. PICK l \in 1..B : i = l + A
      BY <1>2, <2>5
    <3>2. a[j] = b[l]
      BY <1>1, <2>1, <2>5, <3>1
    <3>3. QED
      BY <2>2, <2>5, <3>2
  <2>6. CASE i \notin 1..A /\ j \notin 1..A
    <3>1. PICK k \in 1..B : i = k + A
      BY <1>2, <2>6
    <3>2. PICK l \in 1..B : j = l + A
      BY <1>2, <2>6
    <3>3. b[k] = b[l]
      BY <1>1, <2>1, <3>1, <3>2
    <3>4. k = l
      BY <1>4, <3>3 DEF Once, B
    <3>5. QED
      BY <3>1, <3>2, <3>4
  <2>7. QED
    BY <2>3, <2>4, <2>5, <2>6
<1>5. QED
  BY <1>1, <1>3, <1>4 DEF c

\* f[k] is the first k parts, one after another.
Joined(f, parts, n) == f[0] = <<>> /\ \A k \in 1..n : f[k] = f[k - 1] \o parts[k]

\* l holds what the parts hold, and once where no two of them hold the same.
Whole(l, parts, n, S) ==
  /\ l \in Seq(S)
  /\ \A x : Holds(l, x) <=> \E k \in 1..n : Holds(parts[k], x)
  /\ (/\ \A k \in 1..n : Once(parts[k])
      /\ \A j, k \in 1..n : \A x : Holds(parts[j], x) /\ Holds(parts[k], x) => j = k)
     => Once(l)

LEMMA JoinedIs ==
  ASSUME NEW n \in Nat, NEW S, NEW f, NEW parts, Joined(f, parts, n),
         \A k \in 1..n : parts[k] \in Seq(S)
  PROVE  Whole(f[n], parts, n, S)
<1> DEFINE Apart == /\ \A k \in 1..n : Once(parts[k])
                    /\ \A j, k \in 1..n : \A x :
                         Holds(parts[j], x) /\ Holds(parts[k], x) => j = k
           OK(m) == /\ f[m] \in Seq(S)
                    /\ \A x : Holds(f[m], x) <=> \E k \in 1..m : Holds(parts[k], x)
                    /\ Apart => Once(f[m])
           T == {m \in Nat : m <= n => OK(m)}
<1>1. 0 \in T
  <2>1. f[0] = <<>> /\ <<>> \in Seq(S) /\ 1..Len(<<>>) = {} /\ 1..0 = {}
    BY DEF Joined
  <2> HIDE DEF Apart
  <2>2. OK(0)
    BY <2>1 DEF Holds, Once
  <2>3. QED
    BY <2>2
<1>2. ASSUME NEW m \in Nat, m \in T
      PROVE  m + 1 \in T
  <2> HIDE DEF OK
  <2>1. SUFFICES ASSUME m + 1 <= n
                 PROVE  OK(m + 1)
    OBVIOUS
  <2>2. OK(m)
    BY <1>2, <2>1
  <2>3. m + 1 \in 1..n /\ (m + 1) - 1 = m
    BY <2>1
  <2> USE DEF OK
  <2>4. m + 1 \in 1..n /\ (m + 1) - 1 = m /\ OK(m)
    BY <2>2, <2>3
  <2>5. f[m + 1] = f[m] \o parts[m + 1] /\ parts[m + 1] \in Seq(S)
    BY <2>4 DEF Joined
  <2>6. \A k : k \in 1..(m + 1) <=> k \in 1..m \/ k = m + 1
    OBVIOUS
  <2>7. \A k \in 1..m : k \in 1..n /\ k # m + 1
    BY <2>1
  <2>8. f[m] \in Seq(S) /\ \A x : Holds(f[m], x) <=> \E k \in 1..m : Holds(parts[k], x)
    BY <2>4
  <2>9. /\ f[m + 1] \in Seq(S)
        /\ \A x : Holds(f[m + 1], x) <=> Holds(f[m], x) \/ Holds(parts[m + 1], x)
        /\ (Once(f[m]) /\ Once(parts[m + 1]) /\ \A x : ~(Holds(f[m], x) /\ Holds(parts[m + 1], x)))
             => Once(f[m + 1])
    BY <2>5, <2>8, JoinHolds
  <2>10. ASSUME Apart
        PROVE  Once(f[m + 1])
    <3>1. Once(f[m]) /\ Once(parts[m + 1])
      BY <2>4, <2>10
    <3>2. ASSUME NEW x, Holds(f[m], x), Holds(parts[m + 1], x)
          PROVE  FALSE
      <4>1. PICK k \in 1..m : Holds(parts[k], x)
        BY <2>8, <3>2
      <4>2. k = m + 1
        BY <2>4, <2>7, <2>10, <3>2, <4>1
      <4>3. QED
        BY <2>7, <4>2
    <3>3. QED
      BY <2>9, <3>1, <3>2
  <2> HIDE DEF Apart
  <2>11. QED
    BY <2>6, <2>8, <2>9, <2>10
<1> HIDE DEF OK
<1>3. n \in T
  BY <1>1, <1>2, Induction
<1>4. QED
  BY <1>3 DEF OK, Whole

LEMMA JoinedSame ==
  ASSUME NEW n \in Nat, NEW f, NEW a, Joined(f, a, n), NEW g, NEW b, Joined(g, b, n),
         \A k \in 1..n : a[k] = b[k]
  PROVE  f[n] = g[n]
<1> DEFINE T == {m \in Nat : m <= n => f[m] = g[m]}
<1>1. 0 \in T
  BY DEF Joined
<1>2. ASSUME NEW m \in Nat, m \in T
      PROVE  m + 1 \in T
  <2>1. SUFFICES ASSUME m + 1 <= n
                 PROVE  f[m + 1] = g[m + 1]
    OBVIOUS
  <2>2. m + 1 \in 1..n /\ (m + 1) - 1 = m /\ f[m] = g[m]
    BY <1>2, <2>1
  <2>3. QED
    BY <2>2 DEF Joined
<1>3. n \in T
  BY <1>1, <1>2, Induction
<1>4. QED
  BY <1>3

\* A list without repetition is as long as what it holds is many.
LEMMA OnceCounts ==
  ASSUME NEW S, NEW l \in Seq(S), Once(l)
  PROVE  Cardinality(ToSet(l)) = Len(l)
<1> DEFINE n == Len(l)
           R == ToSet(l)
<1>1. n \in Nat /\ DOMAIN l = 1..n /\ l = [i \in 1..n |-> l[i]]
  OBVIOUS
<1>2. R = {l[i] : i \in 1..n}
  BY <1>1 DEF ToSet
<1> HIDE DEF R
<1>3. l \in [1..n -> R]
  BY <1>1, <1>2
<1>4. l \in Bijection(1..n, R)
  <2>1. \A i, j \in DOMAIN l : l[i] = l[j] => i = j
    BY <1>1 DEF Once
  <2>2. IsInjective(l)
    BY <2>1 DEF IsInjective
  <2>3. \A x \in R : \E i \in 1..n : l[i] = x
    BY <1>2
  <2>4. QED
    BY <1>3, <2>2, <2>3 DEF Bijection, Injection, Surjection
<1>5. ExistsBijection(1..n, R)
  BY <1>4 DEF ExistsBijection
<1>6. IsFiniteSet(1..n) /\ Cardinality(1..n) = n
  <2>1. /\ IsFiniteSet(1..n)
        /\ Cardinality(1..n) = IF 1 > n THEN 0 ELSE (n - 1) + 1
    BY <1>1, FS_Interval
  <2>2. (IF 1 > n THEN 0 ELSE (n - 1) + 1) = n
    BY <1>1
  <2>3. QED
    BY <2>1, <2>2
<1>7. Cardinality(R) = n
  BY <1>5, <1>6, FS_Bijection
<1>8. QED
  BY <1>7 DEF R

LEMMA OrderIs ==
  ASSUME NEW S, IsFiniteSet(S)
  PROVE  LET order == SetToSeq(S) IN
         /\ order \in Seq(S) /\ Once(order)
         /\ \A x \in S : \E k \in 1..Len(order) : order[k] = x
<1> DEFINE c == Cardinality(S)
           order == SetToSeq(S)
<1>1. c \in Nat /\ ExistsBijection(1..c, S)
  BY FS_CardinalityType
<1>2. \E f \in [1..c -> S] : IsInjective(f)
  BY <1>1 DEF ExistsBijection, Bijection, Injection
<1>3. order \in [1..c -> S] /\ IsInjective(order)
  BY <1>2, Zenon DEF SetToSeq
<1>4. Cardinality(1..c) = c
  <2>1. Cardinality(1..c) = IF 1 > c THEN 0 ELSE (c - 1) + 1
    BY <1>1, FS_Interval
  <2>2. (IF 1 > c THEN 0 ELSE (c - 1) + 1) = c
    BY <1>1
  <2>3. QED
    BY <2>1, <2>2
<1> HIDE DEF order
<1>5. order \in Surjection(1..c, S)
  <2>1. order \in Injection(1..c, S)
    BY <1>3 DEF Injection
  <2>2. Cardinality(1..c) = Cardinality(S) <=> order \in Surjection(1..c, S)
    BY <2>1, FS_Injection
  <2>3. QED
    BY <1>4, <2>2
<1>6. \A x \in S : \E k \in 1..c : order[k] = x
  BY <1>5 DEF Surjection
<1>7. order \in Seq(S) /\ Len(order) = c
  BY <1>1, <1>3
<1>8. Once(order)
  BY <1>3, <1>7 DEF IsInjective, Once
<1>9. QED
  BY <1>6, <1>7, <1>8 DEF order

-----------------------------------------------------------------------------
(* The texts at which the walk of findRouteIndexes shows a rule.           *)

\* Below n, at the text t, by literal children.
Shown(trie, n, t, i) ==
  /\ i # 0
  /\ \E m \in 1..Len(trie) : \E s \in Seq(Letters) : \E f \in DOMAIN trie[m].kids :
       /\ t = s \o f /\ f # <<"/">>
       /\ <<n, s, m>> \in Names(trie) /\ trie[trie[m].kids[f]].rule = i

\* The same by way of the child under f.
ShownBy(trie, n, f, t, i) ==
  \/ i # 0 /\ t = f /\ f # <<"/">> /\ trie[trie[n].kids[f]].rule = i
  \/ \E u \in Seq(Letters) : t = f \o u /\ Shown(trie, trie[n].kids[f], u, i)

LEMMA KidsAre ==
  ASSUME NEW top, NEW trie, GoodTrie(trie, top), NEW n \in 1..Len(trie),
         NEW f \in DOMAIN trie[n].kids
  PROVE  /\ f \in Seq(Letters) /\ f \in Templates /\ Len(f) \in Nat \ {0}
         /\ trie[n].kids[f] \in 1..Len(trie) /\ trie[n].kids[f] > n
         /\ <<n, f, trie[n].kids[f]>> \in Names(trie)
         /\ trie[trie[n].kids[f]].rule \in Nat
<1>1. /\ TrieOK(trie, top) /\ LiteralKids(trie) /\ Len(trie) \in Nat
      /\ trie[n] \in Nodes /\ Below(trie[n], n + 1, Len(trie))
  BY DEF GoodTrie, TrieOK
<1>2. f \in Seq(Letters) /\ f \in Templates
  BY <1>1 DEF LiteralKids, Letters, Templates, Chars
<1>3. f # <<>>
  <2>1. trie[n].kids \in Kids
    BY <1>1 DEF Nodes
  <2>2. QED
    BY <2>1, KidsType
<1>4. Len(f) \in Nat \ {0}
  BY <1>2, <1>3
<1>5. trie[n].kids[f] \in (n + 1)..Len(trie)
  BY <1>1 DEF Below
<1>6. trie[n].kids[f] \in 1..Len(trie) /\ trie[n].kids[f] > n
  BY <1>1, <1>5
<1>7. <<n, f, trie[n].kids[f]>> \in Names(trie)
  <2>1. <<f, trie[n].kids[f]>> \in Edges(trie[n])
    BY DEF Edges
  <2>2. QED
    BY <1>1, <2>1, EdgeName
<1>8. trie[trie[n].kids[f]].rule \in Nat
  <2>1. trie[trie[n].kids[f]] \in Nodes
    BY <1>1, <1>6 DEF TrieOK
  <2>2. QED
    BY <2>1 DEF Nodes
<1>9. QED
  BY <1>2, <1>4, <1>6, <1>7, <1>8

LEMMA KidsFinite ==
  ASSUME NEW top, NEW trie, GoodTrie(trie, top), NEW n \in 1..Len(trie)
  PROVE  IsFiniteSet(DOMAIN trie[n].kids)
<1> DEFINE kids == trie[n].kids
           N == Len(trie)
<1>1. N \in Nat /\ Unique(trie) /\ trie[n] \in Nodes
  BY DEF GoodTrie, TrieOK
<1>2. \A f \in DOMAIN kids : kids[f] \in 1..N /\ <<n, f, kids[f]>> \in Names(trie)
  BY KidsAre
<1>3. kids = [f \in DOMAIN kids |-> kids[f]]
  <2>1. kids \in Kids
    BY <1>1 DEF Nodes
  <2>2. QED
    BY <2>1, KidsType
<1>4. kids \in [DOMAIN kids -> 1..N]
  BY <1>2, <1>3
<1>5. IsInjective(kids)
  BY <1>1, <1>2 DEF IsInjective, Unique
<1>6. kids \in Injection(DOMAIN kids, 1..N)
  BY <1>4, <1>5 DEF Injection
<1>7. IsFiniteSet(1..N)
  BY <1>1, FS_Interval
<1>8. QED
  BY <1>6, <1>7, FS_Injection

LEMMA LetterJoin ==
  /\ \A s, t \in Seq(Letters) : s \o t \in Seq(Letters) /\ Len(s \o t) = Len(s) + Len(t)
  /\ \A s, t, u \in Seq(Letters) : (s \o t) \o u = s \o (t \o u)
  /\ \A s \in Seq(Letters) : s \o <<>> = s /\ <<>> \o s = s /\ s \in Templates
  /\ <<>> \in Seq(Letters)
<1>1. \A s, t \in Seq(Letters) : s \o t \in Seq(Letters) /\ Len(s \o t) = Len(s) + Len(t)
  BY ConcatProperties
<1>2. \A s, t, u \in Seq(Letters) : (s \o t) \o u = s \o (t \o u)
  BY ConcatAssociative
<1>3. \A s \in Seq(Letters) : s \o <<>> = s /\ <<>> \o s = s
  BY ConcatEmptySeq
<1>4. \A s \in Seq(Letters) : s \in Templates
  BY DEF Letters, Templates, Chars
<1>5. QED
  BY <1>1, <1>2, <1>3, <1>4

\* A text of letters that begins with an edge begins with a child's fragment.
LEMMA LetterEdge ==
  ASSUME NEW top, NEW trie, GoodTrie(trie, top), NEW n \in 1..Len(trie),
         NEW e \in Edges(trie[n]), NEW u \in Templates, e[1] \o u \in Seq(Letters)
  PROVE  /\ e[1] \in DOMAIN trie[n].kids /\ e[2] = trie[n].kids[e[1]] /\ u \in Seq(Letters)
<1>1. TrieOK(trie, top)
  BY DEF GoodTrie
<1>2. e[1] \in Templates
  BY <1>1, EdgesType
<1> DEFINE s == e[1]
           c == s \o u
<1>3. /\ Len(s) \in Nat /\ Len(u) \in Nat /\ Len(c) = Len(s) + Len(u)
      /\ \A k \in 1..(Len(s) + Len(u)) : c[k] = IF k <= Len(s) THEN s[k] ELSE u[k - Len(s)]
  BY <1>2, ConcatProperties DEF Templates
<1>4. c \in Seq(Letters) /\ \A k \in 1..Len(c) : c[k] \in Letters
  OBVIOUS
<1>5. ASSUME NEW p \in DOMAIN Tags, e = <<<<Tags[p]>>, trie[n].params[p]>>
      PROVE  FALSE
  <2>1. s = <<Tags[p]>> /\ Len(s) = 1 /\ s[1] = Tags[p]
    BY <1>5
  <2> HIDE DEF s, c
  <2>2. c[1] = Tags[p]
    BY <1>3, <2>1
  <2>3. c[1] \in Letters
    BY <1>3, <1>4, <2>1
  <2>4. QED
    BY <2>2, <2>3 DEF Letters, TagNames
<1>6. PICK f \in DOMAIN trie[n].kids : e = <<f, trie[n].kids[f]>>
  BY <1>5 DEF Edges
<1>7. u \in Seq(Letters)
  <2> HIDE DEF c
  <2>1. \A k \in 1..Len(u) : u[k] \in Letters
    <3>1. SUFFICES ASSUME NEW k \in 1..Len(u)
                   PROVE  u[k] \in Letters
      OBVIOUS
    <3> HIDE DEF s
    <3>2. /\ k + Len(s) \in 1..(Len(s) + Len(u)) /\ ~(k + Len(s) <= Len(s))
          /\ (k + Len(s)) - Len(s) = k
      BY <1>3
    <3>3. c[k + Len(s)] = u[k]
      BY <1>3, <3>2
    <3>4. QED
      BY <1>3, <1>4, <3>2, <3>3
  <2>2. QED
    BY <2>1 DEF Templates
<1>8. QED
  BY <1>6, <1>7

\* A literal name that is not empty goes by a child first.
LEMMA LetterBack ==
  ASSUME NEW top, NEW trie, GoodTrie(trie, top), NEW n, NEW s \in Seq(Letters), NEW x,
         <<n, s, x>> \in Names(trie), s # <<>> \/ x # n
  PROVE  \E f \in DOMAIN trie[n].kids : \E u \in Seq(Letters) :
           s = f \o u /\ <<trie[n].kids[f], u, x>> \in Names(trie)
<1>1. TrieOK(trie, top) /\ n \in 1..Len(trie)
  BY NamesType DEF GoodTrie
<1>2. \E e \in Edges(trie[n]) : \E u \in Templates :
        s = e[1] \o u /\ <<e[2], u, x>> \in Names(trie)
  BY <1>1, NamesBack
<1>3. PICK e \in Edges(trie[n]) : \E u \in Templates :
        s = e[1] \o u /\ <<e[2], u, x>> \in Names(trie)
  BY <1>2
<1>4. PICK u \in Templates : s = e[1] \o u /\ <<e[2], u, x>> \in Names(trie)
  BY <1>3
<1>5. e[1] \in DOMAIN trie[n].kids /\ e[2] = trie[n].kids[e[1]] /\ u \in Seq(Letters)
  BY <1>1, <1>4, LetterEdge
<1>6. QED
  BY <1>4, <1>5

LEMMA ShownStep ==
  ASSUME NEW top, NEW trie, GoodTrie(trie, top), NEW n \in 1..Len(trie), NEW t, NEW i
  PROVE  Shown(trie, n, t, i) <=> \E f \in DOMAIN trie[n].kids : ShownBy(trie, n, f, t, i)
<1>1. TrieOK(trie, top)
  BY DEF GoodTrie
<1>2. ASSUME Shown(trie, n, t, i)
      PROVE  \E f \in DOMAIN trie[n].kids : ShownBy(trie, n, f, t, i)
  <2>1. PICK m \in 1..Len(trie) : \E s \in Seq(Letters) : \E f \in DOMAIN trie[m].kids :
           /\ t = s \o f /\ f # <<"/">>
           /\ <<n, s, m>> \in Names(trie) /\ trie[trie[m].kids[f]].rule = i /\ i # 0
    BY <1>2 DEF Shown
  <2>2. PICK s \in Seq(Letters), g \in DOMAIN trie[m].kids :
          /\ t = s \o g /\ g # <<"/">>
          /\ <<n, s, m>> \in Names(trie) /\ trie[trie[m].kids[g]].rule = i /\ i # 0
    BY <2>1
  <2>3. g \in Seq(Letters)
    BY KidsAre
  <2>4. CASE s = <<>> /\ m = n
    <3>1. t = g
      BY <2>2, <2>3, <2>4, LetterJoin
    <3>2. ShownBy(trie, n, g, t, i) /\ g \in DOMAIN trie[n].kids
      BY <2>2, <2>4, <3>1 DEF ShownBy
    <3>3. QED
      BY <3>2
  <2>5. CASE s # <<>> \/ m # n
    <3>1. PICK f \in DOMAIN trie[n].kids, u \in Seq(Letters) :
            s = f \o u /\ <<trie[n].kids[f], u, m>> \in Names(trie)
      BY <2>2, <2>5, LetterBack
    <3>2. f \in Seq(Letters)
      BY KidsAre
    <3>3. t = f \o (u \o g) /\ u \o g \in Seq(Letters)
      BY <2>2, <2>3, <3>1, <3>2, LetterJoin, ZenonT(60)
    <3>4. Shown(trie, trie[n].kids[f], u \o g, i)
      BY <2>2, <3>1 DEF Shown
    <3>5. ShownBy(trie, n, f, t, i)
      BY <3>3, <3>4 DEF ShownBy
    <3>6. QED
      BY <3>5
  <2>6. QED
    BY <2>4, <2>5
<1>3. ASSUME NEW f \in DOMAIN trie[n].kids, ShownBy(trie, n, f, t, i)
      PROVE  Shown(trie, n, t, i)
  <2>1. f \in Seq(Letters)
    BY KidsAre
  <2>2. CASE i # 0 /\ t = f /\ f # <<"/">> /\ trie[trie[n].kids[f]].rule = i
    <3>1. <<n, <<>>, n>> \in Names(trie) /\ t = <<>> \o f /\ <<>> \in Seq(Letters)
      BY <1>1, <2>1, <2>2, NamesRoot, LetterJoin
    <3>2. QED
      BY <2>2, <3>1 DEF Shown
  <2>3. ASSUME NEW u \in Seq(Letters), t = f \o u, Shown(trie, trie[n].kids[f], u, i)
        PROVE  Shown(trie, n, t, i)
    <3>1. PICK m \in 1..Len(trie) : \E s \in Seq(Letters) : \E g \in DOMAIN trie[m].kids :
             /\ u = s \o g /\ g # <<"/">>
             /\ <<trie[n].kids[f], s, m>> \in Names(trie)
             /\ trie[trie[m].kids[g]].rule = i /\ i # 0
      BY <2>3 DEF Shown
    <3>2. PICK s \in Seq(Letters), g \in DOMAIN trie[m].kids :
            /\ u = s \o g /\ g # <<"/">>
            /\ <<trie[n].kids[f], s, m>> \in Names(trie)
            /\ trie[trie[m].kids[g]].rule = i /\ i # 0
      BY <3>1
    <3>3. g \in Seq(Letters)
      BY KidsAre
    <3>4. <<n, f, trie[n].kids[f]>> \in Names(trie)
      BY KidsAre
    <3>5. <<n, f \o s, m>> \in Names(trie)
      BY <1>1, <3>2, <3>4, NamesJoin
    <3>6. t = (f \o s) \o g /\ f \o s \in Seq(Letters)
      BY <2>1, <2>3, <3>2, <3>3, LetterJoin, ZenonT(60)
    <3>7. QED
      BY <3>2, <3>5, <3>6 DEF Shown
  <2>4. QED
    BY <1>3, <2>2, <2>3 DEF ShownBy
<1>4. QED
  BY <1>2, <1>3

LEMMA ShownType ==
  ASSUME NEW top, NEW trie, GoodTrie(trie, top), NEW n, NEW t, NEW i, Shown(trie, n, t, i)
  PROVE  t \in Seq(Letters) /\ Len(t) \in Nat \ {0} /\ i \in Nat
<1>1. PICK m \in 1..Len(trie) : \E s \in Seq(Letters) : \E g \in DOMAIN trie[m].kids :
        t = s \o g /\ trie[trie[m].kids[g]].rule = i
  BY DEF Shown
<1>2. PICK s \in Seq(Letters), g \in DOMAIN trie[m].kids :
        t = s \o g /\ trie[trie[m].kids[g]].rule = i
  BY <1>1
<1>3. g \in Seq(Letters) /\ Len(g) \in Nat \ {0} /\ i \in Nat
  BY <1>2, KidsAre
<1>4. t \in Seq(Letters) /\ Len(t) = Len(s) + Len(g)
  BY <1>2, <1>3, LetterJoin
<1>5. QED
  BY <1>3, <1>4

-----------------------------------------------------------------------------
(* findRouteIndexes: the list a node gets from those of the nodes after it. *)

Parts(trie, kids, order, url, pos, from) ==
  [k \in 1..Len(order) |-> ListedAt(trie, kids, order[k], url, pos, from)]

ListStep(f, trie, kids, order, url, pos, from, k) ==
  IF k = 0 THEN <<>> ELSE f[k - 1] \o ListedAt(trie, kids, order[k], url, pos, from)

ListUpTo(f, trie, kids, order, url, pos, from, n) ==
  f = [k \in 0..n |-> ListStep(f, trie, kids, order, url, pos, from, k)]

LEMMA SomeList ==
  ASSUME NEW trie, NEW kids, NEW order, NEW url, NEW pos, NEW from
  PROVE  \A n \in Nat : \E f : ListUpTo(f, trie, kids, order, url, pos, from, n)
<1> DEFINE Step(f, k) == ListStep(f, trie, kids, order, url, pos, from, k)
           UpTo(f, n) == ListUpTo(f, trie, kids, order, url, pos, from, n)
           T == {n \in Nat : \E f : UpTo(f, n)}
<1>1. 0 \in T
  <2> DEFINE g == [k \in 0..0 |-> <<>>]
  <2>1. \A k \in 0..0 : Step(g, k) = <<>>
    BY DEF ListStep
  <2>2. UpTo(g, 0)
    BY <2>1 DEF ListUpTo
  <2>3. QED
    BY <2>2
<1>2. ASSUME NEW n \in Nat, n \in T
      PROVE  n + 1 \in T
  <2>1. PICK f : UpTo(f, n)
    BY <1>2
  <2> DEFINE g == [k \in 0..(n + 1) |-> Step(f, k)]
  <2>2. \A k \in 0..n : g[k] = f[k]
    BY <2>1 DEF ListUpTo
  <2>3. ASSUME NEW k \in 0..(n + 1)
        PROVE  Step(g, k) = Step(f, k)
    <3>1. CASE k = 0
      BY <3>1 DEF ListStep
    <3>2. CASE k # 0
      <4>1. k - 1 \in 0..n
        BY <3>2
      <4>2. g[k - 1] = f[k - 1]
        BY <2>2, <4>1
      <4> HIDE DEF g
      <4>3. QED
        BY <3>2, <4>2 DEF ListStep
    <3>3. QED
      BY <3>1, <3>2
  <2>4. UpTo(g, n + 1)
    BY <2>3 DEF ListUpTo
  <2>5. QED
    BY <2>4
<1> HIDE DEF UpTo
<1>3. \A n \in Nat : \E f : UpTo(f, n)
  BY <1>1, <1>2, Induction
<1>4. QED
  BY <1>3 DEF UpTo

LEMMA BelowIs ==
  ASSUME NEW trie, NEW kids, NEW url, NEW pos, NEW from,
         NEW order, order = SetToSeq(DOMAIN kids), Len(order) \in Nat
  PROVE  \E f : /\ Joined(f, Parts(trie, kids, order, url, pos, from), Len(order))
                /\ ListedBelow(trie, kids, url, pos, from) = f[Len(order)]
<1> DEFINE o == SetToSeq(DOMAIN kids)
           K == Len(o)
           f == CHOOSE f : f = [k \in 0..K |-> ListStep(f, trie, kids, o, url, pos, from, k)]
           parts == Parts(trie, kids, o, url, pos, from)
<1>1. f = [k \in 0..K |-> ListStep(f, trie, kids, o, url, pos, from, k)]
  <2>1. \E g : ListUpTo(g, trie, kids, o, url, pos, from, K)
    BY SomeList
  <2>2. QED
    BY <2>1, Zenon DEF ListUpTo
<1>2. ListedBelow(trie, kids, url, pos, from) = f[K]
  BY Zenon DEF ListedBelow, ListStep
<1> HIDE DEF f
<1>3. o = order /\ K \in Nat
  OBVIOUS
<1> HIDE DEF o
<1>4. f[0] = <<>>
  BY <1>1, <1>3 DEF ListStep
<1>5. ASSUME NEW k \in 1..K
      PROVE  f[k] = f[k - 1] \o parts[k]
  <2>1. k \in 0..K /\ k # 0
    BY <1>3
  <2>2. f[k] = ListStep(f, trie, kids, o, url, pos, from, k)
    BY <1>1, <2>1
  <2>3. parts[k] = ListedAt(trie, kids, o[k], url, pos, from)
    BY DEF Parts
  <2> HIDE DEF parts
  <2>4. QED
    BY <2>1, <2>2, <2>3 DEF ListStep
<1>6. Joined(f, parts, K)
  BY <1>4, <1>5 DEF Joined
<1>7. QED
  BY <1>2, <1>3, <1>6

\* It is made of the lists of the children only.
LEMMA BelowSame ==
  ASSUME NEW trie, NEW kids, IsFiniteSet(DOMAIN kids), NEW url, NEW pos, NEW a, NEW b,
         \A f \in DOMAIN kids : a[kids[f]] = b[kids[f]]
  PROVE  ListedBelow(trie, kids, url, pos, a) = ListedBelow(trie, kids, url, pos, b)
<1> DEFINE order == SetToSeq(DOMAIN kids)
           K == Len(order)
<1>1. order \in Seq(DOMAIN kids)
  BY OrderIs
<1> HIDE DEF order
<1>2. K \in Nat /\ \A k \in 1..K : order[k] \in DOMAIN kids
  BY <1>1
<1>3. PICK f : /\ Joined(f, Parts(trie, kids, order, url, pos, a), K)
               /\ ListedBelow(trie, kids, url, pos, a) = f[K]
  BY <1>2, BelowIs DEF order
<1>4. PICK g : /\ Joined(g, Parts(trie, kids, order, url, pos, b), K)
               /\ ListedBelow(trie, kids, url, pos, b) = g[K]
  BY <1>2, BelowIs DEF order
<1>5. ASSUME NEW k \in 1..K
      PROVE  Parts(trie, kids, order, url, pos, a)[k] = Parts(trie, kids, order, url, pos, b)[k]
  <2>1. a[kids[order[k]]] = b[kids[order[k]]]
    BY <1>2
  <2>2. ListedAt(trie, kids, order[k], url, pos, a) = ListedAt(trie, kids, order[k], url, pos, b)
    BY <2>1 DEF ListedAt
  <2>3. QED
    BY <2>2 DEF Parts
<1>6. QED
  BY <1>2, <1>3, <1>4, <1>5, JoinedSame

FromStep(f, trie, url, n) ==
  [pos \in Nat |-> ListedBelow(trie, trie[n].kids, url, pos, f)]

\* f is a table of the lists of the last k nodes.
FromUpTo(f, trie, url, k) ==
  f = [n \in (Len(trie) + 1 - k)..Len(trie) |-> FromStep(f, trie, url, n)]

LEMMA SomeFrom ==
  ASSUME NEW top, NEW trie, GoodTrie(trie, top), NEW url
  PROVE  \E f : FromUpTo(f, trie, url, Len(trie))
<1> DEFINE N == Len(trie)
           T == {k \in Nat : k <= N => \E f : FromUpTo(f, trie, url, k)}
<1>1. N \in Nat
  BY DEF GoodTrie, TrieOK
<1>2. 0 \in T
  <2> DEFINE g == [n \in (N + 1 - 0)..N |-> 0]
  <2>1. \A n : n \notin (N + 1 - 0)..N
    BY <1>1
  <2>2. g = [n \in (N + 1 - 0)..N |-> FromStep(g, trie, url, n)]
    BY <2>1
  <2>3. QED
    BY <2>2 DEF FromUpTo
<1>3. ASSUME NEW k \in Nat, k \in T
      PROVE  k + 1 \in T
  <2>1. SUFFICES ASSUME k + 1 <= N
                 PROVE  \E f : FromUpTo(f, trie, url, k + 1)
    OBVIOUS
  <2>2. PICK f : FromUpTo(f, trie, url, k)
    BY <1>1, <1>3, <2>1
  <2> DEFINE g == [n \in (N + 1 - (k + 1))..N |-> FromStep(f, trie, url, n)]
  <2>3. \A n \in (N + 1 - k)..N : g[n] = f[n]
    <3>1. SUFFICES ASSUME NEW n \in (N + 1 - k)..N PROVE g[n] = f[n]
      OBVIOUS
    <3>2. n \in (N + 1 - (k + 1))..N
      BY <1>1, <2>1
    <3>3. f[n] = FromStep(f, trie, url, n)
      BY <2>2 DEF FromUpTo
    <3>4. QED
      BY <3>2, <3>3
  <2>4. ASSUME NEW n \in (N + 1 - (k + 1))..N
        PROVE  FromStep(g, trie, url, n) = FromStep(f, trie, url, n)
    <3> HIDE DEF g
    <3>1. n \in 1..N
      BY <1>1, <2>1
    <3>2. ASSUME NEW h \in DOMAIN trie[n].kids
          PROVE  g[trie[n].kids[h]] = f[trie[n].kids[h]]
      <4>1. trie[n].kids[h] \in 1..N /\ trie[n].kids[h] > n
        BY <3>1, KidsAre
      <4>2. trie[n].kids[h] \in (N + 1 - k)..N
        BY <1>1, <2>1, <4>1
      <4>3. QED
        BY <2>3, <4>2
    <3>3. IsFiniteSet(DOMAIN trie[n].kids)
      BY <3>1, KidsFinite
    <3>4. \A pos \in Nat : ListedBelow(trie, trie[n].kids, url, pos, g)
                             = ListedBelow(trie, trie[n].kids, url, pos, f)
      BY <3>2, <3>3, BelowSame
    <3>5. QED
      BY <3>4 DEF FromStep
  <2>5. g = [n \in (N + 1 - (k + 1))..N |-> FromStep(g, trie, url, n)]
    BY <2>4
  <2>6. FromUpTo(g, trie, url, k + 1)
    BY <2>5 DEF FromUpTo
  <2>7. QED
    BY <2>6
<1>4. N \in T
  BY <1>1, <1>2, <1>3, Induction
<1>5. QED
  BY <1>1, <1>4

\* No rule is shown at two texts.
Sole(trie, n) == \A t, u, i : Shown(trie, n, t, i) /\ Shown(trie, n, u, i) => t = u

\* A list of what is shown below n.
Tells(trie, n, l) ==
  /\ l \in Seq(Nat)
  /\ \A i : Holds(l, i) <=> \E t : Shown(trie, n, t, i)
  /\ Sole(trie, n) => Once(l)

LEMMA AtTells ==
  ASSUME NEW top, NEW trie, GoodTrie(trie, top), NEW n \in 1..Len(trie), NEW pos \in Nat \ {0},
         NEW f \in DOMAIN trie[n].kids, NEW from,
         Tells(trie, trie[n].kids[f], from[trie[n].kids[f]][pos + Len(f)])
  PROVE  LET l == ListedAt(trie, trie[n].kids, f, <<>>, pos, from) IN
         /\ l \in Seq(Nat)
         /\ \A i : Holds(l, i) <=> \E t : ShownBy(trie, n, f, t, i)
         /\ Sole(trie, n) => Once(l)
<1> DEFINE kid == trie[n].kids[f]
           below == from[kid][pos + Len(f)]
           own == Listed(trie[kid], f)
           l == ListedAt(trie, trie[n].kids, f, <<>>, pos, from)
<1>1. /\ f \in Seq(Letters) /\ Len(f) \in Nat \ {0} /\ trie[kid].rule \in Nat
      /\ kid \in 1..Len(trie)
  BY KidsAre
<1>2. l = own \o below
  <2>1. pos > Len(<<>>) /\ ~(pos <= Len(<<>>))
    OBVIOUS
  <2>2. QED
    BY <2>1, Zenon DEF ListedAt
<1>3. below \in Seq(Nat) /\ \A i : Holds(below, i) <=> \E t : Shown(trie, kid, t, i)
  BY DEF Tells
<1>4. Sole(trie, kid) => Once(below)
  BY DEF Tells
<1>5. /\ own \in Seq(Nat) /\ Once(own)
      /\ \A i : Holds(own, i) <=> i # 0 /\ f # <<"/">> /\ trie[kid].rule = i
  <2> HIDE DEF kid
  <2>1. CASE trie[kid].rule # 0 /\ f # <<"/">>
    <3>1. own = <<trie[kid].rule>>
      BY <2>1 DEF Listed
    <3> HIDE DEF own
    <3>2. own \in Seq(Nat) /\ Len(own) = 1 /\ own[1] = trie[kid].rule /\ 1..1 = {1}
      BY <1>1, <3>1
    <3>3. Once(own) /\ \A i : Holds(own, i) <=> trie[kid].rule = i
      BY <3>2 DEF Once, Holds
    <3>4. QED
      BY <2>1, <3>2, <3>3
  <2>2. CASE ~(trie[kid].rule # 0 /\ f # <<"/">>)
    <3>1. own = <<>>
      BY <2>2 DEF Listed
    <3> HIDE DEF own
    <3>2. own \in Seq(Nat) /\ 1..Len(own) = {}
      BY <3>1
    <3>3. Once(own) /\ \A i : ~Holds(own, i)
      BY <3>2 DEF Once, Holds
    <3>4. QED
      BY <2>2, <3>2, <3>3
  <2>3. QED
    BY <2>1, <2>2
<1> HIDE DEF own, below, l
<1>6. /\ l \in Seq(Nat) /\ \A i : Holds(l, i) <=> Holds(own, i) \/ Holds(below, i)
      /\ (Once(own) /\ Once(below) /\ \A i : ~(Holds(own, i) /\ Holds(below, i))) => Once(l)
  BY <1>2, <1>3, <1>5, JoinHolds
<1>7. ASSUME NEW i, NEW t, Shown(trie, kid, t, i)
      PROVE  ShownBy(trie, n, f, f \o t, i) /\ f # f \o t
  <2>1. t \in Seq(Letters) /\ Len(t) \in Nat \ {0}
    BY <1>7, ShownType
  <2>2. Len(f \o t) = Len(f) + Len(t)
    BY <1>1, <2>1, LetterJoin
  <2>3. Len(f) # Len(f) + Len(t)
    BY <1>1, <2>1
  <2>4. QED
    BY <1>7, <2>1, <2>2, <2>3 DEF ShownBy
<1>8. ASSUME NEW i
      PROVE  Holds(l, i) <=> \E t : ShownBy(trie, n, f, t, i)
  <2>1. ASSUME Holds(own, i)
        PROVE  ShownBy(trie, n, f, f, i)
    BY <1>5, <2>1 DEF ShownBy
  <2>2. ASSUME Holds(below, i)
        PROVE  \E t : ShownBy(trie, n, f, t, i)
    BY <1>3, <1>7, <2>2
  <2>3. ASSUME NEW t, ShownBy(trie, n, f, t, i)
        PROVE  Holds(own, i) \/ Holds(below, i)
    BY <1>3, <1>5, <2>3 DEF ShownBy
  <2>4. QED
    BY <1>6, <2>1, <2>2, <2>3
<1>9. ASSUME Sole(trie, n)
      PROVE  Once(l)
  <2>1. \A t, i : ShownBy(trie, n, f, t, i) => Shown(trie, n, t, i)
    BY ShownStep
  <2>2. ASSUME NEW t, NEW u, NEW i, Shown(trie, kid, t, i), Shown(trie, kid, u, i)
        PROVE  t = u
    <3>1. Shown(trie, n, f \o t, i) /\ Shown(trie, n, f \o u, i)
      BY <1>7, <2>1, <2>2
    <3>2. f \o t = f \o u
      BY <1>9, <3>1 DEF Sole
    <3>3. t \in Seq(Letters) /\ u \in Seq(Letters)
      BY <2>2, ShownType
    <3>4. QED
      BY <1>1, <3>2, <3>3, SameSplit
  <2>3. Sole(trie, kid)
    BY <2>2 DEF Sole
  <2>4. ASSUME NEW i, Holds(own, i), Holds(below, i)
        PROVE  FALSE
    <3>1. PICK t : Shown(trie, kid, t, i)
      BY <1>3, <2>4
    <3>2. ShownBy(trie, n, f, f, i)
      BY <1>5, <2>4 DEF ShownBy
    <3>3. Shown(trie, n, f, i) /\ Shown(trie, n, f \o t, i) /\ f # f \o t
      BY <1>7, <2>1, <3>1, <3>2
    <3>4. QED
      BY <1>9, <3>3 DEF Sole
  <2>5. QED
    BY <1>4, <1>5, <1>6, <2>3, <2>4
<1>10. QED
  BY <1>6, <1>8, <1>9 DEF l

LEMMA BelowTells ==
  ASSUME NEW top, NEW trie, GoodTrie(trie, top), Evenly(trie), NEW n \in 1..Len(trie),
         NEW pos \in Nat \ {0}, NEW from,
         \A m \in 1..Len(trie) : m > n => \A p \in Nat \ {0} : Tells(trie, m, from[m][p])
  PROVE  Tells(trie, n, ListedBelow(trie, trie[n].kids, <<>>, pos, from))
<1> DEFINE kids == trie[n].kids
           order == SetToSeq(DOMAIN kids)
           K == Len(order)
           parts == Parts(trie, kids, order, <<>>, pos, from)
           l == ListedBelow(trie, kids, <<>>, pos, from)
<1>1. IsFiniteSet(DOMAIN kids)
  BY KidsFinite
<1>2. /\ order \in Seq(DOMAIN kids) /\ Once(order)
      /\ \A f \in DOMAIN kids : \E k \in 1..K : order[k] = f
  <2> HIDE DEF kids
  <2>1. QED
    BY <1>1, OrderIs
<1>3. PICK f : Joined(f, parts, K) /\ l = f[K]
  <2> HIDE DEF kids
  <2>1. K \in Nat
    BY <1>2
  <2>2. QED
    BY <2>1, BelowIs
<1> HIDE DEF order
<1>4. K \in Nat /\ \A k \in 1..K : order[k] \in DOMAIN kids
  BY <1>2
<1>5. ASSUME NEW k \in 1..K
      PROVE  /\ parts[k] \in Seq(Nat)
             /\ \A i : Holds(parts[k], i) <=> \E t : ShownBy(trie, n, order[k], t, i)
             /\ Sole(trie, n) => Once(parts[k])
  <2> DEFINE g == order[k]
  <2>1. g \in DOMAIN kids
    BY <1>4
  <2>2. parts[k] = ListedAt(trie, kids, g, <<>>, pos, from)
    BY DEF Parts
  <2> HIDE DEF g, parts
  <2>3. kids[g] \in 1..Len(trie) /\ kids[g] > n /\ Len(g) \in Nat \ {0}
    BY <2>1, KidsAre
  <2>4. pos + Len(g) \in Nat \ {0}
    BY <2>3
  <2>5. Tells(trie, kids[g], from[kids[g]][pos + Len(g)])
    BY <2>3, <2>4
  <2>6. /\ parts[k] \in Seq(Nat)
        /\ \A i : Holds(parts[k], i) <=> \E t : ShownBy(trie, n, g, t, i)
        /\ Sole(trie, n) => Once(parts[k])
    BY <2>1, <2>2, <2>5, AtTells
  <2>7. QED
    BY <2>6 DEF g
<1> HIDE DEF parts, l
<1>6. /\ l \in Seq(Nat) /\ \A i : Holds(l, i) <=> \E k \in 1..K : Holds(parts[k], i)
      /\ (/\ \A k \in 1..K : Once(parts[k])
          /\ \A j, k \in 1..K : \A i : Holds(parts[j], i) /\ Holds(parts[k], i) => j = k)
         => Once(l)
  <2>1. \A k \in 1..K : parts[k] \in Seq(Nat)
    BY <1>5
  <2>2. K \in Nat /\ Joined(f, parts, K) /\ l = f[K]
    BY <1>3, <1>4
  <2> HIDE DEF K
  <2>3. Whole(f[K], parts, K, Nat)
    BY <2>1, <2>2, JoinedIs
  <2>4. QED
    BY <2>2, <2>3 DEF Whole
<1>7. \A t, i : Shown(trie, n, t, i) <=> \E g \in DOMAIN kids : ShownBy(trie, n, g, t, i)
  BY ShownStep
<1>8. ASSUME NEW i
      PROVE  Holds(l, i) <=> \E t : Shown(trie, n, t, i)
  <2> HIDE DEF kids
  <2>1. ASSUME Holds(l, i)
        PROVE  \E t : Shown(trie, n, t, i)
    <3>1. PICK k \in 1..K : Holds(parts[k], i)
      BY <1>6, <2>1
    <3>2. PICK t : ShownBy(trie, n, order[k], t, i)
      BY <1>5, <3>1
    <3>3. QED
      BY <1>4, <1>7, <3>2
  <2>2. ASSUME NEW t, Shown(trie, n, t, i)
        PROVE  Holds(l, i)
    <3>1. PICK g \in DOMAIN kids : ShownBy(trie, n, g, t, i)
      BY <1>7, <2>2
    <3>2. PICK k \in 1..K : order[k] = g
      BY <1>2
    <3>3. Holds(parts[k], i)
      BY <1>5, <3>1, <3>2
    <3>4. QED
      BY <1>6, <3>3
  <2>3. QED
    BY <2>1, <2>2
<1>9. ASSUME Sole(trie, n), NEW j \in 1..K, NEW k \in 1..K, NEW i,
             Holds(parts[j], i), Holds(parts[k], i)
      PROVE  j = k
  <2>1. PICK t : ShownBy(trie, n, order[j], t, i)
    BY <1>5, <1>9
  <2>2. PICK u : ShownBy(trie, n, order[k], u, i)
    BY <1>5, <1>9
  <2>3. t = u
    BY <1>4, <1>7, <1>9, <2>1, <2>2 DEF Sole
  <2>4. ASSUME NEW g, NEW v, ShownBy(trie, n, g, v, i), g \in DOMAIN kids
        PROVE  \E w \in Seq(Letters) : v = g \o w
    <3>1. g \in Seq(Letters)
      BY <2>4, KidsAre
    <3>2. g \o <<>> = g /\ <<>> \in Seq(Letters)
      BY <3>1, LetterJoin
    <3>3. QED
      BY <2>4, <3>2 DEF ShownBy
  <2>5. PICK v \in Seq(Letters) : t = order[j] \o v
    BY <1>4, <2>1, <2>4
  <2>6. PICK w \in Seq(Letters) : u = order[k] \o w
    BY <1>4, <2>2, <2>4
  <2>7. order[j] \in Seq(Letters) /\ order[k] \in Seq(Letters)
    BY <1>4, KidsAre
  <2>8. Len(order[j]) = Len(order[k])
    BY <1>4 DEF Evenly, Even
  <2>9. order[j] = order[k]
    BY <2>3, <2>5, <2>6, <2>7, <2>8, SameSplit
  <2>10. QED
    BY <1>2, <2>9 DEF Once
<1>10. Sole(trie, n) => Once(l)
  BY <1>5, <1>6, <1>9
<1>11. QED
  BY <1>6, <1>8, <1>10 DEF Tells, l

LEMMA ListIs ==
  ASSUME NEW top, NEW trie, GoodTrie(trie, top), Evenly(trie)
  PROVE  Tells(trie, 1, FindRouteIndexes(trie, <<>>))
<1> DEFINE N == Len(trie)
           f == CHOOSE f : f = [n \in DOMAIN trie |-> FromStep(f, trie, <<>>, n)]
<1>1. N \in Nat /\ DOMAIN trie = 1..N /\ N >= 1
  BY DEF GoodTrie, TrieOK
<1>2. f = [n \in DOMAIN trie |-> FromStep(f, trie, <<>>, n)]
  <2>1. \E g : FromUpTo(g, trie, <<>>, N)
    BY <1>1, SomeFrom
  <2>2. N + 1 - N = 1
    BY <1>1
  <2>3. \E g : g = [n \in DOMAIN trie |-> FromStep(g, trie, <<>>, n)]
    BY <1>1, <2>1, <2>2 DEF FromUpTo
  <2>4. QED
    BY <2>3, Zenon
<1>3. FindRouteIndexes(trie, <<>>) = f[1][1]
  BY Zenon DEF FindRouteIndexes, FromStep
<1> HIDE DEF f
<1>4. \A n \in 1..N : \A pos \in Nat : f[n][pos] = ListedBelow(trie, trie[n].kids, <<>>, pos, f)
  <2>1. \A n \in 1..N : f[n] = FromStep(f, trie, <<>>, n)
    BY <1>1, <1>2
  <2>2. QED
    BY <2>1 DEF FromStep
<1> DEFINE P(n) == \A pos \in Nat \ {0} : Tells(trie, n, f[n][pos])
           T == {k \in Nat : \A n \in 1..N : n + k >= N => P(n)}
<1>5. ASSUME NEW n \in 1..N, \A m \in 1..N : m > n => P(m)
      PROVE  P(n)
  <2>1. SUFFICES ASSUME NEW pos \in Nat \ {0}
                 PROVE  Tells(trie, n, f[n][pos])
    OBVIOUS
  <2>2. f[n][pos] = ListedBelow(trie, trie[n].kids, <<>>, pos, f)
    BY <1>4
  <2>3. \A m \in 1..Len(trie) : m > n => \A p \in Nat \ {0} : Tells(trie, m, f[m][p])
    BY <1>5
  <2>4. QED
    BY <2>2, <2>3, BelowTells
<1> HIDE DEF P
<1>6. 0 \in T
  <2>1. SUFFICES ASSUME NEW n \in 1..N, n + 0 >= N
                 PROVE  P(n)
    OBVIOUS
  <2>2. \A m \in 1..N : ~(m > n)
    BY <1>1, <2>1
  <2>3. QED
    BY <1>5, <2>2
<1>7. ASSUME NEW k \in Nat, k \in T
      PROVE  k + 1 \in T
  <2>1. SUFFICES ASSUME NEW n \in 1..N, n + (k + 1) >= N
                 PROVE  P(n)
    OBVIOUS
  <2>2. ASSUME NEW m \in 1..N, m > n
        PROVE  P(m)
    <3>1. m + k >= N
      BY <1>1, <2>1, <2>2
    <3>2. QED
      BY <1>7, <3>1
  <2>3. QED
    BY <1>5, <2>2
<1>8. N \in T
  BY <1>1, <1>6, <1>7, Induction
<1>9. P(1)
  <2>1. 1 \in 1..N /\ 1 + N >= N
    BY <1>1
  <2>2. QED
    BY <1>8, <2>1
<1>10. QED
  BY <1>3, <1>9 DEF P

-----------------------------------------------------------------------------
(* Where the fragments of a node have one length, a text of letters leads  *)
(* from a node to one node at most.                                        *)

\* The last step of a literal name.
LastStep(trie, n, s, x) ==
  \E m \in 1..Len(trie) : \E u \in Seq(Letters) : \E f \in DOMAIN trie[m].kids :
    s = u \o f /\ trie[m].kids[f] = x /\ <<n, u, m>> \in Names(trie)

LEMMA LetterLast ==
  ASSUME NEW top, NEW trie, GoodTrie(trie, top), NEW n, NEW s \in Seq(Letters), NEW x,
         <<n, s, x>> \in Names(trie), s # <<>>
  PROVE  LastStep(trie, n, s, x)
<1> DEFINE Ends(q) ==
             \/ q[2] = <<>> /\ q[3] = q[1]
             \/ \E m \in 1..Len(trie) : \E u \in Seq(Letters) : \E f \in DOMAIN trie[m].kids :
                  q[2] = u \o f /\ trie[m].kids[f] = q[3] /\ <<q[1], u, m>> \in Names(trie)
           R == {q \in Names(trie) : q[2] \in Seq(Letters) => Ends(q)}
<1>1. TrieOK(trie, top)
  BY DEF GoodTrie
<1>2. R \in SUBSET Places(trie)
  BY DEF Names
<1>3. ASSUME NEW k \in 1..Len(trie)
      PROVE  <<k, <<>>, k>> \in R
  <2>1. <<k, <<>>, k>> \in Names(trie)
    BY <1>1, NamesRoot
  <2>2. QED
    BY <2>1
<1>4. ASSUME NEW k \in 1..Len(trie), NEW e \in Edges(trie[k]), NEW t \in Templates,
             NEW y \in 1..Len(trie), <<e[2], t, y>> \in R
      PROVE  <<k, e[1] \o t, y>> \in R
  <2> DEFINE q == <<k, e[1] \o t, y>>
  <2>1. q \in Names(trie)
    BY <1>1, <1>4, NamesStep
  <2>2. SUFFICES ASSUME e[1] \o t \in Seq(Letters)
                 PROVE  \E m \in 1..Len(trie) : \E u \in Seq(Letters) :
                          \E f \in DOMAIN trie[m].kids :
                            e[1] \o t = u \o f /\ trie[m].kids[f] = y /\ <<k, u, m>> \in Names(trie)
    BY <2>1
  <2>3. e[1] \in DOMAIN trie[k].kids /\ e[2] = trie[k].kids[e[1]] /\ t \in Seq(Letters)
    BY <2>2, LetterEdge
  <2>4. e[1] \in Seq(Letters)
    BY <2>3, KidsAre
  <2>5. CASE t = <<>> /\ y = e[2]
    <3>1. e[1] \o t = <<>> \o e[1] /\ <<>> \in Seq(Letters)
      BY <2>4, <2>5, LetterJoin
    <3>2. <<k, <<>>, k>> \in Names(trie)
      BY <1>1, NamesRoot
    <3>3. QED
      BY <2>3, <2>5, <3>1, <3>2
  <2>6. ASSUME NEW m \in 1..Len(trie), NEW u \in Seq(Letters), NEW f \in DOMAIN trie[m].kids,
               t = u \o f, trie[m].kids[f] = y, <<e[2], u, m>> \in Names(trie)
        PROVE  \E v \in Seq(Letters) : \E g \in DOMAIN trie[m].kids :
                 e[1] \o t = v \o g /\ trie[m].kids[g] = y /\ <<k, v, m>> \in Names(trie)
    <3>1. f \in Seq(Letters)
      BY KidsAre
    <3>2. e[1] \o t = (e[1] \o u) \o f /\ e[1] \o u \in Seq(Letters)
      BY <2>4, <2>6, <3>1, LetterJoin
    <3>3. <<k, e[1] \o u, m>> \in Names(trie)
      BY <1>1, <2>6, NamesStep
    <3>4. QED
      BY <2>6, <3>2, <3>3
  <2>7. Ends(<<e[2], t, y>>)
    BY <1>4, <2>3
  <2>8. CASE ~(t = <<>> /\ y = e[2])
    <3>1. PICK m \in 1..Len(trie) : \E u \in Seq(Letters) : \E f \in DOMAIN trie[m].kids :
            t = u \o f /\ trie[m].kids[f] = y /\ <<e[2], u, m>> \in Names(trie)
      BY <2>7, <2>8
    <3>2. PICK u \in Seq(Letters), f \in DOMAIN trie[m].kids :
            t = u \o f /\ trie[m].kids[f] = y /\ <<e[2], u, m>> \in Names(trie)
      BY <3>1
    <3>3. QED
      BY <2>6, <3>2
  <2>9. QED
    BY <2>5, <2>8
<1>5. Closed(trie, R)
  BY <1>3, <1>4 DEF Closed
<1>6. <<n, s, x>> \in R
  BY <1>2, <1>5, NamesLeast
<1>7. QED
  BY <1>6 DEF LastStep

LEMMA Determined ==
  ASSUME NEW top, NEW trie, GoodTrie(trie, top), Evenly(trie), NEW n, NEW s \in Seq(Letters),
         NEW m, <<n, s, m>> \in Names(trie), NEW g \in Seq(Letters), NEW x,
         <<n, s \o g, x>> \in Names(trie)
  PROVE  <<m, g, x>> \in Names(trie)
<1> DEFINE Goes(q) == \A h \in Seq(Letters) : \A y :
             <<q[1], q[2] \o h, y>> \in Names(trie) => <<q[3], h, y>> \in Names(trie)
           R == {q \in Names(trie) : q[2] \in Seq(Letters) => Goes(q)}
<1>1. TrieOK(trie, top)
  BY DEF GoodTrie
<1>2. R \in SUBSET Places(trie)
  BY DEF Names
<1>3. ASSUME NEW k \in 1..Len(trie)
      PROVE  <<k, <<>>, k>> \in R
  <2>1. <<k, <<>>, k>> \in Names(trie)
    BY <1>1, NamesRoot
  <2>2. \A h \in Seq(Letters) : <<>> \o h = h
    BY LetterJoin
  <2>3. QED
    BY <2>1, <2>2
<1>4. ASSUME NEW k \in 1..Len(trie), NEW e \in Edges(trie[k]), NEW t \in Templates,
             NEW z \in 1..Len(trie), <<e[2], t, z>> \in R
      PROVE  <<k, e[1] \o t, z>> \in R
  <2>1. <<k, e[1] \o t, z>> \in Names(trie)
    BY <1>1, <1>4, NamesStep
  <2>2. SUFFICES ASSUME e[1] \o t \in Seq(Letters), NEW h \in Seq(Letters), NEW y,
                        <<k, (e[1] \o t) \o h, y>> \in Names(trie)
                 PROVE  <<z, h, y>> \in Names(trie)
    BY <2>1
  <2>3. e[1] \in DOMAIN trie[k].kids /\ e[2] = trie[k].kids[e[1]] /\ t \in Seq(Letters)
    BY <2>2, LetterEdge
  <2>4. e[1] \in Seq(Letters) /\ Len(e[1]) \in Nat \ {0}
    BY <2>3, KidsAre
  <2>5. (e[1] \o t) \o h = e[1] \o (t \o h) /\ t \o h \in Seq(Letters)
    BY <2>3, <2>4, LetterJoin, ZenonT(60)
  <2>6. /\ e[1] \o (t \o h) \in Seq(Letters)
        /\ Len(e[1] \o (t \o h)) = Len(e[1]) + Len(t \o h) /\ Len(t \o h) \in Nat
    BY <2>4, <2>5, LetterJoin
  <2>7. e[1] \o (t \o h) # <<>>
    BY <2>4, <2>6
  <2>8. PICK f \in DOMAIN trie[k].kids, u \in Seq(Letters) :
          e[1] \o (t \o h) = f \o u /\ <<trie[k].kids[f], u, y>> \in Names(trie)
    BY <2>2, <2>5, <2>6, <2>7, LetterBack
  <2>9. f \in Seq(Letters) /\ Len(f) = Len(e[1])
    BY <2>3, KidsAre DEF Evenly, Even
  <2>10. f = e[1] /\ u = t \o h
    BY <2>4, <2>5, <2>8, <2>9, SameSplit
  <2>11. <<e[2], t \o h, y>> \in Names(trie)
    BY <2>3, <2>8, <2>10
  <2>12. Goes(<<e[2], t, z>>)
    BY <1>4, <2>3
  <2>13. QED
    BY <2>11, <2>12
<1>5. Closed(trie, R)
  BY <1>3, <1>4 DEF Closed
<1>6. <<n, s, m>> \in R
  BY <1>2, <1>5, NamesLeast
<1>7. QED
  BY <1>6

LEMMA OneNode ==
  ASSUME NEW top, NEW trie, GoodTrie(trie, top), Evenly(trie), NEW n, NEW s \in Seq(Letters),
         NEW x, <<n, s, x>> \in Names(trie), NEW y, <<n, s, y>> \in Names(trie)
  PROVE  x = y
<1>1. s \o <<>> = s /\ <<>> \in Seq(Letters)
  BY LetterJoin
<1>2. <<x, <<>>, y>> \in Names(trie)
  BY <1>1, Determined
<1>3. SUFFICES ASSUME x # y PROVE FALSE
  OBVIOUS
<1>4. \E f \in DOMAIN trie[x].kids : \E u \in Seq(Letters) :
        <<>> = f \o u /\ <<trie[x].kids[f], u, y>> \in Names(trie)
  <2>1. <<>> # <<>> \/ y # x
    BY <1>3
  <2>2. QED
    BY <1>1, <1>2, <2>1, LetterBack
<1> DEFINE empty == <<>>
<1>5. PICK f \in DOMAIN trie[x].kids : \E u \in Seq(Letters) : empty = f \o u
  BY <1>4
<1>6. PICK u \in Seq(Letters) : empty = f \o u
  BY <1>5
<1>7. x \in 1..Len(trie)
  BY <1>2, NamesType
<1>8. f \in Seq(Letters) /\ Len(f) \in Nat \ {0}
  BY <1>7, KidsAre
<1>9. Len(f \o u) = Len(f) + Len(u) /\ Len(u) \in Nat
  BY <1>8, LetterJoin
<1>10. Len(empty) = 0
  OBVIOUS
<1> HIDE DEF empty
<1>11. QED
  BY <1>6, <1>10, <1>8, <1>9

-----------------------------------------------------------------------------
(* What is shown, by what is spelled.                                      *)

LEMMA ShownSpelled ==
  ASSUME NEW top, NEW trie, GoodTrie(trie, top), NEW t, NEW i, Shown(trie, 1, t, i)
  PROVE  Spelled(trie, t, i) /\ t # <<"/">>
<1>1. TrieOK(trie, top)
  BY DEF GoodTrie
<1>2. PICK m \in 1..Len(trie) : \E s \in Seq(Letters) : \E f \in DOMAIN trie[m].kids :
        /\ t = s \o f /\ f # <<"/">> /\ i # 0
        /\ <<1, s, m>> \in Names(trie) /\ trie[trie[m].kids[f]].rule = i
  BY DEF Shown
<1>3. PICK s \in Seq(Letters), f \in DOMAIN trie[m].kids :
        /\ t = s \o f /\ f # <<"/">> /\ i # 0
        /\ <<1, s, m>> \in Names(trie) /\ trie[trie[m].kids[f]].rule = i
  BY <1>2
<1>4. /\ f \in Seq(Letters) /\ Len(f) \in Nat \ {0}
      /\ trie[m].kids[f] \in 1..Len(trie) /\ <<m, f, trie[m].kids[f]>> \in Names(trie)
  BY KidsAre
<1>5. <<1, t, trie[m].kids[f]>> \in Names(trie)
  <2> DEFINE kid == trie[m].kids[f]
  <2>1. <<1, s, m>> \in Names(trie) /\ <<m, f, kid>> \in Names(trie)
    BY <1>3, <1>4
  <2> HIDE DEF kid
  <2>2. <<1, s \o f, kid>> \in Names(trie)
    BY <1>1, <2>1, NamesJoin
  <2>3. <<1, s \o f, trie[m].kids[f]>> \in Names(trie)
    BY <2>2 DEF kid
  <2>4. QED
    BY <1>3, <2>3
<1>6. Spelled(trie, t, i)
  BY <1>3, <1>4, <1>5 DEF Spelled
<1>7. ASSUME t = <<"/">>
      PROVE  FALSE
  <2>1. Len(<<"/">>) = 1
    OBVIOUS
  <2>2. Len(s \o f) = Len(s) + Len(f) /\ Len(s) \in Nat
    BY <1>4, LetterJoin
  <2>3. Len(t) = Len(s) + Len(f) /\ Len(t) = 1 /\ Len(s) \in Nat
    BY <1>3, <1>7, <2>1, <2>2
  <2>4. Len(f) \in Nat \ {0}
    BY <1>4
  <2>5. \A a \in Nat : \A b \in Nat \ {0} : a + b = 1 => a = 0
    OBVIOUS
  <2>6. Len(s) + Len(f) = 1 /\ Len(s) \in Nat
    BY <2>3
  <2>7. Len(s) = 0
    BY <2>4, <2>5, <2>6, Zenon
  <2>8. s = <<>>
    BY <2>7
  <2>9. t = <<>> \o f /\ <<>> \o f = f
    BY <1>3, <1>4, <2>8, LetterJoin
  <2>10. QED
    BY <1>3, <1>7, <2>9
<1>8. QED
  BY <1>6, <1>7

LEMMA SpelledShown ==
  ASSUME NEW top, NEW trie, GoodTrie(trie, top), NEW t \in Seq(Letters), t # <<>>, NEW i,
         Spelled(trie, t, i), t[Len(t)] # "/"
  PROVE  Shown(trie, 1, t, i)
<1>1. PICK x \in 1..Len(trie) : <<1, t, x>> \in Names(trie) /\ trie[x].rule = i /\ i # 0
  BY DEF Spelled
<1>2. \E m \in 1..Len(trie) : \E u \in Seq(Letters) : \E f \in DOMAIN trie[m].kids :
        t = u \o f /\ trie[m].kids[f] = x /\ <<1, u, m>> \in Names(trie)
  <2>1. <<1, t, x>> \in Names(trie) /\ t # <<>>
    BY <1>1
  <2>2. LastStep(trie, 1, t, x)
    BY <2>1, LetterLast
  <2>3. QED
    BY <2>2 DEF LastStep
<1>3. PICK m \in 1..Len(trie) : \E u \in Seq(Letters) : \E f \in DOMAIN trie[m].kids :
        t = u \o f /\ trie[m].kids[f] = x /\ <<1, u, m>> \in Names(trie)
  BY <1>2
<1>4. PICK u \in Seq(Letters), f \in DOMAIN trie[m].kids :
        t = u \o f /\ trie[m].kids[f] = x /\ <<1, u, m>> \in Names(trie)
  BY <1>3
<1>5. f \in Seq(Letters) /\ Len(f) \in Nat \ {0}
  BY KidsAre
<1>6. f # <<"/">>
  <2>1. SUFFICES ASSUME f = <<"/">> PROVE FALSE
    OBVIOUS
  <2>2. /\ Len(t) = Len(u) + Len(f) /\ Len(f) = 1 /\ Len(u) \in Nat
        /\ \A k \in 1..(Len(u) + Len(f)) : t[k] = IF k <= Len(u) THEN u[k] ELSE f[k - Len(u)]
    BY <1>4, <1>5, <2>1, ConcatProperties
  <2>3. /\ Len(u) + 1 \in 1..(Len(u) + Len(f)) /\ ~(Len(u) + 1 <= Len(u))
        /\ (Len(u) + 1) - Len(u) = 1
    BY <2>2
  <2>4. t[Len(u) + 1] = f[1]
    BY <2>2, <2>3
  <2>5. t[Len(t)] = "/"
    BY <2>1, <2>2, <2>4
  <2>6. QED
    BY <2>5
<1>7. QED
  BY <1>1, <1>4, <1>6 DEF Shown

\* A text and the same without its last slash are not both shown.
LEMMA NotBoth ==
  ASSUME NEW top, NEW trie, GoodTrie(trie, top), Evenly(trie), NEW v \in Seq(Letters),
         NEW i, Shown(trie, 1, v \o <<"/">>, i), NEW x, <<1, v, x>> \in Names(trie)
  PROVE  FALSE
<1> DEFINE slash == <<"/">>
<1>1. PICK m \in 1..Len(trie) : \E s \in Seq(Letters) : \E f \in DOMAIN trie[m].kids :
        v \o slash = s \o f /\ f # slash /\ <<1, s, m>> \in Names(trie)
  BY DEF Shown
<1>2. PICK s \in Seq(Letters), f \in DOMAIN trie[m].kids :
        v \o slash = s \o f /\ f # slash /\ <<1, s, m>> \in Names(trie)
  BY <1>1
<1>3. f \in Seq(Letters) /\ Len(f) \in Nat \ {0}
  BY KidsAre
<1>4. s \o f \in Seq(Letters) /\ Len(s \o f) = Len(s) + Len(f) /\ Len(s) \in Nat
  BY <1>3, LetterJoin
<1>5. Len(slash) = 1 /\ slash \in Seq({"/"} \cup Letters) /\ v \in Seq({"/"} \cup Letters)
  OBVIOUS
<1>6. Len(v \o slash) = Len(v) + 1 /\ Len(v) \in Nat
  BY <1>5, ConcatProperties
<1>7. Len(v) + 1 = Len(s) + Len(f)
  BY <1>2, <1>4, <1>6
<1> DEFINE c == v \o slash
           g == SubSeq(f, 1, Len(f) - 1)
<1>8. /\ \A k \in 1..Len(v) : c[k] = v[k]
      /\ \A k \in 1..Len(s) : c[k] = s[k]
      /\ \A k \in 1..Len(f) : c[Len(s) + k] = f[k]
  <2>1. \A k \in 1..(Len(v) + Len(slash)) :
          c[k] = IF k <= Len(v) THEN v[k] ELSE slash[k - Len(v)]
    BY <1>5, ConcatProperties
  <2>2. \A k \in 1..(Len(s) + Len(f)) :
          c[k] = IF k <= Len(s) THEN s[k] ELSE f[k - Len(s)]
    BY <1>2, <1>3, ConcatProperties
  <2> HIDE DEF c, slash
  <2>3. \A k \in 1..Len(v) : k \in 1..(Len(v) + Len(slash)) /\ k <= Len(v)
    BY <1>5, <1>6
  <2>4. \A k \in 1..Len(s) : k \in 1..(Len(s) + Len(f)) /\ k <= Len(s)
    BY <1>3, <1>4
  <2>5. \A k \in 1..Len(f) : /\ Len(s) + k \in 1..(Len(s) + Len(f)) /\ ~(Len(s) + k <= Len(s))
                             /\ (Len(s) + k) - Len(s) = k
    BY <1>3, <1>4
  <2>6. QED
    BY <2>1, <2>2, <2>3, <2>4, <2>5
<1> HIDE DEF c
<1>9. CASE Len(f) = 1
  <2>1. Len(v) = Len(s)
    BY <1>4, <1>6, <1>7, <1>9
  <2>2. slash \in Seq({"/"} \cup Letters) /\ f \in Seq({"/"} \cup Letters)
        /\ s \in Seq({"/"} \cup Letters) /\ v \in Seq({"/"} \cup Letters)
    BY <1>3
  <2>3. slash = f
    BY <1>2, <2>1, <2>2, SameSplit
  <2>4. QED
    BY <1>2, <2>3
<1>10. CASE Len(f) # 1
  <2>1. Len(f) - 1 \in 1..Len(f)
    BY <1>3, <1>10
  <2>2. g \in Seq(Letters) /\ Len(g) = Len(f) - 1 /\ \A k \in 1..(Len(f) - 1) : g[k] = f[k]
    BY <1>3, <2>1
  <2> HIDE DEF g
  <2>3. /\ s \o g \in Seq(Letters) /\ Len(s \o g) = Len(s) + Len(g)
        /\ \A k \in 1..(Len(s) + Len(g)) :
             (s \o g)[k] = IF k <= Len(s) THEN s[k] ELSE g[k - Len(s)]
    BY <2>2, ConcatProperties
  <2>4. Len(s \o g) = Len(v)
    BY <1>3, <1>4, <1>6, <1>7, <2>2, <2>3
  <2>5. ASSUME NEW k \in 1..Len(v)
        PROVE  (s \o g)[k] = v[k]
    <3>1. CASE k <= Len(s)
      <4>1. k \in 1..Len(s) /\ k \in 1..(Len(s) + Len(g))
        BY <1>4, <2>3, <2>4, <3>1
      <4>2. QED
        BY <1>8, <2>3, <3>1, <4>1
    <3>2. CASE ~(k <= Len(s))
      <4>1. /\ k \in 1..(Len(s) + Len(g)) /\ k - Len(s) \in 1..(Len(f) - 1)
            /\ k - Len(s) \in 1..Len(f) /\ Len(s) + (k - Len(s)) = k
        BY <1>3, <1>4, <1>6, <1>7, <2>2, <2>3, <2>4, <3>2, SMTT(40)
      <4>2. (s \o g)[k] = g[k - Len(s)] /\ g[k - Len(s)] = f[k - Len(s)]
        BY <2>2, <2>3, <3>2, <4>1
      <4>3. c[k] = f[k - Len(s)]
        BY <1>8, <4>1
      <4>4. QED
        BY <1>8, <4>2, <4>3
    <3>3. QED
      BY <3>1, <3>2
  <2>6. s \o g = v
    BY <2>3, <2>4, <2>5, SeqEqual
  <2>7. <<m, g, x>> \in Names(trie)
    BY <1>2, <2>2, <2>6, Determined
  <2>8. g # <<>>
    BY <1>3, <1>10, <2>2
  <2>9. \E h \in DOMAIN trie[m].kids : \E u \in Seq(Letters) :
           g = h \o u /\ <<trie[m].kids[h], u, x>> \in Names(trie)
    BY <2>2, <2>7, <2>8, LetterBack
  <2>10. PICK h \in DOMAIN trie[m].kids : \E u \in Seq(Letters) : g = h \o u
    BY <2>9
  <2>11. PICK u \in Seq(Letters) : g = h \o u
    BY <2>10
  <2>12. h \in Seq(Letters) /\ Len(h) = Len(f)
    BY KidsAre DEF Evenly, Even
  <2>13. Len(h \o u) = Len(h) + Len(u) /\ Len(u) \in Nat
    BY <2>12, LetterJoin
  <2>14. Len(g) = Len(h) + Len(u) /\ Len(u) \in Nat
    BY <2>11, <2>13
  <2>15. QED
    BY <1>3, <2>2, <2>12, <2>14
<1>11. QED
  BY <1>9, <1>10

-----------------------------------------------------------------------------
(* The list of all routes, by the rules of the table.                      *)

LEMMA TypesOfLetters ==
  ASSUME NEW u \in Seq(Elements)
  PROVE  TypesOf(u) = <<>> <=> u \in Seq(Letters)
<1> DEFINE N == Len(u)
<1>1. N \in Nat /\ \A k \in 1..N : u[k] \in Elements
  OBVIOUS
<1>2. PICK g : Typing(g, u) /\ TypesOf(u) = g[N]
  BY <1>1, TypingIs
<1> DEFINE Tagged(k) == \E j \in 1..k : u[j] \in TagNames
           T == {k \in Nat : k <= N => /\ g[k] \in Seq(DOMAIN Tags)
                                       /\ g[k] = <<>> <=> ~Tagged(k)}
<1>3. 0 \in T
  <2>1. g[0] = <<>> /\ <<>> \in Seq(DOMAIN Tags)
    BY <1>2 DEF Typing
  <2>2. ~Tagged(0)
    OBVIOUS
  <2> HIDE DEF Tagged
  <2>3. g[0] \in Seq(DOMAIN Tags) /\ (g[0] = <<>> <=> ~Tagged(0))
    BY <2>1, <2>2, Zenon
  <2>4. QED
    BY <2>3
<1>4. ASSUME NEW k \in Nat, k \in T
      PROVE  k + 1 \in T
  <2>1. SUFFICES ASSUME k + 1 <= N
                 PROVE  g[k + 1] \in Seq(DOMAIN Tags) /\ (g[k + 1] = <<>> <=> ~Tagged(k + 1))
    OBVIOUS
  <2>2. k + 1 \in 1..N /\ (k + 1) - 1 = k
    BY <1>1, <2>1
  <2>3. g[k] \in Seq(DOMAIN Tags) /\ (g[k] = <<>> <=> ~Tagged(k))
    BY <1>1, <1>4, <2>1
  <2>4. Tagged(k + 1) <=> Tagged(k) \/ u[k + 1] \in TagNames
    <3>1. \A j \in 1..(k + 1) : j \in 1..k \/ j = k + 1
      OBVIOUS
    <3>2. \A j \in 1..k : j \in 1..(k + 1)
      OBVIOUS
    <3>3. k + 1 \in 1..(k + 1)
      OBVIOUS
    <3>4. QED
      BY <3>1, <3>2, <3>3
  <2> HIDE DEF Tagged
  <2>5. CASE u[k + 1] \in TagNames
    <3> DEFINE p == TypeOfTag(u[k + 1])
    <3>1. g[k + 1] = Append(g[k], p)
      BY <1>2, <2>2, <2>5 DEF Typing
    <3>2. p \in DOMAIN Tags
      BY <2>5, TagTypes
    <3> HIDE DEF p
    <3>3. Append(g[k], p) \in Seq(DOMAIN Tags) /\ Append(g[k], p) # <<>>
      BY <2>3, <3>2
    <3>4. QED
      BY <2>4, <2>5, <3>1, <3>3
  <2>6. CASE u[k + 1] \notin TagNames
    <3>1. g[k + 1] = g[k]
      BY <1>2, <2>2, <2>6 DEF Typing
    <3>2. QED
      BY <2>3, <2>4, <2>6, <3>1
  <2>7. QED
    BY <2>5, <2>6
<1> HIDE DEF Tagged
<1>5. N \in T
  BY <1>1, <1>3, <1>4, Induction
<1>6. TypesOf(u) = <<>> <=> ~Tagged(N)
  BY <1>1, <1>2, <1>5
<1>7. u \in Seq(Letters) <=> \A k \in 1..N : u[k] \in Letters
  OBVIOUS
<1>8. QED
  BY <1>1, <1>6, <1>7 DEF Tagged, Letters

LEMMA UrlIs ==
  ASSUME SlashesAlone, NEW rule \in Registered
  PROVE  /\ rule.url \in Seq(Elements)
         /\ rule.url # <<>> /\ rule.url[1] = "/"
         /\ Len(rule.url) > 1 =>
              ~(rule.url[Len(rule.url)] = "/" /\ rule.url[Len(rule.url) - 1] = "/")
<1>1. PICK choice \in RuleChoices : rule = RuleOf(choice)
  BY DEF Registered, Accepted
<1>2. rule.url = choice.url
  BY <1>1 DEF RuleOf
<1>3. QED
  BY <1>2, RegisteredType DEF SlashesAlone

LEMMA FormIs ==
  ASSUME NEW n, NEW t, t \in Forms(n)
  PROVE  t = allRules[n].url \/ (HasDirectoryForm(allRules[n].url) /\ t = Front(allRules[n].url))
BY DEF Forms

\* Where a form is literal, the template is.
LEMMA LiteralUrl ==
  ASSUME NEW n, NEW u \in Seq(Elements), u = allRules[n].url,
         NEW t \in Seq(Letters), t \in Forms(n)
  PROVE  u \in Seq(Letters) /\ (u # t => u = t \o <<"/">>)
<1>1. CASE t = u
  BY <1>1
<1>2. CASE HasDirectoryForm(u) /\ t = Front(u)
  <2>1. /\ u = t \o <<"/">> /\ Len(u) \in Nat /\ Len(u) >= 1 /\ Len(t) = Len(u) - 1
        /\ u[Len(u)] = "/" /\ \A k \in 1..(Len(u) - 1) : t[k] = u[k]
    BY <1>2, FrontIs
  <2>2. \A k \in 1..Len(u) : u[k] \in Elements
    OBVIOUS
  <2>3. \A k \in 1..Len(u) : u[k] \in Letters
    <3>1. SUFFICES ASSUME NEW k \in 1..Len(u) PROVE u[k] \in Letters
      OBVIOUS
    <3>2. CASE k = Len(u)
      BY <2>1, <2>2, <3>2, SlashIsNoTag DEF Letters
    <3>3. CASE k # Len(u)
      <4>1. k \in 1..(Len(u) - 1) /\ k \in 1..Len(t)
        BY <2>1, <3>3
      <4>2. QED
        BY <2>1, <4>1
    <3>4. QED
      BY <3>2, <3>3
  <2>4. QED
    BY <2>1, <2>3
<1>3. QED
  BY <1>1, <1>2, FormIs

\* A literal template that is not "/" has a form that does not end in a slash.
LEMMA OpenForm ==
  ASSUME NEW n, NEW u \in Seq(Letters), u = allRules[n].url, u \in Seq(Elements),
         u # <<>>, u[1] = "/", Len(u) > 1 => ~(u[Len(u)] = "/" /\ u[Len(u) - 1] = "/"),
         u # <<"/">>
  PROVE  \E t \in Forms(n) : t \in Seq(Letters) /\ t # <<>> /\ t[Len(t)] # "/"
<1>1. Len(u) \in Nat /\ Len(u) >= 1
  OBVIOUS
<1>2. CASE u[Len(u)] # "/"
  <2>1. u \in Forms(n)
    BY DEF Forms
  <2>2. QED
    BY <1>2, <2>1
<1>3. CASE u[Len(u)] = "/"
  <2>1. Len(u) # 1
    <3>1. SUFFICES ASSUME Len(u) = 1 PROVE FALSE
      OBVIOUS
    <3>2. Len(<<"/">>) = 1 /\ <<"/">>[1] = "/" /\ <<"/">> \in Seq({"/"} \cup Letters)
          /\ u \in Seq({"/"} \cup Letters)
      OBVIOUS
    <3>3. u = <<"/">>
      <4>1. \A k \in 1..1 : u[k] = <<"/">>[k]
        BY <3>1, <3>2
      <4>2. QED
        BY <3>1, <3>2, <4>1, SeqEqual
    <3>4. QED
      BY <3>3
  <2>2. Len(u) > 1 /\ u[Len(u) - 1] # "/"
    BY <1>1, <1>3, <2>1
  <2>3. Len(u) > 2
    <3>1. Len(u) # 2
      <4>1. SUFFICES ASSUME Len(u) = 2 PROVE FALSE
        OBVIOUS
      <4>2. Len(u) - 1 = 1
        BY <4>1
      <4>3. u[1] # "/"
        BY <2>2, <4>2, Zenon
      <4>4. QED
        BY <4>3
    <3>2. QED
      BY <1>1, <2>2, <3>1
  <2>4. HasDirectoryForm(u)
    BY <1>3, <2>3 DEF HasDirectoryForm, LongerThanTwo, Last
  <2> DEFINE t == Front(u)
  <2>5. /\ Len(t) = Len(u) - 1 /\ t \in Templates
        /\ \A k \in 1..(Len(u) - 1) : t[k] = u[k]
    BY <2>4, FrontIs
  <2>6. t \in Forms(n)
    BY <2>4 DEF Forms
  <2> HIDE DEF t
  <2>7. t \in Seq(Letters)
    <3>1. \A k \in 1..Len(t) : k \in 1..(Len(u) - 1) /\ k \in 1..Len(u)
      BY <1>1, <2>5
    <3>2. \A k \in 1..Len(t) : t[k] \in Letters
      BY <2>5, <3>1
    <3>3. QED
      BY <2>5, <3>2 DEF Templates
  <2>8. t # <<>>
    <3>1. Len(t) # 0
      BY <1>1, <2>3, <2>5
    <3>2. QED
      BY <3>1
  <2>9. t[Len(t)] # "/"
    <3>1. Len(u) - 1 \in 1..(Len(u) - 1)
      BY <1>1, <2>3
    <3>2. QED
      BY <2>2, <2>5, <3>1
  <2>10. QED
    BY <2>6, <2>7, <2>8, <2>9
<1>4. QED
  BY <1>2, <1>3

-----------------------------------------------------------------------------
(* The list of all routes, after the first validate.                       *)

\* The rules without parameters, and the rules a list of indexes stands for.
Plain(table) ==
  {n \in ToSet(table.rules) : TypesOf(allRules[n].url) = <<>> /\ allRules[n].url # <<"/">>}

Named(table, found) == [k \in DOMAIN found |-> table.rules[found[k]]]

LEMMA ShownIs ==
  ASSUME NEW table, NEW m, allRules \in Seq(Registered), Sound(table, m),
         NEW t, NEW i, Shown(table.trie, 1, t, i)
  PROVE  /\ i \in 1..Len(table.rules) /\ t \in Forms(table.rules[i]) /\ t \in Seq(Letters)
         /\ t # <<"/">> /\ Spelled(table.trie, t, i)
<1>1. GoodTrie(table.trie, Len(table.rules)) /\ Spelling(table)
  BY DEF Sound
<1>2. Spelled(table.trie, t, i) /\ t # <<"/">>
  BY <1>1, ShownSpelled
<1>3. i \in 1..Len(table.rules) /\ t \in Forms(table.rules[i])
  BY <1>1, <1>2 DEF Spelling
<1>4. t \in Seq(Letters)
  BY <1>1, ShownType
<1>5. QED
  BY <1>2, <1>3, <1>4

LEMMA SoleHolds ==
  ASSUME NEW table, NEW m, allRules \in Seq(Registered), Sound(table, m), Evenly(table.trie)
  PROVE  Sole(table.trie, 1)
<1>1. SUFFICES ASSUME NEW t, NEW s, NEW i, Shown(table.trie, 1, t, i), Shown(table.trie, 1, s, i),
                      t # s
               PROVE  FALSE
  BY DEF Sole
<1>2. GoodTrie(table.trie, Len(table.rules)) /\ table.rules \in Seq(1..Len(allRules))
  BY DEF Sound
<1> DEFINE n == table.rules[i]
<1>3. /\ i \in 1..Len(table.rules) /\ t \in Forms(n) /\ t \in Seq(Letters)
      /\ Spelled(table.trie, t, i)
  BY <1>1, ShownIs
<1>4. s \in Forms(n) /\ s \in Seq(Letters) /\ Spelled(table.trie, s, i)
  BY <1>1, ShownIs
<1>5. n \in 1..Len(allRules)
  BY <1>2, <1>3
<1> HIDE DEF n
<1> DEFINE u == allRules[n].url
<1>6. u \in Seq(Elements)
  BY <1>5, RegisteredType
<1>7. ASSUME NEW v \in Seq(Letters), NEW w, w = v \o <<"/">>, Shown(table.trie, 1, w, i),
             Spelled(table.trie, v, i)
      PROVE  FALSE
  <2>1. PICK x \in 1..Len(table.trie) : <<1, v, x>> \in Names(table.trie)
    BY <1>7 DEF Spelled
  <2>2. QED
    BY <1>2, <1>7, <2>1, NotBoth
<1>8. CASE u # t
  <2>1. u = t \o <<"/">>
    BY <1>3, <1>6, <1>8, LiteralUrl
  <2>2. u = s
    <3>1. SUFFICES ASSUME u # s PROVE FALSE
      OBVIOUS
    <3>2. t = Front(u) /\ s = Front(u)
      BY <1>3, <1>4, <1>8, <3>1, FormIs
    <3>3. QED
      BY <1>1, <3>2
  <2>3. QED
    BY <1>1, <1>3, <1>7, <2>1, <2>2
<1>9. CASE u = t
  <2>1. u = s \o <<"/">>
    BY <1>1, <1>4, <1>6, <1>9, LiteralUrl
  <2>2. QED
    BY <1>1, <1>4, <1>7, <1>9, <2>1
<1>10. QED
  BY <1>8, <1>9

LEMMA ListingRight ==
  ASSUME SlashesAlone, allRules \in Seq(Registered), NEW table, NEW m, Sound(table, m),
         Evenly(table.trie), NEW found, Tells(table.trie, 1, found)
  PROVE  /\ ToSet(Named(table, found)) = Plain(table)
         /\ Len(Named(table, found)) = Cardinality(Plain(table))
<1> DEFINE L == Len(table.rules)
           N == Len(allRules)
           K == Len(found)
           l == Named(table, found)
<1>1. /\ GoodTrie(table.trie, L) /\ table.rules \in Seq(1..N) /\ L \in Nat /\ Spelling(table)
      /\ N \in Nat
  BY DEF Sound
<1>2. found \in Seq(Nat) /\ K \in Nat /\ DOMAIN found = 1..K
  BY DEF Tells
<1>3. \A i : (\E k \in 1..K : found[k] = i) <=> \E t : Shown(table.trie, 1, t, i)
  BY DEF Tells, Holds
<1>4. Once(found)
  BY <1>1, SoleHolds DEF Tells
<1>5. ASSUME NEW k \in 1..K
      PROVE  /\ found[k] \in 1..L
             /\ \E t : Shown(table.trie, 1, t, found[k])
  <2>1. PICK t : Shown(table.trie, 1, t, found[k])
    BY <1>3
  <2>2. QED
    BY <2>1, ShownIs
<1>6. /\ l = [k \in 1..K |-> table.rules[found[k]]]
      /\ l \in Seq(1..N) /\ Len(l) = K /\ \A k \in 1..K : l[k] = table.rules[found[k]]
  <2>1. l = [k \in 1..K |-> table.rules[found[k]]]
    BY <1>2 DEF Named
  <2>2. \A k \in 1..K : table.rules[found[k]] \in 1..N
    BY <1>1, <1>5
  <2> HIDE DEF l
  <2>3. QED
    BY <1>2, <2>1, <2>2
<1> HIDE DEF l
<1>7. ASSUME NEW i \in 1..L, NEW n, n = table.rules[i]
      PROVE  /\ n \in 1..N /\ allRules[n].url \in Seq(Elements)
             /\ allRules[n].url # <<>> /\ allRules[n].url[1] = "/"
             /\ Len(allRules[n].url) > 1 =>
                  ~(allRules[n].url[Len(allRules[n].url)] = "/"
                      /\ allRules[n].url[Len(allRules[n].url) - 1] = "/")
  <2>1. n \in 1..N
    BY <1>1, <1>7
  <2>2. allRules[n] \in Registered
    BY <2>1
  <2>3. QED
    BY <2>1, <2>2, UrlIs
\* What is listed is plain.
<1>8. ASSUME NEW k \in 1..K
      PROVE  l[k] \in Plain(table)
  <2> DEFINE i == found[k]
             n == table.rules[i]
             u == allRules[n].url
  <2>1. PICK t : Shown(table.trie, 1, t, i)
    BY <1>5
  <2>2. i \in 1..L /\ t \in Forms(n) /\ t \in Seq(Letters) /\ t # <<"/">>
    BY <2>1, ShownIs
  <2> HIDE DEF i
  <2>3. u \in Seq(Elements)
    BY <1>7, <2>2
  <2>4. n \in ToSet(table.rules)
    BY <1>1, <2>2 DEF ToSet
  <2>5. l[k] = n
    BY <1>6 DEF i
  <2> HIDE DEF n
  <2>6. u \in Seq(Letters)
    BY <2>2, <2>3, LiteralUrl
  <2>7. TypesOf(u) = <<>>
    BY <2>3, <2>6, TypesOfLetters
  <2>8. u # <<"/">>
    <3>1. SUFFICES ASSUME u = <<"/">> PROVE FALSE
      OBVIOUS
    <3>2. ~HasDirectoryForm(u)
      <4>1. Len(<<"/">>) = 1 /\ DOMAIN <<"/">> = {1} /\ <<"/">>[1] = "/"
        OBVIOUS
      <4>2. QED
        BY <3>1, <4>1, SlashIsNoTag DEF HasDirectoryForm, LongerThanTwo
    <3>3. t = u
      BY <2>2, <3>2, FormIs
    <3>4. QED
      BY <2>2, <3>1, <3>3
  <2>9. QED
    BY <2>4, <2>5, <2>7, <2>8 DEF Plain
\* What is plain is listed.
<1>9. ASSUME NEW n \in Plain(table)
      PROVE  \E k \in 1..K : l[k] = n
  <2> DEFINE u == allRules[n].url
  <2>1. n \in ToSet(table.rules) /\ TypesOf(u) = <<>> /\ u # <<"/">>
    BY DEF Plain
  <2>2. PICK i \in 1..L : n = table.rules[i]
    BY <1>1, <2>1 DEF ToSet
  <2>3. /\ u \in Seq(Elements) /\ u # <<>> /\ u[1] = "/"
        /\ Len(u) > 1 => ~(u[Len(u)] = "/" /\ u[Len(u) - 1] = "/")
    BY <1>7, <2>2
  <2>4. u \in Seq(Letters)
    BY <2>1, <2>3, TypesOfLetters
  <2>5. \E t \in Forms(n) : t \in Seq(Letters) /\ t # <<>> /\ t[Len(t)] # "/"
    BY <2>1, <2>3, <2>4, OpenForm
  <2>6. PICK t \in Forms(n) : t \in Seq(Letters) /\ t # <<>> /\ t[Len(t)] # "/"
    BY <2>5
  <2>7. Spelled(table.trie, t, i)
    BY <1>1, <2>2, <2>6 DEF Spelling
  <2>8. Shown(table.trie, 1, t, i)
    BY <1>1, <2>6, <2>7, SpelledShown
  <2>9. PICK k \in 1..K : found[k] = i
    BY <1>3, <2>8
  <2>10. l[k] = n
    BY <1>6, <2>2, <2>9
  <2>11. QED
    BY <2>10
<1>10. ToSet(l) = Plain(table)
  <2>1. \A x : x \in ToSet(l) <=> \E k \in 1..K : l[k] = x
    BY <1>6 DEF ToSet
  <2>2. QED
    BY <1>8, <1>9, <2>1
\* And once: a template spelled by two indexes would end in two nodes.
<1>11. Once(l)
  <2>1. SUFFICES ASSUME NEW j \in 1..K, NEW k \in 1..K, l[j] = l[k]
                 PROVE  j = k
    BY <1>6 DEF Once
  <2>2. found[j] \in 1..L /\ found[k] \in 1..L
    BY <1>5
  <2> DEFINE n == table.rules[found[j]]
             u == allRules[n].url
  <2>3. n = table.rules[found[k]] /\ l[j] = n
    BY <1>6, <2>1
  <2>4. n \in 1..N /\ u \in Seq(Elements)
    BY <1>7, <2>2
  <2> HIDE DEF n
  <2>5. TypesOf(u) = <<>>
    BY <1>8, <2>3 DEF Plain
  <2>6. u \in Seq(Letters) /\ u \in Forms(n)
    BY <2>4, <2>5, TypesOfLetters DEF Forms
  <2>7. Spelled(table.trie, u, found[j]) /\ Spelled(table.trie, u, found[k])
    BY <1>1, <2>2, <2>3, <2>6 DEF Spelling, n
  <2> HIDE DEF u
  <2>8. PICK x : <<1, u, x>> \in Names(table.trie) /\ table.trie[x].rule = found[j]
    BY <2>7 DEF Spelled
  <2>9. PICK y : <<1, u, y>> \in Names(table.trie) /\ table.trie[y].rule = found[k]
    BY <2>7 DEF Spelled
  <2>10. x = y
    BY <1>1, <2>6, <2>8, <2>9, OneNode
  <2>11. found[j] = found[k]
    BY <2>8, <2>9, <2>10
  <2>12. QED
    BY <1>4, <2>11 DEF Once
<1>12. Len(l) = Cardinality(ToSet(l))
  BY <1>6, <1>11, OnceCounts
<1>13. QED
  BY <1>10, <1>12 DEF l

\* Until a second validate adds characters beside joined fragments.
EvenTables ==
  (phase = "serving" /\ validates <= 1) => \A m \in Methods : Evenly(perMethods[m].trie)

LEMMA FreshEven == Evenly(NewTrie) /\ Letterwise(NewTrie)
<1>1. Len(NewTrie) = 1 /\ NewTrie[1] = EmptyNode /\ 1..1 = {1}
  BY DEF NewTrie
<1>2. \A n \in 1..Len(NewTrie) : DOMAIN NewTrie[n].kids = {}
  BY <1>1, EmptyNodeEdges
<1>3. \A n \in 1..Len(NewTrie) : \E length \in Nat : Even(NewTrie[n].kids, length)
  <2>1. 0 \in Nat
    OBVIOUS
  <2>2. QED
    BY <1>2, <2>1, Zenon DEF Even
<1>4. \A n \in 1..Len(NewTrie) : OneLetter(NewTrie[n].kids)
  BY <1>2, Zenon DEF OneLetter
<1>5. QED
  BY <1>3, <1>4, Zenon DEF Evenly, Letterwise

LEMMA TablesAlwaysEven == Spec => []EvenTables
<1>1. Init => EvenTables
  <2>1. SUFFICES ASSUME Init, NEW m \in Methods
                 PROVE  Evenly(perMethods[m].trie)
    BY DEF EvenTables
  <2>2. perMethods[m] = [rules |-> <<>>, trie |-> NewTrie]
    BY <2>1 DEF Init
  <2>3. perMethods[m].trie = NewTrie
    BY <2>2
  <2>4. QED
    BY <2>3, FreshEven
<1>2. RouterInv /\ TablesSound /\ EvenTables /\ [Next]_vars => EvenTables'
  <2>1. SUFFICES ASSUME RouterInv, TablesSound, EvenTables, [Next]_vars,
                        phase' = "serving", validates' <= 1, NEW m \in Methods
                 PROVE  Evenly(perMethods'[m].trie)
    BY DEF EvenTables, Evenly, Methods, VerbNames, Special
  <2>2. CASE Validate
    <3>1. phase = "serving" /\ validates \in Nat
      BY <2>1, <2>2, RouterAssumption DEF Validate, RouterInv
    <3>2. validates' = validates + 1
      <4>1. AddAllRules.ok
        <5>1. SUFFICES ASSUME ~AddAllRules.ok
                       PROVE  phase' = "threwInValidate"
          BY <2>1
        <5>2. QED
          BY <2>2, <5>1, Zenon DEF Validate
      <4>2. QED
        BY <2>2, <4>1, Zenon DEF Validate
    <3>3. validates = 0 /\ validates' # validates
      BY <2>1, <3>1, <3>2
    <3>4. perMethods[m] = [rules |-> <<>>, trie |-> NewTrie]
      <4>1. perMethods = [k \in Methods |-> Fresh]
        BY <2>1, <3>1, <3>3 DEF RouterInv
      <4>2. QED
        BY <4>1 DEF Fresh
    <3>5. Letterwise(perMethods[m].trie)
      <4>1. perMethods[m].trie = NewTrie
        BY <3>4
      <4>2. QED
        BY <4>1, FreshEven
    <3>6. Served(perMethods'[m], perMethods[m], m, Len(allRules))
      BY <2>1, <2>2, <3>3, ValidateServed
    <3>7. QED
      BY <3>5, <3>6 DEF Served
  <2>3. ASSUME NEW choice \in RuleChoices, NewRule(choice)
        PROVE  Evenly(perMethods'[m].trie)
    <3>1. phase = "serving" /\ UNCHANGED <<perMethods, validates>>
      BY <2>3 DEF NewRule
    <3>2. QED
      BY <2>1, <3>1 DEF EvenTables
  <2>4. CASE UNCHANGED <<perMethods, validates, phase>>
    BY <2>1, <2>4 DEF EvenTables
  <2>5. QED
    BY <2>1, <2>2, <2>3, <2>4 DEF Next, vars, Handle, HandleUpgrade, GetRoutes, Answered
<1>3. QED
  BY <1>1, <1>2, InvHolds, TablesAlwaysSound, PTL DEF Spec

\* What ListingComplete says of the list of one method.
ListsAll(list, table) ==
  ToSet(list) = Plain(table) /\ Len(list) = Cardinality(Plain(table))

Complete ==
  (answer # <<>> /\ answer.op = "routes" /\ answer.url = <<>> /\ validates = 1) =>
    \A m \in Methods : ListsAll(answer.listed[m], perMethods[m])

LEMMA CompleteIs == (ListingComplete <=> Complete) /\ (ListingComplete' <=> Complete')
BY Zenon DEF ListingComplete, Complete, ListsAll, Plain, Validated

\* After the first validate, of whatever rules: the list of all routes of a
\* method names each of its rules without parameters, and each once.
\* getRoutesForMethod walks the literal children only and leaves out a rule
\* under a lone "/", which is how a rule that ends in a slash, and is in the
\* trie with and without it, comes once.  Until optimize every fragment is one
\* character, so those it makes have one length at each node and a text leads
\* to one node.
THEOREM ListingAlwaysComplete ==
  ASSUME SlashesAlone
  PROVE  Spec => []ListingComplete
<1>1. Init => ListingComplete
  BY DEF Init, ListingComplete
<1>2. RouterInv /\ TablesSound /\ EvenTables /\ ListingComplete /\ [Next]_vars
        => ListingComplete'
  <2>1. SUFFICES ASSUME RouterInv, TablesSound, EvenTables, ListingComplete, [Next]_vars,
                        answer' # <<>>, answer'.op = "routes", answer'.url = <<>>,
                        validates' = 1, NEW m \in Methods
                 PROVE  ListsAll(answer.listed[m], perMethods[m])'
    BY CompleteIs DEF Complete, Methods, VerbNames, Special
  <2>2. CASE UNCHANGED <<allRules, perMethods, validates, answer>>
    <3>1. ListsAll(answer.listed[m], perMethods[m])
      BY <2>1, <2>2, CompleteIs DEF Complete
    <3>2. QED
      BY <2>2, <3>1 DEF ListsAll, Plain
  <2>3. ASSUME NEW parent \in Urls \cup {<<>>}, GetRoutes(parent)
        PROVE  ListsAll(answer.listed[m], perMethods[m])'
    <3> DEFINE table == perMethods[m]
               found == FindRouteIndexes(table.trie, <<>>)
    <3>1. /\ phase = "serving" /\ UNCHANGED <<allRules, perMethods, validates>>
          /\ answer' = [op |-> "routes", url |-> parent,
                        listed |-> [k \in Methods |->
                          Named(perMethods[k], FindRouteIndexes(perMethods[k].trie, parent))]]
      BY <2>3, Zenon DEF GetRoutes, Named
    <3>2. parent = <<>>
      BY <2>1, <3>1
    <3>3. answer'.listed[m] = Named(table, found)
      BY <3>1, <3>2
    <3>4. Sound(table, m) /\ Evenly(table.trie) /\ allRules \in Seq(Registered)
      BY <2>1, <3>1 DEF TablesSound, EvenTables, RouterInv, AllRulesOK
    <3>5. Tells(table.trie, 1, found)
      BY <3>4, ListIs DEF Sound
    <3> HIDE DEF found, table
    <3>6. ListsAll(Named(table, found), table)
      BY <3>4, <3>5, ListingRight DEF ListsAll
    <3>7. ListsAll(answer'.listed[m], perMethods[m])
      BY <3>3, <3>6 DEF table
    <3>8. QED
      BY <3>1, <3>7 DEF ListsAll, Plain
  <2>4. CASE answer' = <<>>
    BY <2>1, <2>4
  <2>5. ASSUME (\E choice \in RuleChoices : NewRule(choice)) \/ Validate
        PROVE  answer' = <<>>
    BY <2>5 DEF NewRule, Validate
  <2>6. ASSUME NEW url \in Urls, NEW verb \in VerbNames \cup {"OTHER"}, NEW authorized \in BOOLEAN,
               Handle(url, verb, authorized)
        PROVE  FALSE
    <3>1. answer' = [op |-> "handle", url |-> url, verb |-> verb,
                     reply |-> ReplyTo(url, verb, authorized)]
      BY <2>6 DEF Handle
    <3>2. QED
      BY <2>1, <3>1
  <2>7. ASSUME NEW url \in Urls, NEW verb \in VerbNames \cup {"OTHER"}, HandleUpgrade(url, verb)
        PROVE  FALSE
    BY <2>1, <2>7 DEF HandleUpgrade
  <2>8. QED
    BY <2>1, <2>2, <2>3, <2>4, <2>5, <2>6, <2>7 DEF Next, vars, Answered
<1>3. QED
  BY <1>1, <1>2, InvHolds, TablesAlwaysSound, TablesAlwaysEven, PTL DEF Spec
=============================================================================
