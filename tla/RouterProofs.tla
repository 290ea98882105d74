---------------------------- MODULE RouterProofs ----------------------------
(***************************************************************************)
(* Theorems about Router, for every set of rules and every alphabet.       *)
(***************************************************************************)
EXTENDS Router, SequenceTheorems, WellFoundedInduction, TLAPS

-----------------------------------------------------------------------------
(* Induction over the natural numbers, for sets.                           *)

LEMMA Induction ==
  ASSUME NEW T, 0 \in T, \A n \in Nat : n \in T => n + 1 \in T
  PROVE  Nat \subseteq T
<1> DEFINE rest == Nat \ T
<1>1. SUFFICES ASSUME rest # {}
               PROVE  FALSE
  OBVIOUS
<1>2. PICK x \in rest : \A y \in rest : <<y, x>> \notin OpToRel(<, Nat)
  BY <1>1, WFMin, NatLessThanWellFounded, Zenon
<1>3. x \in Nat /\ x \notin T /\ x # 0
  BY <1>2
<1>4. x - 1 \in Nat /\ x - 1 < x /\ (x - 1) + 1 = x
  BY <1>3
<1>5. x - 1 \notin T
  BY <1>3, <1>4
<1>6. <<x - 1, x>> \in OpToRel(<, Nat)
  BY <1>3, <1>4 DEF OpToRel
<1>7. QED
  BY <1>2, <1>4, <1>5, <1>6

-----------------------------------------------------------------------------
(* Tags: the digits of a list of types.                                    *)

TagStep(f, types, i) == IF i > Len(types) THEN 0 ELSE 6 * f[i + 1] + TypeCode[types[i]]

\* f is a table of the tags of the last k of the types.
TagsFrom(f, types, k) ==
  f = [i \in (Len(types) + 1 - k)..(Len(types) + 1) |-> TagStep(f, types, i)]

LEMMA SomeTags ==
  ASSUME NEW types \in Seq(DOMAIN Tags)
  PROVE  \E f : TagsFrom(f, types, Len(types))
<1> DEFINE T == {k \in Nat : k <= Len(types) => \E f : TagsFrom(f, types, k)}
           N == Len(types)
<1>1. N \in Nat
  OBVIOUS
<1>2. 0 \in T
  <2> DEFINE g == [i \in (N + 1)..(N + 1) |-> 0]
  <2>1. \A i \in (N + 1)..(N + 1) : TagStep(g, types, i) = 0
    BY <1>1 DEF TagStep
  <2>2. N + 1 - 0 = N + 1
    BY <1>1
  <2>3. TagsFrom(g, types, 0)
    BY <2>1, <2>2 DEF TagsFrom
  <2>4. QED
    BY <2>3
<1>3. ASSUME NEW k \in Nat, k \in T
      PROVE  k + 1 \in T
  <2>1. SUFFICES ASSUME k + 1 <= N
                 PROVE  \E f : TagsFrom(f, types, k + 1)
    OBVIOUS
  <2>2. PICK f : TagsFrom(f, types, k)
    BY <1>1, <1>3, <2>1
  <2> DEFINE g == [i \in (N + 1 - (k + 1))..(N + 1) |-> TagStep(f, types, i)]
  <2>3. \A i \in (N + 1 - k)..(N + 1) : f[i] = TagStep(f, types, i) /\ g[i] = f[i]
    BY <1>1, <2>1, <2>2 DEF TagsFrom
  <2>4. ASSUME NEW i \in (N + 1 - (k + 1))..(N + 1)
        PROVE  TagStep(g, types, i) = TagStep(f, types, i)
    <3>1. CASE i > N
      BY <1>1, <3>1 DEF TagStep
    <3>2. CASE i <= N
      <4>1. i + 1 \in (N + 1 - k)..(N + 1)
        BY <1>1, <2>1, <3>2
      <4>2. g[i + 1] = f[i + 1]
        BY <2>3, <4>1
      <4> HIDE DEF g
      <4>3. QED
        BY <4>2 DEF TagStep
    <3>3. i > N \/ i <= N
      BY <1>1
    <3>4. QED
      BY <3>1, <3>2, <3>3
  <2>5. TagsFrom(g, types, k + 1)
    BY <2>4 DEF TagsFrom
  <2>6. QED
    BY <2>5
<1>4. N \in T
  BY <1>1, <1>2, <1>3, Induction
<1>5. QED
  BY <1>1, <1>4

\* Codes that a handler cannot tell apart are those of types of one C++ type.
LEMMA CodesTell ==
  /\ \A t \in DOMAIN Tags : TypeCode[t] \in 1..5
  /\ \A t, u \in DOMAIN Tags :
       Digit(TypeCode[t]) = Digit(TypeCode[u]) => CppType(t) = CppType(u)
  BY DEF Tags, TypeCode, Digit, CppType

\* What is needed of a table of tags.
TagTable(f, types) ==
  /\ \A i \in 1..(Len(types) + 1) : f[i] \in 0..f[1]
  /\ f[Len(types) + 1] = 0
  /\ \A i \in 1..Len(types) : f[i] = 6 * f[i + 1] + TypeCode[types[i]]

LEMMA RestSmaller ==
  ASSUME NEW tag \in Nat, NEW rest \in Nat, NEW digit \in 1..5, NEW bound \in Nat,
         tag = 6 * rest + digit, tag <= bound
  PROVE  rest <= bound
OBVIOUS

LEMMA TagsOfTypes ==
  ASSUME NEW types \in Seq(DOMAIN Tags)
  PROVE  \E f : TagTable(f, types) /\ f[1] \in Nat /\ TagOfTypes(types) = f[1]
<1> DEFINE N == Len(types)
           f == CHOOSE f : f = [i \in 1..(N + 1) |-> TagStep(f, types, i)]
<1>1. N \in Nat
  OBVIOUS
<1>2. f = [i \in 1..(N + 1) |-> TagStep(f, types, i)]
  <2>1. N + 1 - N = 1
    BY <1>1
  <2>2. \E g : g = [i \in 1..(N + 1) |-> TagStep(g, types, i)]
    BY <2>1, SomeTags DEF TagsFrom
  <2>3. QED
    BY <2>2, Zenon
<1>3. TagOfTypes(types) = f[1]
  BY Zenon DEF TagOfTypes, TagStep
<1> HIDE DEF f
<1>4. \A i \in 1..(N + 1) : f[i] = TagStep(f, types, i)
  BY <1>2
<1>5. f[N + 1] = 0
  BY <1>1, <1>4 DEF TagStep
<1>6. \A i \in 1..N : f[i] = 6 * f[i + 1] + TypeCode[types[i]] /\ TypeCode[types[i]] \in 1..5
  <2>1. SUFFICES ASSUME NEW i \in 1..N
                 PROVE  f[i] = 6 * f[i + 1] + TypeCode[types[i]] /\ TypeCode[types[i]] \in 1..5
    OBVIOUS
  <2>2. types[i] \in DOMAIN Tags
    OBVIOUS
  <2>3. TypeCode[types[i]] \in 1..5
    BY <2>2, CodesTell
  <2>4. i \in 1..(N + 1) /\ ~(i > N)
    BY <1>1
  <2>5. f[i] = 6 * f[i + 1] + TypeCode[types[i]]
    BY <1>4, <2>4 DEF TagStep
  <2>6. QED
    BY <2>3, <2>5
<1>7. \A i \in 1..(N + 1) : f[i] \in Nat
  <2> DEFINE T == {k \in Nat : k <= N => f[N + 1 - k] \in Nat}
  <2>1. 0 \in T
    BY <1>1, <1>5
  <2>2. ASSUME NEW k \in Nat, k \in T
        PROVE  k + 1 \in T
    <3>1. SUFFICES ASSUME k + 1 <= N
                   PROVE  f[N + 1 - (k + 1)] \in Nat
      OBVIOUS
    <3> DEFINE i == N + 1 - (k + 1)
    <3>2. i \in 1..N /\ i + 1 = N + 1 - k
      BY <1>1, <3>1
    <3>3. f[i + 1] \in Nat
      BY <1>1, <2>2, <3>1, <3>2
    <3> HIDE DEF i
    <3>4. f[i] = 6 * f[i + 1] + TypeCode[types[i]] /\ TypeCode[types[i]] \in Nat
      BY <1>6, <3>2
    <3>5. f[i] \in Nat
      BY <3>3, <3>4
    <3>6. QED
      BY <3>5 DEF i
  <2>3. Nat \subseteq T
    BY <2>1, <2>2, Induction
  <2>4. ASSUME NEW i \in 1..(N + 1)
        PROVE  f[i] \in Nat
    <3>1. PICK k \in Nat : k <= N /\ N + 1 - k = i
      <4>1. N + 1 - i \in Nat /\ N + 1 - i <= N /\ N + 1 - (N + 1 - i) = i
        BY <1>1
      <4>2. QED
        BY <4>1
    <3>2. k \in T
      BY <2>3
    <3>3. QED
      BY <3>1, <3>2
  <2>5. QED
    BY <2>4
<1>8. \A i \in 1..(N + 1) : f[i] <= f[1]
  <2> DEFINE T == {k \in Nat : k + 1 \in 1..(N + 1) => f[k + 1] <= f[1]}
  <2>1. 0 \in T
    BY <1>1, <1>7
  <2>2. ASSUME NEW k \in Nat, k \in T
        PROVE  k + 1 \in T
    <3>1. SUFFICES ASSUME k + 1 + 1 \in 1..(N + 1)
                   PROVE  f[k + 1 + 1] <= f[1]
      OBVIOUS
    <3>2. k + 1 \in 1..N /\ k + 1 \in 1..(N + 1) /\ 1 \in 1..(N + 1)
      BY <1>1, <3>1
    <3>3. f[k + 1] = 6 * f[k + 1 + 1] + TypeCode[types[k + 1]] /\ TypeCode[types[k + 1]] \in 1..5
      BY <1>6, <3>2
    <3>4. f[k + 1] <= f[1]
      BY <2>2, <3>2
    <3>5. f[k + 1] \in Nat /\ f[k + 1 + 1] \in Nat /\ f[1] \in Nat
      BY <1>7, <3>1, <3>2
    <3>6. QED
      <4> HIDE DEF T
      <4>1. QED
        BY <3>3, <3>4, <3>5, RestSmaller
  <2>3. Nat \subseteq T
    BY <2>1, <2>2, Induction
  <2>4. ASSUME NEW i \in 1..(N + 1)
        PROVE  f[i] <= f[1]
    <3>1. i - 1 \in Nat /\ i - 1 + 1 = i
      BY <1>1
    <3>2. i - 1 \in T
      BY <2>3, <3>1
    <3>3. QED
      BY <3>1, <3>2
  <2>5. QED
    BY <2>4
<1>9. TagTable(f, types)
  <2>1. 1 \in 1..(N + 1)
    BY <1>1
  <2>2. \A i \in 1..(N + 1) : f[i] \in 0..f[1]
    BY <1>7, <1>8, <2>1
  <2>3. QED
    BY <1>5, <1>6, <2>2 DEF TagTable
<1>10. f[1] \in Nat
  BY <1>1, <1>7
<1>11. QED
  BY <1>3, <1>9, <1>10

-----------------------------------------------------------------------------
(* Two tags agree only if their lists of types do.                         *)

Partners(g, b, x) ==
  IF x = 0 THEN {0}
  ELSE {y \in 1..b : Digit(x) = Digit(y) /\ y \div 6 \in g[x \div 6]}

Agrees(g, a, b) == g = [x \in 0..a |-> Partners(g, b, x)]

LEMMA DivBySix ==
  ASSUME NEW x \in Nat, x # 0
  PROVE  x \div 6 \in Nat /\ x \div 6 < x
OBVIOUS

LEMMA FirstDigit ==
  ASSUME NEW r \in Nat, NEW c \in 1..5
  PROVE  (6 * r + c) \div 6 = r /\ (6 * r + c) % 6 = c /\ c % 6 = c
<1>1. c \div 6 = 0 /\ c % 6 = c
  OBVIOUS
<1>2. (6 * r + c) \div 6 = r
  OBVIOUS
<1>3. (6 * r + c) % 6 = c
  OBVIOUS
<1>4. QED
  BY <1>1, <1>2, <1>3

LEMMA SomeAgreement ==
  ASSUME NEW b \in Nat
  PROVE  \A a \in Nat : \E g : Agrees(g, a, b)
<1> DEFINE T == {a \in Nat : \E g : Agrees(g, a, b)}
<1>1. 0 \in T
  <2> DEFINE g == [x \in 0..0 |-> {0}]
  <2>1. \A x \in 0..0 : Partners(g, b, x) = {0}
    BY DEF Partners
  <2>2. Agrees(g, 0, b)
    BY <2>1 DEF Agrees
  <2>3. QED
    BY <2>2
<1>2. ASSUME NEW a \in Nat, a \in T
      PROVE  a + 1 \in T
  <2>1. PICK f : Agrees(f, a, b)
    BY <1>2
  <2> DEFINE g == [x \in 0..(a + 1) |-> Partners(f, b, x)]
  <2>2. \A x \in 0..a : g[x] = f[x]
    BY <2>1 DEF Agrees
  <2>3. ASSUME NEW x \in 0..(a + 1)
        PROVE  Partners(g, b, x) = Partners(f, b, x)
    <3>1. CASE x = 0
      BY <3>1 DEF Partners
    <3>2. CASE x # 0
      <4>1. x \div 6 \in 0..a
        BY <3>2, DivBySix
      <4>2. g[x \div 6] = f[x \div 6]
        BY <2>2, <4>1
      <4> HIDE DEF g
      <4>3. QED
        BY <3>2, <4>2 DEF Partners
    <3>3. QED
      BY <3>1, <3>2
  <2>4. Agrees(g, a + 1, b)
    BY <2>3 DEF Agrees
  <2>5. QED
    BY <2>4
<1>3. QED
  BY <1>1, <1>2, Induction

LEMMA AgreementOf ==
  ASSUME NEW a \in Nat, NEW b \in Nat
  PROVE  \E g : Agrees(g, a, b) /\ (IsParameterTagCompatible(a, b) <=> b \in g[a])
<1> DEFINE g == CHOOSE g : g = [x \in 0..a |-> Partners(g, b, x)]
<1>1. g = [x \in 0..a |-> Partners(g, b, x)]
  BY SomeAgreement, Zenon DEF Agrees
<1>2. IsParameterTagCompatible(a, b) <=> b \in g[a]
  BY Zenon DEF IsParameterTagCompatible, Partners
<1>3. Agrees(g, a, b)
  BY <1>1, Zenon DEF Agrees
<1>4. QED
  BY <1>2, <1>3, Zenon

\* The remainders of two tags that agree, position after position.
LEMMA AgreeingTypes ==
  ASSUME NEW s \in Seq(DOMAIN Tags), NEW t \in Seq(DOMAIN Tags),
         IsParameterTagCompatible(TagOfTypes(s), TagOfTypes(t))
  PROVE  /\ Len(s) = Len(t)
         /\ \A i \in 1..Len(s) : CppType(s[i]) = CppType(t[i])
<1>1. PICK a : TagTable(a, s) /\ a[1] \in Nat /\ TagOfTypes(s) = a[1]
  BY TagsOfTypes
<1>2. PICK b : TagTable(b, t) /\ b[1] \in Nat /\ TagOfTypes(t) = b[1]
  BY TagsOfTypes
<1>3. PICK g : Agrees(g, a[1], b[1]) /\ b[1] \in g[a[1]]
  BY <1>1, <1>2, AgreementOf
<1>4. \A x \in 0..a[1] : g[x] = Partners(g, b[1], x)
  BY <1>3 DEF Agrees
<1>5. Len(s) \in Nat /\ Len(t) \in Nat
  OBVIOUS
\* As long as there are types on the left there are types on the right.
<1> DEFINE T == {k \in Nat : k <= Len(s) =>
                   /\ k <= Len(t) /\ b[k + 1] \in g[a[k + 1]]
                   /\ \A i \in 1..k : CppType(s[i]) = CppType(t[i])}
<1>6. 0 \in T
  BY <1>3, <1>5
<1>7. ASSUME NEW k \in Nat, k \in T
      PROVE  k + 1 \in T
  <2>1. SUFFICES ASSUME k + 1 <= Len(s)
                 PROVE  /\ k + 1 <= Len(t) /\ b[k + 1 + 1] \in g[a[k + 1 + 1]]
                        /\ \A i \in 1..(k + 1) : CppType(s[i]) = CppType(t[i])
    OBVIOUS
  <2>2. /\ k <= Len(t) /\ b[k + 1] \in g[a[k + 1]]
        /\ \A i \in 1..k : CppType(s[i]) = CppType(t[i])
    BY <1>5, <1>7, <2>1
  <2>3. k + 1 \in 1..Len(s) /\ s[k + 1] \in DOMAIN Tags
    BY <1>5, <2>1
  <2>4. PICK x \in 0..a[1] : x = a[k + 1]
    BY <1>1, <1>5, <2>1 DEF TagTable
  <2>5. PICK r \in 0..a[1] : r = a[k + 1 + 1]
    BY <1>1, <1>5, <2>1 DEF TagTable
  <2>6. x = 6 * r + TypeCode[s[k + 1]] /\ TypeCode[s[k + 1]] \in 1..5
    <3>1. a[k + 1] = 6 * a[k + 1 + 1] + TypeCode[s[k + 1]]
      BY <1>1, <2>3 DEF TagTable
    <3>2. QED
      BY <2>3, <2>4, <2>5, <3>1, CodesTell
  <2>7. PICK c \in 1..5 : c = TypeCode[s[k + 1]] /\ x = 6 * r + c
    BY <2>6
  <2>8. x # 0 /\ x \div 6 = r /\ x % 6 = c
    <3>1. r \in Nat
      BY <1>1
    <3>2. x # 0
      BY <2>7, <3>1
    <3>3. x \div 6 = r /\ x % 6 = c
      BY <2>7, <3>1, FirstDigit
    <3>4. QED
      BY <3>2, <3>3
  <2>9. PICK y \in 1..b[1] : y = b[k + 1] /\ Digit(x) = Digit(y) /\ y \div 6 \in g[r]
    BY <1>4, <2>2, <2>4, <2>8 DEF Partners
  <2>10. k + 1 <= Len(t)
    BY <1>2, <1>5, <2>2, <2>9 DEF TagTable
  <2>11. k + 1 \in 1..Len(t) /\ t[k + 1] \in DOMAIN Tags
    BY <1>5, <2>10
  <2>12. PICK q \in 0..b[1] : q = b[k + 1 + 1]
    BY <1>2, <1>5, <2>10 DEF TagTable
  <2>13. y = 6 * q + TypeCode[t[k + 1]] /\ TypeCode[t[k + 1]] \in 1..5
    <3>1. b[k + 1] = 6 * b[k + 1 + 1] + TypeCode[t[k + 1]]
      BY <1>2, <2>11 DEF TagTable
    <3>2. QED
      BY <2>9, <2>11, <2>12, <3>1, CodesTell
  <2>14. PICK d \in 1..5 : d = TypeCode[t[k + 1]] /\ y = 6 * q + d
    BY <2>13
  <2>15. y \div 6 = q /\ y % 6 = d
    <3>1. q \in Nat
      BY <1>2
    <3>2. QED
      BY <2>14, <3>1, FirstDigit
  <2>16. Digit(c) = Digit(d)
    <3>1. Digit(x) = Digit(y) /\ x % 6 = c /\ y % 6 = d
      BY <2>8, <2>9, <2>15
    <3>2. c % 6 = c /\ d % 6 = d
      BY FirstDigit
    <3>3. Digit(c) = Digit(x) /\ Digit(d) = Digit(y)
      BY <3>1, <3>2 DEF Digit
    <3>4. QED
      BY <3>1, <3>3
  <2>17. CppType(s[k + 1]) = CppType(t[k + 1])
    BY <2>3, <2>7, <2>11, <2>14, <2>16, CodesTell
  <2>18. b[k + 1 + 1] \in g[a[k + 1 + 1]]
    BY <2>5, <2>9, <2>12, <2>15
  <2>19. ASSUME NEW i \in 1..(k + 1)
         PROVE  CppType(s[i]) = CppType(t[i])
    BY <2>2, <2>17
  <2>20. QED
    BY <2>10, <2>18, <2>19
<1>8. Len(s) \in T
  BY <1>5, <1>6, <1>7, Induction
<1>9. /\ Len(s) <= Len(t) /\ b[Len(s) + 1] \in g[a[Len(s) + 1]]
      /\ \A i \in 1..Len(s) : CppType(s[i]) = CppType(t[i])
  BY <1>5, <1>8
<1>10. b[Len(s) + 1] = 0
  <2>1. a[Len(s) + 1] = 0 /\ 0 \in 0..a[1]
    BY <1>1 DEF TagTable
  <2>2. g[0] = {0}
    BY <1>4, <2>1 DEF Partners
  <2>3. QED
    BY <1>9, <2>1, <2>2
<1>11. ASSUME Len(s) < Len(t)
       PROVE  FALSE
  <2>1. Len(s) + 1 \in 1..Len(t) /\ t[Len(s) + 1] \in DOMAIN Tags
    BY <1>5, <1>11
  <2>2. b[Len(s) + 1] = 6 * b[Len(s) + 1 + 1] + TypeCode[t[Len(s) + 1]]
    BY <1>2, <2>1 DEF TagTable
  <2>3. PICK q \in 0..b[1] : q = b[Len(s) + 1 + 1]
    BY <1>2, <1>5, <1>11, SMTT(40) DEF TagTable
  <2>4. PICK d \in 1..5 : d = TypeCode[t[Len(s) + 1]]
    BY <2>1, CodesTell
  <2>5. 0 = 6 * q + d /\ q \in Nat
    BY <1>2, <1>10, <2>2, <2>3, <2>4
  <2>6. QED
    BY <2>5
<1>12. QED
  BY <1>5, <1>9, <1>11

\* The types of a template's tags.
TypesStep(f, template, k) ==
  IF k = 0 THEN <<>>
  ELSE IF template[k] \in TagNames THEN Append(f[k - 1], TypeOfTag(template[k]))
       ELSE f[k - 1]

TypesUpTo(f, template, n) == f = [k \in 0..n |-> TypesStep(f, template, k)]

LEMMA SomeTypes ==
  ASSUME NEW template
  PROVE  \A n \in Nat : \E f : TypesUpTo(f, template, n)
<1> DEFINE T == {n \in Nat : \E f : TypesUpTo(f, template, n)}
<1>1. 0 \in T
  <2> DEFINE g == [k \in 0..0 |-> <<>>]
  <2>1. \A k \in 0..0 : TypesStep(g, template, k) = <<>>
    BY DEF TypesStep
  <2>2. TypesUpTo(g, template, 0)
    BY <2>1 DEF TypesUpTo
  <2>3. QED
    BY <2>2
<1>2. ASSUME NEW n \in Nat, n \in T
      PROVE  n + 1 \in T
  <2>1. PICK f : TypesUpTo(f, template, n)
    BY <1>2
  <2> DEFINE g == [k \in 0..(n + 1) |-> TypesStep(f, template, k)]
  <2>2. \A k \in 0..n : g[k] = f[k]
    BY <2>1 DEF TypesUpTo
  <2>3. ASSUME NEW k \in 0..(n + 1)
        PROVE  TypesStep(g, template, k) = TypesStep(f, template, k)
    <3>1. CASE k = 0
      BY <3>1 DEF TypesStep
    <3>2. CASE k # 0
      <4>1. k - 1 \in 0..n
        BY <3>2
      <4>2. g[k - 1] = f[k - 1]
        BY <2>2, <4>1
      <4> HIDE DEF g
      <4>3. QED
        BY <3>2, <4>2 DEF TypesStep
    <3>3. QED
      BY <3>1, <3>2
  <2>4. TypesUpTo(g, template, n + 1)
    BY <2>3 DEF TypesUpTo
  <2>5. QED
    BY <2>4
<1>3. QED
  BY <1>1, <1>2, Induction

LEMMA TypesOfType ==
  ASSUME NEW S, NEW template \in Seq(S)
  PROVE  TypesOf(template) \in Seq(DOMAIN Tags)
<1> DEFINE N == Len(template)
           f == CHOOSE f : f = [k \in 0..N |-> TypesStep(f, template, k)]
<1>1. N \in Nat
  OBVIOUS
<1>2. f = [k \in 0..N |-> TypesStep(f, template, k)]
  BY <1>1, SomeTypes, Zenon DEF TypesUpTo
<1>3. TypesOf(template) = f[N]
  BY Zenon DEF TypesOf, TypesStep
<1> HIDE DEF f
<1>4. \A k \in 0..N : f[k] = TypesStep(f, template, k)
  BY <1>2
<1> DEFINE T == {k \in Nat : k <= N => f[k] \in Seq(DOMAIN Tags)}
<1>5. 0 \in T
  <2>1. f[0] = <<>>
    BY <1>1, <1>4 DEF TypesStep
  <2>2. <<>> \in Seq(DOMAIN Tags)
    OBVIOUS
  <2>3. QED
    BY <2>1, <2>2
<1>6. ASSUME NEW k \in Nat, k \in T
      PROVE  k + 1 \in T
  <2>1. SUFFICES ASSUME k + 1 <= N
                 PROVE  f[k + 1] \in Seq(DOMAIN Tags)
    OBVIOUS
  <2>2. f[k] \in Seq(DOMAIN Tags) /\ k + 1 \in 0..N /\ k + 1 - 1 = k
    BY <1>1, <1>6, <2>1
  <2>3. f[k + 1] = TypesStep(f, template, k + 1)
    BY <1>4, <2>2
  <2>4. CASE template[k + 1] \in TagNames
    <3>1. TypeOfTag(template[k + 1]) \in DOMAIN Tags
      BY <2>4 DEF TagNames, TypeOfTag
    <3>2. f[k + 1] = Append(f[k], TypeOfTag(template[k + 1]))
      BY <2>2, <2>3, <2>4 DEF TypesStep
    <3>3. QED
      BY <2>2, <3>1, <3>2
  <2>5. CASE template[k + 1] \notin TagNames
    <3>1. f[k + 1] = f[k]
      BY <2>2, <2>3, <2>5 DEF TypesStep
    <3>2. QED
      BY <2>2, <3>1
  <2>6. QED
    BY <2>4, <2>5
<1>7. N \in T
  BY <1>1, <1>5, <1>6, Induction
<1>8. QED
  BY <1>1, <1>3, <1>7

\* What HandlersFit says of a handler that was wrapped.
LEMMA WrappedFits ==
  ASSUME NEW choice \in RuleChoices, Wraps(choice)
  PROVE  LET cpp(list) == [i \in DOMAIN list |-> CppType(list[i])]
         IN  cpp(TypesOf(choice.url)) = cpp(choice.takes)
<1>1. TypesOf(choice.url) \in Seq(DOMAIN Tags) /\ choice.takes \in Seq(DOMAIN Tags)
  BY RouterAssumption, TypesOfType
<1> DEFINE s == TypesOf(choice.url)
           t == choice.takes
<1> HIDE DEF s, t
<1>2. s \in Seq(DOMAIN Tags) /\ t \in Seq(DOMAIN Tags)
  BY <1>1 DEF s, t
<1>3. /\ Len(s) = Len(t)
      /\ \A i \in 1..Len(s) : CppType(s[i]) = CppType(t[i])
  BY <1>2, AgreeingTypes DEF s, t, Wraps, ParameterTag
<1>4. DOMAIN s = DOMAIN t /\ \A i \in DOMAIN s : CppType(s[i]) = CppType(t[i])
  BY <1>2, <1>3
<1>5. [i \in DOMAIN s |-> CppType(s[i])] = [i \in DOMAIN t |-> CppType(t[i])]
  BY <1>4
<1>6. QED
  BY <1>5 DEF s, t

-----------------------------------------------------------------------------
(* Handlers and templates.                                                 *)

\* What can be registered: a choice whose handler, if it has one, is wrapped.
Accepted == {choice \in RuleChoices : choice.handler => Wraps(choice)}

Registered == {RuleOf(choice) : choice \in Accepted}

AllRulesOK == allRules \in Seq(Registered)

LEMMA AllRegistered == Spec => []AllRulesOK
<1>1. Init => AllRulesOK
  BY DEF Init, AllRulesOK
<1>2. AllRulesOK /\ [Next]_vars => AllRulesOK'
  <2>1. SUFFICES ASSUME allRules \in Seq(Registered), [Next]_vars
                 PROVE  allRules' \in Seq(Registered)
    BY DEF AllRulesOK
  <2>2. ASSUME NEW choice \in RuleChoices, NewRule(choice)
        PROVE  allRules' \in Seq(Registered)
    <3>1. CASE choice.handler => Wraps(choice)
      <4>1. RuleOf(choice) \in Registered
        BY <3>1 DEF Registered, Accepted
      <4>2. QED
        BY <2>1, <2>2, <3>1, <4>1 DEF NewRule
    <3>2. CASE ~(choice.handler => Wraps(choice))
      BY <2>1, <2>2, <3>2 DEF NewRule
    <3>3. QED
      BY <3>1, <3>2
  <2>3. CASE UNCHANGED allRules
    BY <2>1, <2>3
  <2>4. QED
    BY <2>1, <2>2, <2>3
       DEF Next, vars, Validate, Handle, HandleUpgrade, GetRoutes, Answered
<1>3. QED
  BY <1>1, <1>2, PTL DEF Spec

\* Whatever is registered, a handler is wrapped only for a template that gives
\* it, type by type and in its order, what it takes: the comparison of the two
\* base-6 tags (isParameterTagCompatible) tells two lists of types apart
\* whenever a handler can.
THEOREM HandlersAlwaysFit == Spec => []HandlersFit
<1>1. AllRulesOK => HandlersFit
  <2>1. SUFFICES ASSUME allRules \in Seq(Registered), NEW n \in DOMAIN allRules,
                        allRules[n].handler
                 PROVE  LET cpp(list) == [i \in DOMAIN list |-> CppType(list[i])]
                        IN  cpp(TypesOf(allRules[n].url)) = cpp(allRules[n].takes)
    BY Zenon DEF HandlersFit, AllRulesOK
  <2>2. allRules[n] \in Registered
    BY <2>1
  <2>3. PICK choice \in Accepted : allRules[n] = RuleOf(choice)
    BY <2>2 DEF Registered
  <2>4. choice \in RuleChoices /\ (choice.handler => Wraps(choice))
    BY <2>3 DEF Accepted
  <2>5. /\ allRules[n].url = choice.url /\ allRules[n].takes = choice.takes
        /\ allRules[n].handler = choice.handler
    BY <2>3 DEF RuleOf
  <2>6. Wraps(choice)
    BY <2>1, <2>4, <2>5
  <2>7. QED
    BY <2>4, <2>5, <2>6, WrappedFits
<1>2. QED
  BY <1>1, AllRegistered, PTL

-----------------------------------------------------------------------------
(* Tries: what add does to the nodes and where a template leads.           *)

Kids == UNION {[D -> Nat] : D \in SUBSET (Seq(Elements) \ {<<>>})}

Nodes == [rule : Nat, params : [DOMAIN Tags -> Nat], kids : Kids]

\* The children of a node lie between two positions.
Below(node, first, last) ==
  /\ \A p \in DOMAIN Tags : node.params[p] = 0 \/ node.params[p] \in first..last
  /\ \A f \in DOMAIN node.kids : node.kids[f] \in first..last

\* A trie with at most top rules.
TrieOK(trie, top) ==
  /\ trie \in Seq(Nodes) /\ Len(trie) >= 1
  /\ \A k \in 1..Len(trie) : Below(trie[k], k + 1, Len(trie)) /\ trie[k].rule <= top

LEMMA TagTypes ==
  /\ \A e \in TagNames : TypeOfTag(e) \in DOMAIN Tags /\ Tags[TypeOfTag(e)] = e
  /\ "/" \notin TagNames
<1>1. ASSUME NEW e \in TagNames
      PROVE  TypeOfTag(e) \in DOMAIN Tags /\ Tags[TypeOfTag(e)] = e
  <2>1. \E p \in DOMAIN Tags : Tags[p] = e
    BY DEF TagNames
  <2>2. QED
    BY <2>1, Zenon DEF TypeOfTag
<1>2. "/" \notin TagNames
  BY DEF TagNames, Tags
<1>3. QED
  BY <1>1, <1>2

LEMMA KidsType ==
  /\ \A kids \in Kids :
       /\ kids = [f \in DOMAIN kids |-> kids[f]]
       /\ DOMAIN kids \subseteq Seq(Elements) \ {<<>>}
       /\ \A f \in DOMAIN kids : kids[f] \in Nat
  /\ \A D \in SUBSET (Seq(Elements) \ {<<>>}) : \A g \in [D -> Nat] : g \in Kids
<1>1. ASSUME NEW kids \in Kids
      PROVE  /\ kids = [f \in DOMAIN kids |-> kids[f]]
             /\ DOMAIN kids \subseteq Seq(Elements) \ {<<>>}
             /\ \A f \in DOMAIN kids : kids[f] \in Nat
  <2>1. PICK D \in SUBSET (Seq(Elements) \ {<<>>}) : kids \in [D -> Nat]
    BY DEF Kids
  <2>2. QED
    BY <2>1
<1>2. ASSUME NEW D \in SUBSET (Seq(Elements) \ {<<>>}), NEW g \in [D -> Nat]
      PROVE  g \in Kids
  BY DEF Kids
<1>3. QED
  BY <1>1, <1>2

LEMMA EmptyNodeType ==
  /\ EmptyNode \in Nodes /\ EmptyNode.rule = 0
  /\ \A first, last \in Nat : Below(EmptyNode, first, last)
  /\ \A e : ChildOf(EmptyNode, e) = 0
<1> DEFINE kids == <<>>
           params == [p \in DOMAIN Tags |-> 0]
<1>1. DOMAIN kids = {} /\ kids \in [{} -> Nat]
  OBVIOUS
<1>2. kids \in Kids
  BY <1>1, KidsType
<1>3. params \in [DOMAIN Tags -> Nat] /\ \A p \in DOMAIN Tags : params[p] = 0
  OBVIOUS
<1> HIDE DEF kids, params
<1>4. EmptyNode = [rule |-> 0, params |-> params, kids |-> kids]
  BY DEF EmptyNode, params, kids
<1>5. EmptyNode \in Nodes /\ EmptyNode.rule = 0
  BY <1>2, <1>3, <1>4 DEF Nodes
<1>6. \A first, last \in Nat : Below(EmptyNode, first, last)
  BY <1>1, <1>3, <1>4 DEF Below
<1>7. \A e : ChildOf(EmptyNode, e) = 0
  BY <1>1, <1>3, <1>4, TagTypes DEF ChildOf
<1>8. QED
  BY <1>5, <1>6, <1>7

LEMMA WithKidType ==
  ASSUME NEW kids \in Kids, NEW e \in Elements, NEW n \in Nat
  PROVE  /\ WithKid(kids, e, n) \in Kids
         /\ DOMAIN WithKid(kids, e, n) = DOMAIN kids \cup {<<e>>}
         /\ WithKid(kids, e, n)[<<e>>] = n
         /\ \A f \in DOMAIN kids : f # <<e>> => WithKid(kids, e, n)[f] = kids[f]
<1>1. <<e>> \in Seq(Elements) \ {<<>>}
  OBVIOUS
<1>2. DOMAIN kids \cup {<<e>>} \in SUBSET (Seq(Elements) \ {<<>>})
  BY <1>1, KidsType
<1> DEFINE D == DOMAIN kids \cup {<<e>>}
           g == [f \in D |-> IF f = <<e>> THEN n ELSE kids[f]]
<1>3. g \in [D -> Nat]
  BY KidsType
<1>4. g \in Kids
  BY <1>2, <1>3, KidsType
<1>5. QED
  BY <1>4 DEF WithKid

LEMMA WithChildIs ==
  ASSUME NEW node \in Nodes, NEW e \in Elements, NEW n \in Nat \ {0}
  PROVE  LET w == WithChild(node, e, n) IN
         /\ w \in Nodes /\ w.rule = node.rule
         /\ \A d \in Elements : ChildOf(w, d) = IF d = e THEN n ELSE ChildOf(node, d)
         /\ \A p \in DOMAIN Tags : w.params[p] \in {node.params[p], n}
         /\ \A f \in DOMAIN w.kids :
              w.kids[f] = n \/ (f \in DOMAIN node.kids /\ w.kids[f] = node.kids[f])
<1> DEFINE w == WithChild(node, e, n)
<1>1. node.params \in [DOMAIN Tags -> Nat] /\ node.kids \in Kids /\ node.rule \in Nat
  BY DEF Nodes
<1>2. CASE e \in TagNames
  <2> DEFINE t == TypeOfTag(e)
  <2>1. t \in DOMAIN Tags /\ \A d \in TagNames : TypeOfTag(d) = t => d = e
    BY <1>2, TagTypes
  <2> HIDE DEF t
  <2> DEFINE params == [node.params EXCEPT ![t] = n]
  <2>2. w = [node EXCEPT !.params = params]
    BY <1>2 DEF WithChild, t
  <2>3. /\ params \in [DOMAIN Tags -> Nat] /\ params[t] = n
        /\ \A p \in DOMAIN Tags : p # t => params[p] = node.params[p]
    BY <1>1, <2>1
  <2> HIDE DEF params, w
  <2>4. w \in Nodes /\ w.rule = node.rule /\ w.params = params /\ w.kids = node.kids
    BY <2>2, <2>3 DEF Nodes
  <2>5. ASSUME NEW d \in Elements
        PROVE  ChildOf(w, d) = IF d = e THEN n ELSE ChildOf(node, d)
    <3>1. CASE d \in TagNames
      <4>1. TypeOfTag(d) \in DOMAIN Tags /\ (TypeOfTag(d) = t <=> d = e)
        BY <2>1, <3>1, TagTypes DEF t
      <4>2. ChildOf(w, d) = params[TypeOfTag(d)] /\ ChildOf(node, d) = node.params[TypeOfTag(d)]
        BY <2>4, <3>1 DEF ChildOf
      <4>3. QED
        BY <2>3, <4>1, <4>2
    <3>2. CASE d \notin TagNames
      BY <1>2, <2>4, <3>2 DEF ChildOf
    <3>3. QED
      BY <3>1, <3>2
  <2>6. \A p \in DOMAIN Tags : w.params[p] \in {node.params[p], n}
    BY <2>3, <2>4
  <2>7. QED
    BY <2>4, <2>5, <2>6 DEF w
<1>3. CASE e \notin TagNames
  <2> DEFINE kids == WithKid(node.kids, e, n)
  <2>1. w = [node EXCEPT !.kids = kids]
    BY <1>3 DEF WithChild
  <2>2. /\ kids \in Kids /\ DOMAIN kids = DOMAIN node.kids \cup {<<e>>} /\ kids[<<e>>] = n
        /\ \A f \in DOMAIN node.kids : f # <<e>> => kids[f] = node.kids[f]
    BY <1>1, WithKidType
  <2> HIDE DEF kids, w
  <2>3. w \in Nodes /\ w.rule = node.rule /\ w.params = node.params /\ w.kids = kids
    BY <2>1, <2>2 DEF Nodes
  <2>4. ASSUME NEW d \in Elements
        PROVE  ChildOf(w, d) = IF d = e THEN n ELSE ChildOf(node, d)
    <3>1. CASE d \in TagNames
      BY <1>3, <2>3, <3>1 DEF ChildOf
    <3>2. CASE d = e
      BY <1>3, <2>2, <2>3, <3>2 DEF ChildOf
    <3>3. CASE d \notin TagNames /\ d # e
      <4>1. <<d>> # <<e>>
        BY <3>3
      <4>2. /\ <<d>> \in DOMAIN kids <=> <<d>> \in DOMAIN node.kids
            /\ <<d>> \in DOMAIN node.kids => kids[<<d>>] = node.kids[<<d>>]
        BY <2>2, <4>1
      <4>3. QED
        BY <2>3, <3>3, <4>2 DEF ChildOf
    <3>4. QED
      BY <3>1, <3>2, <3>3
  <2>5. \A f \in DOMAIN w.kids :
           w.kids[f] = n \/ (f \in DOMAIN node.kids /\ w.kids[f] = node.kids[f])
    BY <2>2, <2>3
  <2>6. \A p \in DOMAIN Tags : w.params[p] \in {node.params[p], n}
    BY <2>3
  <2>7. QED
    BY <2>3, <2>4, <2>5, <2>6 DEF w
<1>4. QED
  BY <1>2, <1>3

\* No node is a child twice.
Tree(trie) ==
  \A j, k \in 1..Len(trie), d, e \in Elements :
    ChildOf(trie[j], d) # 0 /\ ChildOf(trie[j], d) = ChildOf(trie[k], e)
      => j = k /\ d = e

\* The nodes of a are in b, with their rules and children; the others are new.
Extends(a, b) ==
  /\ Len(a) <= Len(b)
  /\ \A k \in 1..Len(a) :
       /\ b[k].rule = a[k].rule
       /\ \A e \in Elements :
            ChildOf(a[k], e) # 0 => ChildOf(b[k], e) = ChildOf(a[k], e)
  /\ \A k \in (Len(a) + 1)..Len(b) : b[k].rule = 0

LEMMA ChildBelow ==
  ASSUME NEW top, NEW trie, TrieOK(trie, top),
         NEW k \in 1..Len(trie), NEW e \in Elements
  PROVE  ChildOf(trie[k], e) = 0 \/ ChildOf(trie[k], e) \in (k + 1)..Len(trie)
<1>1. Below(trie[k], k + 1, Len(trie))
  BY DEF TrieOK
<1>2. CASE e \in TagNames
  BY <1>1, <1>2, TagTypes DEF Below, ChildOf
<1>3. CASE e \notin TagNames
  BY <1>1, <1>3 DEF Below, ChildOf
<1>4. QED
  BY <1>2, <1>3

LEMMA ExtendsTransitive ==
  ASSUME NEW a, NEW b, NEW c, Len(a) \in Nat, Len(b) \in Nat, Len(c) \in Nat,
         Extends(a, b), Extends(b, c)
  PROVE  Extends(a, c)
<1>1. Len(a) <= Len(b) /\ Len(b) <= Len(c) /\ Len(a) <= Len(c)
  BY DEF Extends
<1>2. ASSUME NEW k \in 1..Len(a)
      PROVE  /\ c[k].rule = a[k].rule
             /\ \A e \in Elements :
                  ChildOf(a[k], e) # 0 => ChildOf(c[k], e) = ChildOf(a[k], e)
  <2>1. k \in 1..Len(b)
    BY <1>1
  <2>2. QED
    BY <2>1 DEF Extends
<1>3. ASSUME NEW k \in (Len(a) + 1)..Len(c)
      PROVE  c[k].rule = 0
  <2>1. CASE k \in 1..Len(b)
    <3>1. k \in (Len(a) + 1)..Len(b)
      BY <2>1
    <3>2. QED
      BY <2>1, <3>1 DEF Extends
  <2>2. CASE k \notin 1..Len(b)
    <3>1. k \in (Len(b) + 1)..Len(c)
      BY <2>2
    <3>2. QED
      BY <3>1 DEF Extends
  <2>3. QED
    BY <2>1, <2>2
<1>4. QED
  BY <1>1, <1>2, <1>3 DEF Extends

\* A walk that stands in a trie.
WalkOK(walk, top) ==
  /\ walk = [nodes |-> walk.nodes, at |-> walk.at]
  /\ TrieOK(walk.nodes, top) /\ walk.at \in 1..Len(walk.nodes)

LEMMA DescendIs ==
  ASSUME NEW top \in Nat, NEW walk, WalkOK(walk, top), NEW e \in Elements
  PROVE  LET w == Descend(walk, e) IN
         /\ WalkOK(w, top)
         /\ Extends(walk.nodes, w.nodes)
         /\ ChildOf(w.nodes[walk.at], e) = w.at /\ w.at # 0
         /\ Tree(walk.nodes) => Tree(w.nodes)
<1> DEFINE trie == walk.nodes
           at   == walk.at
           next == ChildOf(trie[at], e)
           new  == Len(trie) + 1
           w    == Descend(walk, e)
<1>1. /\ walk = [nodes |-> trie, at |-> at]
      /\ TrieOK(trie, top) /\ at \in 1..Len(trie)
      /\ trie \in Seq(Nodes) /\ Len(trie) \in Nat /\ Len(trie) >= 1
  BY DEF WalkOK, TrieOK
<1>2. next = 0 \/ next \in (at + 1)..Len(trie)
  BY <1>1, ChildBelow
<1>3. CASE next # 0
  <2>1. w = [walk EXCEPT !.at = next]
    BY <1>3 DEF Descend
  <2> HIDE DEF trie, at, next, w
  <2>2. w = [nodes |-> trie, at |-> next]
    BY <1>1, <2>1
  <2>3. w.nodes = trie /\ w.at = next
    BY <2>2
  <2>4. Extends(trie, trie)
    BY <1>1 DEF Extends
  <2>5. next \in 1..Len(trie)
    BY <1>1, <1>2, <1>3
  <2>6. WalkOK(w, top)
    BY <1>1, <2>2, <2>3, <2>5 DEF WalkOK
  <2>7. QED
    BY <1>3, <2>3, <2>4, <2>6 DEF trie, at, next, w
<1>4. CASE next = 0
  <2> DEFINE child == WithChild(trie[at], e, new)
             grown == Append([trie EXCEPT ![at] = child], EmptyNode)
  <2>1. w = [nodes |-> grown, at |-> new]
    BY <1>4 DEF Descend
  <2>2. w.nodes = grown /\ w.at = new
    BY <2>1
  <2> HIDE DEF trie, at, next, w
  <2>3. trie[at] \in Nodes /\ new \in Nat \ {0}
    BY <1>1
  <2>4. /\ child \in Nodes /\ child.rule = trie[at].rule
        /\ \A d \in Elements : ChildOf(child, d) = IF d = e THEN new ELSE ChildOf(trie[at], d)
        /\ \A p \in DOMAIN Tags : child.params[p] \in {trie[at].params[p], new}
        /\ \A f \in DOMAIN child.kids :
             child.kids[f] = new \/ (f \in DOMAIN trie[at].kids /\ child.kids[f] = trie[at].kids[f])
    BY <2>3, WithChildIs
  <2> HIDE DEF child
  <2>5. /\ grown \in Seq(Nodes) /\ Len(grown) = new
        /\ grown[at] = child /\ grown[new] = EmptyNode
        /\ \A k \in 1..Len(trie) : k # at => grown[k] = trie[k]
    BY <1>1, <2>4, EmptyNodeType
  <2> HIDE DEF grown
  <2>6. ASSUME NEW k \in 1..new
        PROVE  Below(grown[k], k + 1, new) /\ grown[k].rule <= top
    <3>1. CASE k = new
      <4>1. k + 1 \in Nat /\ new \in Nat /\ 0 <= top
        BY <1>1
      <4>2. QED
        BY <2>5, <3>1, <4>1, EmptyNodeType
    <3>2. CASE k = at
      <4>1. Below(trie[at], at + 1, Len(trie)) /\ trie[at].rule <= top
        BY <1>1 DEF TrieOK
      <4>2. \A i : i \in (at + 1)..Len(trie) => i \in (at + 1)..new
        BY <1>1
      <4>3. new \in (at + 1)..new
        BY <1>1
      <4> HIDE DEF new
      <4>4. \A p \in DOMAIN Tags : child.params[p] = 0 \/ child.params[p] \in (at + 1)..new
        BY <2>4, <4>1, <4>2, <4>3 DEF Below
      <4>5. \A f \in DOMAIN child.kids : child.kids[f] \in (at + 1)..new
        BY <2>4, <4>1, <4>2, <4>3 DEF Below
      <4>6. QED
        BY <2>4, <2>5, <3>2, <4>1, <4>4, <4>5 DEF Below
    <3>3. CASE k # new /\ k # at
      <4>1. k \in 1..Len(trie)
        BY <1>1, <3>3
      <4>2. Below(trie[k], k + 1, Len(trie)) /\ trie[k].rule <= top
        BY <1>1, <4>1 DEF TrieOK
      <4>3. \A i : i \in (k + 1)..Len(trie) => i \in (k + 1)..new
        BY <1>1
      <4>4. Below(trie[k], k + 1, new)
        BY <4>2, <4>3 DEF Below
      <4>5. QED
        BY <2>5, <3>3, <4>1, <4>2, <4>4
    <3>4. QED
      BY <3>1, <3>2, <3>3
  <2>7. TrieOK(grown, top)
    BY <1>1, <2>5, <2>6 DEF TrieOK
  <2>8. WalkOK(w, top)
    BY <1>1, <2>1, <2>2, <2>5, <2>7 DEF WalkOK
  <2>9. Extends(trie, grown)
    <3>1. ASSUME NEW k \in 1..Len(trie)
          PROVE  /\ grown[k].rule = trie[k].rule
                 /\ \A d \in Elements :
                      ChildOf(trie[k], d) # 0 => ChildOf(grown[k], d) = ChildOf(trie[k], d)
      BY <1>4, <2>4, <2>5 DEF next
    <3>2. ASSUME NEW k \in (Len(trie) + 1)..Len(grown)
          PROVE  grown[k].rule = 0
      <4>1. k = new
        BY <1>1, <2>5
      <4>2. QED
        BY <2>5, <4>1, EmptyNodeType
    <3>3. Len(trie) <= Len(grown)
      BY <1>1, <2>5
    <3>4. QED
      BY <3>1, <3>2, <3>3 DEF Extends
  <2>10. ChildOf(grown[at], e) = new
    BY <2>4, <2>5
  <2>11. ASSUME Tree(trie)
         PROVE  Tree(grown)
    <3>1. ASSUME NEW j \in 1..new, NEW d \in Elements, ChildOf(grown[j], d) # 0
          PROVE  \/ j = at /\ d = e /\ ChildOf(grown[j], d) = new
                 \/ j \in 1..Len(trie) /\ ChildOf(grown[j], d) = ChildOf(trie[j], d)
      <4>1. CASE j = new
        BY <2>5, <3>1, <4>1, EmptyNodeType
      <4>2. CASE j = at
        BY <1>1, <2>4, <2>5, <4>2
      <4>3. CASE j # new /\ j # at
        BY <1>1, <2>5, <4>3
      <4>4. QED
        BY <4>1, <4>2, <4>3
    <3>2. ASSUME NEW j \in 1..Len(trie), NEW d \in Elements
          PROVE  ChildOf(trie[j], d) # new
      <4>1. ChildOf(trie[j], d) = 0 \/ ChildOf(trie[j], d) \in (j + 1)..Len(trie)
        BY <1>1, ChildBelow
      <4>2. QED
        BY <1>1, <4>1
    <3> HIDE DEF new
    <3>3. QED
      BY <2>5, <2>11, <3>1, <3>2 DEF Tree
  <2>12. QED
    BY <2>2, <2>3, <2>8, <2>9, <2>10, <2>11 DEF trie, at, w
<1>5. QED
  BY <1>3, <1>4

WalkStep(f, trie, template, k) ==
  IF k = 0 THEN [nodes |-> trie, at |-> 1] ELSE Descend(f[k - 1], template[k])

WalkUpTo(f, trie, template, n) == f = [k \in 0..n |-> WalkStep(f, trie, template, k)]

LEMMA SomeWalk ==
  ASSUME NEW trie, NEW template
  PROVE  \A n \in Nat : \E f : WalkUpTo(f, trie, template, n)
<1> DEFINE T == {n \in Nat : \E f : WalkUpTo(f, trie, template, n)}
<1>1. 0 \in T
  <2> DEFINE g == [k \in 0..0 |-> [nodes |-> trie, at |-> 1]]
  <2>1. \A k \in 0..0 : WalkStep(g, trie, template, k) = [nodes |-> trie, at |-> 1]
    BY DEF WalkStep
  <2>2. WalkUpTo(g, trie, template, 0)
    BY <2>1 DEF WalkUpTo
  <2>3. QED
    BY <2>2
<1>2. ASSUME NEW n \in Nat, n \in T
      PROVE  n + 1 \in T
  <2>1. PICK f : WalkUpTo(f, trie, template, n)
    BY <1>2
  <2> DEFINE g == [k \in 0..(n + 1) |-> WalkStep(f, trie, template, k)]
  <2>2. \A k \in 0..n : g[k] = f[k]
    BY <2>1 DEF WalkUpTo
  <2>3. ASSUME NEW k \in 0..(n + 1)
        PROVE  WalkStep(g, trie, template, k) = WalkStep(f, trie, template, k)
    <3>1. CASE k = 0
      BY <3>1 DEF WalkStep
    <3>2. CASE k # 0
      <4>1. k - 1 \in 0..n
        BY <3>2
      <4>2. g[k - 1] = f[k - 1]
        BY <2>2, <4>1
      <4> HIDE DEF g
      <4>3. QED
        BY <3>2, <4>2 DEF WalkStep
    <3>3. QED
      BY <3>1, <3>2
  <2>4. WalkUpTo(g, trie, template, n + 1)
    BY <2>3 DEF WalkUpTo
  <2>5. QED
    BY <2>4
<1>3. QED
  BY <1>1, <1>2, Induction

\* The nodes that a template leads through, from the head on.
Path(trie, template, path) ==
  /\ path \in [1..(Len(template) + 1) -> 1..Len(trie)]
  /\ path[1] = 1
  /\ \A i \in 1..Len(template) : path[i + 1] = ChildOf(trie[path[i]], template[i])

Leads(trie, template, n) ==
  \E path : Path(trie, template, path) /\ path[Len(template) + 1] = n

LEMMA WalkedIs ==
  ASSUME NEW top \in Nat, NEW trie, TrieOK(trie, top), NEW template \in Seq(Elements)
  PROVE  LET w == Walked(trie, template) IN
         /\ WalkOK(w, top)
         /\ Extends(trie, w.nodes)
         /\ Leads(w.nodes, template, w.at)
         /\ Tree(trie) => Tree(w.nodes)
<1> DEFINE N == Len(template)
           f == CHOOSE f : f = [k \in 0..N |-> WalkStep(f, trie, template, k)]
<1>1. N \in Nat /\ trie \in Seq(Nodes) /\ Len(trie) \in Nat /\ Len(trie) >= 1
  BY DEF TrieOK
<1>2. f = [k \in 0..N |-> WalkStep(f, trie, template, k)]
  <2>1. \E g : WalkUpTo(g, trie, template, N)
    BY <1>1, SomeWalk
  <2>2. QED
    BY <2>1, Zenon DEF WalkUpTo
<1>3. Walked(trie, template) = f[N]
  BY Zenon DEF Walked, WalkStep
<1> HIDE DEF f
<1>4. \A k \in 0..N : f[k] = WalkStep(f, trie, template, k)
  BY <1>2
<1>5. f[0] = [nodes |-> trie, at |-> 1]
  BY <1>1, <1>4 DEF WalkStep
<1>6. \A k \in 1..N : f[k] = Descend(f[k - 1], template[k])
  <2>1. SUFFICES ASSUME NEW k \in 1..N
                 PROVE  f[k] = Descend(f[k - 1], template[k])
    OBVIOUS
  <2>2. k \in 0..N /\ k # 0
    BY <1>1
  <2>3. QED
    BY <1>4, <2>2 DEF WalkStep
\* After k elements.
<1> DEFINE Good(k) ==
             /\ WalkOK(f[k], top) /\ Extends(trie, f[k].nodes)
             /\ Tree(trie) => Tree(f[k].nodes)
           On(k) ==
             /\ \A i \in 0..k : f[i].at \in 1..Len(f[k].nodes)
             /\ \A i \in 1..k : f[i].at = ChildOf(f[k].nodes[f[i - 1].at], template[i])
           T == {k \in Nat : k <= N => Good(k) /\ On(k)}
<1>7. 0 \in T
  <2>1. f[0].nodes = trie /\ f[0].at = 1
    BY <1>5
  <2>2. Extends(trie, trie)
    BY <1>1 DEF Extends
  <2>3. WalkOK(f[0], top)
    BY <1>1, <1>5, <2>1 DEF WalkOK
  <2>4. On(0)
    BY <1>1, <2>1
  <2>5. QED
    BY <2>1, <2>2, <2>3, <2>4
<1>8. ASSUME NEW k \in Nat, k \in T
      PROVE  k + 1 \in T
  <2>1. SUFFICES ASSUME k + 1 <= N
                 PROVE  Good(k + 1) /\ On(k + 1)
    OBVIOUS
  <2>2. Good(k) /\ On(k)
    BY <1>1, <1>8, <2>1
  <2>3. k + 1 \in 1..N /\ template[k + 1] \in Elements /\ f[k + 1] = Descend(f[k], template[k + 1])
    <3>1. k + 1 \in 1..N /\ k + 1 - 1 = k
      BY <1>1, <2>1
    <3>2. f[k + 1] = Descend(f[k], template[k + 1])
      BY <1>6, <3>1
    <3>3. QED
      BY <3>1, <3>2
  <2>4. /\ WalkOK(f[k + 1], top) /\ Extends(f[k].nodes, f[k + 1].nodes)
        /\ ChildOf(f[k + 1].nodes[f[k].at], template[k + 1]) = f[k + 1].at
        /\ f[k + 1].at # 0
        /\ Tree(f[k].nodes) => Tree(f[k + 1].nodes)
    BY <2>2, <2>3, DescendIs
  <2>5. /\ Len(f[k].nodes) \in Nat /\ Len(f[k + 1].nodes) \in Nat
        /\ f[k + 1].at \in 1..Len(f[k + 1].nodes)
        /\ Len(f[k].nodes) <= Len(f[k + 1].nodes)
    BY <2>2, <2>4 DEF WalkOK, TrieOK, Extends
  <2>6. Good(k + 1)
    BY <1>1, <2>2, <2>4, <2>5, ExtendsTransitive
  <2>7. ASSUME NEW i \in 0..(k + 1)
        PROVE  f[i].at \in 1..Len(f[k + 1].nodes)
    <3>1. CASE i = k + 1
      BY <2>5, <3>1
    <3>2. CASE i # k + 1
      <4>1. i \in 0..k
        BY <3>2
      <4>2. QED
        BY <2>2, <2>5, <4>1, SMTT(40)
    <3>3. QED
      BY <3>1, <3>2
  <2>8. ASSUME NEW i \in 1..(k + 1)
        PROVE  f[i].at = ChildOf(f[k + 1].nodes[f[i - 1].at], template[i])
    <3>1. CASE i = k + 1
      <4>1. i - 1 = k
        BY <3>1
      <4>2. QED
        BY <2>4, <3>1, <4>1
    <3>2. CASE i # k + 1
      <4>1. i \in 1..k /\ i \in 0..k /\ i - 1 \in 0..k /\ i \in 1..N
        BY <1>1, <2>1, <3>2
      <4>2. /\ f[i].at = ChildOf(f[k].nodes[f[i - 1].at], template[i])
            /\ f[i].at # 0 /\ f[i - 1].at \in 1..Len(f[k].nodes)
        BY <2>2, <2>5, <4>1
      <4>3. template[i] \in Elements
        BY <4>1
      <4>4. ChildOf(f[k + 1].nodes[f[i - 1].at], template[i])
              = ChildOf(f[k].nodes[f[i - 1].at], template[i])
        BY <2>4, <4>2, <4>3 DEF Extends
      <4>5. QED
        BY <4>2, <4>4
    <3>3. QED
      BY <3>1, <3>2
  <2>9. QED
    BY <2>6, <2>7, <2>8
<1>9. N \in T
  BY <1>1, <1>7, <1>8, Induction
<1>10. Good(N) /\ On(N)
  BY <1>1, <1>9
<1>11. Leads(f[N].nodes, template, f[N].at)
  <2> DEFINE path == [i \in 1..(N + 1) |-> f[i - 1].at]
  <2>1. path \in [1..(N + 1) -> 1..Len(f[N].nodes)]
    <3>1. ASSUME NEW i \in 1..(N + 1)
          PROVE  f[i - 1].at \in 1..Len(f[N].nodes)
      <4>1. i - 1 \in 0..N
        BY <1>1
      <4>2. QED
        BY <1>10, <4>1
    <3>2. QED
      BY <3>1
  <2>2. path[1] = 1
    BY <1>1, <1>5
  <2>3. ASSUME NEW i \in 1..N
        PROVE  path[i + 1] = ChildOf(f[N].nodes[path[i]], template[i])
    <3>1. i \in 1..(N + 1) /\ i + 1 \in 1..(N + 1) /\ i + 1 - 1 = i
      BY <1>1
    <3>2. path[i + 1] = f[i].at /\ path[i] = f[i - 1].at
      BY <3>1
    <3> HIDE DEF path
    <3>3. QED
      BY <1>10, <3>2
  <2>4. path[N + 1] = f[N].at
    <3>1. N + 1 \in 1..(N + 1) /\ N + 1 - 1 = N
      BY <1>1
    <3>2. QED
      BY <3>1
  <2> HIDE DEF path
  <2>5. QED
    BY <2>1, <2>2, <2>3, <2>4 DEF Leads, Path
<1>12. QED
  BY <1>3, <1>10, <1>11

\* A template leads where it led, however the trie grows.
LEMMA LeadsOn ==
  ASSUME NEW top \in Nat, NEW a, NEW b, TrieOK(a, top), TrieOK(b, top), Extends(a, b),
         NEW template \in Seq(Elements), NEW n \in Nat \ {0}, Leads(a, template, n)
  PROVE  Leads(b, template, n) /\ n \in 1..Len(a)
<1>1. PICK path : Path(a, template, path) /\ path[Len(template) + 1] = n
  BY DEF Leads
<1>2. /\ Len(template) \in Nat /\ Len(a) \in Nat /\ Len(b) \in Nat /\ Len(a) <= Len(b)
  BY DEF TrieOK, Extends
<1>3. path \in [1..(Len(template) + 1) -> 1..Len(a)] /\ path[1] = 1
  BY <1>1 DEF Path
<1>4. path \in [1..(Len(template) + 1) -> 1..Len(b)]
  BY <1>2, <1>3
<1>5. ASSUME NEW i \in 1..Len(template)
      PROVE  path[i + 1] = ChildOf(b[path[i]], template[i])
  <2>1. path[i + 1] = ChildOf(a[path[i]], template[i])
    BY <1>1 DEF Path
  <2>2. i \in 1..(Len(template) + 1) /\ i + 1 \in 1..(Len(template) + 1)
    BY <1>2
  <2>3. path[i] \in 1..Len(a) /\ path[i + 1] # 0 /\ template[i] \in Elements
    BY <1>2, <1>3, <2>2
  <2>4. QED
    BY <2>1, <2>3 DEF Extends
<1>6. Path(b, template, path)
  BY <1>3, <1>4, <1>5 DEF Path
<1>7. n \in 1..Len(a)
  BY <1>1, <1>2, <1>3
<1>8. QED
  BY <1>1, <1>6, <1>7 DEF Leads

\* It leads to one node.
LEMMA LeadsOnce ==
  ASSUME NEW trie, NEW template \in Seq(Elements), NEW n, NEW m,
         Leads(trie, template, n), Leads(trie, template, m)
  PROVE  n = m
<1>1. PICK p : Path(trie, template, p) /\ p[Len(template) + 1] = n
  BY DEF Leads
<1>2. PICK q : Path(trie, template, q) /\ q[Len(template) + 1] = m
  BY DEF Leads
<1> DEFINE N == Len(template)
           T == {k \in Nat : k <= N => p[k + 1] = q[k + 1]}
<1>3. N \in Nat
  OBVIOUS
<1>4. 0 \in T
  BY <1>1, <1>2 DEF Path
<1>5. ASSUME NEW k \in Nat, k \in T
      PROVE  k + 1 \in T
  <2>1. SUFFICES ASSUME k + 1 <= N
                 PROVE  p[k + 1 + 1] = q[k + 1 + 1]
    OBVIOUS
  <2>2. p[k + 1] = q[k + 1] /\ k + 1 \in 1..N
    BY <1>3, <1>5, <2>1
  <2>3. p[k + 1 + 1] = ChildOf(trie[p[k + 1]], template[k + 1])
    BY <1>1, <2>2 DEF Path
  <2>4. q[k + 1 + 1] = ChildOf(trie[q[k + 1]], template[k + 1])
    BY <1>2, <2>2 DEF Path
  <2>5. QED
    BY <2>2, <2>3, <2>4
<1>6. N \in T
  BY <1>3, <1>4, <1>5, Induction
<1>7. QED
  BY <1>1, <1>2, <1>3, <1>6

\* And only one template leads to a node of a tree: read backwards from the
\* node, the two paths come to the head together.
LEMMA LeadsBack ==
  ASSUME NEW top \in Nat, NEW trie, TrieOK(trie, top), Tree(trie),
         NEW s \in Seq(Elements), NEW t \in Seq(Elements), Len(s) <= Len(t),
         NEW n, Leads(trie, s, n), Leads(trie, t, n)
  PROVE  s = t
<1>1. PICK p : Path(trie, s, p) /\ p[Len(s) + 1] = n
  BY DEF Leads
<1>2. PICK q : Path(trie, t, q) /\ q[Len(t) + 1] = n
  BY DEF Leads
<1> DEFINE S == Len(s)
           N == Len(t)
           T == {k \in Nat : k <= S =>
                   /\ p[S + 1 - k] = q[N + 1 - k]
                   /\ \A i \in 0..(k - 1) : s[S - i] = t[N - i]}
<1>3. S \in Nat /\ N \in Nat
  OBVIOUS
<1>4. /\ p \in [1..(S + 1) -> 1..Len(trie)] /\ p[1] = 1
      /\ \A i \in 1..S : p[i + 1] = ChildOf(trie[p[i]], s[i])
      /\ q \in [1..(N + 1) -> 1..Len(trie)] /\ q[1] = 1
      /\ \A i \in 1..N : q[i + 1] = ChildOf(trie[q[i]], t[i])
  BY <1>1, <1>2 DEF Path
<1>5. 0 \in T
  BY <1>1, <1>2, <1>3
<1>6. ASSUME NEW k \in Nat, k \in T
      PROVE  k + 1 \in T
  <2>1. SUFFICES ASSUME k + 1 <= S
                 PROVE  /\ p[S + 1 - (k + 1)] = q[N + 1 - (k + 1)]
                        /\ \A i \in 0..(k + 1 - 1) : s[S - i] = t[N - i]
    OBVIOUS
  <2>2. /\ p[S + 1 - k] = q[N + 1 - k]
        /\ \A i \in 0..(k - 1) : s[S - i] = t[N - i]
    BY <1>3, <1>6, <2>1
  <2>3. PICK i \in 1..S : i = S - k
    <3>1. S - k \in 1..S
      BY <1>3, <2>1
    <3>2. QED
      BY <3>1
  <2>4. PICK j \in 1..N : j = N - k
    <3>1. N - k \in 1..N
      BY <1>3, <2>1
    <3>2. QED
      BY <3>1
  <2>5. p[i + 1] = q[j + 1]
    <3>1. i + 1 = S + 1 - k /\ j + 1 = N + 1 - k
      BY <1>3, <2>3, <2>4
    <3>2. QED
      BY <2>2, <3>1
  <2>6. p[i + 1] = ChildOf(trie[p[i]], s[i]) /\ q[j + 1] = ChildOf(trie[q[j]], t[j])
    BY <1>4
  <2>7. /\ p[i + 1] # 0 /\ p[i] \in 1..Len(trie) /\ q[j] \in 1..Len(trie)
        /\ s[i] \in Elements /\ t[j] \in Elements
    <3>1. /\ i \in 1..(S + 1) /\ i + 1 \in 1..(S + 1) /\ i \in 1..Len(s)
          /\ j \in 1..(N + 1) /\ j \in 1..Len(t)
      BY <1>3
    <3>2. p[i + 1] \in 1..Len(trie) /\ p[i] \in 1..Len(trie) /\ q[j] \in 1..Len(trie)
      BY <1>4, <3>1
    <3>3. QED
      BY <3>1, <3>2
  <2>8. p[i] = q[j] /\ s[i] = t[j]
    <3>1. /\ ChildOf(trie[p[i]], s[i]) # 0
          /\ ChildOf(trie[p[i]], s[i]) = ChildOf(trie[q[j]], t[j])
      BY <2>5, <2>6, <2>7
    <3>2. QED
      BY <2>7, <3>1, SMTT(40) DEF Tree
  <2>9. p[S + 1 - (k + 1)] = q[N + 1 - (k + 1)]
    <3>1. S + 1 - (k + 1) = i /\ N + 1 - (k + 1) = j
      BY <1>3, <2>3, <2>4
    <3>2. QED
      BY <2>8, <3>1
  <2>10. ASSUME NEW h \in 0..(k + 1 - 1)
         PROVE  s[S - h] = t[N - h]
    <3>1. CASE h = k
      BY <2>3, <2>4, <2>8, <3>1
    <3>2. CASE h # k
      <4>1. h \in 0..(k - 1)
        BY <3>2
      <4>2. QED
        BY <2>2, <4>1
    <3>3. QED
      BY <3>1, <3>2
  <2>11. QED
    BY <2>9, <2>10
<1>7. S \in T
  BY <1>3, <1>5, <1>6, Induction
<1>8. /\ p[S + 1 - S] = q[N + 1 - S]
      /\ \A i \in 0..(S - 1) : s[S - i] = t[N - i]
  BY <1>3, <1>7
\* No node leads to the head.
<1>9. N = S
  <2>1. SUFFICES ASSUME N > S
                 PROVE  FALSE
    BY <1>3
  <2>2. PICK j \in 1..N : j = N - S
    <3>1. N - S \in 1..N
      BY <1>3, <2>1
    <3>2. QED
      BY <3>1
  <2>3. q[j + 1] = 1
    <3>1. S + 1 - S = 1 /\ N + 1 - S = j + 1
      BY <1>3, <2>2
    <3>2. QED
      BY <1>4, <1>8, <3>1
  <2>4. q[j] \in 1..Len(trie) /\ t[j] \in Elements /\ q[j + 1] = ChildOf(trie[q[j]], t[j])
    BY <1>3, <1>4, SMTT(40)
  <2>5. Len(trie) \in Nat
    BY DEF TrieOK
  <2>6. ChildOf(trie[q[j]], t[j]) = 0 \/ ChildOf(trie[q[j]], t[j]) \in (q[j] + 1)..Len(trie)
    BY <2>4, ChildBelow
  <2>7. QED
    BY <2>3, <2>4, <2>5, <2>6
<1>10. \A i \in 1..S : s[i] = t[i]
  <2>1. SUFFICES ASSUME NEW i \in 1..S
                 PROVE  s[i] = t[i]
    OBVIOUS
  <2>2. PICK h \in 0..(S - 1) : S - h = i
    <3>1. S - i \in 0..(S - 1) /\ S - (S - i) = i
      BY <1>3
    <3>2. QED
      BY <3>1
  <2>3. QED
    BY <1>8, <1>9, <2>2
<1>11. QED
  BY <1>9, <1>10

-----------------------------------------------------------------------------
(* Which rule a template leads to.                                         *)

\* The rules in a trie of top rules are those of the templates added so far:
\* forms gives, for every index, the templates that were added under it.
Marks(trie, forms, top) ==
  /\ TrieOK(trie, top) /\ Tree(trie)
  /\ forms \in [1..top -> SUBSET Seq(Elements)]
  /\ \A i \in 1..top : \A t \in forms[i] :
       \E n \in 1..Len(trie) : Leads(trie, t, n) /\ trie[n].rule = i
  /\ \A n \in 1..Len(trie) :
       trie[n].rule # 0 => \E t \in forms[trie[n].rule] : Leads(trie, t, n)

\* Setting a rule.
SetRule(trie, at, index) == [trie EXCEPT ![at].rule = index]

LEMMA SetRuleIs ==
  ASSUME NEW top \in Nat, NEW trie, TrieOK(trie, top), NEW at \in 1..Len(trie),
         NEW index \in 1..top
  PROVE  LET b == SetRule(trie, at, index) IN
         /\ TrieOK(b, top) /\ Len(b) = Len(trie)
         /\ b[at].rule = index
         /\ \A k \in 1..Len(trie) : k # at => b[k].rule = trie[k].rule
         /\ \A k \in 1..Len(trie), e \in Elements : ChildOf(b[k], e) = ChildOf(trie[k], e)
<1> DEFINE node == [trie[at] EXCEPT !.rule = index]
           b == SetRule(trie, at, index)
<1>1. trie \in Seq(Nodes) /\ Len(trie) \in Nat /\ Len(trie) >= 1 /\ trie[at] \in Nodes
  BY DEF TrieOK
<1>2. b = [trie EXCEPT ![at] = node]
  BY DEF SetRule
<1>3. /\ node \in Nodes /\ node.rule = index
      /\ node.params = trie[at].params /\ node.kids = trie[at].kids
  <2>1. PICK r \in Nat, params \in [DOMAIN Tags -> Nat], kids \in Kids :
          trie[at] = [rule |-> r, params |-> params, kids |-> kids]
    BY <1>1 DEF Nodes
  <2>2. node = [rule |-> index, params |-> params, kids |-> kids]
    BY <2>1
  <2>3. index \in Nat
    OBVIOUS
  <2> HIDE DEF node
  <2>4. QED
    BY <2>1, <2>2, <2>3 DEF Nodes
<1> HIDE DEF node, b
<1>4. /\ b \in Seq(Nodes) /\ Len(b) = Len(trie) /\ b[at] = node
      /\ \A k \in 1..Len(trie) : k # at => b[k] = trie[k]
  BY <1>1, <1>2, <1>3
<1>5. ASSUME NEW k \in 1..Len(trie)
      PROVE  /\ Below(b[k], k + 1, Len(trie)) /\ b[k].rule <= top
             /\ \A e \in Elements : ChildOf(b[k], e) = ChildOf(trie[k], e)
  <2>1. Below(trie[k], k + 1, Len(trie)) /\ trie[k].rule <= top
    BY DEF TrieOK
  <2>2. CASE k = at
    <3>1. b[k] = node
      BY <1>4, <2>2
    <3>2. Below(b[k], k + 1, Len(trie))
      BY <1>3, <2>1, <2>2, <3>1 DEF Below
    <3>3. \A e \in Elements : ChildOf(b[k], e) = ChildOf(trie[k], e)
      BY <1>3, <2>2, <3>1 DEF ChildOf
    <3>4. QED
      BY <1>3, <3>1, <3>2, <3>3
  <2>3. CASE k # at
    BY <1>4, <2>1, <2>3
  <2>4. QED
    BY <2>2, <2>3
<1>6. TrieOK(b, top)
  BY <1>1, <1>4, <1>5 DEF TrieOK
<1>7. QED
  BY <1>3, <1>4, <1>5, <1>6 DEF b

LEMMA SameChildren ==
  ASSUME NEW a, NEW b, Len(b) = Len(a), a \in Seq(Nodes),
         \A k \in 1..Len(a), e \in Elements : ChildOf(b[k], e) = ChildOf(a[k], e)
  PROVE  /\ Tree(a) => Tree(b)
         /\ \A t \in Seq(Elements) : \A n : Leads(a, t, n) => Leads(b, t, n)
<1>1. Tree(a) => Tree(b)
  BY DEF Tree
<1>2. ASSUME NEW t \in Seq(Elements), NEW n, Leads(a, t, n)
      PROVE  Leads(b, t, n)
  <2>1. PICK path : Path(a, t, path) /\ path[Len(t) + 1] = n
    BY <1>2 DEF Leads
  <2>2. ASSUME NEW i \in 1..Len(t)
        PROVE  path[i + 1] = ChildOf(b[path[i]], t[i])
    <3>1. i \in 1..(Len(t) + 1) /\ t[i] \in Elements
      OBVIOUS
    <3>2. path[i] \in 1..Len(a) /\ path[i + 1] = ChildOf(a[path[i]], t[i])
      BY <2>1, <3>1 DEF Path
    <3>3. QED
      BY <3>1, <3>2
  <2>3. Path(b, t, path)
    BY <2>1, <2>2 DEF Path
  <2>4. QED
    BY <2>1, <2>3 DEF Leads
<1>3. QED
  BY <1>1, <1>2

LEMMA AddKeepsType ==
  ASSUME NEW top \in Nat, NEW trie, TrieOK(trie, top), NEW template \in Seq(Elements),
         NEW index \in 1..top
  PROVE  /\ TrieOK(Add(trie, template, index).nodes, top)
         /\ Add(trie, template, index).ok \in BOOLEAN
<1> DEFINE walk == Walked(trie, template)
           a == Add(trie, template, index)
<1>1. WalkOK(walk, top)
  BY WalkedIs
<1>2. TrieOK(walk.nodes, top) /\ walk.at \in 1..Len(walk.nodes)
  BY <1>1 DEF WalkOK
<1>3. CASE walk.nodes[walk.at].rule # 0
  <2>1. a = [ok |-> FALSE, nodes |-> walk.nodes]
    BY <1>3 DEF Add
  <2>2. QED
    BY <1>2, <2>1
<1>4. CASE walk.nodes[walk.at].rule = 0
  <2>1. a = [ok |-> TRUE, nodes |-> SetRule(walk.nodes, walk.at, index)]
    BY <1>4 DEF Add, SetRule
  <2>2. QED
    BY <1>2, <2>1, SetRuleIs
<1>5. QED
  BY <1>3, <1>4

\* add throws exactly for a template that was added before, and otherwise
\* leaves every template where it was.
LEMMA AddMarks ==
  ASSUME NEW top \in Nat, NEW trie, NEW forms, Marks(trie, forms, top),
         NEW template \in Seq(Elements), NEW index \in 1..top
  PROVE  LET a == Add(trie, template, index) IN
         IF a.ok THEN Marks(a.nodes, [forms EXCEPT ![index] = @ \cup {template}], top)
         ELSE \E i \in 1..top : template \in forms[i]
<1> DEFINE walk == Walked(trie, template)
           nodes == walk.nodes
           at == walk.at
           a == Add(trie, template, index)
<1>1. TrieOK(trie, top) /\ Tree(trie) /\ forms \in [1..top -> SUBSET Seq(Elements)]
  BY DEF Marks
<1>2. /\ WalkOK(walk, top) /\ Extends(trie, nodes)
      /\ Leads(nodes, template, at) /\ Tree(nodes)
  BY <1>1, WalkedIs
<1>3. TrieOK(nodes, top) /\ at \in 1..Len(nodes) /\ nodes \in Seq(Nodes)
  BY <1>2 DEF WalkOK, TrieOK
<1>4. Len(trie) \in Nat /\ Len(nodes) \in Nat /\ Len(trie) <= Len(nodes)
  BY <1>1, <1>2, <1>3 DEF TrieOK, Extends
\* The walk moved nothing: the marks of the trie are those of the nodes.
<1>5. ASSUME NEW n \in 1..Len(nodes), nodes[n].rule # 0
      PROVE  \E t \in forms[nodes[n].rule] : Leads(nodes, t, n)
  <2>1. n \in 1..Len(trie) /\ nodes[n].rule = trie[n].rule
    <3>1. ~(n \in (Len(trie) + 1)..Len(nodes))
      BY <1>2, <1>5 DEF Extends
    <3>2. n \in 1..Len(trie)
      BY <1>4, <3>1
    <3>3. QED
      BY <1>2, <3>2 DEF Extends
  <2>2. PICK t \in forms[trie[n].rule] : Leads(trie, t, n)
    BY <1>5, <2>1 DEF Marks
  <2>3. trie[n].rule \in 1..top
    <3>1. trie[n] \in Nodes /\ trie[n].rule <= top
      BY <1>1, <2>1 DEF TrieOK
    <3>2. QED
      BY <1>5, <2>1, <3>1 DEF Nodes
  <2>4. t \in Seq(Elements)
    BY <1>1, <2>3
  <2>5. Leads(nodes, t, n)
    BY <1>1, <1>2, <1>3, <2>1, <2>2, <2>4, LeadsOn
  <2>6. QED
    BY <2>1, <2>2, <2>5
<1>6. ASSUME NEW i \in 1..top, NEW t \in forms[i]
      PROVE  \E n \in 1..Len(nodes) : Leads(nodes, t, n) /\ nodes[n].rule = i
  <2>1. PICK n \in 1..Len(trie) : Leads(trie, t, n) /\ trie[n].rule = i
    BY <1>6 DEF Marks
  <2>2. t \in Seq(Elements)
    BY <1>1
  <2>3. Leads(nodes, t, n) /\ n \in 1..Len(nodes) /\ nodes[n].rule = i
    <3>1. n \in Nat \ {0}
      OBVIOUS
    <3>2. Leads(nodes, t, n)
      BY <1>1, <1>2, <1>3, <2>1, <2>2, <3>1, LeadsOn
    <3>3. n \in 1..Len(nodes) /\ nodes[n].rule = i
      BY <1>2, <1>4, <2>1 DEF Extends
    <3>4. QED
      BY <3>2, <3>3
  <2>4. QED
    BY <2>3
<1>7. CASE nodes[at].rule # 0
  <2>1. a = [ok |-> FALSE, nodes |-> nodes]
    BY <1>7 DEF Add
  <2>2. PICK t \in forms[nodes[at].rule] : Leads(nodes, t, at)
    BY <1>3, <1>5, <1>7
  <2>3. nodes[at].rule \in 1..top
    <3>1. nodes[at] \in Nodes /\ nodes[at].rule <= top
      BY <1>3 DEF TrieOK
    <3>2. QED
      BY <1>7, <3>1 DEF Nodes
  <2>4. t \in Seq(Elements)
    BY <1>1, <2>3
  <2>5. t = template
    <3>1. Len(t) <= Len(template) \/ Len(template) <= Len(t)
      BY <2>4
    <3>2. QED
      BY <1>2, <1>3, <2>2, <2>4, <3>1, LeadsBack
  <2>6. QED
    BY <2>1, <2>2, <2>3, <2>5
<1>8. CASE nodes[at].rule = 0
  <2> DEFINE b == SetRule(nodes, at, index)
             more == [forms EXCEPT ![index] = @ \cup {template}]
  <2>1. a = [ok |-> TRUE, nodes |-> b]
    BY <1>8 DEF Add, SetRule
  <2> HIDE DEF nodes, at
  <2>2. /\ TrieOK(b, top) /\ Len(b) = Len(nodes) /\ b[at].rule = index
        /\ \A k \in 1..Len(nodes) : k # at => b[k].rule = nodes[k].rule
        /\ \A k \in 1..Len(nodes), e \in Elements : ChildOf(b[k], e) = ChildOf(nodes[k], e)
    BY <1>3, SetRuleIs
  <2> HIDE DEF b
  <2>3. Tree(b) /\ \A t \in Seq(Elements) : \A n : Leads(nodes, t, n) => Leads(b, t, n)
    BY <1>2, <1>3, <2>2, SameChildren
  <2>4. /\ more \in [1..top -> SUBSET Seq(Elements)]
        /\ more[index] = forms[index] \cup {template}
        /\ \A i \in 1..top : i # index => more[i] = forms[i]
    BY <1>1
  <2> HIDE DEF more
  <2>5. ASSUME NEW i \in 1..top, NEW t \in more[i]
        PROVE  \E n \in 1..Len(b) : Leads(b, t, n) /\ b[n].rule = i
    <3>1. t \in Seq(Elements)
      BY <2>4
    <3>2. CASE t \in forms[i]
      <4>1. PICK n \in 1..Len(nodes) : Leads(nodes, t, n) /\ nodes[n].rule = i
        BY <1>6, <3>2
      <4>2. n # at
        BY <1>8, <4>1
      <4>3. QED
        BY <2>2, <2>3, <3>1, <4>1, <4>2
    <3>3. CASE t \notin forms[i]
      <4>1. i = index /\ t = template
        BY <2>4, <3>3
      <4>2. Leads(b, t, at) /\ at \in 1..Len(b) /\ b[at].rule = i
        BY <1>2, <1>3, <2>2, <2>3, <4>1
      <4>3. QED
        BY <4>2
    <3>4. QED
      BY <3>2, <3>3
  <2>6. ASSUME NEW n \in 1..Len(b), b[n].rule # 0
        PROVE  \E t \in more[b[n].rule] : Leads(b, t, n)
    <3>1. CASE n = at
      <4>1. template \in more[b[n].rule] /\ Leads(b, template, n)
        BY <1>2, <2>2, <2>3, <2>4, <3>1
      <4>2. QED
        BY <4>1
    <3>2. CASE n # at
      <4>1. b[n].rule = nodes[n].rule /\ n \in 1..Len(nodes)
        BY <2>2, <3>2
      <4>2. PICK t \in forms[nodes[n].rule] : Leads(nodes, t, n)
        BY <1>5, <2>6, <4>1
      <4>3. nodes[n].rule \in 1..top
        <5>1. nodes[n] \in Nodes /\ nodes[n].rule <= top
          BY <1>3, <4>1 DEF TrieOK
        <5>2. QED
          BY <2>6, <4>1, <5>1 DEF Nodes
      <4>4. t \in more[b[n].rule] /\ t \in Seq(Elements)
        <5>1. t \in more[nodes[n].rule]
          BY <2>4, <4>2, <4>3, SMTT(40)
        <5>2. b[n].rule = nodes[n].rule
          BY <4>1
        <5>3. t \in more[b[n].rule]
          BY <5>1, <5>2
        <5>4. forms[nodes[n].rule] \in SUBSET Seq(Elements)
          BY <1>1, <4>3
        <5>5. t \in Seq(Elements)
          BY <4>2, <5>4
        <5>6. QED
          BY <5>3, <5>5
      <4>5. QED
        BY <2>3, <4>2, <4>4
    <3>3. QED
      BY <3>1, <3>2
  <2>7. Marks(b, more, top)
    BY <2>2, <2>3, <2>4, <2>5, <2>6 DEF Marks
  <2>8. QED
    BY <2>1, <2>7 DEF more
<1>9. QED
  BY <1>7, <1>8

-----------------------------------------------------------------------------
(* The rules and the trie of a method.                                     *)

LEMMA MethodsOfArguments ==
  ASSUME NEW args, args \in Seq(ToSet(args))
  PROVE  MethodsBitfield(args) \in (SUBSET Methods) \ {{}}
<1>1. CASE args = <<>>
  <2>1. MethodsBitfield(args) = {"GET"}
    BY <1>1 DEF MethodsBitfield
  <2>2. QED
    BY <2>1, RouterAssumption DEF Methods
<1>2. CASE args # <<>> /\ args[1] \in Special
  <2>1. MethodsBitfield(args) = {args[1]}
    BY <1>2 DEF MethodsBitfield
  <2>2. QED
    BY <1>2, <2>1 DEF Methods
<1>3. CASE args # <<>> /\ ~(args[1] \in Special)
  <2> DEFINE known == {args[i] : i \in DOMAIN args} \cap VerbNames
  <2>1. MethodsBitfield(args)
          = IF args[Len(args)] \in VerbNames THEN known ELSE known \cup {"GET"}
    BY <1>3 DEF MethodsBitfield
  <2>2. known \subseteq Methods /\ "GET" \in Methods
    BY RouterAssumption DEF Methods
  <2>3. args[Len(args)] \in VerbNames => args[Len(args)] \in known
    <3>1. Len(args) \in DOMAIN args
      BY <1>3
    <3>2. QED
      BY <3>1
  <2> HIDE DEF known
  <2>4. QED
    BY <2>1, <2>2, <2>3
<1>4. QED
  BY <1>1, <1>2, <1>3

LEMMA RegisteredType ==
  ASSUME NEW rule \in Registered
  PROVE  /\ rule.url \in Seq(Elements)
         /\ rule.methods \in (SUBSET Methods) \ {{}}
         /\ rule.handler \in BOOLEAN
<1>1. PICK choice \in RuleChoices : rule = RuleOf(choice)
  BY DEF Registered, Accepted
<1>2. /\ choice.url \in Seq(Elements)
      /\ choice.methods \in Seq(ToSet(choice.methods))
      /\ choice.handler \in BOOLEAN
  BY RouterAssumption
<1>3. /\ rule.url = choice.url /\ rule.methods = MethodsBitfield(choice.methods)
      /\ rule.handler = choice.handler
  BY <1>1 DEF RuleOf
<1>4. QED
  BY <1>2, <1>3, MethodsOfArguments

\* The directory form is a template of its own.
LEMMA DirectoryForm ==
  ASSUME NEW url \in Seq(Elements), HasDirectoryForm(url)
  PROVE  Front(url) \in Seq(Elements) /\ Front(url) # url
<1>1. Len(url) >= 1
  <2>1. Len(url) > 2 \/ \E i \in DOMAIN url : TRUE
    BY DEF HasDirectoryForm, LongerThanTwo
  <2>2. QED
    BY <2>1
<1>2. Front(url) \in Seq(Elements) /\ Len(Front(url)) = Len(url) - 1
  <2>1. Front(url) = SubSeq(url, 1, Len(url) - 1)
    BY DEF Front
  <2>2. 1 \in Int /\ Len(url) - 1 \in Int /\ \A i \in 1..(Len(url) - 1) : url[i] \in Elements
    OBVIOUS
  <2>3. /\ SubSeq(url, 1, Len(url) - 1) \in Seq(Elements)
        /\ Len(SubSeq(url, 1, Len(url) - 1))
             = IF 1 <= Len(url) - 1 THEN Len(url) - 1 - 1 + 1 ELSE 0
    BY <2>2, SubSeqProperties
  <2>4. PICK l \in Nat : l = Len(url) /\ l >= 1
    BY <1>1
  <2>5. CASE l = 1
    BY <2>1, <2>3, <2>4, <2>5
  <2>6. CASE l # 1
    <3>1. 1 <= l - 1 /\ l - 1 - 1 + 1 = l - 1
      BY <2>4, <2>6
    <3>2. QED
      BY <2>1, <2>3, <2>4, <3>1
  <2>7. QED
    BY <2>5, <2>6
<1>3. QED
  BY <1>1, <1>2

LEMMA FormsType ==
  ASSUME NEW n \in 1..Len(allRules), allRules \in Seq(Registered)
  PROVE  Forms(n) \in SUBSET Seq(Elements)
<1>1. allRules[n] \in Registered
  OBVIOUS
<1>2. allRules[n].url \in Seq(Elements)
  BY <1>1, RegisteredType
<1>3. QED
  BY <1>2, DirectoryForm DEF Forms

\* The rules of a method are rules, and its trie is one of that many.
TableOK(table, count) ==
  /\ table = [rules |-> table.rules, trie |-> table.trie]
  /\ table.rules \in Seq(1..count)
  /\ TrieOK(table.trie, Len(table.rules))

TableForms(table) == [i \in 1..Len(table.rules) |-> Forms(table.rules[i])]

\* Before the trie was optimized: its rules are among the first n, all for
\* the method m, and every form of theirs leads to its own.
Filled(table, m, n) ==
  /\ TableOK(table, n)
  /\ \A i \in 1..Len(table.rules) : m \in allRules[table.rules[i]].methods
  /\ Marks(table.trie, TableForms(table), Len(table.rules))

LEMMA MoreRules ==
  ASSUME NEW top \in Nat, NEW trie, TrieOK(trie, top)
  PROVE  TrieOK(trie, top + 1)
<1>1. ASSUME NEW k \in 1..Len(trie)
      PROVE  trie[k].rule <= top + 1
  <2>1. trie[k] \in Nodes /\ trie[k].rule <= top
    BY DEF TrieOK
  <2>2. QED
    BY <2>1 DEF Nodes
<1>2. QED
  BY <1>1 DEF TrieOK

LEMMA MarksMore ==
  ASSUME NEW top \in Nat, NEW trie, NEW forms, Marks(trie, forms, top)
  PROVE  Marks(trie, [i \in 1..(top + 1) |-> IF i = top + 1 THEN {} ELSE forms[i]], top + 1)
<1> DEFINE more == [i \in 1..(top + 1) |-> IF i = top + 1 THEN {} ELSE forms[i]]
<1>1. TrieOK(trie, top) /\ Tree(trie) /\ forms \in [1..top -> SUBSET Seq(Elements)]
  BY DEF Marks
<1>2. \A i \in 1..(top + 1) : i # top + 1 => i \in 1..top
  OBVIOUS
<1>3. /\ more \in [1..(top + 1) -> SUBSET Seq(Elements)]
      /\ more[top + 1] = {}
      /\ \A i \in 1..top : i \in 1..(top + 1) /\ more[i] = forms[i]
  BY <1>1, <1>2
<1> HIDE DEF more
<1>4. TrieOK(trie, top + 1)
  BY <1>1, MoreRules
<1>5. \A i \in 1..(top + 1) : \A t \in more[i] :
        \E n \in 1..Len(trie) : Leads(trie, t, n) /\ trie[n].rule = i
  <2>1. SUFFICES ASSUME NEW i \in 1..(top + 1), NEW t \in more[i]
                 PROVE  \E n \in 1..Len(trie) : Leads(trie, t, n) /\ trie[n].rule = i
    OBVIOUS
  <2>2. i \in 1..top /\ t \in forms[i]
    BY <1>2, <1>3
  <2>3. QED
    BY <2>2 DEF Marks
<1>6. \A n \in 1..Len(trie) :
        trie[n].rule # 0 => \E t \in more[trie[n].rule] : Leads(trie, t, n)
  <2>1. SUFFICES ASSUME NEW n \in 1..Len(trie), trie[n].rule # 0
                 PROVE  \E t \in more[trie[n].rule] : Leads(trie, t, n)
    OBVIOUS
  <2>2. trie[n].rule \in 1..top
    <3>1. trie[n] \in Nodes /\ trie[n].rule <= top
      BY <1>1 DEF TrieOK
    <3>2. QED
      BY <2>1, <3>1 DEF Nodes
  <2>3. PICK t \in forms[trie[n].rule] : Leads(trie, t, n)
    BY <2>1 DEF Marks
  <2>4. QED
    BY <1>3, <2>2, <2>3
<1>7. QED
  BY <1>1, <1>3, <1>4, <1>5, <1>6 DEF Marks, more

\* One rule in one method: its template, and its directory form if it has one.
LEMMA AddToMethodType ==
  ASSUME NEW count \in Nat, NEW table, TableOK(table, count), NEW n \in 1..count,
         NEW rule \in Registered
  PROVE  LET added == AddToMethod(table, rule, n) IN
         /\ TableOK(added.table, count) /\ added.ok \in BOOLEAN
         /\ added.table.rules = Append(table.rules, n)
<1> DEFINE rules  == Append(table.rules, n)
           first  == Add(table.trie, rule.url, Len(rules))
           second == IF HasDirectoryForm(rule.url)
                     THEN Add(first.nodes, Front(rule.url), Len(rules)) ELSE first
           added  == AddToMethod(table, rule, n)
<1>1. table.rules \in Seq(1..count) /\ TrieOK(table.trie, Len(table.rules))
  BY DEF TableOK
<1>2. rules \in Seq(1..count) /\ Len(rules) = Len(table.rules) + 1 /\ Len(rules) \in Nat
  BY <1>1
<1>3. added = [ok |-> first.ok /\ second.ok, table |-> [rules |-> rules, trie |-> second.nodes]]
  BY DEF AddToMethod
<1> HIDE DEF rules, added
<1>4. rule.url \in Seq(Elements)
  BY RegisteredType
<1>5. TrieOK(table.trie, Len(rules)) /\ Len(rules) \in 1..Len(rules)
  BY <1>1, <1>2, MoreRules
<1>6. TrieOK(first.nodes, Len(rules)) /\ first.ok \in BOOLEAN
  BY <1>2, <1>4, <1>5, AddKeepsType
<1> HIDE DEF first
<1>7. TrieOK(second.nodes, Len(rules)) /\ second.ok \in BOOLEAN
  <2>1. CASE HasDirectoryForm(rule.url)
    <3>1. Front(rule.url) \in Seq(Elements)
      BY <1>4, <2>1, DirectoryForm
    <3>2. QED
      BY <1>2, <1>5, <1>6, <2>1, <3>1, AddKeepsType
  <2>2. CASE ~HasDirectoryForm(rule.url)
    BY <1>6, <2>2
  <2>3. QED
    BY <2>1, <2>2
<1> HIDE DEF second
<1>8. added.table = [rules |-> rules, trie |-> second.nodes] /\ added.ok = (first.ok /\ second.ok)
  BY <1>3, Zenon
<1>9. added.ok \in BOOLEAN
  BY <1>8
<1>10. added.table.rules = rules /\ added.table.trie = second.nodes
  BY <1>8
<1>11. TableOK(added.table, count)
  BY <1>2, <1>7, <1>8, <1>10 DEF TableOK
<1>12. QED
  BY <1>9, <1>10, <1>11 DEF rules, added

\* It throws only for a form that a rule before it has.
LEMMA AddToMethodFills ==
  ASSUME allRules \in Seq(Registered), NEW n \in 1..Len(allRules),
         NEW m \in allRules[n].methods, NEW table, Filled(table, m, n - 1)
  PROVE  LET added == AddToMethod(table, allRules[n], n) IN
         IF added.ok THEN Filled(added.table, m, n)
         ELSE \E i \in 1..Len(table.rules) : Forms(table.rules[i]) \cap Forms(n) # {}
<1> DEFINE rule   == allRules[n]
           url    == rule.url
           rules  == Append(table.rules, n)
           L      == Len(table.rules)
           first  == Add(table.trie, url, Len(rules))
           second == IF HasDirectoryForm(url) THEN Add(first.nodes, Front(url), Len(rules))
                     ELSE first
           added  == AddToMethod(table, rule, n)
           old    == TableForms(table)
           forms0 == [i \in 1..(L + 1) |-> IF i = L + 1 THEN {} ELSE old[i]]
           forms1 == [forms0 EXCEPT ![L + 1] = @ \cup {url}]
           forms2 == [forms1 EXCEPT ![L + 1] = @ \cup {Front(url)}]
<1>1. /\ rule \in Registered /\ Len(allRules) \in Nat /\ n \in Nat /\ n - 1 \in Nat
      /\ url \in Seq(Elements)
  BY RegisteredType
<1>2. /\ TableOK(table, n - 1)
      /\ \A i \in 1..L : m \in allRules[table.rules[i]].methods
      /\ Marks(table.trie, old, L)
  BY DEF Filled
<1>3. table.rules \in Seq(1..(n - 1)) /\ L \in Nat
  BY <1>2 DEF TableOK
<1>4. /\ rules \in Seq(1..n) /\ Len(rules) = L + 1 /\ rules[L + 1] = n
      /\ \A i \in 1..L : rules[i] = table.rules[i]
  BY <1>1, <1>3
<1>5. added = [ok |-> first.ok /\ second.ok, table |-> [rules |-> rules, trie |-> second.nodes]]
  BY DEF AddToMethod
<1> HIDE DEF rule, url, rules, added
<1>6. Marks(table.trie, forms0, L + 1)
  BY <1>2, <1>3, MarksMore
<1>7. /\ DOMAIN old = 1..L /\ DOMAIN forms0 = 1..(L + 1) /\ forms0[L + 1] = {}
      /\ \A i \in 1..L : i \in 1..(L + 1) /\ forms0[i] = Forms(table.rules[i])
  BY <1>3 DEF TableForms
<1>8. L + 1 \in 1..(L + 1) /\ L + 1 \in Nat
  BY <1>3
<1> HIDE DEF old, forms0
<1>9. IF first.ok THEN Marks(first.nodes, forms1, L + 1)
      ELSE \E i \in 1..(L + 1) : url \in forms0[i]
  <2>1. first = Add(table.trie, url, L + 1)
    BY <1>4
  <2>2. forms1 = [forms0 EXCEPT ![L + 1] = @ \cup {url}]
    OBVIOUS
  <2>3. url \in Seq(Elements)
    BY <1>1
  <2> HIDE DEF first, second, forms1, L
  <2>4. LET a == Add(table.trie, url, L + 1) IN
        IF a.ok THEN Marks(a.nodes, [forms0 EXCEPT ![L + 1] = @ \cup {url}], L + 1)
        ELSE \E i \in 1..(L + 1) : url \in forms0[i]
    BY <1>6, <1>8, <2>3, AddMarks
  <2>5. QED
    BY <2>1, <2>2, <2>4
<1>10. /\ DOMAIN forms1 = 1..(L + 1) /\ forms1[L + 1] = {url}
       /\ \A i \in 1..L : i \in 1..(L + 1) /\ forms1[i] = Forms(table.rules[i])
  BY <1>3, <1>7
<1> HIDE DEF forms1
<1>11. HasDirectoryForm(url) =>
         IF ~first.ok THEN TRUE
         ELSE IF second.ok THEN Marks(second.nodes, forms2, L + 1)
         ELSE \E i \in 1..(L + 1) : Front(url) \in forms1[i]
  <2>1. SUFFICES ASSUME HasDirectoryForm(url), first.ok
                 PROVE  IF second.ok THEN Marks(second.nodes, forms2, L + 1)
                        ELSE \E i \in 1..(L + 1) : Front(url) \in forms1[i]
    OBVIOUS
  <2>2. second = Add(first.nodes, Front(url), L + 1)
    BY <1>4, <2>1
  <2>3. Front(url) \in Seq(Elements)
    BY <1>1, <2>1, DirectoryForm
  <2>4. Marks(first.nodes, forms1, L + 1)
    BY <1>9, <2>1
  <2> HIDE DEF second, first
  <2>5. QED
    BY <1>8, <2>2, <2>3, <2>4, AddMarks
<1>12. /\ DOMAIN forms2 = 1..(L + 1) /\ forms2[L + 1] = {url, Front(url)}
       /\ \A i \in 1..L : i \in 1..(L + 1) /\ forms2[i] = Forms(table.rules[i])
  BY <1>3, <1>10
<1>13. ~HasDirectoryForm(url) => second = first
  OBVIOUS
<1>14. Forms(n) = IF HasDirectoryForm(url) THEN {url, Front(url)} ELSE {url}
  BY DEF Forms, url, rule
<1> HIDE DEF first, second, forms2
<1>15. added.table = [rules |-> rules, trie |-> second.nodes] /\ added.ok = (first.ok /\ second.ok)
  BY <1>5, Zenon
<1>16. added.table.rules = rules /\ added.table.trie = second.nodes
  BY <1>15
<1>17. CASE ~added.ok
  <2>1. ~first.ok \/ (first.ok /\ ~second.ok)
    BY <1>15, <1>17
  <2>2. CASE ~first.ok
    <3>1. PICK i \in 1..(L + 1) : url \in forms0[i]
      BY <1>9, <2>2
    <3>2. i \in 1..L
      BY <1>3, <1>7, <3>1
    <3>3. url \in Forms(table.rules[i]) /\ url \in Forms(n)
      BY <1>7, <1>14, <3>1, <3>2
    <3>4. QED
      BY <1>17, <3>2, <3>3 DEF added, rule
  <2>3. CASE first.ok /\ ~second.ok
    <3>1. HasDirectoryForm(url)
      BY <1>13, <2>3
    <3>2. PICK i \in 1..(L + 1) : Front(url) \in forms1[i]
      BY <1>11, <2>3, <3>1
    <3>3. Front(url) # url
      BY <1>1, <3>1, DirectoryForm
    <3>4. i \in 1..L
      BY <1>3, <1>10, <3>2, <3>3
    <3>5. Front(url) \in Forms(table.rules[i]) /\ Front(url) \in Forms(n)
      BY <1>10, <1>14, <3>1, <3>2, <3>4
    <3>6. QED
      BY <1>17, <3>4, <3>5 DEF added, rule
  <2>4. QED
    BY <2>1, <2>2, <2>3
<1>18. CASE added.ok
  <2>1. first.ok /\ second.ok
    BY <1>15, <1>18
  <2> DEFINE forms == TableForms(added.table)
  <2>2. forms = [i \in 1..(L + 1) |-> Forms(rules[i])]
    BY <1>4, <1>16 DEF TableForms
  <2>3. Marks(second.nodes, forms, L + 1)
    <3>1. CASE HasDirectoryForm(url)
      <4>1. Marks(second.nodes, forms2, L + 1)
        BY <1>11, <2>1, <3>1
      <4>2. forms2 \in [1..(L + 1) -> SUBSET Seq(Elements)]
        BY <4>1 DEF Marks
      <4>3. \A i \in 1..(L + 1) : forms2[i] = Forms(rules[i])
        <5>1. forms2[L + 1] = Forms(rules[L + 1])
          BY <1>4, <1>12, <1>14, <3>1
        <5>2. \A i \in 1..L : forms2[i] = Forms(rules[i])
          BY <1>4, <1>12
        <5>3. \A i \in 1..(L + 1) : i = L + 1 \/ i \in 1..L
          BY <1>3
        <5>4. QED
          BY <5>1, <5>2, <5>3
      <4>4. forms2 = forms
        BY <2>2, <4>2, <4>3
      <4>5. QED
        BY <4>1, <4>4
    <3>2. CASE ~HasDirectoryForm(url)
      <4>1. Marks(second.nodes, forms1, L + 1)
        BY <1>9, <1>13, <2>1, <3>2
      <4>2. forms1 \in [1..(L + 1) -> SUBSET Seq(Elements)]
        BY <4>1 DEF Marks
      <4>3. \A i \in 1..(L + 1) : forms1[i] = Forms(rules[i])
        <5>1. forms1[L + 1] = Forms(rules[L + 1])
          BY <1>4, <1>10, <1>14, <3>2
        <5>2. \A i \in 1..L : forms1[i] = Forms(rules[i])
          BY <1>4, <1>10
        <5>3. \A i \in 1..(L + 1) : i = L + 1 \/ i \in 1..L
          BY <1>3
        <5>4. QED
          BY <5>1, <5>2, <5>3
      <4>4. forms1 = forms
        BY <2>2, <4>2, <4>3
      <4>5. QED
        BY <4>1, <4>4
    <3>3. QED
      BY <3>1, <3>2
  <2> HIDE DEF forms
  <2>4. TableOK(added.table, n)
    <3>1. TrieOK(second.nodes, L + 1)
      BY <2>3 DEF Marks
    <3>2. QED
      BY <1>4, <1>15, <1>16, <3>1 DEF TableOK
  <2>5. ASSUME NEW i \in 1..Len(rules)
        PROVE  m \in allRules[rules[i]].methods
    <3>1. CASE i = L + 1
      BY <1>4, <3>1
    <3>2. CASE i # L + 1
      <4>1. i \in 1..L
        BY <1>3, <1>4, <3>2
      <4>2. QED
        BY <1>2, <1>4, <4>1
    <3>3. QED
      BY <3>1, <3>2
  <2>6. Filled(added.table, m, n)
    BY <1>4, <1>16, <2>3, <2>4, <2>5 DEF Filled, forms
  <2>7. QED
    BY <1>18, <2>6 DEF added, rule
<1>19. QED
  BY <1>17, <1>18

-----------------------------------------------------------------------------
(* validate's two loops.                                                   *)

\* The tables while rules are added, and whether nothing was thrown so far.
AccOK(acc) ==
  /\ acc = [ok |-> acc.ok, tables |-> acc.tables] /\ acc.ok \in BOOLEAN
  /\ acc.tables = [m \in Methods |-> acc.tables[m]]
  /\ \A m \in Methods : TableOK(acc.tables[m], Len(allRules))

Clash(rules) == \E n, k \in rules : n # k /\ Forms(n) \cap Forms(k) # {}

RulesFor(m) == {n \in DOMAIN allRules : m \in allRules[n].methods}

\* What justifies an exception of a first validate.
Cause ==
  \/ \E n \in DOMAIN allRules : ~allRules[n].handler
  \/ \E m \in Methods : Clash(RulesFor(m))

\* In the first validate, when the methods in done have the first n rules and
\* the others one less.
Filling(acc, done, n) ==
  IF acc.ok
  THEN /\ \A m \in done : Filled(acc.tables[m], m, n)
       /\ \A m \in Methods \ done : Filled(acc.tables[m], m, n - 1)
  ELSE Cause

LEMMA FilledMore ==
  ASSUME NEW table, NEW m, NEW n \in Nat, Filled(table, m, n - 1)
  PROVE  Filled(table, m, n)
<1>1. TableOK(table, n)
  <2>1. table.rules \in Seq(1..(n - 1))
    BY DEF Filled, TableOK
  <2>2. \A i \in 1..(n - 1) : i \in 1..n
    OBVIOUS
  <2>3. table.rules \in Seq(1..n)
    BY <2>1, <2>2
  <2>4. QED
    BY <2>3 DEF Filled, TableOK
<1>2. QED
  BY <1>1 DEF Filled

LEMMA AddedForMethodIs ==
  ASSUME allRules \in Seq(Registered), NEW n \in 1..Len(allRules),
         NEW acc, AccOK(acc), NEW m \in Methods, NEW done, m \notin done,
         done \subseteq Methods
  PROVE  /\ AccOK(AddedForMethod(acc, m, n))
         /\ Filling(acc, done, n) => Filling(AddedForMethod(acc, m, n), done \cup {m}, n)
<1> DEFINE r == AddedForMethod(acc, m, n)
           added == AddToMethod(acc.tables[m], allRules[n], n)
<1>1. n \in Nat /\ Len(allRules) \in Nat /\ allRules[n] \in Registered /\ n \in DOMAIN allRules
  OBVIOUS
<1>2. CASE ~acc.ok
  <2>1. r = acc
    BY <1>2, Zenon DEF AddedForMethod
  <2>2. QED
    BY <1>2, <2>1, Zenon DEF Filling
<1>3. CASE acc.ok /\ m \notin allRules[n].methods
  <2>1. r = acc
    BY <1>3, Zenon DEF AddedForMethod
  <2>2. ASSUME Filling(acc, done, n)
        PROVE  Filling(acc, done \cup {m}, n)
    <3>1. /\ \A k \in done : Filled(acc.tables[k], k, n)
          /\ \A k \in Methods \ done : Filled(acc.tables[k], k, n - 1)
      BY <1>3, <2>2, Zenon DEF Filling
    <3>2. Filled(acc.tables[m], m, n)
      BY <1>1, <3>1, FilledMore
    <3>3. QED
      BY <1>3, <3>1, <3>2, Zenon DEF Filling
  <2>3. QED
    BY <2>1, <2>2, Zenon
<1>4. CASE acc.ok /\ m \in allRules[n].methods
  <2> DEFINE tables == [acc.tables EXCEPT ![m] = added.table]
  <2>1. r = [ok |-> added.ok, tables |-> tables]
    BY <1>4, Zenon DEF AddedForMethod
  <2> HIDE DEF r
  <2>2. r.ok = added.ok /\ r.tables = tables
    BY <2>1
  <2>3. /\ acc.tables = [k \in Methods |-> acc.tables[k]]
        /\ \A k \in Methods : TableOK(acc.tables[k], Len(allRules))
    BY DEF AccOK
  <2>4. TableOK(added.table, Len(allRules)) /\ added.ok \in BOOLEAN
    BY <1>1, <2>3, AddToMethodType
  <2> HIDE DEF added
  <2>5. /\ tables = [k \in Methods |-> tables[k]] /\ tables[m] = added.table
        /\ \A k \in Methods : k # m => tables[k] = acc.tables[k]
    BY <2>3
  <2> HIDE DEF tables
  <2>6. \A k \in Methods : TableOK(tables[k], Len(allRules))
    BY <2>3, <2>4, <2>5
  <2>7. AccOK(r)
    BY <2>1, <2>2, <2>4, <2>5, <2>6, Zenon DEF AccOK
  <2>8. ASSUME Filling(acc, done, n)
        PROVE  Filling(r, done \cup {m}, n)
    <3>1. /\ \A k \in done : Filled(acc.tables[k], k, n)
          /\ \A k \in Methods \ done : Filled(acc.tables[k], k, n - 1)
      BY <1>4, <2>8, Zenon DEF Filling
    <3>2. Filled(acc.tables[m], m, n - 1)
      BY <3>1
    <3>3. IF added.ok THEN Filled(added.table, m, n)
          ELSE \E i \in 1..Len(acc.tables[m].rules) : Forms(acc.tables[m].rules[i]) \cap Forms(n) # {}
      BY <1>4, <3>2, AddToMethodFills DEF added
    <3>4. CASE added.ok
      <4>1. \A k \in done \cup {m} : Filled(tables[k], k, n)
        BY <2>5, <3>1, <3>3, <3>4
      <4>2. \A k \in Methods \ (done \cup {m}) : Filled(tables[k], k, n - 1)
        BY <2>5, <3>1
      <4>3. QED
        BY <2>2, <3>4, <4>1, <4>2, Zenon DEF Filling
    <3>5. CASE ~added.ok
      <4>1. PICK i \in 1..Len(acc.tables[m].rules) : Forms(acc.tables[m].rules[i]) \cap Forms(n) # {}
        BY <3>3, <3>5
      <4>2. /\ acc.tables[m].rules[i] \in 1..(n - 1)
            /\ m \in allRules[acc.tables[m].rules[i]].methods
        BY <3>2, <4>1 DEF Filled, TableOK
      <4>3. PICK k \in 1..(n - 1) : k = acc.tables[m].rules[i]
        BY <4>2
      <4>4. k \in DOMAIN allRules /\ k # n
        BY <1>1, <4>3
      <4>5. k \in RulesFor(m) /\ n \in RulesFor(m)
        BY <1>1, <1>4, <4>2, <4>3, <4>4 DEF RulesFor
      <4>6. Clash(RulesFor(m))
        BY <4>1, <4>3, <4>4, <4>5 DEF Clash
      <4>7. Cause
        BY <4>6 DEF Cause
      <4>8. QED
        BY <2>2, <3>5, <4>7, Zenon DEF Filling
    <3>6. QED
      BY <3>4, <3>5, Zenon
  <2>9. QED
    BY <2>7, <2>8 DEF r
<1>5. QED
  BY <1>2, <1>3, <1>4, Zenon

MethodStep(f, tables, n, k) ==
  IF k = 0 THEN [ok |-> TRUE, tables |-> tables]
  ELSE AddedForMethod(f[k - 1], MethodOrder[k], n)

MethodsUpTo(f, tables, n, last) == f = [k \in 0..last |-> MethodStep(f, tables, n, k)]

LEMMA SomeMethods ==
  ASSUME NEW tables, NEW n
  PROVE  \A last \in Nat : \E f : MethodsUpTo(f, tables, n, last)
<1> DEFINE T == {last \in Nat : \E f : MethodsUpTo(f, tables, n, last)}
<1>1. 0 \in T
  <2> DEFINE g == [k \in 0..0 |-> [ok |-> TRUE, tables |-> tables]]
  <2>1. \A k \in 0..0 : MethodStep(g, tables, n, k) = [ok |-> TRUE, tables |-> tables]
    BY DEF MethodStep
  <2>2. MethodsUpTo(g, tables, n, 0)
    BY <2>1 DEF MethodsUpTo
  <2>3. QED
    BY <2>2
<1>2. ASSUME NEW last \in Nat, last \in T
      PROVE  last + 1 \in T
  <2>1. PICK f : MethodsUpTo(f, tables, n, last)
    BY <1>2
  <2> DEFINE g == [k \in 0..(last + 1) |-> MethodStep(f, tables, n, k)]
  <2>2. \A k \in 0..last : g[k] = f[k]
    BY <2>1 DEF MethodsUpTo
  <2>3. ASSUME NEW k \in 0..(last + 1)
        PROVE  MethodStep(g, tables, n, k) = MethodStep(f, tables, n, k)
    <3>1. CASE k = 0
      BY <3>1 DEF MethodStep
    <3>2. CASE k # 0
      <4>1. k - 1 \in 0..last
        BY <3>2
      <4>2. g[k - 1] = f[k - 1]
        BY <2>2, <4>1
      <4> HIDE DEF g
      <4>3. QED
        BY <3>2, <4>2 DEF MethodStep
    <3>3. QED
      BY <3>1, <3>2
  <2>4. MethodsUpTo(g, tables, n, last + 1)
    BY <2>3 DEF MethodsUpTo
  <2>5. QED
    BY <2>4
<1>3. QED
  BY <1>1, <1>2, Induction

\* The loop comes to every method once.
LEMMA MethodOrderIs ==
  /\ MethodOrder \in Seq(Methods) /\ Len(MethodOrder) \in Nat
  /\ \A i, k \in 1..Len(MethodOrder) : MethodOrder[i] = MethodOrder[k] => i = k
  /\ {MethodOrder[i] : i \in 1..Len(MethodOrder)} = Methods
<1> DEFINE V == Len(Verbs)
           tail == <<"notFound", "methodNotAllowed">>
<1>1. Verbs \in Seq(VerbNames) /\ VerbNames \cap Special = {} /\ V \in Nat
  BY RouterAssumption
<1>2. \A i, k \in 1..V : Verbs[i] = Verbs[k] => i = k
  BY <1>1, RouterAssumption DEF IsInjective
<1>3. tail \in Seq(Special) /\ Len(tail) = 2 /\ tail[1] = "notFound" /\ tail[2] = "methodNotAllowed"
  BY DEF Special
<1>4. /\ MethodOrder \in Seq(Methods) /\ Len(MethodOrder) = V + 2
      /\ \A i \in 1..V : MethodOrder[i] = Verbs[i] /\ Verbs[i] \in VerbNames
      /\ MethodOrder[V + 1] = "notFound" /\ MethodOrder[V + 2] = "methodNotAllowed"
  <2>1. MethodOrder = Verbs \o tail
    BY DEF MethodOrder
  <2> HIDE DEF tail
  <2>2. MethodOrder \in Seq(Methods) /\ Len(MethodOrder) = V + 2
    <3>1. Verbs \in Seq(Methods) /\ tail \in Seq(Methods)
      BY <1>1, <1>3 DEF Methods
    <3>2. Verbs \o tail \in Seq(Methods) /\ Len(Verbs \o tail) = Len(Verbs) + Len(tail)
      BY <3>1, ConcatProperties
    <3>3. QED
      BY <1>3, <2>1, <3>2
  <2>3. \A i \in 1..V : MethodOrder[i] = Verbs[i] /\ Verbs[i] \in VerbNames
    BY <1>1, <1>3, <2>1
  <2>4. MethodOrder[V + 1] = tail[1] /\ MethodOrder[V + 2] = tail[2]
    <3>1. V + 1 \in (V + 1)..(V + 2) /\ V + 2 \in (V + 1)..(V + 2)
      BY <1>1
    <3>2. V + 1 - V = 1 /\ V + 2 - V = 2
      BY <1>1
    <3>3. Verbs \in Seq(Methods) /\ tail \in Seq(Methods)
      BY <1>1, <1>3 DEF Methods
    <3>4. \A i \in 1..(V + 2) : MethodOrder[i] = IF i <= V THEN Verbs[i] ELSE tail[i - V]
      BY <1>1, <1>3, <2>1, <3>3, ConcatProperties, ZenonT(60)
    <3>5. V + 1 \in 1..(V + 2) /\ V + 2 \in 1..(V + 2) /\ ~(V + 1 <= V) /\ ~(V + 2 <= V)
      BY <1>1
    <3>6. QED
      BY <3>2, <3>4, <3>5
  <2>5. QED
    BY <1>3, <2>2, <2>3, <2>4
<1>5. VerbNames = {Verbs[i] : i \in 1..V}
  BY <1>1 DEF VerbNames
<1>6. "notFound" \notin VerbNames /\ "methodNotAllowed" \notin VerbNames
  BY <1>1 DEF Special
<1>7. \A i \in 1..(V + 2) : i \in 1..V \/ i = V + 1 \/ i = V + 2
  BY <1>1
<1> HIDE DEF V, tail
<1>8. \A i, k \in 1..(V + 2) : MethodOrder[i] = MethodOrder[k] => i = k
  BY <1>2, <1>4, <1>6, <1>7
<1>9. \A m \in Methods : \E i \in 1..(V + 2) : MethodOrder[i] = m
  <2>1. SUFFICES ASSUME NEW m \in Methods
                 PROVE  \E i \in 1..(V + 2) : MethodOrder[i] = m
    OBVIOUS
  <2>2. \A i \in 1..V : i \in 1..(V + 2)
    BY <1>1
  <2>3. V + 1 \in 1..(V + 2) /\ V + 2 \in 1..(V + 2)
    BY <1>1
  <2>4. QED
    BY <1>4, <1>5, <2>2, <2>3 DEF Methods, Special
<1>10. QED
  BY <1>1, <1>4, <1>8, <1>9

LEMMA InternalAddIs ==
  ASSUME allRules \in Seq(Registered), NEW n \in 1..Len(allRules), NEW tables,
         AccOK([ok |-> TRUE, tables |-> tables])
  PROVE  /\ AccOK(InternalAddRuleObject(tables, n))
         /\ (\A m \in Methods : Filled(tables[m], m, n - 1))
              => Filling(InternalAddRuleObject(tables, n), Methods, n)
<1> DEFINE N == Len(MethodOrder)
           f == CHOOSE f : f = [k \in 0..N |-> MethodStep(f, tables, n, k)]
           start == [ok |-> TRUE, tables |-> tables]
<1>1. N \in Nat
  BY MethodOrderIs
<1>2. f = [k \in 0..N |-> MethodStep(f, tables, n, k)]
  <2>1. \E g : MethodsUpTo(g, tables, n, N)
    BY <1>1, SomeMethods
  <2>2. QED
    BY <2>1, Zenon DEF MethodsUpTo
<1>3. InternalAddRuleObject(tables, n) = f[N]
  BY Zenon DEF InternalAddRuleObject, MethodStep
<1> HIDE DEF f
<1>4. \A k \in 0..N : f[k] = MethodStep(f, tables, n, k)
  BY <1>2
<1>5. f[0] = start
  <2>1. 0 \in 0..N
    BY <1>1
  <2>2. f[0] = MethodStep(f, tables, n, 0)
    BY <1>4, <2>1
  <2>3. QED
    BY <2>2, Zenon DEF MethodStep
<1> DEFINE Done(k) == {MethodOrder[i] : i \in 1..k}
           First == \A m \in Methods : Filled(tables[m], m, n - 1)
           T == {k \in Nat : k <= N => AccOK(f[k]) /\ (First => Filling(f[k], Done(k), n))}
<1>6. start.ok /\ start.tables = tables
  BY Zenon
<1>7. 0 \in T
  <2>1. Done(0) = {}
    OBVIOUS
  <2>2. First => Filling(start, {}, n)
    BY <1>6, Zenon DEF Filling
  <2> HIDE DEF First, Done
  <2>3. QED
    BY <1>5, <2>1, <2>2
<1>8. ASSUME NEW k \in Nat, k \in T
      PROVE  k + 1 \in T
  <2>1. SUFFICES ASSUME k + 1 <= N
                 PROVE  AccOK(f[k + 1]) /\ (First => Filling(f[k + 1], Done(k + 1), n))
    OBVIOUS
  <2>2. AccOK(f[k]) /\ (First => Filling(f[k], Done(k), n))
    BY <1>1, <1>8, <2>1
  <2> DEFINE m == MethodOrder[k + 1]
  <2>3. k + 1 \in 0..N /\ k + 1 # 0 /\ k + 1 - 1 = k /\ k + 1 \in 1..N
    BY <1>1, <2>1
  <2>4. f[k + 1] = AddedForMethod(f[k], m, n)
    BY <1>4, <2>3 DEF MethodStep
  <2>5. m \in Methods /\ m \notin Done(k) /\ Done(k) \subseteq Methods
    <3>1. \A i \in 1..k : i \in 1..N /\ i # k + 1
      BY <1>1, <2>1
    <3>2. QED
      BY <2>3, <3>1, MethodOrderIs
  <2>6. Done(k + 1) = Done(k) \cup {m}
    <3>1. \A i \in 1..(k + 1) : i \in 1..k \/ i = k + 1
      OBVIOUS
    <3>2. \A i \in 1..k : i \in 1..(k + 1)
      OBVIOUS
    <3>3. QED
      BY <3>1, <3>2
  <2> HIDE DEF First, Done, m
  <2>7. QED
    BY <2>2, <2>4, <2>5, <2>6, AddedForMethodIs
<1>9. N \in T
  BY <1>1, <1>7, <1>8, Induction
<1>10. AccOK(f[N]) /\ (First => Filling(f[N], Done(N), n))
  BY <1>1, <1>9
<1>11. Done(N) = Methods
  BY MethodOrderIs
<1> HIDE DEF N, Done
<1>12. QED
  BY <1>3, <1>10, <1>11

\* One rule.
LEMMA AddedRuleIs ==
  ASSUME allRules \in Seq(Registered), NEW n \in 1..Len(allRules), NEW acc, AccOK(acc)
  PROVE  /\ AccOK(AddedRule(acc, n))
         /\ Filling(acc, Methods, n - 1) => Filling(AddedRule(acc, n), Methods, n)
<1> DEFINE r == AddedRule(acc, n)
<1>1. /\ acc = [ok |-> acc.ok, tables |-> acc.tables]
      /\ acc.tables = [m \in Methods |-> acc.tables[m]]
      /\ \A m \in Methods : TableOK(acc.tables[m], Len(allRules))
  BY DEF AccOK
<1>2. n \in DOMAIN allRules
  OBVIOUS
<1>3. CASE ~acc.ok \/ ~allRules[n].handler
  <2>1. r = [acc EXCEPT !.ok = FALSE]
    BY <1>3, Zenon DEF AddedRule
  <2>2. r = [ok |-> FALSE, tables |-> acc.tables]
    BY <1>1, <2>1
  <2> HIDE DEF r
  <2>3. r.ok = FALSE /\ r.tables = acc.tables
    BY <2>2
  <2>4. AccOK(r)
    BY <1>1, <2>2, <2>3, Zenon DEF AccOK
  <2>5. ASSUME Filling(acc, Methods, n - 1)
        PROVE  Filling(r, Methods, n)
    <3>1. CASE ~acc.ok
      <4>1. Cause
        BY <2>5, <3>1, Zenon DEF Filling
      <4>2. QED
        BY <2>3, <4>1, Zenon DEF Filling
    <3>2. CASE ~allRules[n].handler
      <4>1. Cause
        BY <1>2, <3>2, Zenon DEF Cause
      <4>2. QED
        BY <2>3, <4>1, Zenon DEF Filling
    <3>3. QED
      BY <1>3, <3>1, <3>2, Zenon
  <2>6. QED
    BY <2>4, <2>5 DEF r
<1>4. CASE acc.ok /\ allRules[n].handler
  <2>1. r = InternalAddRuleObject(acc.tables, n)
    BY <1>4, Zenon DEF AddedRule
  <2>2. acc.ok = TRUE
    BY <1>4, Zenon DEF AccOK
  <2>3. AccOK([ok |-> TRUE, tables |-> acc.tables])
    BY <1>1, <2>2, Zenon
  <2>4. Filling(acc, Methods, n - 1) => \A m \in Methods : Filled(acc.tables[m], m, n - 1)
    BY <1>4, Zenon DEF Filling
  <2>5. QED
    BY <2>1, <2>3, <2>4, InternalAddIs
<1>5. QED
  BY <1>3, <1>4, Zenon

RuleStep(f, k) ==
  IF k = 0 THEN [ok |-> TRUE, tables |-> perMethods] ELSE AddedRule(f[k - 1], k)

RulesUpTo(f, last) == f = [k \in 0..last |-> RuleStep(f, k)]

LEMMA SomeRules == \A last \in Nat : \E f : RulesUpTo(f, last)
<1> DEFINE T == {last \in Nat : \E f : RulesUpTo(f, last)}
<1>1. 0 \in T
  <2> DEFINE g == [k \in 0..0 |-> [ok |-> TRUE, tables |-> perMethods]]
  <2>1. \A k \in 0..0 : RuleStep(g, k) = [ok |-> TRUE, tables |-> perMethods]
    BY DEF RuleStep
  <2>2. RulesUpTo(g, 0)
    BY <2>1 DEF RulesUpTo
  <2>3. QED
    BY <2>2
<1>2. ASSUME NEW last \in Nat, last \in T
      PROVE  last + 1 \in T
  <2>1. PICK f : RulesUpTo(f, last)
    BY <1>2
  <2> DEFINE g == [k \in 0..(last + 1) |-> RuleStep(f, k)]
  <2>2. \A k \in 0..last : g[k] = f[k]
    BY <2>1 DEF RulesUpTo
  <2>3. ASSUME NEW k \in 0..(last + 1)
        PROVE  RuleStep(g, k) = RuleStep(f, k)
    <3>1. CASE k = 0
      BY <3>1 DEF RuleStep
    <3>2. CASE k # 0
      <4>1. k - 1 \in 0..last
        BY <3>2
      <4>2. g[k - 1] = f[k - 1]
        BY <2>2, <4>1
      <4> HIDE DEF g
      <4>3. QED
        BY <3>2, <4>2 DEF RuleStep
    <3>3. QED
      BY <3>1, <3>2
  <2>4. RulesUpTo(g, last + 1)
    BY <2>3 DEF RulesUpTo
  <2>5. QED
    BY <2>4
<1>3. QED
  BY <1>1, <1>2, Induction

LEMMA AddAllRulesIs ==
  ASSUME allRules \in Seq(Registered), AccOK([ok |-> TRUE, tables |-> perMethods])
  PROVE  /\ AccOK(AddAllRules)
         /\ (\A m \in Methods : Filled(perMethods[m], m, 0))
              => Filling(AddAllRules, Methods, Len(allRules))
<1> DEFINE N == Len(allRules)
           f == CHOOSE f : f = [k \in 0..N |-> RuleStep(f, k)]
           start == [ok |-> TRUE, tables |-> perMethods]
<1>1. N \in Nat
  OBVIOUS
<1>2. f = [k \in 0..N |-> RuleStep(f, k)]
  <2>1. \E g : RulesUpTo(g, N)
    BY <1>1, SomeRules
  <2>2. QED
    BY <2>1, Zenon DEF RulesUpTo
<1>3. AddAllRules = f[N]
  BY Zenon DEF AddAllRules, RuleStep
<1> HIDE DEF f
<1>4. \A k \in 0..N : f[k] = RuleStep(f, k)
  BY <1>2
<1>5. f[0] = start
  <2>1. 0 \in 0..N
    BY <1>1
  <2>2. f[0] = RuleStep(f, 0)
    BY <1>4, <2>1
  <2>3. QED
    BY <2>2, Zenon DEF RuleStep
<1> DEFINE First == \A m \in Methods : Filled(perMethods[m], m, 0)
           T == {k \in Nat : k <= N => AccOK(f[k]) /\ (First => Filling(f[k], Methods, k))}
<1>6. start.ok /\ start.tables = perMethods
  BY Zenon
<1>7. 0 \in T
  <2>1. First => Filling(start, Methods, 0)
    <3>1. Methods \ Methods = {}
      OBVIOUS
    <3>2. QED
      BY <1>6, <3>1, Zenon DEF Filling
  <2> HIDE DEF First
  <2>2. QED
    BY <1>5, <2>1
<1>8. ASSUME NEW k \in Nat, k \in T
      PROVE  k + 1 \in T
  <2>1. SUFFICES ASSUME k + 1 <= N
                 PROVE  AccOK(f[k + 1]) /\ (First => Filling(f[k + 1], Methods, k + 1))
    OBVIOUS
  <2>2. AccOK(f[k]) /\ (First => Filling(f[k], Methods, k))
    BY <1>1, <1>8, <2>1
  <2>3. PICK n \in 1..N : n = k + 1 /\ n - 1 = k /\ n \in 0..N /\ n # 0
    <3>1. k + 1 \in 1..N /\ k + 1 - 1 = k /\ k + 1 \in 0..N /\ k + 1 # 0
      BY <1>1, <2>1
    <3>2. QED
      BY <3>1
  <2>4. f[n] = AddedRule(f[k], n)
    BY <1>4, <2>3 DEF RuleStep
  <2> HIDE DEF First
  <2>5. AccOK(f[n]) /\ (First => Filling(f[n], Methods, n))
    BY <2>2, <2>3, <2>4, AddedRuleIs
  <2>6. QED
    BY <2>3, <2>5 DEF First
<1>9. N \in T
  BY <1>1, <1>7, <1>8, Induction
<1>10. QED
  BY <1>1, <1>3, <1>9

-----------------------------------------------------------------------------
(* optimize.                                                               *)

LEMMA GreatestOf ==
  ASSUME NEW n \in Nat, NEW S, S \subseteq 0..n, S # {}
  PROVE  \E x \in S : \A y \in S : y <= x
<1> DEFINE T == {k \in Nat : k <= n => \/ \E x \in S : \A y \in S : y <= x
                                       \/ \A y \in S : y <= n - k}
<1>1. 0 \in T
  OBVIOUS
<1>2. ASSUME NEW k \in Nat, k \in T
      PROVE  k + 1 \in T
  <2>1. SUFFICES ASSUME k + 1 <= n, ~\E x \in S : \A y \in S : y <= x
                 PROVE  \A y \in S : y <= n - (k + 1)
    OBVIOUS
  <2>2. \A y \in S : y <= n - k
    BY <1>2, <2>1
  <2>3. n - k \notin S
    BY <2>1, <2>2
  <2>4. ASSUME NEW y \in S
        PROVE  y <= n - (k + 1)
    <3>1. y \in Nat /\ y <= n - k /\ y # n - k
      BY <2>2, <2>3
    <3>2. QED
      BY <2>1, <3>1
  <2>5. QED
    BY <2>4
<1>3. n \in T
  BY <1>1, <1>2, Induction
<1>4. (\E x \in S : \A y \in S : y <= x) \/ \A y \in S : y <= 0
  <2>1. n - n = 0
    OBVIOUS
  <2>2. QED
    BY <1>3, <2>1
<1>5. ASSUME \A y \in S : y <= 0
      PROVE  \E x \in S : \A y \in S : y <= x
  <2>1. PICK x : x \in S
    OBVIOUS
  <2>2. x = 0
    BY <1>5, <2>1
  <2>3. QED
    BY <1>5, <2>1, <2>2
<1>6. QED
  BY <1>4, <1>5

\* Fragments below a position of a trie.
KidsOK(trie, kids, first) ==
  kids \in Kids /\ \A f \in DOMAIN kids : kids[f] \in first..Len(trie)

LEMMA ConcatLength ==
  ASSUME NEW S, NEW s \in Seq(S), NEW t \in Seq(S)
  PROVE  /\ s \o t \in Seq(S) /\ Len(s \o t) = Len(s) + Len(t)
         /\ Len(s) \in Nat /\ Len(t) \in Nat
  BY ConcatProperties

LEMMA MergedKids ==
  ASSUME NEW top, NEW trie, TrieOK(trie, top), NEW first \in Nat \ {0},
         NEW kids, KidsOK(trie, kids, first)
  PROVE  KidsOK(trie, Merged(trie, kids), first)
<1> DEFINE J == Joints(trie, kids)
           last(f) == LastJoint(J, f)
           D == {p[1] \o p[2] : p \in J}
           merged == Merged(trie, kids)
<1>1. merged = [f \in D |-> trie[kids[last(f)[1]]].kids[last(f)[2]]]
  BY DEF Merged
<1>2. ASSUME NEW p \in J
      PROVE  /\ p[1] \in Seq(Elements) \ {<<>>} /\ p[2] \in Seq(Elements) \ {<<>>}
             /\ trie[kids[p[1]]].kids[p[2]] \in first..Len(trie)
  <2>1. p[1] \in DOMAIN kids /\ p[2] \in DOMAIN trie[kids[p[1]]].kids
    BY DEF Joints
  <2>2. PICK k \in first..Len(trie) : k = kids[p[1]]
    BY <2>1 DEF KidsOK
  <2>3. Len(trie) \in Nat /\ k \in 1..Len(trie) /\ trie[k] \in Nodes /\ Below(trie[k], k + 1, Len(trie))
    BY <2>2 DEF TrieOK
  <2>4. trie[k].kids \in Kids
    BY <2>3 DEF Nodes
  <2>5. trie[k].kids[p[2]] \in (k + 1)..Len(trie)
    BY <2>1, <2>2, <2>3 DEF Below
  <2>6. trie[k].kids[p[2]] \in first..Len(trie)
    BY <2>2, <2>3, <2>5
  <2>7. p[2] \in Seq(Elements) \ {<<>>}
    BY <2>1, <2>2, <2>4, KidsType
  <2>8. p[1] \in Seq(Elements) \ {<<>>}
    BY <2>1, KidsType DEF KidsOK
  <2>9. QED
    BY <2>2, <2>6, <2>7, <2>8
<1> HIDE DEF J
\* Every joined fragment has a last pair.
<1>3. ASSUME NEW f \in D
      PROVE  last(f) \in J /\ f \in Seq(Elements) \ {<<>>}
  <2>1. PICK p \in J : f = p[1] \o p[2]
    OBVIOUS
  <2> DEFINE Q == {q \in J : q[1] \o q[2] = f}
             S == {Len(q[1]) : q \in Q}
  <2>2. \A q \in Q : Len(q[1]) \in 0..Len(f) /\ Len(f) \in Nat
    <3>1. SUFFICES ASSUME NEW q \in J, q[1] \o q[2] = f
                   PROVE  Len(q[1]) \in 0..Len(f) /\ Len(f) \in Nat
      OBVIOUS
    <3>2. q[1] \in Seq(Elements) /\ q[2] \in Seq(Elements)
      BY <1>2
    <3>3. PICK x \in Nat, y \in Nat : x = Len(q[1]) /\ Len(f) = x + y
      <4>1. Len(q[1] \o q[2]) = Len(q[1]) + Len(q[2]) /\ Len(q[1]) \in Nat /\ Len(q[2]) \in Nat
        BY <3>2, ConcatLength
      <4>2. QED
        BY <3>1, <4>1
    <3>4. QED
      BY <3>3
  <2>3. p \in Q /\ Len(f) \in Nat /\ S \subseteq 0..Len(f) /\ S # {}
    BY <2>1, <2>2
  <2>4. \E x \in S : \A y \in S : y <= x
    BY <2>3, GreatestOf
  <2>5. PICK q \in Q : \A r \in Q : Len(r[1]) <= Len(q[1])
    BY <2>4
  <2>6. /\ q \in J /\ q[1] \o q[2] = f
        /\ \A r \in J : r[1] \o r[2] = f => Len(r[1]) <= Len(q[1])
    BY <2>5
  <2>7. last(f) \in J
    BY <2>6, Zenon DEF LastJoint
  <2>8. p[1] \in Seq(Elements) /\ p[2] \in Seq(Elements) /\ p[1] # <<>>
    BY <1>2
  <2>9. f \in Seq(Elements) /\ Len(f) = Len(p[1]) + Len(p[2]) /\ Len(p[1]) > 0
    <3>1. /\ p[1] \o p[2] \in Seq(Elements) /\ Len(p[1] \o p[2]) = Len(p[1]) + Len(p[2])
          /\ Len(p[1]) \in Nat /\ Len(p[2]) \in Nat
      BY <2>8, ConcatLength
    <3>2. Len(p[1]) # 0
      BY <2>8, EmptySeq
    <3>3. QED
      BY <2>1, <3>1, <3>2
  <2>10. f # <<>>
    <3>1. Len(<<>>) = 0
      OBVIOUS
    <3>2. Len(f) # 0
      <4>1. PICK x \in Nat, y \in Nat : x = Len(p[1]) /\ y = Len(p[2])
        BY <2>8
      <4>2. Len(f) = x + y /\ x > 0
        BY <2>9, <4>1
      <4>3. QED
        BY <4>2
    <3>3. QED
      BY <3>1, <3>2
  <2>11. QED
    BY <2>7, <2>9, <2>10
<1>4. \A f \in D : trie[kids[last(f)[1]]].kids[last(f)[2]] \in first..Len(trie)
  BY <1>2, <1>3
<1> HIDE DEF last, D, merged
<1>5. DOMAIN merged = D /\ \A f \in D : merged[f] \in first..Len(trie)
  BY <1>1, <1>4
<1>6. merged \in [D -> Nat]
  <2>1. \A i \in first..Len(trie) : i \in Nat
    OBVIOUS
  <2>2. QED
    BY <1>1, <1>5, <2>1
<1>7. merged \in Kids
  BY <1>3, <1>6, KidsType
<1>8. QED
  BY <1>5, <1>7 DEF KidsOK, merged

LEMMA MergedOnceKids ==
  ASSUME NEW top, NEW trie, TrieOK(trie, top), NEW first \in Nat \ {0},
         NEW kids, KidsOK(trie, kids, first)
  PROVE  KidsOK(trie, MergedOnce(trie, kids), first)
BY MergedKids DEF MergedOnce

KidsStep(f, trie, n, k) == IF k = 0 THEN trie[n].kids ELSE MergedOnce(trie, f[k - 1])

KidsUpTo(f, trie, n, last) == f = [k \in 0..last |-> KidsStep(f, trie, n, k)]

LEMMA SomeKids ==
  ASSUME NEW trie, NEW n
  PROVE  \A last \in Nat : \E f : KidsUpTo(f, trie, n, last)
<1> DEFINE T == {last \in Nat : \E f : KidsUpTo(f, trie, n, last)}
<1>1. 0 \in T
  <2> DEFINE g == [k \in 0..0 |-> trie[n].kids]
  <2>1. \A k \in 0..0 : KidsStep(g, trie, n, k) = trie[n].kids
    BY DEF KidsStep
  <2>2. KidsUpTo(g, trie, n, 0)
    BY <2>1 DEF KidsUpTo
  <2>3. QED
    BY <2>2
<1>2. ASSUME NEW last \in Nat, last \in T
      PROVE  last + 1 \in T
  <2>1. PICK f : KidsUpTo(f, trie, n, last)
    BY <1>2
  <2> DEFINE g == [k \in 0..(last + 1) |-> KidsStep(f, trie, n, k)]
  <2>2. \A k \in 0..last : g[k] = f[k]
    BY <2>1 DEF KidsUpTo
  <2>3. ASSUME NEW k \in 0..(last + 1)
        PROVE  KidsStep(g, trie, n, k) = KidsStep(f, trie, n, k)
    <3>1. CASE k = 0
      BY <3>1 DEF KidsStep
    <3>2. CASE k # 0
      <4>1. k - 1 \in 0..last
        BY <3>2
      <4>2. g[k - 1] = f[k - 1]
        BY <2>2, <4>1
      <4> HIDE DEF g
      <4>3. QED
        BY <3>2, <4>2 DEF KidsStep
    <3>3. QED
      BY <3>1, <3>2
  <2>4. KidsUpTo(g, trie, n, last + 1)
    BY <2>3 DEF KidsUpTo
  <2>5. QED
    BY <2>4
<1>3. QED
  BY <1>1, <1>2, Induction

LEMMA OptimizeNodeIs ==
  ASSUME NEW top, NEW trie, TrieOK(trie, top), NEW n \in 1..Len(trie)
  PROVE  /\ OptimizeNode(trie, n) \in Nodes
         /\ OptimizeNode(trie, n).rule = trie[n].rule
         /\ Below(OptimizeNode(trie, n), n + 1, Len(trie))
<1> DEFINE N == Len(trie)
           f == CHOOSE f : f = [k \in 0..N |-> KidsStep(f, trie, n, k)]
           node == OptimizeNode(trie, n)
<1>1. N \in Nat /\ n + 1 \in Nat \ {0} /\ trie[n] \in Nodes /\ Below(trie[n], n + 1, N)
  BY DEF TrieOK
<1>2. f = [k \in 0..N |-> KidsStep(f, trie, n, k)]
  <2>1. \E g : KidsUpTo(g, trie, n, N)
    BY <1>1, SomeKids
  <2>2. QED
    BY <2>1, Zenon DEF KidsUpTo
<1>3. node = [trie[n] EXCEPT !.kids = f[N]]
  BY Zenon DEF OptimizeNode, KidsStep
<1> HIDE DEF f, node
<1>4. \A k \in 0..N : f[k] = KidsStep(f, trie, n, k)
  BY <1>2
<1> DEFINE T == {k \in Nat : k <= N => KidsOK(trie, f[k], n + 1)}
<1>5. 0 \in T
  <2>1. f[0] = trie[n].kids
    BY <1>1, <1>4 DEF KidsStep
  <2>2. KidsOK(trie, trie[n].kids, n + 1)
    BY <1>1 DEF KidsOK, Below, Nodes
  <2>3. QED
    BY <2>1, <2>2
<1>6. ASSUME NEW k \in Nat, k \in T
      PROVE  k + 1 \in T
  <2>1. SUFFICES ASSUME k + 1 <= N
                 PROVE  KidsOK(trie, f[k + 1], n + 1)
    OBVIOUS
  <2>2. KidsOK(trie, f[k], n + 1)
    BY <1>1, <1>6, <2>1
  <2>3. k + 1 \in 0..N /\ k + 1 # 0 /\ k + 1 - 1 = k
    BY <1>1, <2>1
  <2>4. f[k + 1] = MergedOnce(trie, f[k])
    BY <1>4, <2>3 DEF KidsStep
  <2>5. QED
    BY <1>1, <2>2, <2>4, MergedOnceKids
<1>7. N \in T
  BY <1>1, <1>5, <1>6, Induction
<1>8. KidsOK(trie, f[N], n + 1)
  BY <1>1, <1>7
<1>9. PICK r \in Nat, params \in [DOMAIN Tags -> Nat], kids \in Kids :
        trie[n] = [rule |-> r, params |-> params, kids |-> kids]
  BY <1>1 DEF Nodes
<1>10. node = [rule |-> r, params |-> params, kids |-> f[N]]
  BY <1>3, <1>9
<1>11. f[N] \in Kids /\ \A g \in DOMAIN f[N] : f[N][g] \in (n + 1)..N
  BY <1>8 DEF KidsOK
<1>12. node \in Nodes /\ node.rule = r /\ trie[n].rule = r
  BY <1>9, <1>10, <1>11 DEF Nodes
<1>13. \A p \in DOMAIN Tags : params[p] = 0 \/ params[p] \in (n + 1)..N
  BY <1>1, <1>9 DEF Below
<1>14. node.params = params /\ node.kids = f[N]
  BY <1>10
<1>15. Below(node, n + 1, N)
  BY <1>11, <1>13, <1>14 DEF Below
<1>16. QED
  BY <1>12, <1>15 DEF node

LEMMA OptimizeKeepsType ==
  ASSUME NEW top, NEW trie, TrieOK(trie, top)
  PROVE  TrieOK(Optimize(trie), top)
<1>1. trie \in Seq(Nodes) /\ Len(trie) \in Nat /\ Len(trie) >= 1 /\ DOMAIN trie = 1..Len(trie)
  BY DEF TrieOK
<1> DEFINE b == Optimize(trie)
<1>2. b = [n \in 1..Len(trie) |-> OptimizeNode(trie, n)]
  BY <1>1 DEF Optimize
<1> HIDE DEF b
<1>3. b \in Seq(Nodes) /\ Len(b) = Len(trie)
  <2>1. \A n \in 1..Len(trie) : OptimizeNode(trie, n) \in Nodes
    BY OptimizeNodeIs
  <2>2. QED
    BY <1>1, <1>2, <2>1
<1>4. ASSUME NEW k \in 1..Len(trie)
      PROVE  Below(b[k], k + 1, Len(trie)) /\ b[k].rule <= top
  <2>1. b[k] = OptimizeNode(trie, k)
    BY <1>2
  <2>2. trie[k].rule <= top
    BY DEF TrieOK
  <2>3. QED
    BY <2>1, <2>2, OptimizeNodeIs
<1>5. QED
  BY <1>1, <1>3, <1>4 DEF TrieOK, b

-----------------------------------------------------------------------------
(* The types of the state, and the forms that clash.                       *)

Fresh == [rules |-> <<>>, trie |-> NewTrie]

LEMMA FreshFilled ==
  ASSUME NEW m
  PROVE  Filled(Fresh, m, 0)
<1>1. /\ Fresh.rules = <<>> /\ Fresh.trie = NewTrie
      /\ Fresh = [rules |-> Fresh.rules, trie |-> Fresh.trie]
  BY DEF Fresh
<1>2. /\ NewTrie \in Seq(Nodes) /\ Len(NewTrie) = 1 /\ NewTrie[1] = EmptyNode
      /\ \A k \in 1..Len(NewTrie) : k = 1
  BY EmptyNodeType DEF NewTrie
<1>3. TrieOK(NewTrie, 0)
  <2>1. Below(EmptyNode, 1 + 1, 1) /\ EmptyNode.rule <= 0
    BY EmptyNodeType
  <2>2. QED
    BY <1>2, <2>1 DEF TrieOK
<1>4. <<>> \in Seq(1..0) /\ Len(<<>>) = 0 /\ 1..0 = {}
  OBVIOUS
<1>5. TableOK(Fresh, 0)
  BY <1>1, <1>3, <1>4 DEF TableOK
<1>6. Tree(NewTrie)
  BY <1>2, EmptyNodeType DEF Tree
<1> DEFINE forms == TableForms(Fresh)
<1>7. forms \in [1..0 -> SUBSET Seq(Elements)]
  BY <1>1, <1>4 DEF TableForms
<1>8. \A n \in 1..Len(NewTrie) : NewTrie[n].rule = 0
  BY <1>2, EmptyNodeType
<1> HIDE DEF forms
<1>9. Marks(NewTrie, forms, 0)
  BY <1>3, <1>4, <1>6, <1>7, <1>8 DEF Marks
<1>10. QED
  BY <1>1, <1>4, <1>5, <1>9 DEF Filled, forms

\* Two rules of a method that was filled have no form in common.
LEMMA FilledClear ==
  ASSUME NEW table, NEW m, NEW n, Filled(table, m, n)
  PROVE  ~Clash(ToSet(table.rules))
<1>1. SUFFICES ASSUME NEW a \in ToSet(table.rules), NEW b \in ToSet(table.rules), a # b,
                      NEW t \in Forms(a) \cap Forms(b)
               PROVE  FALSE
  BY DEF Clash
<1>2. PICK i \in 1..Len(table.rules) : a = table.rules[i]
  BY DEF ToSet, Filled, TableOK
<1>3. PICK j \in 1..Len(table.rules) : b = table.rules[j]
  BY DEF ToSet, Filled, TableOK
<1>4. Marks(table.trie, TableForms(table), Len(table.rules))
  BY DEF Filled
<1>5. t \in TableForms(table)[i] /\ t \in TableForms(table)[j]
  BY <1>1, <1>2, <1>3 DEF TableForms
<1>6. PICK x \in 1..Len(table.trie) : Leads(table.trie, t, x) /\ table.trie[x].rule = i
  BY <1>4, <1>5 DEF Marks
<1>7. PICK y \in 1..Len(table.trie) : Leads(table.trie, t, y) /\ table.trie[y].rule = j
  BY <1>4, <1>5 DEF Marks
<1>8. t \in Seq(Elements)
  BY <1>4, <1>5 DEF Marks
<1>9. x = y
  BY <1>6, <1>7, <1>8, LeadsOnce
<1>10. QED
  BY <1>1, <1>2, <1>3, <1>6, <1>7, <1>9

TablesOK ==
  /\ perMethods = [m \in Methods |-> perMethods[m]]
  /\ \A m \in Methods : TableOK(perMethods[m], Len(allRules))

RouterInv ==
  /\ AllRulesOK /\ TablesOK
  /\ Len(allRules) <= MaxRules /\ validates \in 0..MaxValidates
  /\ phase \in {"serving", "threwInRule", "threwInValidate"}
  /\ (phase = "serving" /\ validates = 0) => perMethods = [m \in Methods |-> Fresh]
  /\ DuplicatesRefused

LEMMA InvInit == Init => RouterInv
<1>1. SUFFICES ASSUME Init
               PROVE  RouterInv
  OBVIOUS
<1>2. /\ allRules = <<>> /\ validates = 0 /\ phase = "serving"
      /\ perMethods = [m \in Methods |-> Fresh]
  BY <1>1 DEF Init, Fresh
<1>3. AllRulesOK /\ Len(allRules) = 0
  BY <1>2 DEF AllRulesOK
<1>4. TablesOK
  <2>1. \A m \in Methods : perMethods[m] = Fresh
    BY <1>2
  <2>2. perMethods = [m \in Methods |-> perMethods[m]]
    BY <1>2
  <2>3. TableOK(Fresh, 0)
    BY FreshFilled DEF Filled
  <2>4. QED
    BY <1>3, <2>1, <2>2, <2>3 DEF TablesOK
<1>5. 0 <= MaxRules /\ validates \in 0..MaxValidates
  BY <1>2, RouterAssumption
<1>6. DuplicatesRefused
  BY <1>2 DEF DuplicatesRefused
<1>7. QED
  BY <1>2, <1>3, <1>4, <1>5, <1>6 DEF RouterInv

LEMMA MoreCount ==
  ASSUME NEW table, NEW count \in Nat, TableOK(table, count)
  PROVE  TableOK(table, count + 1)
<1>1. table.rules \in Seq(1..count)
  BY DEF TableOK
<1>2. \A i \in 1..count : i \in 1..(count + 1)
  OBVIOUS
<1>3. table.rules \in Seq(1..(count + 1))
  BY <1>1, <1>2
<1>4. QED
  BY <1>3 DEF TableOK

\* The two halves of DuplicatesRefused.
ServedClear ==
  (phase = "serving" /\ validates = 1) => \A m \in Methods : ~Clash(Validated(m))

ThrownForCause == phase = "threwInValidate" => validates > 0 \/ Cause

LEMMA RefusedIs ==
  /\ DuplicatesRefused <=> ServedClear /\ ThrownForCause
  /\ DuplicatesRefused' <=> ServedClear' /\ ThrownForCause'
<1>1. DuplicatesRefused <=> ServedClear /\ ThrownForCause
  BY Zenon DEF DuplicatesRefused, ServedClear, ThrownForCause, Cause, Clash, RulesFor
<1>2. DuplicatesRefused' <=> ServedClear' /\ ThrownForCause'
  BY Zenon DEF DuplicatesRefused, ServedClear, ThrownForCause, Cause, Clash, RulesFor
<1>3. QED
  BY <1>1, <1>2, Zenon

LEMMA SameRules ==
  ASSUME allRules' = allRules
  PROVE  /\ ThrownForCause /\ UNCHANGED <<phase, validates>> => ThrownForCause'
         /\ Cause => Cause'
         /\ ServedClear /\ UNCHANGED <<perMethods, phase, validates>> => ServedClear'
<1>1. \A n : (Forms(n))' = Forms(n)
  BY DEF Forms
<1>2. \A m : (RulesFor(m))' = RulesFor(m)
  BY DEF RulesFor
<1>3. ASSUME Cause
      PROVE  Cause'
  <2>1. CASE \E n \in DOMAIN allRules : ~allRules[n].handler
    BY <2>1 DEF Cause
  <2>2. ASSUME NEW m \in Methods, Clash(RulesFor(m))
        PROVE  Cause'
    <3>1. PICK n \in RulesFor(m), k \in RulesFor(m) : n # k /\ Forms(n) \cap Forms(k) # {}
      BY <2>2 DEF Clash
    <3>2. Clash(RulesFor(m))'
      BY <1>1, <1>2, <3>1 DEF Clash
    <3>3. QED
      BY <3>2 DEF Cause, Methods, VerbNames, Special
  <2>3. QED
    BY <1>3, <2>1, <2>2 DEF Cause
<1>4. ASSUME ThrownForCause, UNCHANGED <<phase, validates>>
      PROVE  ThrownForCause'
  BY <1>3, <1>4 DEF ThrownForCause
<1>5. ASSUME ServedClear, UNCHANGED <<perMethods, phase, validates>>
      PROVE  ServedClear'
  <2>1. SUFFICES ASSUME phase = "serving" /\ validates = 1, NEW m \in Methods, Clash(Validated(m))'
                 PROVE  FALSE
    BY <1>5 DEF ServedClear
  <2>2. (Validated(m))' = Validated(m)
    BY <1>5 DEF Validated
  <2>3. PICK n \in Validated(m), k \in Validated(m) : n # k /\ (Forms(n) \cap Forms(k) # {})'
    BY <2>1, <2>2 DEF Clash
  <2>4. Clash(Validated(m))
    BY <1>1, <2>3 DEF Clash
  <2>5. QED
    BY <1>5, <2>1, <2>4 DEF ServedClear
<1>6. QED
  BY <1>3, <1>4, <1>5

LEMMA InvNewRule ==
  ASSUME RouterInv, NEW choice \in RuleChoices, NewRule(choice), AllRulesOK'
  PROVE  RouterInv'
<1>1. CASE allRules' = allRules
  <2>1. UNCHANGED <<perMethods, validates>> /\ phase' \in {phase, "threwInRule"}
    BY DEF NewRule
  <2>2. AllRulesOK' /\ TablesOK'
    BY <1>1, <2>1 DEF RouterInv, TablesOK
  <2>3. ServedClear' /\ ThrownForCause'
    <3>1. ServedClear /\ ThrownForCause
      BY RefusedIs DEF RouterInv
    <3>2. CASE phase' = phase
      BY <1>1, <2>1, <3>1, <3>2, SameRules
    <3>3. CASE phase' = "threwInRule"
      BY <3>3 DEF ServedClear, ThrownForCause
    <3>4. QED
      BY <2>1, <3>2, <3>3
  <2>4. phase' = "serving" => phase = "serving"
    BY <2>1
  <2>5. phase' \in {"serving", "threwInRule", "threwInValidate"}
    BY <2>1 DEF RouterInv
  <2>6. QED
    BY <1>1, <2>1, <2>2, <2>3, <2>4, <2>5, RefusedIs DEF RouterInv
<1>2. CASE allRules' = Append(allRules, RuleOf(choice))
  <2>1. /\ UNCHANGED <<perMethods, validates>> /\ phase' \in {"serving", "threwInRule"}
        /\ phase = "serving" /\ Len(allRules) < MaxRules
    BY DEF NewRule
  <2>2. /\ allRules \in Seq(Registered) /\ Len(allRules) \in Nat /\ Len(allRules') = Len(allRules) + 1
        /\ \A n \in 1..Len(allRules) : allRules'[n] = allRules[n]
    BY <1>2 DEF RouterInv, AllRulesOK
  <2>3. TablesOK'
    <3>1. \A m \in Methods : TableOK(perMethods[m], Len(allRules) + 1)
      BY <2>2, MoreCount DEF RouterInv, TablesOK
    <3>2. QED
      BY <2>1, <2>2, <3>1 DEF RouterInv, TablesOK
  <2>4. ServedClear'
    <3>1. SUFFICES ASSUME validates = 1, NEW m \in Methods, Clash(Validated(m))'
                   PROVE  FALSE
      BY <2>1 DEF ServedClear
    <3>2. PICK a \in Validated(m), b \in Validated(m) : a # b /\ (Forms(a) \cap Forms(b) # {})'
      BY <2>1, <3>1 DEF Clash, Validated
    <3>3. Validated(m) \subseteq 1..Len(allRules)
      <4>1. perMethods[m].rules \in Seq(1..Len(allRules))
        BY DEF RouterInv, TablesOK, TableOK
      <4>2. QED
        BY <4>1 DEF Validated, ToSet
    <3>4. Forms(a)' = Forms(a) /\ Forms(b)' = Forms(b)
      BY <2>2, <3>3 DEF Forms
    <3>5. Clash(Validated(m))
      BY <3>2, <3>4 DEF Clash
    <3>6. QED
      BY <2>1, <3>1, <3>5, RefusedIs DEF RouterInv, ServedClear
  <2>5. ThrownForCause'
    BY <2>1 DEF ThrownForCause
  <2>6. Len(allRules') <= MaxRules
    BY <2>1, <2>2, RouterAssumption
  <2>7. QED
    BY <2>1, <2>3, <2>4, <2>5, <2>6, RefusedIs DEF RouterInv
<1>3. QED
  BY <1>1, <1>2 DEF NewRule

LEMMA InvValidate ==
  ASSUME RouterInv, Validate
  PROVE  RouterInv'
<1> DEFINE all == AddAllRules
<1>1. /\ UNCHANGED allRules /\ phase = "serving" /\ validates \in Nat
      /\ validates < MaxValidates /\ MaxValidates \in Nat
      /\ allRules \in Seq(Registered) /\ Len(allRules) \in Nat
  BY RouterAssumption DEF Validate, RouterInv, AllRulesOK
<1>2. AccOK([ok |-> TRUE, tables |-> perMethods])
  <2> DEFINE start == [ok |-> TRUE, tables |-> perMethods]
  <2>1. start.ok = TRUE /\ start.tables = perMethods
    BY Zenon
  <2>2. start = [ok |-> start.ok, tables |-> start.tables]
    BY Zenon
  <2>3. perMethods = [m \in Methods |-> perMethods[m]]
    BY DEF RouterInv, TablesOK
  <2>4. \A m \in Methods : TableOK(perMethods[m], Len(allRules))
    BY DEF RouterInv, TablesOK
  <2> HIDE DEF start
  <2>5. AccOK(start)
    BY <2>1, <2>2, <2>3, <2>4, Zenon DEF AccOK
  <2>6. QED
    BY <2>5 DEF start
<1>3. AccOK(all)
  BY <1>1, <1>2, AddAllRulesIs
<1>4. /\ all.tables = [m \in Methods |-> all.tables[m]]
      /\ \A m \in Methods : TableOK(all.tables[m], Len(allRules))
  BY <1>3 DEF AccOK
<1>5. validates = 0 => Filling(all, Methods, Len(allRules))
  <2>1. ASSUME validates = 0
        PROVE  \A m \in Methods : Filled(perMethods[m], m, 0)
    <3>1. \A m \in Methods : perMethods[m] = Fresh
      BY <1>1, <2>1 DEF RouterInv
    <3>2. QED
      BY <3>1, FreshFilled
  <2>2. QED
    BY <1>1, <1>2, <2>1, AddAllRulesIs
<1> HIDE DEF all
<1>6. AllRulesOK' /\ (Len(allRules) <= MaxRules)'
  BY <1>1 DEF AllRulesOK, RouterInv
<1>7. CASE all.ok
  <2>1. /\ perMethods' = [m \in Methods |-> [all.tables[m] EXCEPT !.trie = Optimize(@)]]
        /\ validates' = validates + 1 /\ phase' = phase
    BY <1>7, Zenon DEF Validate, all
  <2>2. ASSUME NEW m \in Methods
        PROVE  /\ TableOK(perMethods'[m], Len(allRules))
               /\ perMethods'[m].rules = all.tables[m].rules
    <3> DEFINE table == all.tables[m]
               after == perMethods'[m]
    <3>1. table = [rules |-> table.rules, trie |-> table.trie] /\ TableOK(table, Len(allRules))
      BY <1>4 DEF TableOK
    <3>2. after = [table EXCEPT !.trie = Optimize(@)]
      BY <2>1
    <3> HIDE DEF after, table
    <3>3. after = [rules |-> table.rules, trie |-> Optimize(table.trie)]
      BY <3>1, <3>2
    <3>4. after.rules = table.rules /\ after.trie = Optimize(table.trie)
      BY <3>3
    <3>5. TableOK(after, Len(allRules))
      BY <3>1, <3>3, <3>4, OptimizeKeepsType DEF TableOK
    <3>6. QED
      BY <3>4, <3>5 DEF after, table
  <2>3. TablesOK'
    <3>1. perMethods' = [m \in Methods |-> perMethods'[m]]
      BY <2>1
    <3>2. QED
      BY <1>1, <2>2, <3>1 DEF TablesOK
  <2>4. ServedClear'
    <3>1. SUFFICES ASSUME validates' = 1, NEW m \in Methods
                   PROVE  ~Clash(Validated(m))'
      BY DEF ServedClear
    <3>2. validates = 0
      BY <1>1, <2>1, <3>1
    <3>3. Filled(all.tables[m], m, Len(allRules))
      BY <1>5, <1>7, <3>2, Zenon DEF Filling
    <3>4. ~Clash(ToSet(all.tables[m].rules))
      BY <3>3, FilledClear
    <3>5. Validated(m)' = ToSet(all.tables[m].rules)
      BY <2>2 DEF Validated
    <3>6. QED
      BY <1>1, <3>4, <3>5, ZenonT(40) DEF Clash, Forms
  <2>5. ThrownForCause'
    BY <1>1, <2>1 DEF ThrownForCause
  <2>6. validates' \in 1..MaxValidates
    BY <1>1, <2>1
  <2>7. QED
    BY <1>1, <1>6, <2>1, <2>3, <2>4, <2>5, <2>6, RefusedIs DEF RouterInv
<1>8. CASE ~all.ok
  <2>1. perMethods' = all.tables /\ phase' = "threwInValidate" /\ validates' = validates
    BY <1>8, Zenon DEF Validate, all
  <2>2. TablesOK'
    BY <1>1, <1>4, <2>1 DEF TablesOK
  <2>3. ServedClear'
    BY <2>1 DEF ServedClear
  <2>4. ThrownForCause'
    <3>1. CASE validates = 0
      <4>1. Cause
        BY <1>5, <1>8, <3>1, Zenon DEF Filling
      <4>2. Cause'
        BY <1>1, <4>1, SameRules
      <4>3. QED
        BY <4>2 DEF ThrownForCause
    <3>2. CASE validates # 0
      BY <1>1, <2>1, <3>2 DEF ThrownForCause
    <3>3. QED
      BY <3>1, <3>2
  <2>5. QED
    BY <1>6, <2>1, <2>2, <2>3, <2>4, RefusedIs DEF RouterInv
<1>9. QED
  BY <1>7, <1>8

LEMMA InvRest ==
  ASSUME RouterInv, UNCHANGED <<allRules, perMethods, validates, phase>>
  PROVE  RouterInv'
<1>1. ServedClear /\ ThrownForCause
  BY RefusedIs DEF RouterInv
<1>2. ServedClear' /\ ThrownForCause'
  BY <1>1, SameRules
<1>3. AllRulesOK' /\ TablesOK'
  BY DEF RouterInv, AllRulesOK, TablesOK
<1>4. QED
  BY <1>2, <1>3, RefusedIs DEF RouterInv

LEMMA InvHolds == Spec => []RouterInv
<1>1. Init => RouterInv
  BY InvInit
<1>2. RouterInv /\ [Next]_vars /\ AllRulesOK' => RouterInv'
  <2>1. SUFFICES ASSUME RouterInv, [Next]_vars, AllRulesOK'
                 PROVE  RouterInv'
    OBVIOUS
  <2>2. ASSUME NEW choice \in RuleChoices, NewRule(choice)
        PROVE  RouterInv'
    BY <2>1, <2>2, InvNewRule
  <2>3. CASE Validate
    BY <2>1, <2>3, InvValidate
  <2>4. CASE UNCHANGED <<allRules, perMethods, validates, phase>>
    BY <2>1, <2>4, InvRest
  <2>5. QED
    BY <2>1, <2>2, <2>3, <2>4 DEF Next, vars, Handle, HandleUpgrade, GetRoutes, Answered
<1>3. QED
  BY <1>1, <1>2, AllRegistered, PTL DEF Spec

\* After any registrations and validates every rule has a method, every index
\* of a trie is one of its method's rules and every child comes after its
\* parent, also when an exception left validate half done and after optimize
\* has joined fragments: a search for a route ends, at a rule that exists.
THEOREM RouterTypesHold == Spec => []RouterTypeOK
<1>1. RouterInv => RouterTypeOK
  <2>1. SUFFICES ASSUME RouterInv
                 PROVE  RouterTypeOK
    OBVIOUS
  <2>2. allRules \in Seq(Registered) /\ DOMAIN allRules = 1..Len(allRules)
    BY <2>1 DEF RouterInv, AllRulesOK
  <2>3. \A n \in DOMAIN allRules : allRules[n].methods \in (SUBSET Methods) \ {{}}
    BY <2>2, RegisteredType
  <2>4. ASSUME NEW m \in Methods
        PROVE  /\ \A i \in DOMAIN perMethods[m].rules : perMethods[m].rules[i] \in DOMAIN allRules
               /\ \A k \in DOMAIN perMethods[m].trie :
                    /\ perMethods[m].trie[k].rule \in 0..Len(perMethods[m].rules)
                    /\ \A p \in DOMAIN Tags :
                         \/ perMethods[m].trie[k].params[p] = 0
                         \/ perMethods[m].trie[k].params[p] \in (k + 1)..Len(perMethods[m].trie)
                    /\ \A f \in DOMAIN perMethods[m].trie[k].kids :
                         /\ Len(f) > 0
                         /\ perMethods[m].trie[k].kids[f] \in (k + 1)..Len(perMethods[m].trie)
    <3> DEFINE rules == perMethods[m].rules
               trie  == perMethods[m].trie
    <3>1. rules \in Seq(1..Len(allRules)) /\ TrieOK(trie, Len(rules))
      BY <2>1 DEF RouterInv, TablesOK, TableOK
    <3> HIDE DEF rules, trie
    <3>2. \A i \in DOMAIN rules : rules[i] \in DOMAIN allRules
      BY <2>2, <3>1
    <3>3. ASSUME NEW k \in DOMAIN trie
          PROVE  /\ trie[k].rule \in 0..Len(rules)
                 /\ \A p \in DOMAIN Tags :
                      trie[k].params[p] = 0 \/ trie[k].params[p] \in (k + 1)..Len(trie)
                 /\ \A f \in DOMAIN trie[k].kids :
                      Len(f) > 0 /\ trie[k].kids[f] \in (k + 1)..Len(trie)
      <4>1. /\ k \in 1..Len(trie) /\ trie[k] \in Nodes
            /\ Below(trie[k], k + 1, Len(trie)) /\ trie[k].rule <= Len(rules)
        BY <3>1 DEF TrieOK
      <4>2. trie[k].rule \in 0..Len(rules)
        BY <3>1, <4>1 DEF Nodes
      <4>3. ASSUME NEW f \in DOMAIN trie[k].kids
            PROVE  Len(f) > 0
        <5>1. trie[k].kids \in Kids
          BY <4>1 DEF Nodes
        <5>2. f \in Seq(Elements) /\ f # <<>>
          BY <5>1, KidsType
        <5>3. QED
          BY <5>2, EmptySeq
      <4>4. QED
        BY <4>1, <4>2, <4>3 DEF Below
    <3>4. QED
      BY <3>2, <3>3 DEF rules, trie
  <2>5. QED
    BY <2>1, <2>3, <2>4 DEF RouterInv, RouterTypeOK
<1>2. QED
  BY <1>1, InvHolds, PTL

\* A first validate throws for a rule without a handler or for two rules of a
\* method with a form in common, and for nothing else; once it has run to its
\* end no two rules of a method have one.  The tries are trees in which a form
\* and a node with a rule lead to one another.
THEOREM DuplicatesAlwaysRefused == Spec => []DuplicatesRefused
<1>1. RouterInv => DuplicatesRefused
  BY DEF RouterInv
<1>2. QED
  BY <1>1, InvHolds, PTL
=============================================================================
