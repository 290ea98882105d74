-------------------------- MODULE Base64FileProofs --------------------------
(***************************************************************************)
(* Theorems about Base64File, for files of every length and every bytes,   *)
(* cut into pieces in every way.                                           *)
(***************************************************************************)
EXTENDS Base64File, SequenceTheorems, TLAPS

Byte == 0..255
Code == 0..63

-----------------------------------------------------------------------------
(* One triple and one group.                                               *)

LEMMA TripleFacts ==
  ASSUME NEW a \in Byte, NEW b \in Byte, NEW c \in Byte
  PROVE  /\ EncodeTriple(a, b, c) \in Seq(Code)
         /\ Len(EncodeTriple(a, b, c)) = 4
         /\ EncodeTriple(a, b, c)[1] = a \div 4
         /\ EncodeTriple(a, b, c)[2] = (a % 4) * 16 + b \div 16
         /\ EncodeTriple(a, b, c)[3] = (b % 16) * 4 + c \div 64
         /\ EncodeTriple(a, b, c)[4] = c % 64
<1>1. /\ a \div 4 \in Code /\ (a % 4) * 16 + b \div 16 \in Code
      /\ (b % 16) * 4 + c \div 64 \in Code /\ c % 64 \in Code
  BY DEF Byte, Code
<1>2. QED
  BY <1>1 DEF EncodeTriple

\* The arithmetic of three bytes in four codes.
LEMMA TripleInverse ==
  ASSUME NEW a \in Byte, NEW b \in Byte, NEW c \in Byte
  PROVE  LET c1 == a \div 4
             c2 == (a % 4) * 16 + b \div 16
             c3 == (b % 16) * 4 + c \div 64
             c4 == c % 64
         IN  /\ (c1 * 4) + ((c2 \div 16) % 4) = a
             /\ ((c2 * 16) % 256) + ((c3 \div 4) % 16) = b
             /\ ((c3 * 64) % 256) + c4 = c
BY DEF Byte

\* What DecodeGroup returns for a group that gives n bytes.
LEMMA GroupFields ==
  ASSUME NEW g, NEW n \in 1..3, ByteCount(g) = n, SpareBitsZero(g)
  PROVE  /\ DecodeGroup(g).ok
         /\ DecodeGroup(g).last <=> n < 3
         /\ Len(DecodeGroup(g).bytes) = n
         /\ \A j \in 1..n : DecodeGroup(g).bytes[j] = GroupBytes(g)[j]
<1>1. DecodeGroup(g).bytes = [j \in 1..n |-> GroupBytes(g)[j]]
  BY DEF DecodeGroup
<1>2. Len(DecodeGroup(g).bytes) = n
      /\ \A j \in 1..n : DecodeGroup(g).bytes[j] = GroupBytes(g)[j]
  BY <1>1
<1>3. DecodeGroup(g).last <=> n < 3
  <2>1. DecodeGroup(g).last <=> ByteCount(g) < 3
    BY Zenon DEF DecodeGroup
  <2>2. QED
    BY <2>1
<1>4. DecodeGroup(g).ok
  <2>1. ByteCount(g) > 0
    OBVIOUS
  <2>2. QED
    BY <2>1, Zenon DEF DecodeGroup
<1>5. QED
  BY <1>2, <1>3, <1>4

LEMMA OkIsTrue ==
  ASSUME NEW g, DecodeGroup(g).ok
  PROVE  DecodeGroup(g).ok = TRUE
<1>1. DecodeGroup(g).ok \in BOOLEAN
  BY Zenon DEF DecodeGroup
<1>2. QED
  BY <1>1, Zenon

LEMMA GroupOfThree ==
  ASSUME NEW a \in Byte, NEW b \in Byte, NEW c \in Byte, NEW g, Len(g) = 4,
         g[1] = a \div 4, g[2] = (a % 4) * 16 + b \div 16,
         g[3] = (b % 16) * 4 + c \div 64, g[4] = c % 64
  PROVE  /\ DecodeGroup(g).ok /\ ~DecodeGroup(g).last
         /\ Len(DecodeGroup(g).bytes) = 3
         /\ DecodeGroup(g).bytes[1] = a /\ DecodeGroup(g).bytes[2] = b
         /\ DecodeGroup(g).bytes[3] = c
<1>1. /\ a \div 4 \in Code /\ (a % 4) * 16 + b \div 16 \in Code
      /\ (b % 16) * 4 + c \div 64 \in Code /\ c % 64 \in Code
  BY DEF Byte, Code
<1>2. \A i \in 1..4 : HasCode(g, i) /\ CodeAt(g, i) = g[i]
  BY <1>1 DEF Code, Pad, HasCode, CodeAt
<1>3. ByteCount(g) = 3
  BY <1>2 DEF ByteCount
<1>4. /\ (g[1] * 4) + ((g[2] \div 16) % 4) = a
      /\ ((g[2] * 16) % 256) + ((g[3] \div 4) % 16) = b
      /\ ((g[3] * 64) % 256) + g[4] = c
  BY TripleInverse
<1>5. GroupBytes(g) = <<a, b, c>>
  BY <1>2, <1>4 DEF GroupBytes
<1>6. SpareBitsZero(g)
  BY <1>3 DEF SpareBitsZero
<1>7. QED
  BY <1>3, <1>5, <1>6, GroupFields

\* The last group, of two bytes, with its padding or without it.
LEMMA GroupOfTwo ==
  ASSUME NEW a \in Byte, NEW b \in Byte, NEW g, Len(g) = 3 \/ Len(g) = 4,
         g[1] = a \div 4, g[2] = (a % 4) * 16 + b \div 16, g[3] = (b % 16) * 4,
         Len(g) = 4 => g[4] = Pad
  PROVE  /\ DecodeGroup(g).ok /\ DecodeGroup(g).last
         /\ Len(DecodeGroup(g).bytes) = 2
         /\ DecodeGroup(g).bytes[1] = a /\ DecodeGroup(g).bytes[2] = b
<1>1. /\ a \div 4 \in Code /\ (a % 4) * 16 + b \div 16 \in Code /\ (b % 16) * 4 \in Code
  BY DEF Byte, Code
<1>2. \A i \in 1..3 : HasCode(g, i) /\ CodeAt(g, i) = g[i]
  <2>1. \A i \in 1..3 : g[i] \in Code /\ g[i] # Pad
    BY <1>1 DEF Code, Pad
  <2>2. \A i \in 1..3 : i <= Len(g)
    OBVIOUS
  <2>3. QED
    BY <2>1, <2>2 DEF HasCode, CodeAt
<1>3. ByteCount(g) = 2
  <2>1. ~HasCode(g, 4)
    <3>1. CASE Len(g) = 3
      <4>1. ~(4 <= Len(g))
        BY <3>1
      <4>2. QED
        BY <4>1 DEF HasCode
    <3>2. CASE Len(g) = 4
      BY <3>2 DEF HasCode
    <3>3. QED
      BY <3>1, <3>2
  <2>2. QED
    BY <1>2, <2>1 DEF ByteCount
<1>4. /\ (g[1] * 4) + ((g[2] \div 16) % 4) = a
      /\ ((g[2] * 16) % 256) + ((g[3] \div 4) % 16) = b
      /\ g[3] % 4 = 0
  <2>1. 0 \in Byte /\ (b % 16) * 4 + 0 \div 64 = (b % 16) * 4 /\ ((b % 16) * 4) % 4 = 0
    BY DEF Byte
  <2>2. QED
    BY <2>1, TripleInverse
<1>5. GroupBytes(g)[1] = a /\ GroupBytes(g)[2] = b
  BY <1>2, <1>4 DEF GroupBytes
<1>6. SpareBitsZero(g)
  BY <1>2, <1>3, <1>4 DEF SpareBitsZero
<1>7. QED
  BY <1>3, <1>5, <1>6, GroupFields

\* The last group, of one byte, with both, one or none of its paddings.
LEMMA GroupOfOne ==
  ASSUME NEW a \in Byte, NEW g, Len(g) = 2 \/ Len(g) = 3 \/ Len(g) = 4,
         g[1] = a \div 4, g[2] = (a % 4) * 16, Len(g) >= 3 => g[3] = Pad
  PROVE  /\ DecodeGroup(g).ok /\ DecodeGroup(g).last
         /\ Len(DecodeGroup(g).bytes) = 1
         /\ DecodeGroup(g).bytes[1] = a
<1>1. a \div 4 \in Code /\ (a % 4) * 16 \in Code
  BY DEF Byte, Code
<1>2. HasCode(g, 1) /\ CodeAt(g, 1) = g[1] /\ HasCode(g, 2) /\ CodeAt(g, 2) = g[2]
  <2>1. g[1] # Pad /\ g[2] # Pad
    <3>1. a \div 4 # 64 /\ (a % 4) * 16 # 64
      BY DEF Byte
    <3>2. QED
      BY <3>1 DEF Pad
  <2>2. 1 <= Len(g) /\ 2 <= Len(g)
    OBVIOUS
  <2>3. QED
    BY <2>1, <2>2 DEF HasCode, CodeAt
<1>3. ByteCount(g) = 1
  <2>1. ~HasCode(g, 3)
    <3>1. CASE Len(g) = 2
      <4>1. ~(3 <= Len(g))
        BY <3>1
      <4>2. QED
        BY <4>1 DEF HasCode
    <3>2. CASE Len(g) # 2
      <4>1. g[3] = Pad
        BY <3>2
      <4>2. QED
        BY <4>1 DEF HasCode
    <3>3. QED
      BY <3>1, <3>2
  <2>2. QED
    BY <1>2, <2>1 DEF ByteCount
<1>4. (g[1] * 4) + ((g[2] \div 16) % 4) = a /\ g[2] % 16 = 0
  <2>1. (a \div 4) * 4 + ((((a % 4) * 16) \div 16) % 4) = a /\ ((a % 4) * 16) % 16 = 0
    BY DEF Byte
  <2>2. QED
    BY <2>1
<1>5. GroupBytes(g)[1] = a
  BY <1>2, <1>4 DEF GroupBytes
<1>6. SpareBitsZero(g)
  BY <1>2, <1>3, <1>4 DEF SpareBitsZero
<1>7. QED
  BY <1>3, <1>5, <1>6, GroupFields

-----------------------------------------------------------------------------
(* The encoder.                                                            *)

\* The character at j of the encoding of bytes.
Char(bytes, j) ==
  LET i == 3 * ((j - 1) \div 4)
  IN  EncodeTriple(bytes[i + 1], bytes[i + 2], bytes[i + 3])[((j - 1) % 4) + 1]

\* c is what all triples of the first n bytes of f are encoded to.
Encodes(c, f, n) ==
  /\ c \in Seq(0..64)
  /\ Len(c) = 4 * (n \div 3)
  /\ \A j \in 1..Len(c) : c[j] = Char(f, j)

\* e keeps the bytes after those triples.
Keeps(e, f, n) ==
  /\ e.overflowCount = n % 3
  /\ n % 3 = 1 => e.overflow1 = f[n]
  /\ n % 3 = 2 => e.overflow1 = f[n - 1] /\ e.overflow2 = f[n]

EncoderState == [overflow1 : Byte, overflow2 : Byte, overflowCount : {0, 1, 2}]

LEMMA CharType ==
  ASSUME NEW f \in Seq(Byte), NEW j \in Nat \ {0}, 3 * ((j - 1) \div 4) + 3 <= Len(f)
  PROVE  Char(f, j) \in Code
<1> DEFINE i == 3 * ((j - 1) \div 4)
           k == ((j - 1) % 4) + 1
<1>1. i \in Nat /\ k \in 1..4 /\ i + 3 <= Len(f)
  OBVIOUS
<1>2. Char(f, j) = EncodeTriple(f[i + 1], f[i + 2], f[i + 3])[k]
  BY DEF Char
<1> HIDE DEF i, k
<1>3. i + 1 \in 1..Len(f) /\ i + 2 \in 1..Len(f) /\ i + 3 \in 1..Len(f)
  BY <1>1, LenProperties
<1>4. f[i + 1] \in Byte /\ f[i + 2] \in Byte /\ f[i + 3] \in Byte
  BY <1>3, ElementOfSeq
<1>5. /\ EncodeTriple(f[i + 1], f[i + 2], f[i + 3]) \in Seq(Code)
      /\ Len(EncodeTriple(f[i + 1], f[i + 2], f[i + 3])) = 4
  BY <1>4, TripleFacts
<1>6. QED
  BY <1>1, <1>2, <1>5, ElementOfSeq

LEMMA DropFacts ==
  ASSUME NEW S, NEW q \in Seq(S), NEW n \in 0..Len(q)
  PROVE  /\ Drop(q, n) \in Seq(S) /\ Len(Drop(q, n)) = Len(q) - n
         /\ \A i \in 1..(Len(q) - n) : Drop(q, n)[i] = q[n + i]
<1>1. Len(q) \in Nat /\ n \in Nat
  BY LenProperties
<1>2. \A j \in (n + 1)..Len(q) : q[j] \in S
  BY <1>1, ElementOfSeq
<1>3. /\ SubSeq(q, n + 1, Len(q)) \in Seq(S)
      /\ Len(SubSeq(q, n + 1, Len(q))) =
           (IF n + 1 <= Len(q) THEN Len(q) - (n + 1) + 1 ELSE 0)
      /\ \A j \in 1..(Len(q) - (n + 1) + 1) : SubSeq(q, n + 1, Len(q))[j] = q[n + 1 + j - 1]
  BY <1>1, <1>2, SubSeqProperties
<1>4. QED
  BY <1>1, <1>3 DEF Drop

LEMMA FourTimes ==
  \A q, x \in Nat : (4 * q + x) \div 4 = q + x \div 4 /\ (4 * q + x) % 4 = x % 4
OBVIOUS

LEMMA PrefixFacts ==
  ASSUME NEW S, NEW q \in Seq(S), NEW n \in 0..Len(q)
  PROVE  /\ SubSeq(q, 1, n) \in Seq(S) /\ Len(SubSeq(q, 1, n)) = n
         /\ \A i \in 1..n : SubSeq(q, 1, n)[i] = q[i]
<1>1. Len(q) \in Nat /\ n \in Nat /\ n <= Len(q)
  BY LenProperties
<1>2. \A j \in 1..n : q[j] \in S
  BY <1>1, ElementOfSeq
<1>3. /\ SubSeq(q, 1, n) \in Seq(S)
      /\ Len(SubSeq(q, 1, n)) = (IF 1 <= n THEN n - 1 + 1 ELSE 0)
      /\ \A j \in 1..(n - 1 + 1) : SubSeq(q, 1, n)[j] = q[1 + j - 1]
  BY <1>1, <1>2, SubSeqProperties
<1>4. QED
  BY <1>1, <1>3

LEMMA ByThree ==
  \A x \in Nat : x \div 3 \in Nat /\ x % 3 \in 0..2 /\ x = 3 * (x \div 3) + (x % 3)
OBVIOUS

LEMMA ThreeTimes ==
  \A q, x \in Nat : (3 * q + x) \div 3 = q + x \div 3 /\ (3 * q + x) % 3 = x % 3
OBVIOUS

LEMMA CodesAreChars == Seq(Code) \subseteq Seq(0..64)
BY DEF Code

LEMMA TriplesType ==
  ASSUME NEW rest \in Seq(Byte)
  PROVE  /\ EncodeTriples(rest) \in Seq(0..64)
         /\ Len(EncodeTriples(rest)) = 4 * (Len(rest) \div 3)
<1> DEFINE m == Len(rest) \div 3
<1>1. Len(rest) \in Nat /\ m \in Nat /\ 3 * m <= Len(rest)
  BY LenProperties
<1>2. EncodeTriples(rest) = [j \in 1..(4 * m) |-> Char(rest, j)]
  BY DEF EncodeTriples, Char
<1>3. ASSUME NEW j \in 1..(4 * m)
      PROVE  Char(rest, j) \in Code
  <2>1. j \in Nat \ {0} /\ (j - 1) \div 4 < m
    BY <1>1
  <2> HIDE DEF m
  <2>2. 3 * ((j - 1) \div 4) + 3 <= Len(rest)
    BY <1>1, <2>1
  <2>3. QED
    BY <2>1, <2>2, CharType
<1> HIDE DEF m
<1>4. QED
  BY <1>1, <1>2, <1>3 DEF Code, m

\* The loop encodes the triples that follow.
LEMMA TriplesFollow ==
  ASSUME NEW f \in Seq(Byte), NEW n \in Nat, n % 3 = 0, NEW c, Encodes(c, f, n),
         NEW rest \in Seq(Byte), n + Len(rest) <= Len(f),
         \A i \in 1..Len(rest) : rest[i] = f[n + i]
  PROVE  Encodes(c \o EncodeTriples(rest), f, n + Len(rest))
<1> DEFINE t == EncodeTriples(rest)
           q == n \div 3
           m == Len(rest) \div 3
<1>1. Len(f) \in Nat /\ Len(rest) \in Nat /\ q \in Nat /\ m \in Nat /\ n = 3 * q
      /\ 3 * m <= Len(rest) /\ (n + Len(rest)) \div 3 = q + m
  BY LenProperties
<1>2. c \in Seq(0..64) /\ Len(c) = 4 * q /\ \A j \in 1..(4 * q) : c[j] = Char(f, j)
  BY DEF Encodes
<1>3. t = [j \in 1..(4 * m) |-> Char(rest, j)]
  BY DEF EncodeTriples, Char
<1> HIDE DEF t
<1>4. ASSUME NEW j \in 1..(4 * m)
      PROVE  Char(rest, j) = Char(f, 4 * q + j) /\ Char(rest, j) \in Code
  <2> DEFINE i == 3 * ((j - 1) \div 4)
             k == ((j - 1) % 4) + 1
  <2>1. /\ i \in Nat /\ i + 3 <= Len(rest) /\ j \in Nat \ {0}
        /\ 3 * ((4 * q + j - 1) \div 4) = n + i
        /\ ((4 * q + j - 1) % 4) + 1 = k
    <3>1. j - 1 \in Nat /\ j \in Nat \ {0} /\ j <= 4 * m /\ i \in Nat
      BY <1>1
    <3>2. (j - 1) \div 4 < m
      BY <1>1, <3>1
    <3>3. /\ (4 * q + (j - 1)) \div 4 = q + (j - 1) \div 4
          /\ (4 * q + (j - 1)) % 4 = (j - 1) % 4
      BY <1>1, <3>1, FourTimes
    <3>4. 4 * q + j - 1 = 4 * q + (j - 1)
      BY <1>1, <3>1
    <3> HIDE DEF q, m
    <3>5. QED
      BY <1>1, <3>1, <3>2, <3>3, <3>4
  <2>2. Char(rest, j) = EncodeTriple(rest[i + 1], rest[i + 2], rest[i + 3])[k]
    BY DEF Char
  <2>3. Char(f, 4 * q + j) = EncodeTriple(f[n + i + 1], f[n + i + 2], f[n + i + 3])[k]
    <3> DEFINE p == 4 * q + j
    <3>1. 3 * ((p - 1) \div 4) = n + i /\ ((p - 1) % 4) + 1 = k
      BY <2>1
    <3> HIDE DEF p, i, k
    <3>2. Char(f, p) = EncodeTriple(f[n + i + 1], f[n + i + 2], f[n + i + 3])[k]
      BY <3>1, Zenon DEF Char
    <3>3. QED
      BY <3>2 DEF p
  <2>4. Char(rest, j) \in Code
    BY <2>1, CharType
  <2> HIDE DEF i, k
  <2>5. /\ i + 1 \in 1..Len(rest) /\ i + 2 \in 1..Len(rest) /\ i + 3 \in 1..Len(rest)
        /\ n + (i + 1) = n + i + 1 /\ n + (i + 2) = n + i + 2 /\ n + (i + 3) = n + i + 3
    BY <1>1, <2>1
  <2>6. rest[i + 1] = f[n + i + 1] /\ rest[i + 2] = f[n + i + 2] /\ rest[i + 3] = f[n + i + 3]
    BY <1>1, <2>1, <2>5
  <2>7. QED
    BY <2>2, <2>3, <2>4, <2>6
<1> HIDE DEF q, m
<1>5. t \in Seq(0..64) /\ Len(t) = 4 * m
  BY <1>1, <1>3, <1>4 DEF Code
<1>6. /\ c \o t \in Seq(0..64) /\ Len(c \o t) = 4 * q + 4 * m
      /\ \A j \in 1..(4 * q + 4 * m) :
           (c \o t)[j] = IF j <= 4 * q THEN c[j] ELSE t[j - 4 * q]
  BY <1>2, <1>5, ConcatProperties, SMTT(40)
<1>7. ASSUME NEW j \in 1..(4 * q + 4 * m)
      PROVE  (c \o t)[j] = Char(f, j)
  <2>1. CASE j <= 4 * q
    BY <1>1, <1>2, <1>6, <2>1
  <2>2. CASE j > 4 * q
    <3>1. j - 4 * q \in 1..(4 * m) /\ 4 * q + (j - 4 * q) = j /\ ~(j <= 4 * q)
      BY <1>1, <2>2
    <3>2. t[j - 4 * q] = Char(rest, j - 4 * q)
      BY <1>3, <3>1
    <3>3. QED
      BY <1>4, <1>6, <3>1, <3>2
  <2>3. j <= 4 * q \/ j > 4 * q
    BY <1>1
  <2>4. QED
    BY <2>1, <2>2, <2>3
<1>8. Len(c \o t) = 4 * ((n + Len(rest)) \div 3)
  BY <1>1, <1>6
<1>9. \A j \in 1..Len(c \o t) : (c \o t)[j] = Char(f, j)
  BY <1>6, <1>7
<1>10. QED
  BY <1>6, <1>8, <1>9 DEF Encodes, t

\* One triple is encoded as the loop would.
LEMMA TripleFollows ==
  ASSUME NEW f \in Seq(Byte), NEW n \in Nat, NEW b \in Nat, b % 3 = 0, b > n, b - n <= 3,
         b <= Len(f), NEW c, Encodes(c, f, n)
  PROVE  Encodes(c \o EncodeTriple(f[b - 2], f[b - 1], f[b]), f, b)
<1> DEFINE rest == <<f[b - 2], f[b - 1], f[b]>>
<1>1. b - 3 \in Nat /\ (b - 3) % 3 = 0 /\ (b - 3) \div 3 = n \div 3
  OBVIOUS
<1>2. Encodes(c, f, b - 3)
  BY <1>1 DEF Encodes
<1>3. f[b - 2] \in Byte /\ f[b - 1] \in Byte /\ f[b] \in Byte
  <2>1. b - 2 \in 1..Len(f) /\ b - 1 \in 1..Len(f) /\ b \in 1..Len(f)
    BY LenProperties
  <2>2. QED
    BY <2>1, ElementOfSeq
<1>4. /\ rest \in Seq(Byte) /\ Len(rest) = 3
      /\ rest[1] = f[b - 2] /\ rest[2] = f[b - 1] /\ rest[3] = f[b]
  BY <1>3
<1> HIDE DEF rest
<1>5. \A i \in 1..Len(rest) : rest[i] = f[(b - 3) + i]
  <2>1. (b - 3) + 1 = b - 2 /\ (b - 3) + 2 = b - 1 /\ (b - 3) + 3 = b
    OBVIOUS
  <2>2. QED
    BY <1>4, <2>1
<1>6. (b - 3) + Len(rest) = b
  BY <1>4
<1>7. Encodes(c \o EncodeTriples(rest), f, b)
  <2>1. Encodes(c \o EncodeTriples(rest), f, (b - 3) + Len(rest))
    BY <1>1, <1>2, <1>4, <1>5, <1>6, TriplesFollow
  <2>2. QED
    BY <1>6, <2>1
<1>8. EncodeTriples(rest) = EncodeTriple(rest[1], rest[2], rest[3])
  <2> DEFINE t == EncodeTriple(rest[1], rest[2], rest[3])
  <2>1. t \in Seq(Code) /\ Len(t) = 4
    <3>1. rest[1] \in Byte /\ rest[2] \in Byte /\ rest[3] \in Byte
      BY <1>3, <1>4
    <3>2. QED
      BY <3>1, TripleFacts
  <2>2. EncodeTriples(rest) = [j \in 1..4 |-> Char(rest, j)]
    <3>1. 4 * (Len(rest) \div 3) = 4
      BY <1>4
    <3>2. EncodeTriples(rest) = [j \in 1..(4 * (Len(rest) \div 3)) |-> Char(rest, j)]
      BY DEF EncodeTriples, Char
    <3>3. QED
      BY <3>1, <3>2
  <2>3. \A j \in 1..4 : Char(rest, j) = t[j]
    <3> SUFFICES ASSUME NEW j \in 1..4
                 PROVE  Char(rest, j) = t[j]
      OBVIOUS
    <3>1. 3 * ((j - 1) \div 4) = 0 /\ ((j - 1) % 4) + 1 = j
      OBVIOUS
    <3>2. QED
      BY <3>1 DEF Char
  <2> HIDE DEF t
  <2>4. t = [j \in 1..4 |-> t[j]]
    BY <2>1
  <2>5. QED
    BY <2>2, <2>3, <2>4 DEF t
<1>9. QED
  BY <1>4, <1>7, <1>8

LEMMA KeepsFirst ==
  ASSUME NEW e \in EncoderState, NEW x \in Byte
  PROVE  /\ KeepFirst(e, x) \in EncoderState
         /\ KeepFirst(e, x).overflow1 = x /\ KeepFirst(e, x).overflowCount = 1
BY DEF KeepFirst, EncoderState

LEMMA KeepsSecond ==
  ASSUME NEW e \in EncoderState, NEW x \in Byte
  PROVE  /\ KeepSecond(e, x) \in EncoderState
         /\ KeepSecond(e, x).overflow1 = e.overflow1 /\ KeepSecond(e, x).overflow2 = x
         /\ KeepSecond(e, x).overflowCount = 2
BY DEF KeepSecond, EncoderState

LEMMA LenOfOne == \A q : Len(q) = 1 => q # <<>>
OBVIOUS

\* What is left goes into an empty encoder.
LEMMA KeepRest ==
  ASSUME NEW e \in EncoderState, e.overflowCount = 0,
         NEW f \in Seq(Byte), NEW n \in Nat, n <= Len(f),
         NEW rest \in Seq(Byte), Len(rest) = n % 3,
         \A i \in 1..Len(rest) : rest[i] = f[n - Len(rest) + i]
  PROVE  Keep(e, rest) \in EncoderState /\ Keeps(Keep(e, rest), f, n)
<1>1. CASE n % 3 = 0
  <2>1. rest = <<>>
    BY <1>1
  <2>2. Keep(e, rest) = e
    BY <2>1 DEF Keep
  <2>3. QED
    BY <1>1, <2>2 DEF Keeps
<1>2. CASE n % 3 = 1
  <2>1. Len(rest) = 1 /\ rest # <<>> /\ rest[1] = f[n] /\ rest[1] \in Byte
    <3>1. Len(rest) = 1 /\ n - Len(rest) + 1 = n /\ 1 \in 1..Len(rest)
      BY <1>2
    <3>2. rest[1] \in Byte
      BY <3>1, ElementOfSeq
    <3>3. rest[1] = f[n]
      BY <3>1
    <3>4. QED
      BY <3>1, <3>2, <3>3
  <2>2. Tail(rest) = <<>>
    <3>1. Tail(rest) \in Seq(Byte) /\ Len(Tail(rest)) = Len(rest) - 1
      BY <2>1, HeadTailProperties
    <3>2. QED
      BY <2>1, <3>1, SMTT(40)
  <2>3. Keep(e, rest) = KeepFirst(e, rest[1])
    BY <2>1, <2>2 DEF Keep
  <2>4. QED
    BY <1>2, <2>1, <2>3, KeepsFirst DEF Keeps
<1>3. CASE n % 3 = 2
  <2>1. /\ Len(rest) = 2 /\ rest # <<>> /\ rest[1] = f[n - 1] /\ rest[2] = f[n]
        /\ rest[1] \in Byte /\ rest[2] \in Byte
    <3>1. Len(rest) = 2 /\ n - Len(rest) + 1 = n - 1 /\ n - Len(rest) + 2 = n
          /\ 1 \in 1..Len(rest) /\ 2 \in 1..Len(rest)
      BY <1>3
    <3>2. rest[1] \in Byte /\ rest[2] \in Byte
      BY <3>1, ElementOfSeq
    <3>3. rest[1] = f[n - 1] /\ rest[2] = f[n]
      BY <3>1
    <3>4. QED
      BY <3>1, <3>2, <3>3
  <2>2. Tail(rest) # <<>> /\ Tail(rest)[1] = rest[2]
    <3>1. /\ Tail(rest) \in Seq(Byte) /\ Len(Tail(rest)) = Len(rest) - 1
          /\ \A i \in 1..Len(Tail(rest)) : Tail(rest)[i] = rest[i + 1]
      BY <2>1, HeadTailProperties
    <3>2. Len(Tail(rest)) = 1
      BY <2>1, <3>1
    <3>3. Tail(rest) # <<>>
      BY <3>2, LenOfOne, Zenon
    <3>4. 1 \in 1..Len(Tail(rest)) /\ 1 + 1 = 2
      BY <3>2
    <3>5. Tail(rest)[1] = rest[2]
      BY <3>1, <3>4, Zenon
    <3>6. QED
      BY <3>3, <3>5, Zenon
  <2> DEFINE one == KeepFirst(e, rest[1])
  <2>3. one \in EncoderState /\ one.overflowCount = 1 /\ one.overflow1 = f[n - 1]
    BY <2>1, KeepsFirst
  <2>4. Keep(e, rest) = KeepSecond(one, rest[2])
    <3>1. Keep(e, rest) = IF Tail(rest) # <<>> /\ one.overflowCount = 1
                          THEN KeepSecond(one, Tail(rest)[1]) ELSE one
      BY <2>1 DEF Keep
    <3> HIDE DEF one
    <3>2. QED
      BY <2>2, <2>3, <3>1, Zenon
  <2> HIDE DEF one
  <2> DEFINE two == KeepSecond(one, rest[2])
  <2>5. /\ two \in EncoderState /\ two.overflow1 = f[n - 1] /\ two.overflow2 = f[n]
        /\ two.overflowCount = 2
    BY <2>1, <2>3, KeepsSecond
  <2> HIDE DEF two
  <2>6. Keeps(two, f, n)
    BY <1>3, <2>5 DEF Keeps
  <2>7. QED
    BY <2>4, <2>5, <2>6 DEF two
<1>4. n % 3 \in {0, 1, 2}
  OBVIOUS
<1>5. QED
  BY <1>1, <1>2, <1>3, <1>4

\* q is what f holds after its first n bytes, or the beginning of it.
Follows(q, f, n) ==
  /\ q \in Seq(Byte) /\ n + Len(q) <= Len(f)
  /\ \A i \in 1..Len(q) : q[i] = f[n + i]

\* From where a triple ends: the loop, and then what is left.
LEMMA LoopAndRest ==
  ASSUME NEW f \in Seq(Byte), NEW b \in Nat, b % 3 = 0, NEW c, Encodes(c, f, b),
         NEW e \in EncoderState, e.overflowCount = 0, NEW rest, Follows(rest, f, b)
  PROVE  /\ Encodes(c \o EncodeTriples(rest), f, b + Len(rest))
         /\ Keep(e, Drop(rest, 3 * (Len(rest) \div 3))) \in EncoderState
         /\ Keeps(Keep(e, Drop(rest, 3 * (Len(rest) \div 3))), f, b + Len(rest))
<1> DEFINE t == 3 * (Len(rest) \div 3)
           left == Drop(rest, t)
           n == b + Len(rest)
<1>1. /\ rest \in Seq(Byte) /\ b + Len(rest) <= Len(f)
      /\ \A i \in 1..Len(rest) : rest[i] = f[b + i]
  BY DEF Follows
<1>2. Len(rest) \in Nat /\ t \in 0..Len(rest) /\ n \in Nat
      /\ Len(rest) - t = n % 3 /\ n - (n % 3) = b + t
  <2> DEFINE k == Len(rest)
             q == b \div 3
  <2>1. k \in Nat
    BY <1>1, LenProperties
  <2> HIDE DEF k
  <2>2. t \in 0..k /\ k - t = k % 3
    BY <2>1 DEF k
  <2>3. q \in Nat /\ b = 3 * q
    OBVIOUS
  <2> HIDE DEF q
  <2>4. (3 * q + k) % 3 = k % 3
    BY <2>1, <2>3, ThreeTimes
  <2> HIDE DEF t
  <2>5. QED
    BY <2>1, <2>2, <2>3, <2>4 DEF k
<1>3. Encodes(c \o EncodeTriples(rest), f, n)
  BY <1>1, TriplesFollow
<1> HIDE DEF t, n
<1>4. /\ left \in Seq(Byte) /\ Len(left) = n % 3
      /\ \A i \in 1..(Len(rest) - t) : left[i] = rest[t + i]
  BY <1>1, <1>2, DropFacts, ZenonT(60)
<1> HIDE DEF left
<1>5. \A i \in 1..Len(left) : left[i] = f[n - Len(left) + i]
  <2> SUFFICES ASSUME NEW i \in 1..Len(left)
               PROVE  left[i] = f[n - Len(left) + i]
    OBVIOUS
  <2>1. t + i \in 1..Len(rest) /\ n - Len(left) + i = b + (t + i) /\ left[i] = rest[t + i]
    BY <1>2, <1>4, SMTT(40)
  <2>2. QED
    BY <1>1, <2>1
<1>6. n <= Len(f)
  BY <1>1 DEF n
<1>7. Keep(e, left) \in EncoderState /\ Keeps(Keep(e, left), f, n)
  BY <1>2, <1>4, <1>5, <1>6, KeepRest
<1>8. QED
  BY <1>3, <1>7 DEF t, left, n

LEMMA CompletesFacts ==
  ASSUME NEW e \in EncoderState, NEW data \in Seq(Byte), data # <<>>
  PROVE  /\ e.overflowCount = 0 => Completes(e, data) = 0
         /\ e.overflowCount = 1 /\ Len(data) = 1 => Completes(e, data) = 0
         /\ e.overflowCount = 1 /\ Len(data) >= 2 => Completes(e, data) = 2
         /\ e.overflowCount = 2 => Completes(e, data) = 1
<1>1. Len(data) \in Nat
  BY LenProperties
<1>2. e.overflowCount = 0 => Completes(e, data) = 0
  BY DEF Completes
<1>3. e.overflowCount = 1 /\ Len(data) = 1 => Completes(e, data) = 0
  BY DEF Completes
<1>4. e.overflowCount = 1 /\ Len(data) >= 2 => Completes(e, data) = 2
  BY <1>1 DEF Completes
<1>5. e.overflowCount = 2 => Completes(e, data) = 1
  BY DEF Completes
<1>6. QED
  BY <1>2, <1>3, <1>4, <1>5

\* What a piece still holds after its first m bytes.
LEMMA PieceRest ==
  ASSUME NEW f \in Seq(Byte), NEW n \in Nat, NEW data, Follows(data, f, n),
         NEW m \in 0..Len(data)
  PROVE  /\ Follows(Drop(data, m), f, n + m)
         /\ Len(Drop(data, m)) = Len(data) - m
<1>1. /\ data \in Seq(Byte) /\ n + Len(data) <= Len(f)
      /\ \A i \in 1..Len(data) : data[i] = f[n + i]
  BY DEF Follows
<1>2. Len(data) \in Nat /\ m \in Nat /\ Len(f) \in Nat
  BY <1>1, LenProperties
<1>3. /\ Drop(data, m) \in Seq(Byte) /\ Len(Drop(data, m)) = Len(data) - m
      /\ \A i \in 1..(Len(data) - m) : Drop(data, m)[i] = data[m + i]
  BY <1>1, DropFacts
<1>4. \A i \in 1..(Len(data) - m) : m + i \in 1..Len(data) /\ n + (m + i) = (n + m) + i
  BY <1>2
<1>5. (n + m) + (Len(data) - m) = n + Len(data)
  BY <1>2
<1>6. QED
  BY <1>1, <1>2, <1>3, <1>4, <1>5 DEF Follows

LEMMA PieceWhole ==
  ASSUME NEW f \in Seq(Byte), NEW n \in Nat, NEW data, Follows(data, f, n)
  PROVE  Follows(Drop(data, 0), f, n) /\ Len(Drop(data, 0)) = Len(data)
<1>1. Len(data) \in Nat /\ 0 \in 0..Len(data) /\ n + 0 = n
  BY LenProperties DEF Follows
<1>2. Follows(Drop(data, 0), f, n + 0) /\ Len(Drop(data, 0)) = Len(data) - 0
  BY <1>1, PieceRest
<1>3. QED
  BY <1>1, <1>2

\* The next n bytes of a file.
LEMMA PieceFollows ==
  ASSUME NEW f \in Seq(Byte), NEW m \in Nat, NEW n \in Nat \ {0}, m + n <= Len(f)
  PROVE  /\ Follows(SubSeq(f, m + 1, m + n), f, m)
         /\ Len(SubSeq(f, m + 1, m + n)) = n /\ SubSeq(f, m + 1, m + n) # <<>>
<1> DEFINE d == SubSeq(f, m + 1, m + n)
<1>1. Len(f) \in Nat
  BY LenProperties
<1>2. \A j \in (m + 1)..(m + n) : f[j] \in Byte
  BY <1>1, ElementOfSeq
<1>3. /\ d \in Seq(Byte)
      /\ Len(d) = (IF m + 1 <= m + n THEN m + n - (m + 1) + 1 ELSE 0)
      /\ \A j \in 1..(m + n - (m + 1) + 1) : d[j] = f[m + 1 + j - 1]
  BY <1>2, SubSeqProperties
<1> HIDE DEF d
<1>4. Len(d) = n /\ \A j \in 1..n : d[j] = f[m + j]
  BY <1>3
<1>5. d # <<>>
  BY <1>4
<1>6. Follows(d, f, m)
  BY <1>3, <1>4 DEF Follows
<1>7. QED
  BY <1>4, <1>5, <1>6 DEF d

\* The encoder keeps its promise with one more piece.
LEMMA EncodePiece ==
  ASSUME NEW f \in Seq(Byte), NEW n \in Nat, NEW c, Encodes(c, f, n),
         NEW e \in EncoderState, Keeps(e, f, n),
         NEW data, data # <<>>, Follows(data, f, n)
  PROVE  /\ Encode(e, data).encoder \in EncoderState
         /\ Keeps(Encode(e, data).encoder, f, n + Len(data))
         /\ Encodes(c \o Encode(e, data).chars, f, n + Len(data))
<1> DEFINE k == Len(data)
           zero == [e EXCEPT !.overflowCount = 0]
<1>1. /\ k \in Nat \ {0} /\ k = Len(data) /\ Len(f) \in Nat /\ n + k <= Len(f)
      /\ data \in Seq(Byte) /\ \A i \in 1..k : data[i] = f[n + i]
  <2>1. /\ data \in Seq(Byte) /\ n + k <= Len(f) /\ \A i \in 1..k : data[i] = f[n + i]
    BY DEF Follows
  <2>2. k \in Nat /\ Len(f) \in Nat /\ k # 0
    BY <2>1, LenProperties, EmptySeq
  <2>3. QED
    BY <2>1, <2>2
<1>2. c \in Seq(0..64)
  BY DEF Encodes
<1>3. zero \in EncoderState /\ zero.overflowCount = 0
  BY DEF EncoderState
<1> HIDE DEF zero
<1> HIDE DEF k
<1>4. ASSUME NEW b \in Nat, b % 3 = 0, NEW begun \in Seq(0..64), Encodes(c \o begun, f, b),
             NEW e0 \in EncoderState, e0.overflowCount = 0,
             NEW rest, Follows(rest, f, b), b + Len(rest) = n + k,
             Encode(e, data).encoder = Keep(e0, Drop(rest, 3 * (Len(rest) \div 3))),
             Encode(e, data).chars = begun \o EncodeTriples(rest)
      PROVE  /\ Encode(e, data).encoder \in EncoderState
             /\ Keeps(Encode(e, data).encoder, f, n + k)
             /\ Encodes(c \o Encode(e, data).chars, f, n + k)
  <2>1. /\ Encodes((c \o begun) \o EncodeTriples(rest), f, b + Len(rest))
        /\ Keep(e0, Drop(rest, 3 * (Len(rest) \div 3))) \in EncoderState
        /\ Keeps(Keep(e0, Drop(rest, 3 * (Len(rest) \div 3))), f, b + Len(rest))
    BY <1>4, LoopAndRest
  <2>2. EncodeTriples(rest) \in Seq(0..64)
    BY <1>4, TriplesType DEF Follows
  <2>3. (c \o begun) \o EncodeTriples(rest) = c \o (begun \o EncodeTriples(rest))
    BY <1>2, <2>2, ConcatAssociative, SMTT(40)
  <2>4. QED
    BY <1>4, <2>1, <2>3
<1>5. CASE e.overflowCount = 0
  <2>1. n % 3 = 0 /\ n + 0 = n /\ 0 \in 0..k
    BY <1>1, <1>5 DEF Keeps
  <2>2. Completes(e, data) = 0
    BY <1>1, <1>5, CompletesFacts
  <2>3. /\ Encode(e, data).encoder
             = Keep(e, Drop(Drop(data, 0), 3 * (Len(Drop(data, 0)) \div 3)))
        /\ Encode(e, data).chars = <<>> \o EncodeTriples(Drop(data, 0))
    BY <2>2 DEF Encode
  <2>4. c \o <<>> = c /\ <<>> \in Seq(0..64)
    BY <1>2, ConcatEmptySeq
  <2>5. Encodes(c \o <<>>, f, n)
    BY <2>4
  <2>6. Follows(Drop(data, 0), f, n) /\ n + Len(Drop(data, 0)) = n + k
    BY <1>1, PieceWhole
  <2>7. QED
    BY <1>1, <1>4, <1>5, <2>1, <2>3, <2>4, <2>5, <2>6
<1>6. CASE e.overflowCount = 1 /\ k >= 2
  <2>1. n % 3 = 1 /\ e.overflow1 = f[n] /\ n >= 1
    BY <1>6 DEF Keeps
  <2>2. Completes(e, data) = 2
    BY <1>1, <1>6, CompletesFacts
  <2> DEFINE begun == EncodeTriple(e.overflow1, data[1], data[2])
  <2>3. /\ Encode(e, data).encoder
             = Keep(zero, Drop(Drop(data, 2), 3 * (Len(Drop(data, 2)) \div 3)))
        /\ Encode(e, data).chars = begun \o EncodeTriples(Drop(data, 2))
    BY <2>2 DEF Encode, zero
  <2>4. /\ (n + 2) % 3 = 0 /\ n + 2 \in Nat /\ n + 2 > n /\ n + 2 - n <= 3 /\ n + 2 <= Len(f)
        /\ n + 2 - 2 = n /\ n + 2 - 1 = n + 1 /\ 1 \in 1..k /\ 2 \in 1..k /\ 2 \in 0..k
        /\ n \in 1..Len(f) /\ n + 1 \in 1..Len(f) /\ n + 2 \in 1..Len(f)
    <3>1. (n + 2) % 3 = 0
      BY <2>1
    <3>2. QED
      BY <1>1, <1>6, <2>1, <3>1
  <2>5. data[1] = f[n + 1] /\ data[2] = f[n + 2]
    BY <1>1, <2>4
  <2>6. begun = EncodeTriple(f[n], f[n + 1], f[n + 2])
    BY <2>1, <2>5
  <2> HIDE DEF begun
  <2>7. begun \in Seq(0..64)
    <3>1. f[n] \in Byte /\ f[n + 1] \in Byte /\ f[n + 2] \in Byte
      BY <2>4, ElementOfSeq
    <3>2. QED
      BY <2>6, <3>1, TripleFacts, CodesAreChars
  <2>8. Encodes(c \o begun, f, n + 2)
    BY <2>4, <2>6, TripleFollows
  <2>9. Follows(Drop(data, 2), f, n + 2) /\ (n + 2) + Len(Drop(data, 2)) = n + k
    <3>1. Follows(Drop(data, 2), f, n + 2) /\ Len(Drop(data, 2)) = k - 2
      BY <1>1, <2>4, PieceRest
    <3>2. QED
      BY <1>1, <3>1
  <2>10. QED
    BY <1>1, <1>3, <1>4, <2>3, <2>4, <2>7, <2>8, <2>9, ZenonT(60)
<1>7. CASE e.overflowCount = 2
  <2>1. n % 3 = 2 /\ e.overflow1 = f[n - 1] /\ e.overflow2 = f[n] /\ n >= 2
    BY <1>7 DEF Keeps
  <2>2. Completes(e, data) = 1
    BY <1>1, <1>7, CompletesFacts
  <2> DEFINE begun == EncodeTriple(e.overflow1, e.overflow2, data[1])
  <2>3. /\ Encode(e, data).encoder
             = Keep(zero, Drop(Drop(data, 1), 3 * (Len(Drop(data, 1)) \div 3)))
        /\ Encode(e, data).chars = begun \o EncodeTriples(Drop(data, 1))
    BY <2>2 DEF Encode, zero
  <2>4. /\ (n + 1) % 3 = 0 /\ n + 1 \in Nat /\ n + 1 > n /\ n + 1 - n <= 3 /\ n + 1 <= Len(f)
        /\ n + 1 - 2 = n - 1 /\ n + 1 - 1 = n /\ 1 \in 1..k /\ 1 \in 0..k
        /\ n - 1 \in 1..Len(f) /\ n \in 1..Len(f) /\ n + 1 \in 1..Len(f)
    BY <1>1, <2>1
  <2>5. data[1] = f[n + 1]
    BY <1>1, <2>4
  <2>6. begun = EncodeTriple(f[n - 1], f[n], f[n + 1])
    BY <2>1, <2>5
  <2> HIDE DEF begun
  <2>7. begun \in Seq(0..64)
    <3>1. f[n - 1] \in Byte /\ f[n] \in Byte /\ f[n + 1] \in Byte
      BY <2>4, ElementOfSeq
    <3>2. QED
      BY <2>6, <3>1, TripleFacts, CodesAreChars
  <2>8. Encodes(c \o begun, f, n + 1)
    BY <2>4, <2>6, TripleFollows
  <2>9. Follows(Drop(data, 1), f, n + 1) /\ (n + 1) + Len(Drop(data, 1)) = n + k
    <3>1. Follows(Drop(data, 1), f, n + 1) /\ Len(Drop(data, 1)) = k - 1
      BY <1>1, <2>4, PieceRest
    <3>2. QED
      BY <1>1, <3>1
  <2>10. QED
    BY <1>1, <1>3, <1>4, <2>3, <2>4, <2>7, <2>8, <2>9, ZenonT(60)
<1>8. CASE e.overflowCount = 1 /\ k = 1
  <2>1. n % 3 = 1 /\ e.overflow1 = f[n] /\ n >= 1
    BY <1>8 DEF Keeps
  <2>2. Completes(e, data) = 0
    BY <1>1, <1>8, CompletesFacts
  <2> DEFINE rest == Drop(data, 0)
             left == Drop(rest, 0)
  <2>3. Len(rest) = 1 /\ Follows(rest, f, n)
    BY <1>1, <1>8, PieceWhole
  <2>4. Len(left) = 1 /\ left \in Seq(Byte) /\ left[1] = f[n + 1]
    <3> HIDE DEF rest
    <3>1. Len(left) = 1 /\ Follows(left, f, n)
      BY <2>3, PieceWhole
    <3> HIDE DEF left
    <3>2. QED
      BY <3>1 DEF Follows
  <2>5. /\ Encode(e, data).encoder = Keep(e, Drop(rest, 3 * (Len(rest) \div 3)))
        /\ Encode(e, data).chars = <<>> \o EncodeTriples(rest)
    BY <2>2 DEF Encode
  <2> HIDE DEF rest
  <2>6. 3 * (Len(rest) \div 3) = 0 /\ 4 * (Len(rest) \div 3) = 0
    BY <2>3
  <2>7. Encode(e, data).encoder = Keep(e, left)
    BY <2>5, <2>6
  <2> HIDE DEF left
  <2>8. EncodeTriples(rest) = <<>>
    <3>1. EncodeTriples(rest) \in Seq(0..64) /\ Len(EncodeTriples(rest)) = 0
      BY <2>3, <2>6, TriplesType DEF Follows
    <3>2. QED
      BY <3>1, EmptySeq
  <2>9. c \o Encode(e, data).chars = c
    <3>1. Encode(e, data).chars = <<>>
      BY <2>5, <2>8
    <3>2. QED
      BY <1>2, <3>1, ConcatEmptySeq
  <2>10. Keep(e, left) = KeepSecond(e, left[1])
    BY <1>8, <2>4, LenOfOne DEF Keep
  <2>11. f[n + 1] \in Byte
    <3>1. n + 1 \in 1..Len(f)
      BY <1>1, <1>8
    <3>2. QED
      BY <3>1, ElementOfSeq
  <2> DEFINE two == KeepSecond(e, left[1])
  <2>12. /\ two \in EncoderState /\ two.overflow1 = f[n] /\ two.overflow2 = f[n + 1]
         /\ two.overflowCount = 2
    BY <2>1, <2>4, <2>11, KeepsSecond
  <2> HIDE DEF two
  <2>13. /\ (n + 1) % 3 = 2 /\ n + 1 - 1 = n /\ (n + 1) \div 3 = n \div 3
    BY <2>1
  <2>14. Keeps(two, f, n + 1)
    BY <2>12, <2>13 DEF Keeps
  <2>15. Encodes(c, f, n + 1)
    BY <2>13 DEF Encodes
  <2>16. QED
    BY <1>1, <1>8, <2>7, <2>9, <2>10, <2>12, <2>14, <2>15 DEF two
<1>9. e.overflowCount \in {0, 1, 2}
  BY DEF EncoderState
<1>10. k = 1 \/ k >= 2
  BY <1>1
<1>11. QED
  BY <1>1, <1>5, <1>6, <1>7, <1>8, <1>9, <1>10

-----------------------------------------------------------------------------
(* The decoder.                                                            *)

\* c begins with the encoding of the first q triples of f.
Triples(c, f, q) ==
  /\ 4 * q <= Len(c) /\ 3 * q <= Len(f)
  /\ \A j \in 1..(4 * q) : c[j] = Char(f, j)

\* The group d gives the n bytes of f from 3 * q on.
Gives(d, f, q, n) ==
  /\ d.ok /\ Len(d.bytes) = n
  /\ n >= 1 => d.bytes[1] = f[3 * q + 1]
  /\ n >= 2 => d.bytes[2] = f[3 * q + 2]
  /\ n >= 3 => d.bytes[3] = f[3 * q + 3]

LEMMA FullGroup ==
  ASSUME NEW f \in Seq(Byte), NEW c \in Seq(0..64), NEW q \in Nat, Triples(c, f, q),
         NEW i \in 1..q
  PROVE  Gives(DecodedAt(c, i), f, i - 1, 3) /\ ~DecodedAt(c, i).last
<1> DEFINE h == i - 1
           g == SubSeq(c, 4 * h + 1, 4 * h + 4)
<1>1. /\ h \in Nat /\ h < q /\ 4 * q <= Len(c) /\ 3 * q <= Len(f)
      /\ Len(c) \in Nat /\ Len(f) \in Nat
      /\ 4 * i - 3 = 4 * h + 1 /\ 4 * i = 4 * h + 4 /\ ~(4 * i > Len(c))
  BY LenProperties DEF Triples
<1>2. DecodedAt(c, i) = DecodeGroup(g)
  BY <1>1 DEF DecodedAt
<1> HIDE DEF h
<1>3. /\ Len(g) = 4 /\ g[1] = c[4 * h + 1] /\ g[2] = c[4 * h + 2]
      /\ g[3] = c[4 * h + 3] /\ g[4] = c[4 * h + 4]
  BY <1>1
<1> HIDE DEF g
<1>4. ASSUME NEW k \in 1..4, NEW j \in Nat, j = 4 * h + k
      PROVE  c[j] = EncodeTriple(f[3 * h + 1], f[3 * h + 2], f[3 * h + 3])[k]
  <2>1. j \in 1..(4 * q) /\ j - 1 = 4 * h + (k - 1) /\ k - 1 \in Nat
    BY <1>1, <1>4
  <2>2. c[j] = Char(f, j)
    BY <2>1 DEF Triples
  <2>3. (k - 1) \div 4 = 0 /\ (k - 1) % 4 = k - 1
    OBVIOUS
  <2>4. (j - 1) \div 4 = h + (k - 1) \div 4 /\ (j - 1) % 4 = (k - 1) % 4
    BY <1>1, <2>1, FourTimes
  <2>5. (j - 1) \div 4 = h /\ ((j - 1) % 4) + 1 = k
    BY <1>1, <2>3, <2>4
  <2>6. QED
    BY <2>2, <2>5 DEF Char
<1>5. /\ 3 * h + 1 \in 1..Len(f) /\ 3 * h + 2 \in 1..Len(f) /\ 3 * h + 3 \in 1..Len(f)
  BY <1>1
<1> DEFINE x == f[3 * h + 1]
           y == f[3 * h + 2]
           z == f[3 * h + 3]
<1>6. x \in Byte /\ y \in Byte /\ z \in Byte
  BY <1>5, ElementOfSeq
<1>7. /\ g[1] = EncodeTriple(x, y, z)[1] /\ g[2] = EncodeTriple(x, y, z)[2]
      /\ g[3] = EncodeTriple(x, y, z)[3] /\ g[4] = EncodeTriple(x, y, z)[4]
  <2>1. /\ 4 * h + 1 \in Nat /\ 4 * h + 2 \in Nat /\ 4 * h + 3 \in Nat /\ 4 * h + 4 \in Nat
    BY <1>1
  <2>2. QED
    BY <1>3, <1>4, <2>1
<1> HIDE DEF x, y, z
<1>8. /\ g[1] = x \div 4 /\ g[2] = (x % 4) * 16 + y \div 16
      /\ g[3] = (y % 16) * 4 + z \div 64 /\ g[4] = z % 64
  BY <1>6, <1>7, TripleFacts
<1>9. /\ DecodeGroup(g).ok /\ ~DecodeGroup(g).last
      /\ Len(DecodeGroup(g).bytes) = 3
      /\ DecodeGroup(g).bytes[1] = x /\ DecodeGroup(g).bytes[2] = y
      /\ DecodeGroup(g).bytes[3] = z
  BY <1>3, <1>6, <1>8, GroupOfThree
<1>10. QED
  BY <1>2, <1>9 DEF Gives, h, x, y, z

FullGroups(c, f, q) ==
  \A i \in 1..q : Gives(DecodedAt(c, i), f, i - 1, 3) /\ ~DecodedAt(c, i).last

\* The group of d after q others is what c has there, up to its character n.
EndsWith(d, c, q, n) ==
  \E g : /\ DecodedAt(d, q + 1) = DecodeGroup(g)
         /\ Len(g) = n - 4 * q
         /\ \A i \in 1..(n - 4 * q) : g[i] = c[4 * q + i]

\* Of groups of three bytes and one that gives n, the decoder makes the beginning of f.
LEMMA DecodeGroups ==
  ASSUME NEW f \in Seq(Byte), NEW c \in Seq(0..64), c # <<>>,
         NEW q \in Nat, (Len(c) + 3) \div 4 = q + 1,
         FullGroups(c, f, q),
         NEW n \in 1..3, Gives(DecodedAt(c, q + 1), f, q, n), 3 * q + n <= Len(f)
  PROVE  Base64Decode(c) = [ok |-> TRUE, bytes |-> SubSeq(f, 1, 3 * q + n)]
<1> DEFINE end == EndsAt(c)
           N == 3 * q + n
<1>1. \A i \in 1..q : Gives(DecodedAt(c, i), f, i - 1, 3) /\ ~DecodedAt(c, i).last
  BY DEF FullGroups
<1>2. end = q + 1
  <2> DEFINE P(i) == /\ \A h \in 1..(i - 1) : ~DecodedAt(c, h).last
                     /\ i = q + 1 \/ DecodedAt(c, i).last
  <2>1. end = CHOOSE i \in 1..(q + 1) : P(i)
    BY DEF EndsAt
  <2>2. q + 1 \in 1..(q + 1) /\ (q + 1) - 1 = q
    OBVIOUS
  <2>3. P(q + 1)
    BY <1>1, <2>2
  <2>4. ASSUME NEW i \in 1..(q + 1), P(i)
        PROVE  i = q + 1
    <3>1. i \in 1..q \/ i = q + 1
      OBVIOUS
    <3>2. QED
      BY <1>1, <2>4, <3>1
  <2> HIDE DEF P
  <2>5. end \in 1..(q + 1) /\ P(end)
    BY <2>1, <2>2, <2>3
  <2>6. QED
    BY <2>4, <2>5
<1>3. \A i \in 1..(q + 1), k \in 1..3 :
        i <= q \/ k <= n => DecodedAt(c, i).bytes[k] = f[3 * (i - 1) + k]
  <2> SUFFICES ASSUME NEW i \in 1..(q + 1), NEW k \in 1..3, i <= q \/ k <= n
               PROVE  DecodedAt(c, i).bytes[k] = f[3 * (i - 1) + k]
    OBVIOUS
  <2>1. CASE i <= q
    <3>1. i \in 1..q
      BY <2>1
    <3>2. Gives(DecodedAt(c, i), f, i - 1, 3)
      BY <1>1, <3>1
    <3>3. /\ DecodedAt(c, i).bytes[1] = f[3 * (i - 1) + 1]
          /\ DecodedAt(c, i).bytes[2] = f[3 * (i - 1) + 2]
          /\ DecodedAt(c, i).bytes[3] = f[3 * (i - 1) + 3]
      BY <3>2 DEF Gives
    <3>4. k = 1 \/ k = 2 \/ k = 3
      OBVIOUS
    <3>5. QED
      BY <3>3, <3>4
  <2>2. CASE i = q + 1
    <3>1. i - 1 = q /\ k <= n
      BY <2>2
    <3>2. /\ DecodedAt(c, i).bytes[1] = f[3 * (i - 1) + 1]
          /\ n >= 2 => DecodedAt(c, i).bytes[2] = f[3 * (i - 1) + 2]
          /\ n >= 3 => DecodedAt(c, i).bytes[3] = f[3 * (i - 1) + 3]
      BY <2>2, <3>1 DEF Gives
    <3>3. k = 1 \/ (k = 2 /\ n >= 2) \/ (k = 3 /\ n >= 3)
      BY <3>1
    <3>4. QED
      BY <3>2, <3>3
  <2>3. i <= q \/ i = q + 1
    OBVIOUS
  <2>4. QED
    BY <2>1, <2>2, <2>3
<1>4. ASSUME NEW j \in 1..N
      PROVE  DecodedAt(c, ((j - 1) \div 3) + 1).bytes[((j - 1) % 3) + 1] = f[j]
  <2> DEFINE i == ((j - 1) \div 3) + 1
             k == ((j - 1) % 3) + 1
  <2>1. i \in 1..(q + 1) /\ k \in 1..3 /\ 3 * (i - 1) + k = j
    <3> DEFINE d == (j - 1) \div 3
               r == (j - 1) % 3
    <3>1. j - 1 \in Nat /\ d \in Nat /\ r \in 0..2 /\ j - 1 = 3 * d + r
      <4>1. j - 1 \in Nat
        OBVIOUS
      <4>2. QED
        BY <4>1, ByThree
    <3>2. i = d + 1 /\ k = r + 1 /\ j <= 3 * q + n
      OBVIOUS
    <3> HIDE DEF d, r, i, k
    <3>3. QED
      BY <3>1, <3>2
  <2>2. i <= q \/ k <= n
    <3>1. i = q + 1 => k = j - 3 * q
      BY <2>1
    <3> HIDE DEF i, k
    <3>2. QED
      BY <2>1, <3>1
  <2> HIDE DEF i, k
  <2>3. DecodedAt(c, i).bytes[k] = f[3 * (i - 1) + k]
    BY <1>3, <2>1, <2>2
  <2>4. QED
    BY <2>1, <2>3 DEF i, k
<1> DEFINE bytes == [j \in 1..N |-> DecodedAt(c, ((j - 1) \div 3) + 1).bytes[((j - 1) % 3) + 1]]
<1>5. bytes = SubSeq(f, 1, N)
  <2>1. bytes = [j \in 1..N |-> f[j]]
    BY <1>4
  <2>2. N \in Nat /\ N <= Len(f)
    OBVIOUS
  <2> HIDE DEF bytes, N
  <2>3. SubSeq(f, 1, N) = [j \in 1..N |-> f[j]]
    BY <2>2
  <2>4. QED
    BY <2>1, <2>3
<1>6. Base64Decode(c) = [ok |-> TRUE, bytes |-> bytes]
  <2>1. DecodedAt(c, q + 1).ok = TRUE
    <3>1. DecodedAt(c, q + 1).ok
      BY DEF Gives
    <3>2. QED
      BY <3>1, OkIsTrue, Zenon DEF DecodedAt
  <2>2. Len(DecodedAt(c, q + 1).bytes) = n /\ (q + 1) - 1 = q
    BY DEF Gives
  <2>3. QED
    BY <1>2, <2>1, <2>2 DEF Base64Decode
<1>7. QED
  BY <1>5, <1>6

\* While pieces are missing, what was emitted decodes to the triples read so far.
LEMMA DecodeServed ==
  ASSUME NEW f \in Seq(Byte), NEW n \in 0..Len(f), NEW c, Encodes(c, f, n)
  PROVE  Base64Decode(c) = [ok |-> TRUE, bytes |-> SubSeq(f, 1, 3 * (n \div 3))]
<1> DEFINE q == n \div 3
<1>1. Len(f) \in Nat /\ n \in Nat /\ n <= Len(f) /\ q \in Nat /\ 3 * q <= n
  BY LenProperties
<1>2. c \in Seq(0..64) /\ Len(c) = 4 * q /\ \A j \in 1..(4 * q) : c[j] = Char(f, j)
  BY DEF Encodes
<1> HIDE DEF q
<1>3. CASE q = 0
  <2>1. c = <<>>
    BY <1>2, <1>3
  <2>2. Base64Decode(c) = [ok |-> TRUE, bytes |-> <<>>]
    BY <2>1 DEF Base64Decode
  <2>3. SubSeq(f, 1, 3 * q) = <<>>
    BY <1>3
  <2>4. QED
    BY <2>2, <2>3 DEF q
<1>4. CASE q > 0
  <2> DEFINE p == q - 1
  <2>1. /\ p \in Nat /\ p + 1 = q /\ (Len(c) + 3) \div 4 = p + 1 /\ 3 * p + 3 = 3 * q
        /\ 3 \in 1..3 /\ 3 * q <= Len(f) /\ 4 * q <= Len(c) /\ q - 1 = p
        /\ (\A i \in 1..p : i \in 1..q) /\ q \in 1..q
    BY <1>1, <1>2, <1>4
  <2>2. c # <<>>
    <3>1. Len(c) # 0
      BY <1>1, <1>2, <1>4
    <3>2. QED
      BY <3>1
  <2> HIDE DEF p
  <2>3. Triples(c, f, q)
    BY <1>2, <2>1 DEF Triples
  <2>4. \A i \in 1..q : Gives(DecodedAt(c, i), f, i - 1, 3) /\ ~DecodedAt(c, i).last
    BY <1>1, <1>2, <2>3, FullGroup
  <2>5. Gives(DecodedAt(c, p + 1), f, p, 3) /\ FullGroups(c, f, p)
    BY <2>1, <2>4 DEF FullGroups
  <2>6. Base64Decode(c) = [ok |-> TRUE, bytes |-> SubSeq(f, 1, 3 * p + 3)]
    BY <1>2, <2>1, <2>2, <2>5, DecodeGroups
  <2>7. QED
    BY <2>1, <2>6 DEF q
<1>5. QED
  BY <1>1, <1>3, <1>4

\* c is the whole encoding of f, with its padding.
Finished(c, f) ==
  /\ c \in Seq(0..64)
  /\ Triples(c, f, Len(f) \div 3)
  /\ Len(c) = 4 * (Len(f) \div 3) + (IF Len(f) % 3 = 0 THEN 0 ELSE 4)
  /\ Len(f) % 3 = 1 =>
       /\ c[4 * (Len(f) \div 3) + 1] = f[Len(f)] \div 4
       /\ c[4 * (Len(f) \div 3) + 2] = (f[Len(f)] % 4) * 16
       /\ c[4 * (Len(f) \div 3) + 3] = Pad
       /\ c[4 * (Len(f) \div 3) + 4] = Pad
  /\ Len(f) % 3 = 2 =>
       /\ c[4 * (Len(f) \div 3) + 1] = f[Len(f) - 1] \div 4
       /\ c[4 * (Len(f) \div 3) + 2] = (f[Len(f) - 1] % 4) * 16 + f[Len(f)] \div 16
       /\ c[4 * (Len(f) \div 3) + 3] = (f[Len(f)] % 16) * 4
       /\ c[4 * (Len(f) \div 3) + 4] = Pad

LEMMA FinishedSize ==
  ASSUME NEW f \in Seq(Byte), NEW c, Finished(c, f)
  PROVE  Len(c) = EncodedSize(Len(f))
<1> DEFINE L == Len(f)
<1>1. L \in Nat
  BY LenProperties
<1> HIDE DEF L
<1>2. 4 * (L \div 3) + (IF L % 3 = 0 THEN 0 ELSE 4) = ((L + 2) \div 3) * 4
  BY <1>1
<1>3. QED
  BY <1>2 DEF Finished, EncodedSize, L

\* The groups before the last, in the input without some of the padding.
LEMMA GroupsOfPrefix ==
  ASSUME NEW f \in Seq(Byte), NEW c \in Seq(0..64), NEW q \in Nat, Triples(c, f, q),
         NEW n \in Nat, 4 * q + 2 <= n, n <= 4 * q + 4, n <= Len(c)
  PROVE  /\ SubSeq(c, 1, n) \in Seq(0..64) /\ SubSeq(c, 1, n) # <<>>
         /\ (Len(SubSeq(c, 1, n)) + 3) \div 4 = q + 1
         /\ FullGroups(SubSeq(c, 1, n), f, q)
         /\ EndsWith(SubSeq(c, 1, n), c, q, n)
<1> DEFINE d == SubSeq(c, 1, n)
<1>1. Len(c) \in Nat /\ 4 * q <= Len(c) /\ 3 * q <= Len(f)
  BY LenProperties DEF Triples
<1>2. d \in Seq(0..64) /\ Len(d) = n /\ \A i \in 1..n : d[i] = c[i]
  <2>1. n \in 0..Len(c)
    BY <1>1
  <2>2. QED
    BY <2>1, PrefixFacts
<1> HIDE DEF d
<1>3. d # <<>> /\ (Len(d) + 3) \div 4 = q + 1
  BY <1>2
<1>4. Triples(d, f, q)
  BY <1>1, <1>2 DEF Triples
<1>5. \A i \in 1..q : Gives(DecodedAt(d, i), f, i - 1, 3) /\ ~DecodedAt(d, i).last
  BY <1>2, <1>4, FullGroup
<1> DEFINE g == SubSeq(d, 4 * q + 1, n)
<1>6. DecodedAt(d, q + 1) = DecodeGroup(g)
  <2>1. 4 * (q + 1) - 3 = 4 * q + 1 /\ (IF 4 * (q + 1) > n THEN n ELSE 4 * (q + 1)) = n
    OBVIOUS
  <2>2. QED
    BY <1>2, <2>1 DEF DecodedAt
<1>7. Len(g) = n - 4 * q /\ \A i \in 1..(n - 4 * q) : g[i] = c[4 * q + i]
  <2>1. Len(g) = n - 4 * q /\ \A i \in 1..(n - 4 * q) : g[i] = d[4 * q + i]
    BY <1>2
  <2> HIDE DEF g
  <2>2. \A i \in 1..(n - 4 * q) : 4 * q + i \in 1..n
    OBVIOUS
  <2>3. QED
    BY <1>2, <2>1, <2>2
<1> HIDE DEF g
<1>8. QED
  BY <1>2, <1>3, <1>5, <1>6, <1>7 DEF d, FullGroups, EndsWith

LEMMA SpareIsNoPad ==
  \A x \in Byte : (x % 4) * 16 # Pad /\ (x % 16) * 4 # Pad
BY DEF Byte, Pad

LEMMA CodesAreNoPads ==
  ASSUME NEW f \in Seq(Byte), NEW c, NEW q \in Nat \ {0}, Triples(c, f, q),
         NEW j, j = 4 * q
  PROVE  c[j] # Pad
<1>1. j \in Nat \ {0} /\ j \in 1..(4 * q) /\ 3 * ((j - 1) \div 4) + 3 <= Len(f)
  <2>1. j - 1 = 4 * (q - 1) + 3 /\ q - 1 \in Nat /\ 3 \in Nat
    OBVIOUS
  <2>2. (4 * (q - 1) + 3) \div 4 = (q - 1) + 3 \div 4
    BY <2>1, FourTimes
  <2>3. 3 \div 4 = 0
    OBVIOUS
  <2>4. (j - 1) \div 4 = q - 1
    BY <2>1, <2>2, <2>3
  <2>5. 3 * q <= Len(f) /\ 3 * (q - 1) + 3 = 3 * q
    BY DEF Triples
  <2>6. QED
    BY <2>4, <2>5
<1>2. Char(f, j) \in Code
  BY <1>1, CharType
<1>3. c[j] = Char(f, j)
  BY <1>1 DEF Triples
<1>4. \A x \in Code : x # Pad
  BY DEF Code, Pad
<1>5. QED
  BY <1>2, <1>3, <1>4, Zenon

LEMMA WholeSeq ==
  ASSUME NEW S, NEW f \in Seq(S), NEW n, n = Len(f)
  PROVE  SubSeq(f, 1, n) = f
<1>1. Len(f) \in Nat /\ n \in 0..Len(f)
  BY LenProperties
<1>2. SubSeq(f, 1, n) \in Seq(S) /\ Len(SubSeq(f, 1, n)) = n
      /\ \A i \in 1..n : SubSeq(f, 1, n)[i] = f[i]
  BY <1>1, PrefixFacts
<1>3. QED
  BY <1>2, SeqEqual

\* The whole encoding decodes to the file, with its padding and without some of it.
LEMMA DecodeFinished ==
  ASSUME NEW f \in Seq(Byte), NEW c, Finished(c, f),
         NEW n \in 0..Len(c), \A i \in (n + 1)..Len(c) : c[i] = Pad
  PROVE  Base64Decode(SubSeq(c, 1, n)) = [ok |-> TRUE, bytes |-> f]
<1> DEFINE L == Len(f)
           q == L \div 3
           d == SubSeq(c, 1, n)
<1>1. /\ L \in Nat /\ q \in Nat /\ n \in Nat /\ Len(c) \in Nat
      /\ L = 3 * q + (L % 3) /\ L % 3 \in 0..2
  <2>1. c \in Seq(0..64)
    BY DEF Finished
  <2>2. L \in Nat /\ Len(c) \in Nat
    BY <2>1, LenProperties
  <2> HIDE DEF L
  <2>3. QED
    BY <2>2, ByThree
<1>2. c \in Seq(0..64) /\ Triples(c, f, q)
      /\ Len(c) = 4 * q + (IF L % 3 = 0 THEN 0 ELSE 4)
  BY DEF Finished
<1>3. SubSeq(f, 1, L) = f
  BY WholeSeq
<1>4. L % 3 = 1 => /\ c[4 * q + 1] = f[L] \div 4 /\ c[4 * q + 2] = (f[L] % 4) * 16
                   /\ c[4 * q + 3] = Pad /\ c[4 * q + 4] = Pad
  BY DEF Finished
<1>5. L % 3 = 2 => /\ c[4 * q + 1] = f[L - 1] \div 4
                   /\ c[4 * q + 2] = (f[L - 1] % 4) * 16 + f[L] \div 16
                   /\ c[4 * q + 3] = (f[L] % 16) * 4 /\ c[4 * q + 4] = Pad
  BY DEF Finished
<1>6. f[L] \in Byte \/ L = 0
  BY <1>1, ElementOfSeq
<1>7. CASE L % 3 = 0
  <2>1. L = 3 * q /\ Len(c) = 4 * q
    BY <1>1, <1>2, <1>7
  <2>2. n = Len(c)
    <3>1. SUFFICES ASSUME n # Len(c)
                   PROVE  FALSE
      OBVIOUS
    <3> HIDE DEF q
    <3>2. Len(c) \in (n + 1)..Len(c) /\ q \in Nat \ {0}
      BY <1>1, <2>1, <3>1
    <3>3. c[Len(c)] = Pad
      BY <3>2
    <3>4. c[Len(c)] # Pad
      BY <1>2, <2>1, <3>2, CodesAreNoPads
    <3>5. QED
      BY <3>3, <3>4
  <2>3. d = c
    BY <1>2, <2>2, WholeSeq
  <2>4. Encodes(c, f, L)
    BY <1>2, <2>1 DEF Encodes, Triples
  <2>5. L \in 0..Len(f)
    BY <1>1
  <2>6. Base64Decode(c) = [ok |-> TRUE, bytes |-> SubSeq(f, 1, 3 * q)]
    BY <2>4, <2>5, DecodeServed
  <2>7. QED
    BY <1>3, <2>1, <2>3, <2>6
<1> HIDE DEF L
<1>8. CASE L % 3 = 1
  <2> HIDE DEF q
  <2>1. L = 3 * q + 1 /\ Len(c) = 4 * q + 4 /\ 1 \in 1..3
    BY <1>1, <1>2, <1>8
  <2>2. f[L] \in Byte
    BY <1>1, <1>6, <2>1
  <2>3. 4 * q + 2 <= n
    <3>1. SUFFICES ASSUME ~(4 * q + 2 <= n)
                   PROVE  FALSE
      OBVIOUS
    <3>2. 4 * q + 2 \in (n + 1)..Len(c)
      BY <1>1, <2>1, <3>1
    <3>3. (f[L] % 4) * 16 = Pad
      BY <1>4, <1>8, <3>2
    <3>4. QED
      BY <2>2, <3>3, SpareIsNoPad
  <2>4. n <= 4 * q + 4 /\ n <= Len(c)
    BY <1>1, <2>1
  <2>5. /\ d \in Seq(0..64) /\ d # <<>> /\ (Len(d) + 3) \div 4 = q + 1
        /\ FullGroups(d, f, q) /\ EndsWith(d, c, q, n)
    BY <1>1, <1>2, <2>3, <2>4, GroupsOfPrefix, ZenonT(60)
  <2> HIDE DEF d
  <2>6. PICK g : /\ DecodedAt(d, q + 1) = DecodeGroup(g)
                 /\ Len(g) = n - 4 * q
                 /\ \A i \in 1..(n - 4 * q) : g[i] = c[4 * q + i]
    BY <2>5 DEF EndsWith
  <2>7. /\ Len(g) = 2 \/ Len(g) = 3 \/ Len(g) = 4
        /\ g[1] = f[L] \div 4 /\ g[2] = (f[L] % 4) * 16
        /\ Len(g) >= 3 => g[3] = Pad
    <3>1. 1 \in 1..(n - 4 * q) /\ 2 \in 1..(n - 4 * q)
          /\ (n - 4 * q >= 3 => 3 \in 1..(n - 4 * q))
      BY <1>1, <2>3
    <3>2. n - 4 * q = 2 \/ n - 4 * q = 3 \/ n - 4 * q = 4
      BY <1>1, <2>3, <2>4
    <3>3. QED
      BY <1>4, <1>8, <2>6, <3>1, <3>2
  <2>8. /\ DecodeGroup(g).ok /\ Len(DecodeGroup(g).bytes) = 1
        /\ DecodeGroup(g).bytes[1] = f[L]
    BY <2>2, <2>7, GroupOfOne
  <2>9. Gives(DecodedAt(d, q + 1), f, q, 1)
    BY <2>1, <2>6, <2>8 DEF Gives
  <2>10. 3 * q + 1 <= Len(f)
    BY <1>1, <2>1 DEF L
  <2>11. Base64Decode(d) = [ok |-> TRUE, bytes |-> SubSeq(f, 1, 3 * q + 1)]
    BY <1>1, <2>1, <2>5, <2>9, <2>10, DecodeGroups
  <2>12. QED
    BY <1>3, <2>1, <2>11 DEF d
<1>9. CASE L % 3 = 2
  <2> HIDE DEF q
  <2>1. L = 3 * q + 2 /\ L - 1 = 3 * q + 1 /\ Len(c) = 4 * q + 4 /\ 2 \in 1..3
    BY <1>1, <1>2, <1>9
  <2>2. f[L] \in Byte /\ f[L - 1] \in Byte
    <3>1. L - 1 \in 1..Len(f)
      BY <1>1, <2>1 DEF L
    <3>2. QED
      BY <1>1, <1>6, <2>1, <3>1, ElementOfSeq
  <2>3. 4 * q + 3 <= n
    <3>1. SUFFICES ASSUME ~(4 * q + 3 <= n)
                   PROVE  FALSE
      OBVIOUS
    <3>2. 4 * q + 3 \in (n + 1)..Len(c)
      BY <1>1, <2>1, <3>1
    <3>3. (f[L] % 16) * 4 = Pad
      BY <1>5, <1>9, <3>2
    <3>4. QED
      BY <2>2, <3>3, SpareIsNoPad
  <2>4. n <= 4 * q + 4 /\ n <= Len(c) /\ 4 * q + 2 <= n
    BY <1>1, <2>1, <2>3
  <2>5. /\ d \in Seq(0..64) /\ d # <<>> /\ (Len(d) + 3) \div 4 = q + 1
        /\ FullGroups(d, f, q) /\ EndsWith(d, c, q, n)
    BY <1>1, <1>2, <2>4, GroupsOfPrefix, ZenonT(60)
  <2> HIDE DEF d
  <2>6. PICK g : /\ DecodedAt(d, q + 1) = DecodeGroup(g)
                 /\ Len(g) = n - 4 * q
                 /\ \A i \in 1..(n - 4 * q) : g[i] = c[4 * q + i]
    BY <2>5 DEF EndsWith
  <2>7. /\ Len(g) = 3 \/ Len(g) = 4
        /\ g[1] = f[L - 1] \div 4 /\ g[2] = (f[L - 1] % 4) * 16 + f[L] \div 16
        /\ g[3] = (f[L] % 16) * 4
        /\ Len(g) = 4 => g[4] = Pad
    <3>1. 1 \in 1..(n - 4 * q) /\ 2 \in 1..(n - 4 * q) /\ 3 \in 1..(n - 4 * q)
          /\ (n - 4 * q = 4 => 4 \in 1..(n - 4 * q))
      BY <1>1, <2>3
    <3>2. n - 4 * q = 3 \/ n - 4 * q = 4
      BY <1>1, <2>3, <2>4
    <3>3. QED
      BY <1>5, <1>9, <2>6, <3>1, <3>2
  <2>8. /\ DecodeGroup(g).ok /\ Len(DecodeGroup(g).bytes) = 2
        /\ DecodeGroup(g).bytes[1] = f[L - 1] /\ DecodeGroup(g).bytes[2] = f[L]
    BY <2>2, <2>7, GroupOfTwo
  <2>9. Gives(DecodedAt(d, q + 1), f, q, 2)
    BY <2>1, <2>6, <2>8 DEF Gives
  <2>10. 3 * q + 2 <= Len(f)
    BY <1>1, <2>1 DEF L
  <2>11. Base64Decode(d) = [ok |-> TRUE, bytes |-> SubSeq(f, 1, 3 * q + 2)]
    BY <1>1, <2>1, <2>5, <2>9, <2>10, DecodeGroups
  <2>12. QED
    BY <1>3, <2>1, <2>11 DEF d
<1>10. L % 3 = 0 \/ L % 3 = 1 \/ L % 3 = 2
  BY <1>1
<1>11. QED
  BY <1>7, <1>8, <1>9, <1>10

-----------------------------------------------------------------------------
(* The file, from the first piece to the last.                             *)

LEMMA FinalizeFacts ==
  ASSUME NEW e \in EncoderState
  PROVE  /\ Finalize(e) \in Seq(0..64)
         /\ e.overflowCount = 0 => Finalize(e) = <<>>
         /\ e.overflowCount = 1 =>
              /\ Len(Finalize(e)) = 4
              /\ Finalize(e)[1] = e.overflow1 \div 4
              /\ Finalize(e)[2] = (e.overflow1 % 4) * 16
              /\ Finalize(e)[3] = Pad /\ Finalize(e)[4] = Pad
         /\ e.overflowCount = 2 =>
              /\ Len(Finalize(e)) = 4
              /\ Finalize(e)[1] = e.overflow1 \div 4
              /\ Finalize(e)[2] = (e.overflow1 % 4) * 16 + e.overflow2 \div 16
              /\ Finalize(e)[3] = (e.overflow2 % 16) * 4
              /\ Finalize(e)[4] = Pad
<1>1. e.overflow1 \in Byte /\ e.overflow2 \in Byte /\ e.overflowCount \in {0, 1, 2}
  BY DEF EncoderState
<1>2. \A a, b \in Byte : /\ a \div 4 \in 0..64 /\ (a % 4) * 16 \in 0..64
                         /\ (a % 4) * 16 + b \div 16 \in 0..64
                         /\ (b % 16) * 4 \in 0..64
  BY DEF Byte
<1>3. Pad \in 0..64
  BY DEF Pad
<1>4. CASE e.overflowCount = 0
  BY <1>4 DEF Finalize
<1>5. CASE e.overflowCount = 1
  <2>1. Finalize(e) = <<e.overflow1 \div 4, (e.overflow1 % 4) * 16, Pad, Pad>>
    BY <1>5 DEF Finalize
  <2>2. QED
    BY <1>1, <1>2, <1>3, <1>5, <2>1
<1>6. CASE e.overflowCount = 2
  <2>1. Finalize(e) = <<e.overflow1 \div 4, (e.overflow1 % 4) * 16 + e.overflow2 \div 16,
                        (e.overflow2 % 16) * 4, Pad>>
    BY <1>6 DEF Finalize
  <2>2. QED
    BY <1>1, <1>2, <1>3, <1>6, <2>1
<1>7. QED
  BY <1>1, <1>4, <1>5, <1>6

LEMMA FinishFile ==
  ASSUME NEW f \in Seq(Byte), NEW c, Encodes(c, f, Len(f)),
         NEW e \in EncoderState, Keeps(e, f, Len(f))
  PROVE  Finished(c \o Finalize(e), f)
<1> DEFINE L == Len(f)
           q == L \div 3
           t == Finalize(e)
           w == c \o t
<1>1. L \in Nat /\ q \in Nat /\ 3 * q <= L /\ L % 3 \in 0..2
  <2>1. L \in Nat
    BY LenProperties
  <2> HIDE DEF L
  <2>2. q \in Nat /\ L % 3 \in 0..2 /\ L = 3 * q + (L % 3)
    BY <2>1, ByThree
  <2> HIDE DEF q
  <2>3. QED
    BY <2>1, <2>2
<1>2. c \in Seq(0..64) /\ Len(c) = 4 * q /\ \A j \in 1..(4 * q) : c[j] = Char(f, j)
  BY DEF Encodes
<1>3. /\ e.overflowCount = L % 3
      /\ L % 3 = 1 => e.overflow1 = f[L]
      /\ L % 3 = 2 => e.overflow1 = f[L - 1] /\ e.overflow2 = f[L]
  BY DEF Keeps
<1>4. t \in Seq(0..64) /\ Len(t) = IF L % 3 = 0 THEN 0 ELSE 4
  BY <1>1, <1>3, FinalizeFacts
<1>5. /\ L % 3 = 1 => /\ t[1] = f[L] \div 4 /\ t[2] = (f[L] % 4) * 16
                      /\ t[3] = Pad /\ t[4] = Pad
      /\ L % 3 = 2 => /\ t[1] = f[L - 1] \div 4
                      /\ t[2] = (f[L - 1] % 4) * 16 + f[L] \div 16
                      /\ t[3] = (f[L] % 16) * 4 /\ t[4] = Pad
  BY <1>3, FinalizeFacts
<1> HIDE DEF q, t
<1>6. /\ w \in Seq(0..64) /\ Len(w) = 4 * q + Len(t)
      /\ \A i \in 1..(4 * q + Len(t)) : w[i] = IF i <= 4 * q THEN c[i] ELSE t[i - 4 * q]
  <2>1. /\ c \o t \in Seq(0..64) /\ Len(c \o t) = Len(c) + Len(t)
        /\ \A i \in 1..(Len(c) + Len(t)) :
             (c \o t)[i] = IF i <= Len(c) THEN c[i] ELSE t[i - Len(c)]
    BY <1>2, <1>4, ConcatProperties
  <2>2. QED
    BY <1>2, <2>1
<1> HIDE DEF w, L
<1>7. Len(w) = 4 * q + (IF L % 3 = 0 THEN 0 ELSE 4)
  BY <1>4, <1>6
<1>8. Triples(w, f, q)
  <2>1. Len(t) \in Nat
    BY <1>4
  <2>2. 3 * q <= Len(f)
    BY <1>1 DEF L
  <2>3. QED
    BY <1>1, <1>2, <1>6, <2>1, <2>2 DEF Triples
<1>9. L % 3 # 0 => /\ w[4 * q + 1] = t[1] /\ w[4 * q + 2] = t[2]
                   /\ w[4 * q + 3] = t[3] /\ w[4 * q + 4] = t[4]
  <2> SUFFICES ASSUME L % 3 # 0
               PROVE  /\ w[4 * q + 1] = t[1] /\ w[4 * q + 2] = t[2]
                      /\ w[4 * q + 3] = t[3] /\ w[4 * q + 4] = t[4]
    OBVIOUS
  <2>1. Len(t) = 4
    BY <1>4
  <2>2. ASSUME NEW k \in 1..4, NEW i, i = 4 * q + k
        PROVE  w[i] = t[k]
    <3>1. i \in 1..(4 * q + Len(t)) /\ ~(i <= 4 * q) /\ i - 4 * q = k
      BY <1>1, <2>1, <2>2
    <3>2. QED
      BY <1>6, <3>1
  <2>3. QED
    BY <2>2
<1>10. /\ L % 3 = 1 => /\ w[4 * q + 1] = f[L] \div 4 /\ w[4 * q + 2] = (f[L] % 4) * 16
                       /\ w[4 * q + 3] = Pad /\ w[4 * q + 4] = Pad
       /\ L % 3 = 2 => /\ w[4 * q + 1] = f[L - 1] \div 4
                       /\ w[4 * q + 2] = (f[L - 1] % 4) * 16 + f[L] \div 16
                       /\ w[4 * q + 3] = (f[L] % 16) * 4 /\ w[4 * q + 4] = Pad
  <2>1. CASE L % 3 = 1
    <3>1. L % 3 # 0 /\ L % 3 # 2
      BY <2>1
    <3>2. QED
      BY <1>5, <1>9, <2>1, <3>1
  <2>2. CASE L % 3 = 2
    <3>1. L % 3 # 0 /\ L % 3 # 1
      BY <2>2
    <3>2. QED
      BY <1>5, <1>9, <2>2, <3>1
  <2>3. QED
    BY <2>1, <2>2
<1>11. Finished(w, f)
  BY <1>6, <1>7, <1>8, <1>10 DEF Finished, L, q
<1>12. QED
  BY <1>11 DEF t, w

LEMMA FilesAreBytes == BoundedSeq(FileBytes, MaxFile) \subseteq Seq(Byte)
<1> SUFFICES ASSUME NEW b \in BoundedSeq(FileBytes, MaxFile)
             PROVE  b \in Seq(Byte)
  OBVIOUS
<1>1. PICK m \in 0..MaxFile : b \in [1..m -> FileBytes]
  BY DEF BoundedSeq, SeqOf
<1>2. m \in Nat
  BY FileAssumption
<1>3. FileBytes \subseteq Byte
  BY FileAssumption, Zenon DEF Byte
<1>4. b \in [1..m -> Byte]
  BY <1>1, <1>3
<1>5. QED
  BY <1>2, <1>4, SeqDef

LEMMA NothingServed ==
  ASSUME NEW f, NEW c \in Seq(0..64), Len(c) = 0
  PROVE  Encodes(c, f, 0)
<1>1. 0 \div 3 = 0 /\ 4 * 0 = 0
  OBVIOUS
<1>2. \A j \in 1..Len(c) : c[j] = Char(f, j)
  OBVIOUS
<1>3. QED
  BY <1>1, <1>2 DEF Encodes

\* The inductive invariant: until the file has ended the characters are those of all
\* triples read so far and the encoder keeps the one or two bytes after them.
Base64Inv ==
  /\ file \in Seq(Byte) /\ served \in 0..Len(file)
  /\ opened \in BOOLEAN /\ ended \in BOOLEAN
  /\ ~opened => ~ended /\ served = 0
  /\ ~ended => /\ encoder \in EncoderState
               /\ Encodes(chars, file, served)
               /\ Keeps(encoder, file, served)
  /\ ended => Finished(chars, file)

LEMMA InitInv == Base64Init => Base64Inv
<1> SUFFICES ASSUME Base64Init
             PROVE  Base64Inv
  OBVIOUS
<1>1. /\ file = <<>> /\ opened = FALSE /\ ended = FALSE
      /\ served = 0 /\ encoder = Fresh /\ chars = <<>>
  BY DEF Base64Init
<1>2. file \in Seq(Byte) /\ Len(file) = 0 /\ served \in 0..Len(file)
  BY <1>1
<1>3. encoder \in EncoderState /\ encoder.overflowCount = 0
  BY <1>1 DEF Fresh, EncoderState, Byte
<1>4. Encodes(chars, file, served)
  <2>1. chars \in Seq(0..64) /\ Len(chars) = 0
    BY <1>1
  <2>2. QED
    BY <1>1, <2>1, NothingServed
<1>5. Keeps(encoder, file, served)
  BY <1>1, <1>3 DEF Keeps
<1>6. QED
  BY <1>1, <1>2, <1>3, <1>4, <1>5 DEF Base64Inv

\* A response opens a file.
LEMMA OpenInv ==
  ASSUME Base64Inv, NEW bytes \in BoundedSeq(FileBytes, MaxFile), OpenBase64File(bytes)
  PROVE  Base64Inv'
<1>1. /\ ~opened /\ opened' = TRUE /\ file' = bytes
      /\ ended' = ended /\ served' = served /\ encoder' = encoder /\ chars' = chars
  BY DEF OpenBase64File
<1>2. /\ ~ended /\ served = 0 /\ encoder \in EncoderState
      /\ Encodes(chars, file, served) /\ Keeps(encoder, file, served) /\ ended \in BOOLEAN
  BY <1>1 DEF Base64Inv
<1>3. bytes \in Seq(Byte)
  BY FilesAreBytes
<1>4. 0 \in 0..Len(bytes)
  BY <1>3, LenProperties
<1>5. Encodes(chars, bytes, 0)
  <2>1. chars \in Seq(0..64) /\ Len(chars) = 0
    BY <1>2 DEF Encodes
  <2>2. QED
    BY <2>1, NothingServed
<1>6. Keeps(encoder, bytes, 0)
  BY <1>2 DEF Keeps
<1>7. QED
  BY <1>1, <1>2, <1>3, <1>4, <1>5, <1>6 DEF Base64Inv

\* The writer reads a piece, and finalizes the encoder after the last.
LEMMA GetInv ==
  ASSUME Base64Inv, NEW n \in 1..MaxFile, Get(n)
  PROVE  Base64Inv'
<1> DEFINE data == SubSeq(file, served + 1, served + n)
           encoded == Encode(encoder, data)
           more == chars \o encoded.chars
<1>1. /\ opened /\ ~ended /\ served + n <= Len(file)
      /\ served' = served + n /\ ended' = (served' = Len(file))
      /\ encoder' = IF ended' THEN [encoded.encoder EXCEPT !.overflowCount = 0]
                    ELSE encoded.encoder
      /\ chars' = more \o IF ended' THEN Finalize(encoded.encoder) ELSE <<>>
      /\ file' = file /\ opened' = opened
  BY DEF Get
<1>2. /\ file \in Seq(Byte) /\ served \in Nat /\ n \in Nat \ {0} /\ Len(file) \in Nat
      /\ opened \in BOOLEAN /\ encoder \in EncoderState
      /\ Encodes(chars, file, served) /\ Keeps(encoder, file, served)
  <2>1. MaxFile \in Nat
    BY FileAssumption
  <2>2. QED
    BY <1>1, <2>1, LenProperties DEF Base64Inv
<1>3. Follows(data, file, served) /\ Len(data) = n /\ data # <<>>
  BY <1>1, <1>2, PieceFollows
<1> HIDE DEF data
<1>4. /\ encoded.encoder \in EncoderState
      /\ Keeps(encoded.encoder, file, served + n)
      /\ Encodes(more, file, served + n)
  BY <1>2, <1>3, EncodePiece
<1> HIDE DEF encoded, more
<1>5. served' \in 0..Len(file) /\ served + n = served'
  BY <1>1, <1>2
<1>6. CASE ended'
  <2>1. served' = Len(file)
    BY <1>1, <1>6
  <2>2. chars' = more \o Finalize(encoded.encoder)
    BY <1>1, <1>6
  <2>3. Finished(chars', file)
    BY <1>2, <1>4, <1>5, <2>1, <2>2, FinishFile
  <2>4. ended' \in BOOLEAN
    BY <1>1
  <2>5. QED
    BY <1>1, <1>2, <1>5, <1>6, <2>3, <2>4 DEF Base64Inv
<1>7. CASE ~ended'
  <2>1. chars' = more
    <3>1. more \in Seq(0..64) /\ chars' = more \o <<>>
      BY <1>1, <1>4, <1>7 DEF Encodes
    <3>2. QED
      BY <3>1, ConcatEmptySeq
  <2>2. encoder' = encoded.encoder
    BY <1>1, <1>7
  <2>3. ended' \in BOOLEAN
    BY <1>1
  <2>4. encoder' \in EncoderState /\ Encodes(chars', file, served') /\ Keeps(encoder', file, served')
    BY <1>4, <1>5, <2>1, <2>2
  <2>5. QED
    BY <1>1, <1>2, <1>5, <1>7, <2>3, <2>4 DEF Base64Inv
<1>8. QED
  BY <1>6, <1>7

LEMMA GetNoneInv ==
  ASSUME Base64Inv, GetNone
  PROVE  Base64Inv'
<1>1. /\ opened /\ ~ended /\ file = <<>> /\ ended' = TRUE /\ file' = file
      /\ opened' = opened /\ served' = served /\ encoder' = encoder /\ chars' = chars
  BY DEF GetNone
<1>2. file \in Seq(Byte) /\ served \in 0..Len(file) /\ opened \in BOOLEAN
      /\ Encodes(chars, file, served)
  BY <1>1 DEF Base64Inv
<1>3. Len(file) = 0 /\ served = 0 /\ 0 \div 3 = 0 /\ 0 % 3 = 0
  BY <1>1, <1>2
<1>4. chars \in Seq(0..64) /\ Len(chars) = 0
  BY <1>2, <1>3 DEF Encodes
<1>5. Finished(chars, file)
  <2>1. Triples(chars, file, 0)
    BY <1>3, <1>4 DEF Triples
  <2>2. QED
    BY <1>3, <1>4, <2>1 DEF Finished
<1>6. QED
  BY <1>1, <1>2, <1>5 DEF Base64Inv

\* From the beginning of a file to its end the encoder has emitted the characters of
\* the bytes it was given (encode and finalize of utility.hpp, called by the writer's
\* get), whatever the sizes of the pieces.
THEOREM Base64Invariance == Base64Spec => []Base64Inv
<1>1. Base64Inv /\ [Base64Next]_base64Vars => Base64Inv'
  <2> SUFFICES ASSUME Base64Inv, [Base64Next]_base64Vars
               PROVE  Base64Inv'
    OBVIOUS
  <2>1. ASSUME NEW bytes \in BoundedSeq(FileBytes, MaxFile), OpenBase64File(bytes)
        PROVE  Base64Inv'
    BY <2>1, OpenInv
  <2>2. ASSUME NEW n \in 1..MaxFile, Get(n)
        PROVE  Base64Inv'
    BY <2>2, GetInv
  <2>3. CASE GetNone
    BY <2>3, GetNoneInv
  <2>4. CASE UNCHANGED base64Vars
    BY <2>4 DEF base64Vars, Base64Inv
  <2>5. QED
    BY <2>1, <2>2, <2>3, <2>4 DEF Base64Next
<1>2. QED
  BY <1>1, InitInv, PTL DEF Base64Spec

\* What was sent of a file decodes to its beginning, and in the end to the file (FileServed):
\* for files of every length and every bytes, in pieces of every size, with the padding
\* and with some of it left off.
THEOREM FilesArrive == Base64Spec => []FileServed
<1>1. Base64Inv => FileServed
  <2> SUFFICES ASSUME Base64Inv
               PROVE  FileServed
    OBVIOUS
  <2> DEFINE decoded == Base64Decode(chars)
             q == served \div 3
  <2>1. file \in Seq(Byte) /\ served \in 0..Len(file) /\ Len(file) \in Nat
    BY LenProperties DEF Base64Inv
  <2>2. CASE ~ended
    <3>1. Encodes(chars, file, served) /\ Keeps(encoder, file, served)
      BY <2>2 DEF Base64Inv
    <3>2. decoded = [ok |-> TRUE, bytes |-> SubSeq(file, 1, 3 * q)]
      BY <2>1, <3>1, DecodeServed
    <3>3. served \in Nat /\ served = 3 * q + (served % 3) /\ q \in Nat /\ served % 3 \in 0..2
      BY <2>1, ByThree
    <3> HIDE DEF decoded, q
    <3>4. 3 * q \in 0..Len(file) /\ 3 * q <= Len(file) /\ 3 * q = served - (served % 3)
      BY <2>1, <3>3
    <3>5. Len(SubSeq(file, 1, 3 * q)) = 3 * q
      BY <2>1, <3>4, PrefixFacts
    <3>6. decoded.ok /\ Len(decoded.bytes) = 3 * q /\ decoded.bytes = SubSeq(file, 1, 3 * q)
      BY <3>2, <3>5
    <3>7. encoder.overflowCount = served % 3
      BY <3>1 DEF Keeps
    <3>8. QED
      BY <2>2, <3>4, <3>6, <3>7 DEF FileServed, decoded
  <2>3. CASE ended
    <3>1. Finished(chars, file)
      BY <2>3 DEF Base64Inv
    <3>2. chars \in Seq(0..64) /\ Len(chars) \in Nat /\ Len(chars) \in 0..Len(chars)
      BY <3>1, LenProperties DEF Finished
    <3>3. SubSeq(chars, 1, Len(chars)) = chars
      BY <3>2, WholeSeq
    <3>4. decoded = [ok |-> TRUE, bytes |-> file]
      <4>1. \A i \in (Len(chars) + 1)..Len(chars) : chars[i] = Pad
        BY <3>2
      <4>2. QED
        BY <2>1, <3>1, <3>2, <3>3, <4>1, DecodeFinished, ZenonT(60)
    <3> HIDE DEF decoded
    <3>5. ASSUME NEW n \in 0..Len(chars), \A i \in (n + 1)..Len(chars) : chars[i] = Pad
          PROVE  Base64Decode(SubSeq(chars, 1, n)) = decoded
      BY <2>1, <3>1, <3>4, <3>5, DecodeFinished
    <3>6. Len(chars) = EncodedSize(Len(file))
      BY <2>1, <3>1, FinishedSize
    <3>7. SubSeq(file, 1, Len(file)) = file
      BY <2>1, WholeSeq
    <3>8. decoded.ok /\ decoded.bytes = file
      BY <3>4
    <3>9. QED
      BY <2>1, <2>3, <3>5, <3>6, <3>7, <3>8 DEF FileServed, decoded
  <2>4. QED
    BY <2>2, <2>3
<1>2. QED
  BY <1>1, Base64Invariance, PTL
=============================================================================
