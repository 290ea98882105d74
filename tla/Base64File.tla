----------------------------- MODULE Base64File -----------------------------
(***************************************************************************)
(* A file sent as base64 (src/http/http_base64_file_body.hpp) by the       *)
(* encoder of src/http/utility.hpp, which is given the file piece by piece *)
(* and keeps the bytes that make no triple yet; and the decoder there.     *)
(*                                                                         *)
(* A character is its index in the encoder's table "key", of which the     *)
(* decoder's table is the inverse; Pad is "=", which is in neither.        *)
(***************************************************************************)
EXTENDS Integers, Sequences, SequencesExt

CONSTANTS FileBytes,     \* the bytes that occur in files
          MaxFile        \* how many of them a file has at most

Pad == 64

ASSUME FileAssumption == FileBytes \subseteq 0..255 /\ MaxFile \in Nat

VARIABLES file,          \* the file, once a response has opened it
          opened, ended,
          served,        \* how many bytes of it were read
          encoder,       \* overflow1, overflow2 and overflowCount
          chars          \* what was emitted

base64Vars == <<file, opened, ended, served, encoder, chars>>

-----------------------------------------------------------------------------
(* The encoder.                                                            *)

Fresh == [overflow1 |-> 0, overflow2 |-> 0, overflowCount |-> 0]

EncodeTriple(first, second, third) ==
  <<first \div 4,
    (first % 4) * 16 + second \div 16,
    (second % 16) * 4 + third \div 64,
    third % 64>>

\* The loop: as many triples as the bytes make, four characters each.
EncodeTriples(bytes) ==
  [j \in 1..(4 * (Len(bytes) \div 3)) |->
     LET i == 3 * ((j - 1) \div 4)
     IN  EncodeTriple(bytes[i + 1], bytes[i + 2], bytes[i + 3])[((j - 1) % 4) + 1]]

Drop(seq, n) == SubSeq(seq, n + 1, Len(seq))

\* Variant: one byte after one that was kept goes into a triple, too.
CompletesEarly(e, data) ==
  CASE e.overflowCount = 2 /\ data # <<>> -> 1
    [] e.overflowCount = 1 /\ data # <<>> -> 1
    [] OTHER -> 0

\* How many bytes of the piece complete the triple that was begun.
Completes(e, data) ==
  CASE e.overflowCount = 2 /\ data # <<>>   -> 1
    [] e.overflowCount = 1 /\ Len(data) >= 2 -> 2
    [] OTHER -> 0

KeepFirst(e, byte) == [e EXCEPT !.overflow1 = byte, !.overflowCount = 1]
KeepSecond(e, byte) == [e EXCEPT !.overflow2 = byte, !.overflowCount = 2]

\* Up to two bytes that are left are kept, after what is still kept.
Keep(e, rest) ==
  LET starts == rest # <<>> /\ e.overflowCount = 0
      one == IF starts THEN KeepFirst(e, rest[1]) ELSE e
      more == IF starts THEN Tail(rest) ELSE rest
  IN  IF more # <<>> /\ one.overflowCount = 1 THEN KeepSecond(one, more[1]) ELSE one

\* The encoder and what it emits after one more piece.
Encode(e, data) ==
  LET n == Completes(e, data)
      begun == CASE n = 0 -> <<>>
                 [] n = 1 -> EncodeTriple(e.overflow1, e.overflow2, data[1])
                 [] n = 2 -> EncodeTriple(e.overflow1, data[1], data[2])
      rest == Drop(data, n)
  IN  [encoder |-> Keep(IF n = 0 THEN e ELSE [e EXCEPT !.overflowCount = 0],
                        Drop(rest, 3 * (Len(rest) \div 3))),
       chars |-> begun \o EncodeTriples(rest)]

Finalize(e) ==
  LET first == e.overflow1 \div 4
      second == (e.overflow1 % 4) * 16
  IN  CASE e.overflowCount = 0 -> <<>>
        [] e.overflowCount = 1 -> <<first, second, Pad, Pad>>
        [] e.overflowCount = 2 -> <<first, second + e.overflow2 \div 16,
                                    (e.overflow2 % 16) * 4, Pad>>

\* The content length that the response announces.
EncodedSize(n) == ((n + 2) \div 3) * 4

-----------------------------------------------------------------------------
(* The decoder, by groups of four characters.                              *)

\* A group g may be short, at the end of the input.
HasCode(g, i) == i <= Len(g) /\ g[i] # Pad
CodeAt(g, i) == IF HasCode(g, i) THEN g[i] ELSE 0

ByteCount(g) ==
  IF ~HasCode(g, 1) \/ ~HasCode(g, 2) THEN 0
  ELSE IF ~HasCode(g, 3) THEN 1
  ELSE IF ~HasCode(g, 4) THEN 2 ELSE 3

GroupBytes(g) ==
  <<(CodeAt(g, 1) * 4) + ((CodeAt(g, 2) \div 16) % 4),
    ((CodeAt(g, 2) * 16) % 256) + ((CodeAt(g, 3) \div 4) % 16),
    ((CodeAt(g, 3) * 64) % 256) + CodeAt(g, 4)>>

\* The bits that padding leaves over.
SpareBitsZero(g) ==
  /\ ByteCount(g) = 1 /\ Len(g) >= 3 => CodeAt(g, 2) % 16 = 0
  /\ ByteCount(g) = 2 /\ Len(g) = 4 => CodeAt(g, 3) % 4 = 0

\* One group: what it decodes to and whether the input ends here.
DecodeGroup(g) ==
  [ok |-> ByteCount(g) > 0 /\ SpareBitsZero(g),
   bytes |-> [j \in 1..ByteCount(g) |-> GroupBytes(g)[j]],
   last |-> ByteCount(g) < 3]

\* The group at i, of which the last may be short.
DecodedAt(input, i) ==
  DecodeGroup(SubSeq(input, 4 * i - 3, IF 4 * i > Len(input) THEN Len(input) ELSE 4 * i))

\* The group that ends the input.
EndsAt(input) ==
  LET groups == (Len(input) + 3) \div 4
  IN  CHOOSE i \in 1..groups : /\ \A h \in 1..(i - 1) : ~DecodedAt(input, h).last
                               /\ i = groups \/ DecodedAt(input, i).last

\* The groups up to that one; those before it give three bytes each, for only a
\* full group of characters of the table does not end the input.
Base64Decode(input) ==
  IF input = <<>> THEN [ok |-> TRUE, bytes |-> <<>>]
  ELSE LET end == EndsAt(input)
           last == DecodedAt(input, end)
       IN  [ok |-> last.ok,
            bytes |-> [j \in 1..(3 * (end - 1) + Len(last.bytes)) |->
                         DecodedAt(input, ((j - 1) \div 3) + 1).bytes[((j - 1) % 3) + 1]]]

-----------------------------------------------------------------------------
Base64Init ==
  /\ file = <<>> /\ opened = FALSE /\ ended = FALSE
  /\ served = 0 /\ encoder = Fresh /\ chars = <<>>

\* A response opens a file; every response has an encoder of its own.
OpenBase64File(bytes) ==
  /\ ~opened
  /\ opened' = TRUE /\ file' = bytes
  /\ UNCHANGED <<ended, served, encoder, chars>>

\* The writer reads n more bytes; with the last ones it finalizes.
Get(n) ==
  LET encoded == Encode(encoder, SubSeq(file, served + 1, served + n)) IN
  /\ opened /\ ~ended /\ served + n <= Len(file)
  /\ served' = served + n
  /\ ended' = (served' = Len(file))
  /\ encoder' = IF ended' THEN [encoded.encoder EXCEPT !.overflowCount = 0]
                ELSE encoded.encoder
  /\ chars' = chars \o encoded.chars \o IF ended' THEN Finalize(encoded.encoder) ELSE <<>>
  /\ UNCHANGED <<file, opened>>

\* Nothing is left to be read from the start.
GetNone ==
  /\ opened /\ ~ended /\ file = <<>>
  /\ ended' = TRUE
  /\ UNCHANGED <<file, opened, served, encoder, chars>>

Base64Next ==
  \/ \E bytes \in BoundedSeq(FileBytes, MaxFile) : OpenBase64File(bytes)
  \/ \E n \in 1..MaxFile : Get(n)
  \/ GetNone

Base64Spec == Base64Init /\ [][Base64Next]_base64Vars

-----------------------------------------------------------------------------
\* However the file is cut into pieces: what was sent decodes to its beginning;
\* in the end it is as long as the header says and decodes to the file, with its
\* padding and with some or all of the padding left off.
FileServed ==
  LET decoded == Base64Decode(chars) IN
  /\ decoded.ok /\ Len(decoded.bytes) <= Len(file)
  /\ decoded.bytes = SubSeq(file, 1, Len(decoded.bytes))
  /\ ~ended => Len(decoded.bytes) = served - encoder.overflowCount
  /\ ended => /\ Len(chars) = EncodedSize(Len(file))
              /\ decoded.bytes = file
              /\ \A n \in 0..Len(chars) :
                   (\A i \in (n + 1)..Len(chars) : chars[i] = Pad) =>
                      Base64Decode(SubSeq(chars, 1, n)) = decoded
=============================================================================
