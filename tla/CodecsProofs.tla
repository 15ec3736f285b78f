----------------------------- MODULE CodecsProofs ------------------------------
(***************************************************************************)
(* What the functions of Codecs return for every input.                    *)
(*                                                                         *)
(* base64_encode and base64_decode call themselves further on in their     *)
(* input: the proofs give the result in closed form, show that it          *)
(* satisfies the recursive equation and that nothing else does, from the   *)
(* end of the input back.  URI::parse is followed from cut to cut: each    *)
(* part is a piece of the URL, and pieces that meet are put together.  For *)
(* the pairs of the connector and the fields of a header, the places at    *)
(* which serialize puts each string are those at which the loop of the     *)
(* reader is after as many rounds, so every round reads the next pair.     *)
(***************************************************************************)
EXTENDS Codecs, HttpBytesProofs, TLAPS, SequenceTheorems, WellFoundedInduction

-----------------------------------------------------------------------------
(* Recursion that goes towards the end of its input *)

\* Two functions that are made in the same way of what they return further on
\* are the same.
Solves(f, H, last, step) ==
    \A p \in Nat : f[p] = IF p > last THEN <<>> ELSE H[p] \o f[p + step]

LEMMA OneSolution ==
  ASSUME NEW f, NEW g, NEW last \in Nat, NEW step \in Nat \ {0}, NEW H,
         Solves(f, H, last, step), Solves(g, H, last, step)
  PROVE  \A p \in Nat : f[p] = g[p]
<1> USE DEF Solves
<1> DEFINE T == {p \in Nat : f[p] = g[p]}
<1>3. \A p \in Nat : p > last => p \in T
  OBVIOUS
<1>4. ASSUME NEW p \in Nat, p + step \in T PROVE p \in T
  <2>1. p + step \in Nat
    OBVIOUS
  <2> QED
    BY <1>4, <2>1
<1>5. T = Nat
  <2> HIDE DEF T
  <2>1. T \in SUBSET Nat
    BY DEF T
  <2> QED
    BY <1>3, <1>4, <2>1, FromTheEnd
<1> QED
  BY <1>5

-----------------------------------------------------------------------------
(* base64_encode: four symbols for every third place *)

\* The groups of `step` places from p on.
Following(p, last, step) == IF p > last THEN 0 ELSE ((last - p) \div step) + 1

\* Four symbols for each of them, in their order.
FourEach(H, last) ==
    [p \in Nat |-> [k \in 1 .. 4 * Following(p, last, 3) |->
                       H[p + 3 * ((k - 1) \div 4)][((k - 1) % 4) + 1]]]

LEMMA CountsFours ==
  ASSUME NEW m \in Nat, NEW k \in 1 .. 4 * m
  PROVE  /\ k <= 4 => k \in 1 .. 4 /\ (k - 1) \div 4 = 0 /\ (k - 1) % 4 = k - 1
         /\ k > 4 => /\ k - 4 \in 1 .. 4 * (m - 1)
                     /\ (k - 1) \div 4 = ((k - 4 - 1) \div 4) + 1
                     /\ (k - 1) % 4 = (k - 4 - 1) % 4
                     /\ (k - 4 - 1) \div 4 \in Nat
         /\ k <= 4 \/ k > 4
  OBVIOUS

LEMMA FourEachIsThere ==
  ASSUME NEW S, NEW H \in [Nat -> Seq(S)], \A p \in Nat : Len(H[p]) = 4,
         NEW last \in Nat, NEW p \in Nat
  PROVE  FourEach(H, last)[p] = IF p > last THEN <<>> ELSE H[p] \o FourEach(H, last)[p + 3]
<1> DEFINE n == Following(p, last, 3)
           s == FourEach(H, last)[p]
           t == FourEach(H, last)[p + 3]
           at(q, k) == H[q + 3 * ((k - 1) \div 4)][((k - 1) % 4) + 1]
<1>1. s = [k \in 1 .. 4 * n |-> at(p, k)]
  BY DEF FourEach
<1>2. t = [k \in 1 .. 4 * Following(p + 3, last, 3) |-> at(p + 3, k)]
  BY DEF FourEach
<1>3. CASE p > last
  <2>1. n = 0
    BY <1>3 DEF Following
  <2>2. s = <<>>
    BY <1>1, <2>1
  <2> QED
    BY <1>3, <2>2
<1>4. CASE p <= last
  <2>1. PICK m \in Nat : m = n /\ m >= 1 /\ Following(p + 3, last, 3) = m - 1
    BY <1>4, SMTT(30) DEF Following
  <2>2. ASSUME NEW q \in Nat, NEW k \in Nat, k >= 1 PROVE at(q, k) \in S
    <3>1. q + 3 * ((k - 1) \div 4) \in Nat /\ ((k - 1) % 4) + 1 \in 1 .. 4
      BY <2>2
    <3> QED
      BY <3>1, ElementOfSeq
  <2> HIDE DEF n, at
  <2>3. t = [k \in 1 .. 4 * (m - 1) |-> at(p + 3, k)]
    BY <1>2, <2>1
  <2>4. t \in Seq(S) /\ Len(t) = 4 * (m - 1)
    <3>1. \A k \in 1 .. 4 * (m - 1) : at(p + 3, k) \in S
      BY <2>2, <2>1
    <3>2. t \in [1 .. 4 * (m - 1) -> S]
      BY <2>3, <3>1
    <3>3. 4 * (m - 1) \in Nat
      BY <2>1
    <3> HIDE DEF t
    <3> QED
      BY <3>2, <3>3
  <2>5. H[p] \in Seq(S) /\ Len(H[p]) = 4
    OBVIOUS
  <2> HIDE DEF s, t
  <2>6. /\ H[p] \o t \in Seq(S)
        /\ Len(H[p] \o t) = 4 * m
        /\ \A k \in 1 .. 4 * m : (H[p] \o t)[k] = IF k <= 4 THEN H[p][k] ELSE t[k - 4]
    <3>1. 4 + 4 * (m - 1) = 4 * m
      OBVIOUS
    <3>2. /\ H[p] \o t \in Seq(S) /\ Len(H[p] \o t) = Len(H[p]) + Len(t)
          /\ \A k \in 1 .. Len(H[p]) + Len(t) :
               (H[p] \o t)[k] = IF k <= Len(H[p]) THEN H[p][k] ELSE t[k - Len(H[p])]
      BY <2>4, <2>5, ConcatProperties
    <3> QED
      BY <3>1, <3>2, <2>4, <2>5
  <2>7. ASSUME NEW k \in 1 .. 4 * m PROVE at(p, k) = (H[p] \o t)[k]
    <3>1. CASE k <= 4
      <4>1. (k - 1) \div 4 = 0 /\ (k - 1) % 4 = k - 1
        BY <3>1, CountsFours
      <4> QED
        BY <4>1, <2>6, <3>1 DEF at
    <3>2. CASE k > 4
      <4>1. k - 4 \in 1 .. 4 * (m - 1)
        BY <3>2, CountsFours
      <4>2. (k - 1) \div 4 = ((k - 4 - 1) \div 4) + 1 /\ (k - 1) % 4 = (k - 4 - 1) % 4
        BY <3>2, CountsFours
      <4>3. (H[p] \o t)[k] = at(p + 3, k - 4)
        BY <2>1, <2>6, <2>3, <3>2, <4>1
      <4>4. p + 3 * ((k - 1) \div 4) = (p + 3) + 3 * ((k - 4 - 1) \div 4)
        BY <4>2, <4>1, <3>2, CountsFours
      <4> QED
        BY <4>2, <4>3, <4>4 DEF at
    <3> QED
      BY <3>1, <3>2, CountsFours
  <2>8. H[p] \o t = [k \in 1 .. 4 * m |-> (H[p] \o t)[k]]
    BY <2>6
  <2>9. s = H[p] \o t
    <3> DEFINE c == H[p] \o t
    <3>1. c = [k \in 1 .. 4 * m |-> c[k]]
      BY <2>8
    <3>2. \A k \in 1 .. 4 * m : at(p, k) = c[k]
      BY <2>7
    <3>3. s = [k \in 1 .. 4 * m |-> at(p, k)]
      BY <1>1, <2>1 DEF s
    <3> HIDE DEF c
    <3>4. s = c
      BY <3>1, <3>2, <3>3
    <3> QED
      BY <3>4 DEF c
  <2> QED
    BY <2>9, <1>4 DEF s, t
<1> QED
  BY <1>3, <1>4

\* What is written for a group is four symbols, whatever is in the text.
EncodedGroups(str) == [p \in Nat |-> EncodeAt(str, p)]

LEMMA GroupIsFour ==
  ASSUME NEW str
  PROVE  \E S : /\ EncodedGroups(str) \in [Nat -> Seq(S)]
                /\ \A p \in Nat : Len(EncodedGroups(str)[p]) = 4
<1> DEFINE H == EncodedGroups(str)
           S == {H[p][i] : p \in Nat, i \in 1 .. 4}
<1>1. ASSUME NEW p \in Nat PROVE \E a, b, c, d : EncodeAt(str, p) = <<a, b, c, d>>
  BY DEF EncodeAt
<1>2. ASSUME NEW p \in Nat PROVE H[p] \in Seq(S) /\ Len(H[p]) = 4
  <2>1. PICK a, b, c, d : EncodeAt(str, p) = <<a, b, c, d>>
    BY <1>1
  <2>2. H[p] = <<a, b, c, d>>
    BY <2>1 DEF EncodedGroups
  <2>3. a \in S /\ b \in S /\ c \in S /\ d \in S
    <3>1. H[p][1] = a /\ H[p][2] = b /\ H[p][3] = c /\ H[p][4] = d
      BY <2>2
    <3> QED
      BY <3>1
  <2> HIDE DEF S, H
  <2> QED
    BY <2>2, <2>3
<1>3. H = [p \in Nat |-> H[p]]
  BY DEF EncodedGroups
<1> HIDE DEF S, H
<1>4. H \in [Nat -> Seq(S)]
  BY <1>2, <1>3
<1> QED
  BY <1>2, <1>4 DEF H

\* The result of base64_encode, without recursion.
LEMMA EncodeClosed ==
  ASSUME NEW str, Len(str) \in Nat
  PROVE  base64_encode(str) = FourEach(EncodedGroups(str), Len(str))[1]
<1> DEFINE last == Len(str)
           H == EncodedGroups(str)
           g == FourEach(H, last)
           Is(f) == f = [pos \in Nat |-> IF pos > Len(str) THEN <<>> ELSE EncodeAt(str, pos) \o f[pos + 3]]
<1>1. base64_encode(str) = (CHOOSE f : Is(f))[1]
  BY DEF base64_encode
<1>2. Solves(g, H, last, 3)
  <2>1. PICK S : H \in [Nat -> Seq(S)] /\ \A p \in Nat : Len(H[p]) = 4
    BY GroupIsFour
  <2> HIDE DEF H
  <2> QED
    BY <2>1, FourEachIsThere DEF Solves
<1>3. g = [p \in Nat |-> g[p]]
  BY DEF FourEach
<1>4. \A p \in Nat : H[p] = EncodeAt(str, p)
  BY DEF EncodedGroups
<1>5. Is(g)
  <2> HIDE DEF g, H
  <2> QED
    BY <1>2, <1>3, <1>4 DEF Solves
<1>6. Is(CHOOSE f : Is(f))
  <2> HIDE DEF Is
  <2> QED
    BY <1>5
<1>7. ASSUME NEW f, Is(f) PROVE f[1] = g[1]
  <2>1. Solves(f, H, last, 3)
    <3> HIDE DEF H
    <3> QED
      BY <1>7, <1>4 DEF Solves
  <2>2. last \in Nat /\ 3 \in Nat \ {0}
    OBVIOUS
  <2> HIDE DEF g, H, last
  <2>4. \A p \in Nat : f[p] = g[p]
    BY <2>1, <2>2, <1>2, OneSolution
  <2> QED
    BY <2>4
<1> HIDE DEF Is
<1> QED
  BY <1>1, <1>6, <1>7
-----------------------------------------------------------------------------
(* base64_decode: three octets for every fourth place *)

\* Three octets for each of them, in their order.
ThreeEach(H, last) ==
    [p \in Nat |-> [k \in 1 .. 3 * Following(p, last, 4) |->
                       H[p + 4 * ((k - 1) \div 3)][((k - 1) % 3) + 1]]]

LEMMA CountsThrees ==
  ASSUME NEW m \in Nat, NEW k \in 1 .. 3 * m
  PROVE  /\ k <= 3 => k \in 1 .. 3 /\ (k - 1) \div 3 = 0 /\ (k - 1) % 3 = k - 1
         /\ k > 3 => /\ k - 3 \in 1 .. 3 * (m - 1)
                     /\ (k - 1) \div 3 = ((k - 3 - 1) \div 3) + 1
                     /\ (k - 1) % 3 = (k - 3 - 1) % 3
                     /\ (k - 3 - 1) \div 3 \in Nat
         /\ k <= 3 \/ k > 3
  OBVIOUS

LEMMA ThreeEachIsThere ==
  ASSUME NEW S, NEW H \in [Nat -> Seq(S)], \A p \in Nat : Len(H[p]) = 3,
         NEW last \in Nat, NEW p \in Nat
  PROVE  ThreeEach(H, last)[p] = IF p > last THEN <<>> ELSE H[p] \o ThreeEach(H, last)[p + 4]
<1> DEFINE n == Following(p, last, 4)
           s == ThreeEach(H, last)[p]
           t == ThreeEach(H, last)[p + 4]
           at(q, k) == H[q + 4 * ((k - 1) \div 3)][((k - 1) % 3) + 1]
<1>1. s = [k \in 1 .. 3 * n |-> at(p, k)]
  BY DEF ThreeEach
<1>2. t = [k \in 1 .. 3 * Following(p + 4, last, 4) |-> at(p + 4, k)]
  BY DEF ThreeEach
<1>3. CASE p > last
  <2>1. n = 0
    BY <1>3 DEF Following
  <2>2. s = <<>>
    BY <1>1, <2>1
  <2> QED
    BY <1>3, <2>2
<1>4. CASE p <= last
  <2>1. PICK m \in Nat : m = n /\ m >= 1 /\ Following(p + 4, last, 4) = m - 1
    BY <1>4, SMTT(30) DEF Following
  <2>2. ASSUME NEW q \in Nat, NEW k \in Nat, k >= 1 PROVE at(q, k) \in S
    <3>1. q + 4 * ((k - 1) \div 3) \in Nat /\ ((k - 1) % 3) + 1 \in 1 .. 3
      BY <2>2
    <3> QED
      BY <3>1, ElementOfSeq
  <2> HIDE DEF n, at
  <2>3. t = [k \in 1 .. 3 * (m - 1) |-> at(p + 4, k)]
    BY <1>2, <2>1
  <2>4. t \in Seq(S) /\ Len(t) = 3 * (m - 1)
    <3>1. \A k \in 1 .. 3 * (m - 1) : at(p + 4, k) \in S
      BY <2>2, <2>1
    <3>2. t \in [1 .. 3 * (m - 1) -> S]
      BY <2>3, <3>1
    <3>3. 3 * (m - 1) \in Nat
      BY <2>1
    <3> HIDE DEF t
    <3> QED
      BY <3>2, <3>3
  <2>5. H[p] \in Seq(S) /\ Len(H[p]) = 3
    OBVIOUS
  <2> HIDE DEF s, t
  <2>6. /\ H[p] \o t \in Seq(S)
        /\ Len(H[p] \o t) = 3 * m
        /\ \A k \in 1 .. 3 * m : (H[p] \o t)[k] = IF k <= 3 THEN H[p][k] ELSE t[k - 3]
    <3>1. 3 + 3 * (m - 1) = 3 * m
      OBVIOUS
    <3>2. /\ H[p] \o t \in Seq(S) /\ Len(H[p] \o t) = Len(H[p]) + Len(t)
          /\ \A k \in 1 .. Len(H[p]) + Len(t) :
               (H[p] \o t)[k] = IF k <= Len(H[p]) THEN H[p][k] ELSE t[k - Len(H[p])]
      BY <2>4, <2>5, ConcatProperties
    <3> QED
      BY <3>1, <3>2, <2>4, <2>5
  <2>7. ASSUME NEW k \in 1 .. 3 * m PROVE at(p, k) = (H[p] \o t)[k]
    <3>1. CASE k <= 3
      <4>1. (k - 1) \div 3 = 0 /\ (k - 1) % 3 = k - 1
        BY <3>1, CountsThrees
      <4> QED
        BY <4>1, <2>6, <3>1 DEF at
    <3>2. CASE k > 3
      <4>1. k - 3 \in 1 .. 3 * (m - 1)
        BY <3>2, CountsThrees
      <4>2. (k - 1) \div 3 = ((k - 3 - 1) \div 3) + 1 /\ (k - 1) % 3 = (k - 3 - 1) % 3
        BY <3>2, CountsThrees
      <4>3. (H[p] \o t)[k] = at(p + 4, k - 3)
        BY <2>1, <2>6, <2>3, <3>2, <4>1
      <4>4. p + 4 * ((k - 1) \div 3) = (p + 4) + 4 * ((k - 3 - 1) \div 3)
        BY <4>2, <4>1, <3>2, CountsThrees
      <4> QED
        BY <4>2, <4>3, <4>4 DEF at
    <3> QED
      BY <3>1, <3>2, CountsThrees
  <2>8. H[p] \o t = [k \in 1 .. 3 * m |-> (H[p] \o t)[k]]
    BY <2>6
  <2>9. s = H[p] \o t
    <3> DEFINE c == H[p] \o t
    <3>1. c = [k \in 1 .. 3 * m |-> c[k]]
      BY <2>8
    <3>2. \A k \in 1 .. 3 * m : at(p, k) = c[k]
      BY <2>7
    <3>3. s = [k \in 1 .. 3 * m |-> at(p, k)]
      BY <1>1, <2>1 DEF s
    <3> HIDE DEF c
    <3>4. s = c
      BY <3>1, <3>2, <3>3
    <3> QED
      BY <3>4 DEF c
  <2> QED
    BY <2>9, <1>4 DEF s, t
<1> QED
  BY <1>3, <1>4

\* What is read of a group is three octets, whatever the symbols are.
DecodedGroups(str) == [p \in Nat |-> DecodeAt(str, p)]

LEMMA GroupIsThree ==
  ASSUME NEW str
  PROVE  \E S : /\ DecodedGroups(str) \in [Nat -> Seq(S)]
                /\ \A p \in Nat : Len(DecodedGroups(str)[p]) = 3
<1> DEFINE H == DecodedGroups(str)
           S == {H[p][i] : p \in Nat, i \in 1 .. 3}
<1>1. ASSUME NEW p \in Nat PROVE \E a, b, c : DecodeAt(str, p) = <<a, b, c>>
  BY DEF DecodeAt, Unparts
<1>2. ASSUME NEW p \in Nat PROVE H[p] \in Seq(S) /\ Len(H[p]) = 3
  <2>1. PICK a, b, c : DecodeAt(str, p) = <<a, b, c>>
    BY <1>1
  <2>2. H[p] = <<a, b, c>>
    BY <2>1 DEF DecodedGroups
  <2>3. a \in S /\ b \in S /\ c \in S
    <3>1. H[p][1] = a /\ H[p][2] = b /\ H[p][3] = c
      BY <2>2
    <3> QED
      BY <3>1
  <2> HIDE DEF S, H
  <2> QED
    BY <2>2, <2>3
<1>3. H = [p \in Nat |-> H[p]]
  BY DEF DecodedGroups
<1> HIDE DEF S, H
<1>4. H \in [Nat -> Seq(S)]
  BY <1>2, <1>3
<1> QED
  BY <1>2, <1>4 DEF H

\* The result of base64_decode, without recursion.
LEMMA DecodeClosed ==
  ASSUME NEW str, Len(str) \in Nat
  PROVE  base64_decode(str) = ThreeEach(DecodedGroups(str), Len(str))[1]
<1> DEFINE last == Len(str)
           H == DecodedGroups(str)
           g == ThreeEach(H, last)
           Is(f) == f = [pos \in Nat |-> IF pos > Len(str) THEN <<>> ELSE DecodeAt(str, pos) \o f[pos + 4]]
<1>1. base64_decode(str) = (CHOOSE f : Is(f))[1]
  BY DEF base64_decode
<1>2. Solves(g, H, last, 4)
  <2>1. PICK S : H \in [Nat -> Seq(S)] /\ \A p \in Nat : Len(H[p]) = 3
    BY GroupIsThree
  <2> HIDE DEF H
  <2> QED
    BY <2>1, ThreeEachIsThere DEF Solves
<1>3. g = [p \in Nat |-> g[p]]
  BY DEF ThreeEach
<1>4. \A p \in Nat : H[p] = DecodeAt(str, p)
  BY DEF DecodedGroups
<1>5. Is(g)
  <2> HIDE DEF g, H
  <2> QED
    BY <1>2, <1>3, <1>4 DEF Solves
<1>6. Is(CHOOSE f : Is(f))
  <2> HIDE DEF Is
  <2> QED
    BY <1>5
<1>7. ASSUME NEW f, Is(f) PROVE f[1] = g[1]
  <2>1. Solves(f, H, last, 4)
    <3> HIDE DEF H
    <3> QED
      BY <1>7, <1>4 DEF Solves
  <2>2. last \in Nat /\ 4 \in Nat \ {0}
    OBVIOUS
  <2> HIDE DEF g, H, last
  <2>4. \A p \in Nat : f[p] = g[p]
    BY <2>1, <2>2, <1>2, OneSolution
  <2> QED
    BY <2>4
<1> HIDE DEF Is
<1> QED
  BY <1>1, <1>6, <1>7

-----------------------------------------------------------------------------
(* The result is Radix-64 *)

\* An octet of the text, or a zero octet behind its end.
OctetAt(str, k) == IF k <= Len(str) THEN str[k] ELSE 0

LEMMA SymbolsDiffer == \A i, j \in 0 .. 63 : Symbol(i) = Symbol(j) => i = j
BY SMTT(120) DEF Symbol, BASE64_TABLE

LEMMA NoSymbolIsPad == \A i \in 0 .. 63 : Symbol(i) # Pad
BY SMTT(60) DEF Symbol, BASE64_TABLE, Pad

LEMMA PartsAreDigits ==
  ASSUME NEW a \in Octet, NEW b \in Octet, NEW c \in Octet
  PROVE  Parts(a, b, c) = Digits(a, b, c)
BY SMTT(150) DEF Parts, Digits, Octet

LEMMA PartsInRange ==
  ASSUME NEW a \in Octet, NEW b \in Octet, NEW c \in Octet
  PROVE  \A i \in 1 .. 4 : Parts(a, b, c)[i] \in 0 .. 63
BY SMTT(150) DEF Parts, Octet

LEMMA PartsJoin ==
  ASSUME NEW a \in Octet, NEW b \in Octet, NEW c \in Octet
  PROVE  Unparts(Parts(a, b, c)) = <<a, b, c>>
BY SMTT(150) DEF Parts, Unparts, Octet

\* The parts that have no bit of the text are zero.
LEMMA PartsOfNothing ==
  ASSUME NEW a \in Octet, NEW b \in Octet
  PROVE  Parts(a, b, 0)[4] = 0 /\ Parts(a, 0, 0)[3] = 0
BY SMTT(150) DEF Parts, Octet

LEMMA OctetAtIsOctet ==
  ASSUME NEW str \in Seq(Octet), NEW k \in Nat \ {0}
  PROVE  OctetAt(str, k) \in Octet
<1>1. CASE k <= Len(str)
  <2>1. k \in 1 .. Len(str)
    BY <1>1
  <2> QED
    BY <1>1, <2>1, ElementOfSeq DEF OctetAt
<1>2. CASE ~(k <= Len(str))
  BY <1>2 DEF OctetAt, Octet
<1> QED
  BY <1>1, <1>2

\* A symbol of a group, and where a pad stands instead.
LEMMA SymbolOfGroup ==
  ASSUME NEW str \in Seq(Octet), NEW pos \in 1 .. Len(str), NEW i \in 1 .. 4
  PROVE  EncodeAt(str, pos)[i]
           = IF (pos = Len(str) /\ i >= 3) \/ (pos + 1 = Len(str) /\ i = 4)
             THEN Pad
             ELSE Symbol(Parts(OctetAt(str, pos), OctetAt(str, pos + 1), OctetAt(str, pos + 2))[i])
<1> DEFINE parts == Parts(OctetAt(str, pos), OctetAt(str, pos + 1), OctetAt(str, pos + 2))
           sym(k) == Symbol(parts[k])
<1>1. EncodeAt(str, pos)
        = CASE pos = Len(str)     -> <<sym(1), sym(2), Pad, Pad>>
            [] pos + 1 = Len(str) -> <<sym(1), sym(2), sym(3), Pad>>
            [] OTHER              -> <<sym(1), sym(2), sym(3), sym(4)>>
  BY Zenon DEF EncodeAt, OctetAt
<1>2. i = 1 \/ i = 2 \/ i = 3 \/ i = 4
  OBVIOUS
<1> HIDE DEF sym, parts
<1>3. EncodeAt(str, pos)[i] = IF (pos = Len(str) /\ i >= 3) \/ (pos + 1 = Len(str) /\ i = 4)
                             THEN Pad ELSE sym(i)
  <2>1. CASE pos = Len(str)
    BY <1>1, <1>2, <2>1
  <2>2. CASE pos + 1 = Len(str)
    BY <1>1, <1>2, <2>2
  <2>3. CASE pos # Len(str) /\ pos + 1 # Len(str)
    BY <1>1, <1>2, <2>3
  <2> QED
    BY <2>1, <2>2, <2>3
<1> QED
  BY <1>3 DEF sym, parts

\* The k-th symbol of the result.
LEMMA EncodedSymbol ==
  ASSUME NEW str \in Seq(Octet)
  PROVE  base64_encode(str) = [k \in 1 .. 4 * Groups(str) |->
                                 EncodeAt(str, 1 + 3 * ((k - 1) \div 4))[((k - 1) % 4) + 1]]
<1>1. Len(str) \in Nat
  OBVIOUS
<1>2. Following(1, Len(str), 3) = Groups(str)
  BY <1>1 DEF Following, Groups
<1>3. base64_encode(str) = [k \in 1 .. 4 * Groups(str) |->
                              EncodedGroups(str)[1 + 3 * ((k - 1) \div 4)][((k - 1) % 4) + 1]]
  BY <1>1, <1>2, EncodeClosed DEF FourEach
<1>4. ASSUME NEW k \in 1 .. 4 * Groups(str)
      PROVE  EncodedGroups(str)[1 + 3 * ((k - 1) \div 4)] = EncodeAt(str, 1 + 3 * ((k - 1) \div 4))
  <2>1. Groups(str) \in Nat
    BY <1>1 DEF Groups
  <2>2. 1 + 3 * ((k - 1) \div 4) \in Nat
    BY <2>1
  <2> QED
    BY <2>2 DEF EncodedGroups
<1> QED
  BY <1>3, <1>4

\* Where the k-th symbol comes from.
LEMMA PlaceOfSymbol ==
  ASSUME NEW str \in Seq(Octet), NEW k \in 1 .. 4 * Groups(str)
  PROVE  \E q \in Nat, i \in 1 .. 4 :
           /\ k = 4 * q + i /\ q = (k - 1) \div 4 /\ i = ((k - 1) % 4) + 1
           /\ 3 * q + 1 \in 1 .. Len(str)
           /\ (4 * Groups(str) - k < 3 * Groups(str) - Len(str))
                <=> (3 * q + 1 = Len(str) /\ i >= 3) \/ (3 * q + 2 = Len(str) /\ i = 4)
<1>1. PICK n \in Nat : n = Len(str)
  OBVIOUS
<1>2. PICK g \in Nat : g = Groups(str) /\ g = (n + 2) \div 3
  BY <1>1 DEF Groups
<1>3. k \in 1 .. 4 * g
  BY <1>2
<1>4. PICK q \in Nat, i \in 1 .. 4 : k = 4 * q + i /\ q = (k - 1) \div 4 /\ i = ((k - 1) % 4) + 1
  BY <1>2, <1>3
<1>5. /\ 3 * q + 1 \in 1 .. n
      /\ (4 * g - k < 3 * g - n) <=> (3 * q + 1 = n /\ i >= 3) \/ (3 * q + 2 = n /\ i = 4)
  BY <1>2, <1>3, <1>4, SMTT(60)
<1> QED
  BY <1>1, <1>2, <1>4, <1>5

\* base64_encode is Radix-64 with the table of the code, for every text.
THEOREM EncodeIsRadix64 ==
  ASSUME NEW str \in Seq(Octet)
  PROVE  base64_encode(str) = Radix64(str, BASE64_TABLE)
<1> DEFINE place(k) == 3 * ((k - 1) \div 4)
           digits(k) == Digits(OctetAt(str, place(k) + 1), OctetAt(str, place(k) + 2), OctetAt(str, place(k) + 3))
           right(k) == IF 4 * Groups(str) - k < 3 * Groups(str) - Len(str) THEN Pad
                       ELSE BASE64_TABLE[digits(k)[((k - 1) % 4) + 1] + 1]
<1>1. Radix64(str, BASE64_TABLE) = [k \in 1 .. 4 * Groups(str) |-> right(k)]
  BY Zenon DEF Radix64, OctetAt
<1>2. ASSUME NEW k \in 1 .. 4 * Groups(str)
      PROVE  EncodeAt(str, 1 + 3 * ((k - 1) \div 4))[((k - 1) % 4) + 1] = right(k)
  <2>1. PICK q \in Nat, i \in 1 .. 4 :
           /\ k = 4 * q + i /\ q = (k - 1) \div 4 /\ i = ((k - 1) % 4) + 1
           /\ 3 * q + 1 \in 1 .. Len(str)
           /\ (4 * Groups(str) - k < 3 * Groups(str) - Len(str))
                <=> (3 * q + 1 = Len(str) /\ i >= 3) \/ (3 * q + 2 = Len(str) /\ i = 4)
    BY PlaceOfSymbol
  <2> DEFINE a == OctetAt(str, 3 * q + 1)
             b == OctetAt(str, 3 * q + 2)
             c == OctetAt(str, 3 * q + 3)
  <2>2. a \in Octet /\ b \in Octet /\ c \in Octet
    BY OctetAtIsOctet
  <2>3. /\ 1 + 3 * q = 3 * q + 1 /\ (3 * q + 1) + 1 = 3 * q + 2 /\ (3 * q + 1) + 2 = 3 * q + 3
    OBVIOUS
  <2>4. EncodeAt(str, 3 * q + 1)[i]
           = IF (3 * q + 1 = Len(str) /\ i >= 3) \/ (3 * q + 2 = Len(str) /\ i = 4)
             THEN Pad ELSE Symbol(Parts(a, b, c)[i])
    BY <2>1, <2>3, SymbolOfGroup
  <2>5. Parts(a, b, c) = Digits(a, b, c)
    <3> HIDE DEF a, b, c
    <3> QED
      BY <2>2, PartsAreDigits
  <2>6. right(k) = IF 4 * Groups(str) - k < 3 * Groups(str) - Len(str) THEN Pad
                   ELSE BASE64_TABLE[Digits(a, b, c)[i] + 1]
    BY <2>1
  <2> HIDE DEF a, b, c, right
  <2> QED
    BY <2>1, <2>3, <2>4, <2>5, <2>6 DEF Symbol
<1> HIDE DEF right
<1> QED
  BY <1>1, <1>2, EncodedSymbol

-----------------------------------------------------------------------------
(* What is encoded is decoded *)

LEMMA LookupOfSymbol ==
  /\ \A i \in 0 .. 63 : base64_reverse_lookup(Symbol(i)) = i
  /\ base64_reverse_lookup(Pad) = 0
<1>1. ASSUME NEW i \in 0 .. 63 PROVE base64_reverse_lookup(Symbol(i)) = i
  <2> DEFINE places == {j \in 0 .. 63 : Symbol(j) = Symbol(i)}
  <2>1. places = {i}
    BY SymbolsDiffer
  <2> HIDE DEF places
  <2>2. (CHOOSE j \in places : \A m \in places : j <= m) = i
    <3>1. \E j \in places : \A m \in places : j <= m
      BY <2>1
    <3> QED
      BY <2>1, <3>1
  <2>3. base64_reverse_lookup(Symbol(i))
          = IF places = {} THEN 0 ELSE CHOOSE j \in places : \A m \in places : j <= m
    BY DEF base64_reverse_lookup, places
  <2> QED
    BY <2>1, <2>2, <2>3
<1>2. base64_reverse_lookup(Pad) = 0
  <2>1. {j \in 0 .. 63 : Symbol(j) = Pad} = {}
    BY NoSymbolIsPad
  <2> QED
    BY <2>1 DEF base64_reverse_lookup
<1> QED
  BY <1>1, <1>2

\* Four symbols are read back as the parts they were made of, a pad as the zero
\* bits it stands for.
LEMMA GroupIsReadBack ==
  ASSUME NEW str \in Seq(Octet), NEW q \in Nat, q < Groups(str)
  PROVE  DecodeAt(base64_encode(str), 4 * q + 1)
           = <<OctetAt(str, 3 * q + 1), OctetAt(str, 3 * q + 2), OctetAt(str, 3 * q + 3)>>
<1> DEFINE enc == base64_encode(str)
           a == OctetAt(str, 3 * q + 1)
           b == OctetAt(str, 3 * q + 2)
           c == OctetAt(str, 3 * q + 3)
           read(i) == IF enc[4 * q + 2] = Pad THEN 0 ELSE base64_reverse_lookup(enc[4 * q + i])
<1>1. PICK n \in Nat : n = Len(str)
  OBVIOUS
<1>2. 3 * q + 1 \in 1 .. Len(str) /\ Groups(str) \in Nat
  BY <1>1 DEF Groups
<1>3. a \in Octet /\ b \in Octet /\ c \in Octet
  BY OctetAtIsOctet
<1>4. ASSUME NEW i \in 1 .. 4
      PROVE  enc[4 * q + i] = IF (3 * q + 1 = Len(str) /\ i >= 3) \/ (3 * q + 2 = Len(str) /\ i = 4)
                              THEN Pad ELSE Symbol(Parts(a, b, c)[i])
  <2>1. 4 * q + i \in 1 .. 4 * Groups(str)
    BY <1>2
  <2>2. ((4 * q + i) - 1) \div 4 = q /\ (((4 * q + i) - 1) % 4) + 1 = i
    OBVIOUS
  <2>3. enc[4 * q + i] = EncodeAt(str, 1 + 3 * q)[i]
    BY <2>1, <2>2, EncodedSymbol
  <2>4. /\ 1 + 3 * q = 3 * q + 1 /\ (3 * q + 1) + 1 = 3 * q + 2 /\ (3 * q + 1) + 2 = 3 * q + 3
    OBVIOUS
  <2>5. EncodeAt(str, 3 * q + 1)[i]
          = IF (3 * q + 1 = Len(str) /\ i >= 3) \/ (3 * q + 2 = Len(str) /\ i = 4)
            THEN Pad ELSE Symbol(Parts(a, b, c)[i])
    BY <1>2, <2>4, SymbolOfGroup
  <2> QED
    BY <2>3, <2>4, <2>5
<1>5. \A i \in 1 .. 4 : Parts(a, b, c)[i] \in 0 .. 63
  <2> HIDE DEF a, b, c
  <2> QED
    BY <1>3, PartsInRange
<1>6. enc[4 * q + 2] # Pad
  <2>1. enc[4 * q + 2] = Symbol(Parts(a, b, c)[2])
    BY <1>4
  <2>2. Parts(a, b, c)[2] \in 0 .. 63
    BY <1>5
  <2> HIDE DEF enc, a, b, c
  <2> QED
    BY <2>1, <2>2, NoSymbolIsPad
<1>7. ASSUME NEW i \in 1 .. 4 PROVE read(i) = Parts(a, b, c)[i]
  <2>1. read(i) = base64_reverse_lookup(enc[4 * q + i])
    BY <1>6
  <2>2. CASE 3 * q + 1 = Len(str) /\ i >= 3
    <3>1. b = 0 /\ c = 0
      BY <2>2 DEF OctetAt
    <3>2. Parts(a, b, c)[i] = 0
      <4> HIDE DEF a, b, c
      <4>1. 0 \in Octet
        BY DEF Octet
      <4>2. i = 3 \/ i = 4
        BY <2>2
      <4> QED
        BY <1>3, <3>1, <4>1, <4>2, PartsOfNothing
    <3> QED
      BY <1>4, <2>1, <2>2, <3>2, LookupOfSymbol
  <2>3. CASE 3 * q + 2 = Len(str) /\ i = 4
    <3>1. c = 0
      BY <2>3 DEF OctetAt
    <3>2. Parts(a, b, c)[i] = 0
      <4> HIDE DEF a, b, c
      <4> QED
        BY <1>3, <2>3, <3>1, PartsOfNothing
    <3> QED
      BY <1>4, <2>1, <2>3, <3>2, LookupOfSymbol
  <2>4. CASE ~((3 * q + 1 = Len(str) /\ i >= 3) \/ (3 * q + 2 = Len(str) /\ i = 4))
    <3>1. enc[4 * q + i] = Symbol(Parts(a, b, c)[i])
      BY <1>4, <2>4
    <3>2. Parts(a, b, c)[i] \in 0 .. 63
      BY <1>5
    <3> HIDE DEF enc, a, b, c, read
    <3> QED
      BY <2>1, <3>1, <3>2, LookupOfSymbol
  <2> QED
    BY <2>2, <2>3, <2>4
<1>8. DecodeAt(enc, 4 * q + 1) = Unparts([i \in 1 .. 4 |-> read(i)])
  <2>1. ASSUME NEW i \in 1 .. 4
        PROVE  /\ (4 * q + 1) + 1 = 4 * q + 2
               /\ (4 * q + 1) + i - 1 = 4 * q + i
    OBVIOUS
  <2> HIDE DEF enc
  <2> QED
    BY <2>1 DEF DecodeAt
<1>9. Unparts([i \in 1 .. 4 |-> read(i)]) = Unparts(Parts(a, b, c))
  <2> HIDE DEF a, b, c, read
  <2>1. \A i \in 1 .. 4 : [j \in 1 .. 4 |-> read(j)][i] = Parts(a, b, c)[i]
    BY <1>7
  <2> HIDE DEF Parts
  <2> QED
    BY <2>1 DEF Unparts
<1> HIDE DEF a, b, c, read
<1> QED
  BY <1>3, <1>8, <1>9, PartsJoin DEF enc, a, b, c

\* base64_decode gives back, for every text, what base64_encode was given, with
\* zero octets up to the end of the last group.
THEOREM DecodeGivesBack ==
  ASSUME NEW str \in Seq(Octet)
  PROVE  base64_decode(base64_encode(str)) = [k \in 1 .. 3 * Groups(str) |-> OctetAt(str, k)]
<1> DEFINE enc == base64_encode(str)
<1>1. PICK g \in Nat : g = Groups(str)
  <2>1. Len(str) \in Nat
    OBVIOUS
  <2> QED
    BY <2>1 DEF Groups
<1>2. Len(enc) = 4 * g
  BY <1>1, EncodedSymbol
<1>3. Following(1, Len(enc), 4) = g
  BY <1>2 DEF Following
<1>4. enc = enc /\ Len(enc) \in Nat
  BY <1>2
<1>5. base64_decode(enc) = [k \in 1 .. 3 * g |->
                              DecodedGroups(enc)[1 + 4 * ((k - 1) \div 3)][((k - 1) % 3) + 1]]
  <2> HIDE DEF enc
  <2> QED
    BY <1>3, <1>4, DecodeClosed DEF ThreeEach
<1>6. ASSUME NEW k \in 1 .. 3 * g
      PROVE  DecodedGroups(enc)[1 + 4 * ((k - 1) \div 3)][((k - 1) % 3) + 1] = OctetAt(str, k)
  <2>1. PICK q \in Nat, i \in 1 .. 3 : /\ k = 3 * q + i /\ q = (k - 1) \div 3 /\ i = ((k - 1) % 3) + 1
                                       /\ q < g
    OBVIOUS
  <2>2. 1 + 4 * q = 4 * q + 1 /\ 4 * q + 1 \in Nat
    OBVIOUS
  <2>3. DecodedGroups(enc)[4 * q + 1] = DecodeAt(enc, 4 * q + 1)
    BY <2>2 DEF DecodedGroups
  <2>4. DecodeAt(enc, 4 * q + 1)
          = <<OctetAt(str, 3 * q + 1), OctetAt(str, 3 * q + 2), OctetAt(str, 3 * q + 3)>>
    BY <1>1, <2>1, GroupIsReadBack
  <2>5. i = 1 \/ i = 2 \/ i = 3
    OBVIOUS
  <2>6. DecodeAt(enc, 4 * q + 1)[i] = OctetAt(str, 3 * q + i)
    BY <2>4, <2>5
  <2> QED
    BY <2>1, <2>2, <2>3, <2>6
<1> HIDE DEF enc
<1> QED
  BY <1>1, <1>5, <1>6 DEF enc

-----------------------------------------------------------------------------
(* The texts *)

TextOK == text \in Seq(Octet)

LEMMA GrowKeepsText == TextOK /\ Grow => TextOK'
<1> SUFFICES ASSUME TextOK, NEW o \in Octets, text' = Append(text, o) PROVE TextOK'
  BY DEF Grow
<1>1. o \in Octet
  BY Base64Assumption
<1> QED
  BY <1>1 DEF TextOK

LEMMA TextsAreRight == TextOK => EncodesRadix64 /\ RoundTrip
<1> SUFFICES ASSUME TextOK PROVE EncodesRadix64 /\ RoundTrip
  OBVIOUS
<1>1. EncodesRadix64
  BY EncodeIsRadix64 DEF TextOK, EncodesRadix64
<1>2. RoundTrip
  BY DecodeGivesBack, Zenon DEF TextOK, RoundTrip, OctetAt
<1> QED
  BY <1>1, <1>2

LEMMA TextsAreOctets == Spec => []TextOK
<1>1. Init => TextOK
  BY DEF Init, TextOK
<1>2. TextOK /\ [Grow]_text => TextOK'
  BY GrowKeepsText DEF TextOK
<1> QED
  BY <1>1, <1>2, PTL DEF Spec

LEMMA TextsOfCodecsAreOctets == CodecsSpec => []TextOK
<1>1. CodecsInit => TextOK
  BY DEF CodecsInit, TextOK
<1>2. TextOK /\ [GrowText \/ GrowUrl \/ GrowFields]_vars => TextOK'
  <2> SUFFICES ASSUME TextOK, [GrowText \/ GrowUrl \/ GrowFields]_vars PROVE TextOK'
    OBVIOUS
  <2>1. CASE GrowText
    BY <2>1, GrowKeepsText DEF GrowText
  <2>2. CASE UNCHANGED text
    BY <2>2 DEF TextOK
  <2> QED
    BY <2>1, <2>2 DEF GrowUrl, GrowFields, vars
<1> QED
  BY <1>1, <1>2, PTL DEF CodecsSpec

\* base64_encode computes Radix-64 of RFC 4880, with the table of the code, for
\* every text of every length.
THEOREM EncodesRadix64Always == (Spec => []EncodesRadix64) /\ (CodecsSpec => []EncodesRadix64)
BY TextsAreOctets, TextsOfCodecsAreOctets, TextsAreRight, PTL

\* base64_decode undoes base64_encode up to the zero octets of the last group,
\* for every text of every length.
THEOREM RoundTripAlways == (Spec => []RoundTrip) /\ (CodecsSpec => []RoundTrip)
BY TextsAreOctets, TextsOfCodecsAreOctets, TextsAreRight, PTL

-----------------------------------------------------------------------------
(* find_last_of *)

\* find_last_of a single character.
LEMMA FindsLast ==
  ASSUME NEW S, NEW s \in Seq(S), NEW c
  PROVE  \/ /\ FindLast(s, c) = NPos
            /\ \A p \in 1 .. Len(s) : s[p] # c
         \/ /\ FindLast(s, c) \in 1 .. Len(s) /\ s[FindLast(s, c)] = c
            /\ \A p \in (FindLast(s, c) + 1) .. Len(s) : s[p] # c
<1> DEFINE places == {p \in 1 .. Len(s) : s[p] = c}
<1>1. FindLast(s, c) = IF places = {} THEN NPos ELSE Max(places)
  BY DEF FindLast
<1>2. PICK l \in Nat : l = Len(s)
  OBVIOUS
<1>3. CASE places = {}
  BY <1>1, <1>3
<1>4. CASE places # {}
  <2>1. places \in SUBSET (1 .. l)
    BY <1>2
  <2>2. Max(places) \in places /\ \A p \in places : Max(places) >= p
    <3> HIDE DEF places
    <3> QED
      BY <1>4, <2>1, LargestOf
  <2>3. PICK m \in 1 .. l : m = FindLast(s, c) /\ m \in places /\ \A p \in places : m >= p
    BY <1>1, <1>2, <1>4, <2>2
  <2>4. ASSUME NEW p \in (m + 1) .. l PROVE s[p] # c
    <3>1. p \in 1 .. l /\ ~(m >= p)
      OBVIOUS
    <3> QED
      BY <1>2, <2>3, <3>1
  <2> QED
    BY <1>2, <2>3, <2>4
<1> QED
  BY <1>3, <1>4

-----------------------------------------------------------------------------
(* URI::parse: the protocol and the rest *)

\* A URL that parse takes apart: there is a separator and something after it.
Parsable(s) == Contains(s, Separator) /\ Find(s, Separator, 1) # Len(s) - 2

\* The separator, and the characters that it is made of.
LEMMA SeparatorIs == Separator \in Seq(Octet) /\ Len(Separator) = 3
BY DEF Separator, Octet, Colon, Slash

LEMMA SeparatorIsAt ==
  ASSUME NEW s, NEW p \in Int
  PROVE  IsAt(s, Separator, p) <=> s[p] = Colon /\ s[p + 1] = Slash /\ s[p + 2] = Slash
<1>1. \A k \in 1 .. 3 : p + k - 1 = IF k = 1 THEN p ELSE IF k = 2 THEN p + 1 ELSE p + 2
  OBVIOUS
<1>2. Separator[1] = Colon /\ Separator[2] = Slash /\ Separator[3] = Slash /\ Len(Separator) = 3
  BY DEF Separator
<1>3. 1 \in 1 .. 3 /\ 2 \in 1 .. 3 /\ 3 \in 1 .. 3 /\ \A k \in 1 .. 3 : k = 1 \/ k = 2 \/ k = 3
  OBVIOUS
<1>4. IsAt(s, Separator, p) <=> \A k \in 1 .. 3 : s[p + k - 1] = Separator[k]
  BY <1>2 DEF IsAt
<1> HIDE DEF Separator
<1> QED
  BY <1>1, <1>2, <1>3, <1>4

\* Two separators do not share a character.
LEMMA SeparatorsApart ==
  ASSUME NEW s, NEW p \in Int, NEW q \in Int, p < q,
         IsAt(s, Separator, p), IsAt(s, Separator, q)
  PROVE  p + 3 <= q
<1>1. s[p + 1] = Slash /\ s[p + 2] = Slash /\ s[q] = Colon
  BY SeparatorIsAt
<1>2. q # p + 1 /\ q # p + 2
  BY <1>1 DEF Slash, Colon
<1> QED
  BY <1>2

\* How long a URL is without the separator at its end.
Kernel(s) == IF EndsWith(s, Separator) THEN Len(s) - 3 ELSE Len(s)

\* split_string cuts at the first separator; the rest goes up to the one at the end.
LEMMA UrlIsCut ==
  ASSUME NEW s \in Seq(Octet)
  PROVE  /\ ~Parsable(s) => Len(SplitString(s, Separator)) \in Nat /\ Len(SplitString(s, Separator)) < 2
         /\ Parsable(s) =>
              /\ Len(SplitString(s, Separator)) \in Nat /\ Len(SplitString(s, Separator)) >= 2
              /\ \E pos \in Nat \ {0} :
                   /\ FirstAt(s, Separator, pos) /\ pos + 2 <= Kernel(s) /\ Kernel(s) <= Len(s)
                   /\ SplitString(s, Separator)[1] = SubSeq(s, 1, pos - 1)
                   /\ Rest(SplitString(s, Separator)) = SubSeq(s, pos + 3, Kernel(s))
<1> DEFINE parts == SplitString(s, Separator)
<1>1. Separator \in Seq(Octet) /\ Len(Separator) = 3 /\ Len(Separator) > 0
  BY SeparatorIs
<1>2. PICK places : Lie(places, Octet, parts, s, Separator, 1)
  BY <1>1, PartsLie
<1> HIDE DEF parts
<1>3. PICK l \in Nat, n \in Nat : l = Len(s) /\ n = Len(parts)
  BY <1>2 DEF Lie
<1>4. parts \in Seq(Seq(Octet)) /\ places[1] = 1 /\ places[n + 1] = l + 1
  BY <1>2, <1>3 DEF Lie
<1>5. CASE ~Contains(s, Separator)
  <2>1. s # <<>> => parts = <<s>>
    BY <1>1, <1>5, OnlyPart DEF parts
  <2>2. s = <<>> => n = 0
    <3>1. SUFFICES ASSUME s = <<>>, n # 0 PROVE FALSE
      OBVIOUS
    <3>2. l = 0 /\ 1 \in 1 .. Len(parts)
      BY <1>3, <3>1
    <3>3. places[1 + 1] \in 1 .. (l + 1)
      BY <1>1, <1>2, <1>3, <3>2, PartsInOrder
    <3>4. Cut(s, Separator, places[1], places[1 + 1], parts[1]) \/ Remains(s, Separator, places[1], parts[1])
      BY <1>2, <3>2 DEF Lie
    <3> QED
      BY <1>1, <1>3, <1>4, <3>2, <3>3, <3>4 DEF Cut, Remains
  <2>3. Len(<<s>>) = 1
    OBVIOUS
  <2>4. Len(parts) \in Nat /\ Len(parts) < 2
    BY <1>3, <2>1, <2>2, <2>3
  <2> QED
    BY <1>5, <2>4 DEF Parsable, parts
<1>6. CASE Contains(s, Separator)
  <2>1. PICK pos \in Nat \ {0} : pos = Find(s, Separator, 1) /\ FirstAt(s, Separator, pos)
    <3>1. Find(s, Separator, 1) # NPos
      BY <1>1, <1>6, FindIsContains
    <3>2. 1 \in Nat \ {0}
      OBVIOUS
    <3>3. PICK f : f = Find(s, Separator, 1)
      OBVIOUS
    <3>4. /\ f \in 1 .. (l + 1 - 3) /\ IsAt(s, Separator, f)
          /\ \A p \in 1 .. (f - 1) : ~IsAt(s, Separator, p)
      BY <1>1, <1>3, <3>1, <3>2, <3>3, FindIs
    <3>5. f \in Nat \ {0} /\ f + 3 <= l + 1
      BY <3>4
    <3> QED
      BY <1>1, <1>3, <3>3, <3>4, <3>5 DEF FirstAt
  <2>2. n >= 1 /\ parts[1] = SubSeq(s, 1, pos - 1) /\ places[2] = pos + 3
    <3>1. /\ Len(parts) >= 1
          /\ Cut(s, Separator, 1, places[2], parts[1])
          /\ parts[1] = SubSeq(s, 1, pos - 1)
          /\ places[2] = pos + Len(Separator)
      <4>1. FirstAt(s, Separator, pos)
        BY <2>1
      <4>2. Separator \in Seq(Octet) /\ Len(Separator) > 0
        BY <1>1
      <4> QED
        BY <1>2, <4>1, <4>2, FirstPart, SMTT(60)
    <3> QED
      BY <1>1, <1>3, <3>1
  <2>3. pos + 3 <= l + 1
    BY <1>1, <1>3, <2>1 DEF FirstAt
  <2>4. CASE pos = l - 2
    <3>1. n < 2
      <4>1. SUFFICES ASSUME n >= 2 PROVE FALSE
        OBVIOUS
      <4>2. 2 \in 1 .. Len(parts)
        BY <1>3, <4>1
      <4>3. places[2 + 1] \in 1 .. (l + 1)
        BY <1>1, <1>2, <1>3, <4>2, PartsInOrder
      <4>4. Cut(s, Separator, places[2], places[2 + 1], parts[2]) \/ Remains(s, Separator, places[2], parts[2])
        BY <1>2, <4>2 DEF Lie
      <4>5. ~(places[2] <= places[2 + 1] - 3) /\ ~(places[2] <= l)
        BY <2>2, <2>4, <4>3
      <4> QED
        BY <1>1, <1>3, <4>4, <4>5 DEF Cut, Remains
    <3> QED
      BY <1>3, <2>1, <2>4, <3>1 DEF Parsable, parts
  <2>5. CASE pos # l - 2
    <3>1. n >= 2
      <4>1. n # 1
        <5>1. n = 1 => places[2] = l + 1
          BY <1>4
        <5> QED
          BY <2>2, <2>5, <5>1
      <4> QED
        BY <2>2, <4>1
    <3>2. Rest(parts) = SubSeq(s, pos + 3, EndOf(places, parts, s, Separator, n))
      BY <1>1, <1>2, <1>3, <2>2, <3>1, RejoinedParts DEF Rest
    <3>3. n \in 1 .. Len(parts) /\ n - 1 \in 1 .. Len(parts) /\ (n - 1) + 1 = n /\ n - 1 # n
      BY <1>3, <3>1
    <3>4. PICK a \in Nat, b \in Nat : a = places[n] /\ b = places[n - 1] /\ b <= a /\ a <= l + 1
      <4>1. /\ places[n] \in 1 .. (Len(s) + 1)
            /\ places[n - 1] \in 1 .. (Len(s) + 1) /\ places[(n - 1) + 1] \in 1 .. (Len(s) + 1)
            /\ places[n - 1] <= places[(n - 1) + 1]
        BY <1>1, <1>2, <3>3, PartsInOrder
      <4> QED
        BY <1>3, <3>3, <4>1
    <3>5. IsAt(s, Separator, a - 3)
      <4>1. Cut(s, Separator, b, a, parts[n - 1])
        BY <1>2, <1>3, <3>3, <3>4 DEF Lie
      <4> QED
        BY <1>1, <4>1 DEF Cut
    <3>6. pos + 3 <= a
      <4>1. ASSUME NEW p \in 1 .. (pos - 1) PROVE ~IsAt(s, Separator, p)
        BY <2>1 DEF FirstAt
      <4>2. b <= a - 3 /\ b >= 1
        <5>1. Cut(s, Separator, b, a, parts[n - 1])
          BY <1>2, <1>3, <3>3, <3>4 DEF Lie
        <5>2. places[n - 1] \in 1 .. (l + 1)
          BY <1>1, <1>2, <1>3, <3>3, PartsInOrder
        <5> QED
          BY <1>1, <3>4, <5>1, <5>2 DEF Cut
      <4>3. ~(a - 3 < pos)
        <5>1. a - 3 < pos => a - 3 \in 1 .. (pos - 1)
          BY <4>2
        <5> QED
          BY <3>5, <4>1, <5>1
      <4> QED
        BY <4>3
    <3>7. PICK e \in Int : e = EndOf(places, parts, s, Separator, n) /\ a - 1 <= e /\ e <= l
      BY <1>1, <1>2, <1>3, <3>3, <3>4, PartIsPiece
    <3>8. e = Kernel(s)
      <4>1. CASE Cut(s, Separator, a, l + 1, parts[n])
        <5>1. e = l + 1 - 3 - 1
          BY <1>1, <1>4, <3>4, <3>7, <4>1 DEF EndOf
        <5>2. IsAt(s, Separator, l + 1 - 3) /\ a <= l + 1 - 3
          BY <1>1, <4>1 DEF Cut
        <5>3. l >= 3 /\ l + 1 - 3 = l - 3 + 1 /\ l + 1 - 3 - 1 = l - 3
          BY <3>6, <5>2
        <5>4. EndsWith(s, Separator)
          BY <1>1, <1>3, <5>2, <5>3 DEF EndsWith
        <5> QED
          BY <1>3, <5>1, <5>3, <5>4 DEF Kernel
      <4>2. CASE ~Cut(s, Separator, a, l + 1, parts[n])
        <5>1. e = l
          BY <1>3, <1>4, <3>4, <3>7, <4>2 DEF EndOf
        <5>2. Remains(s, Separator, a, parts[n])
          BY <1>2, <1>3, <1>4, <3>3, <3>4, <4>2 DEF Lie
        <5>3. a <= l /\ \A p \in a .. (l + 1 - 3) : ~IsAt(s, Separator, p)
          BY <1>1, <1>3, <5>2 DEF Remains
        <5>4. ~EndsWith(s, Separator)
          <6>1. SUFFICES ASSUME EndsWith(s, Separator) PROVE FALSE
            OBVIOUS
          <6>2. l >= 3 /\ IsAt(s, Separator, l - 3 + 1)
            BY <1>1, <1>3, <6>1 DEF EndsWith
          <6>3. l - 3 + 1 < a
            <7>1. l - 3 + 1 >= a => l - 3 + 1 \in a .. (l + 1 - 3)
              BY <6>2
            <7> QED
              BY <5>3, <6>2, <7>1
          <6>4. a - 3 < l - 3 + 1 /\ a - 3 \in Int /\ l - 3 + 1 \in Int
            BY <5>3
          <6>5. (a - 3) + 3 <= l - 3 + 1
            BY <3>5, <6>2, <6>4, SeparatorsApart
          <6> QED
            BY <6>3, <6>5
        <5> QED
          BY <1>3, <5>1, <5>4 DEF Kernel
      <4> QED
        BY <4>1, <4>2
    <3>9. pos + 2 <= Kernel(s) /\ Kernel(s) <= Len(s)
      BY <1>3, <3>6, <3>7, <3>8
    <3>10. Parsable(s)
      BY <1>3, <1>6, <2>1, <2>5 DEF Parsable
    <3> QED
      BY <1>3, <2>1, <2>2, <3>1, <3>2, <3>7, <3>8, <3>9, <3>10 DEF parts
  <2> QED
    BY <2>4, <2>5
<1> QED
  BY <1>5, <1>6

-----------------------------------------------------------------------------
(* URI::parse: host, port and path *)

\* What follows the protocol is cut before the first slash.
HasPath(rest, authority, path) ==
    /\ rest = authority \o path
    /\ authority \in Seq(Octet) /\ path \in Seq(Octet) /\ path[1] = Slash
    /\ ~Contains(authority, <<Slash>>)

LEMMA RestIsCut ==
  ASSUME NEW rest \in Seq(Octet), NEW slash, slash = Find(rest, <<Slash>>, 1)
  PROVE  /\ slash = NPos => ~Contains(rest, <<Slash>>)
         /\ slash # NPos => HasPath(rest, SubSeq(rest, 1, slash - 1), From(rest, slash))
<1>1. Slash \in Octet
  BY DEF Slash, Octet
<1>2. CASE slash = NPos
  <2>1. <<Slash>> \in Seq(Octet)
    BY <1>1
  <2>2. ~Contains(rest, <<Slash>>)
    BY <1>2, <2>1, FindIsContains
  <2> QED
    BY <1>2, <2>2
<1>3. CASE slash # NPos
  <2>1. PICK l \in Nat : l = Len(rest)
    OBVIOUS
  <2>2. slash \in 1 .. l /\ rest[slash] = Slash /\ \A p \in 1 .. (slash - 1) : rest[p] # Slash
    BY <1>1, <1>3, <2>1, FindsOne
  <2>3. PICK a, b : a = SubSeq(rest, 1, slash - 1) /\ b = SubSeq(rest, slash, l)
    OBVIOUS
  <2>4. slash \in Nat \ {0} /\ slash - 1 \in Int /\ 1 \in Nat \ {0} /\ slash - 1 <= l /\ l <= l /\ l \in Int
    BY <2>2
  <2>5. /\ a \in Seq(Octet) /\ Len(a) = slash - 1
        /\ \A i \in 1 .. (slash - 1) : a[i] = rest[i]
    <3>1. /\ SubSeq(rest, 1, slash - 1) \in Seq(Octet)
          /\ Len(SubSeq(rest, 1, slash - 1)) = IF 1 <= slash - 1 THEN slash - 1 - 1 + 1 ELSE 0
          /\ \A i \in 1 .. (slash - 1 - 1 + 1) : SubSeq(rest, 1, slash - 1)[i] = rest[1 + i - 1]
      BY <2>1, <2>4, PieceOf
    <3>2. \A i \in 1 .. (slash - 1) : i \in 1 .. (slash - 1 - 1 + 1) /\ 1 + i - 1 = i
      BY <2>4
    <3>3. (IF 1 <= slash - 1 THEN slash - 1 - 1 + 1 ELSE 0) = slash - 1
      BY <2>4
    <3> QED
      BY <2>3, <3>1, <3>2, <3>3
  <2>6. b \in Seq(Octet) /\ b[1] = Slash
    <3>1. /\ SubSeq(rest, slash, l) \in Seq(Octet)
          /\ \A i \in 1 .. (l - slash + 1) : SubSeq(rest, slash, l)[i] = rest[slash + i - 1]
      BY <2>1, <2>4, PieceOf
    <3>2. 1 \in 1 .. (l - slash + 1) /\ slash + 1 - 1 = slash
      BY <2>2
    <3> QED
      BY <2>2, <2>3, <3>1, <3>2
  <2>7. rest = a \o b
    <3>1. Meets(rest, 1, slash - 1, l)
      <4>1. 1 <= (slash - 1) + 1
        BY <2>4
      <4> QED
        BY <2>1, <2>4, <4>1, PiecesMeet
    <3>2. (slash - 1) + 1 = slash
      BY <2>4
    <3>3. SubSeq(rest, 1, l) = rest
      BY <2>1, SubSeqFull
    <3> QED
      BY <2>3, <3>1, <3>2, <3>3 DEF Meets
  <2>8. ~Contains(a, <<Slash>>)
    BY <1>1, <2>2, <2>5, ContainsOne
  <2>9. HasPath(rest, a, b)
    BY <2>5, <2>6, <2>7, <2>8 DEF HasPath
  <2> QED
    BY <1>3, <2>1, <2>3, <2>9 DEF From
<1> QED
  BY <1>2, <1>3

\* What comes before the slash is cut at the last colon.
HasPort(authority, host, port) ==
    /\ authority = (host \o <<Colon>>) \o port
    /\ host \in Seq(Octet) /\ port \in Seq(Octet)
    /\ ~Contains(host, <<Slash>>) /\ ~Contains(port, <<Slash>>) /\ ~Contains(port, <<Colon>>)

LEMMA AuthorityIsCut ==
  ASSUME NEW authority \in Seq(Octet), ~Contains(authority, <<Slash>>),
         NEW colon, colon = FindLast(authority, Colon)
  PROVE  /\ colon = NPos => ~Contains(authority, <<Colon>>)
         /\ colon # NPos => HasPort(authority, SubSeq(authority, 1, colon - 1), From(authority, colon + 1))
<1>1. Slash \in Octet /\ Colon \in Octet
  BY DEF Slash, Colon, Octet
<1>2. CASE colon = NPos
  <2>1. \A p \in 1 .. Len(authority) : authority[p] # Colon
    <3>1. FindLast(authority, Colon) \in 1 .. Len(authority) => colon # NPos
      <4>1. Len(authority) \in Nat
        OBVIOUS
      <4> QED
        BY <4>1 DEF NPos
    <3> QED
      BY <1>2, <3>1, FindsLast
  <2>2. ~Contains(authority, <<Colon>>)
    BY <1>1, <2>1, ContainsOne
  <2> QED
    BY <1>2, <2>2
<1>3. CASE colon # NPos
  <2>1. PICK l \in Nat : l = Len(authority)
    OBVIOUS
  <2>2. colon \in 1 .. l /\ authority[colon] = Colon /\ \A p \in (colon + 1) .. l : authority[p] # Colon
    BY <1>3, <2>1, FindsLast
  <2>3. PICK a, b : a = SubSeq(authority, 1, colon - 1) /\ b = SubSeq(authority, colon + 1, l)
    OBVIOUS
  <2>4. /\ colon \in Nat \ {0} /\ colon - 1 \in Int /\ 1 \in Nat \ {0} /\ colon - 1 <= l
        /\ l <= l /\ l \in Int /\ colon + 1 \in Nat \ {0} /\ colon <= l /\ colon \in Int
    BY <2>2
  <2>5. \A p \in 1 .. l : authority[p] # Slash
    BY <1>1, <2>1, ContainsOne
  <2>6. a \in Seq(Octet) /\ ~Contains(a, <<Slash>>)
    <3>1. /\ SubSeq(authority, 1, colon - 1) \in Seq(Octet)
          /\ Len(SubSeq(authority, 1, colon - 1)) = IF 1 <= colon - 1 THEN colon - 1 - 1 + 1 ELSE 0
          /\ \A i \in 1 .. (colon - 1 - 1 + 1) : SubSeq(authority, 1, colon - 1)[i] = authority[1 + i - 1]
      BY <2>1, <2>4, PieceOf
    <3>2. ASSUME NEW i \in 1 .. Len(a) PROVE a[i] # Slash
      <4>1. i \in 1 .. (colon - 1 - 1 + 1) /\ 1 + i - 1 = i /\ i \in 1 .. l
        BY <2>3, <2>4, <3>1
      <4> QED
        BY <2>3, <2>5, <3>1, <4>1
    <3>3. a \in Seq(Octet)
      BY <2>3, <3>1
    <3> QED
      BY <1>1, <3>2, <3>3, ContainsOne
  <2>7. b \in Seq(Octet) /\ ~Contains(b, <<Slash>>) /\ ~Contains(b, <<Colon>>)
    <3>1. /\ SubSeq(authority, colon + 1, l) \in Seq(Octet)
          /\ Len(SubSeq(authority, colon + 1, l)) = IF colon + 1 <= l THEN l - (colon + 1) + 1 ELSE 0
          /\ \A i \in 1 .. (l - (colon + 1) + 1) : SubSeq(authority, colon + 1, l)[i] = authority[colon + 1 + i - 1]
      BY <2>1, <2>4, PieceOf
    <3>2. ASSUME NEW i \in 1 .. Len(b) PROVE b[i] # Slash /\ b[i] # Colon
      <4>1. PICK q \in (colon + 1) .. l : q = colon + 1 + i - 1 /\ i \in 1 .. (l - (colon + 1) + 1) /\ q \in 1 .. l
        <5>1. PICK n \in Nat : n = Len(b)
          BY <2>3, <3>1
        <5>2. n = IF colon + 1 <= l THEN l - (colon + 1) + 1 ELSE 0
          BY <2>3, <3>1, <5>1
        <5>3. i \in 1 .. n
          BY <5>1
        <5>4. i \in Nat /\ 1 <= i /\ i <= n
          BY <5>3
        <5>5. i <= l - (colon + 1) + 1 /\ i \in 1 .. (l - (colon + 1) + 1)
          BY <2>4, <5>2, <5>4
        <5>6. colon + 1 + i - 1 \in (colon + 1) .. l /\ colon + 1 + i - 1 \in 1 .. l
          BY <2>4, <5>4, <5>5
        <5> QED
          BY <5>5, <5>6
      <4> QED
        BY <2>2, <2>3, <2>5, <3>1, <4>1
    <3>3. b \in Seq(Octet)
      BY <2>3, <3>1
    <3> QED
      BY <1>1, <3>2, <3>3, ContainsOne
  <2>8. authority = (a \o <<Colon>>) \o b
    <3>1. Meets(authority, 1, colon - 1, colon) /\ Meets(authority, 1, colon, l)
      <4>1. 1 <= (colon - 1) + 1 /\ colon - 1 <= colon /\ 1 <= colon + 1
        BY <2>4
      <4> QED
        BY <2>1, <2>4, <4>1, PiecesMeet
    <3>2. (colon - 1) + 1 = colon
      BY <2>4
    <3>3. SubSeq(authority, 1, l) = authority
      BY <2>1, SubSeqFull
    <3>4. SubSeq(authority, colon, colon) = <<Colon>>
      <4>1. <<Colon>> \in Seq(Octet) /\ Len(<<Colon>>) = 1 /\ <<Colon>>[1] = Colon
        BY <1>1
      <4>2. IsAt(authority, <<Colon>>, colon)
        <5>1. \A k \in 1 .. 1 : k = 1 /\ colon + k - 1 = colon
          BY <2>4
        <5> QED
          BY <2>2, <4>1, <5>1 DEF IsAt
      <4>3. colon + 1 <= l + 1 /\ colon + 1 - 1 = colon
        BY <2>4
      <4>4. SubSeq(authority, colon, colon + Len(<<Colon>>) - 1) = <<Colon>>
        BY <2>1, <2>4, <4>1, <4>2, <4>3, WhatIsAt
      <4> QED
        BY <4>1, <4>3, <4>4
    <3> QED
      BY <2>3, <3>1, <3>2, <3>3, <3>4 DEF Meets
  <2>9. HasPort(authority, a, b)
    BY <2>6, <2>7, <2>8 DEF HasPort
  <2> QED
    BY <1>3, <2>1, <2>3, <2>9 DEF From
<1> QED
  BY <1>2, <1>3

\* The protocol, the separator and the rest are the URL without what is lost.
Lost(s) == IF EndsWith(s, Separator) THEN Separator ELSE <<>>

LEMMA UrlIsPutTogether ==
  ASSUME NEW s \in Seq(Octet), NEW pos \in Nat \ {0}, FirstAt(s, Separator, pos),
         pos + 2 <= Kernel(s)
  PROVE  /\ ~Contains(SubSeq(s, 1, pos - 1), Separator)
         /\ SubSeq(s, 1, pos - 1) \in Seq(Octet) /\ SubSeq(s, pos + 3, Kernel(s)) \in Seq(Octet)
         /\ s = ((SubSeq(s, 1, pos - 1) \o Separator) \o SubSeq(s, pos + 3, Kernel(s))) \o Lost(s)
<1>1. Separator \in Seq(Octet) /\ Len(Separator) = 3
  BY SeparatorIs
<1>2. PICK l \in Nat : l = Len(s)
  OBVIOUS
<1>3. /\ pos + 3 <= l + 1 /\ IsAt(s, Separator, pos)
      /\ \A q \in 1 .. (pos - 1) : ~IsAt(s, Separator, q)
  BY <1>1, <1>2 DEF FirstAt
<1>4. PICK e \in Int : e = Kernel(s) /\ e <= l /\ pos + 2 <= e
  BY <1>1, <1>2, <1>3 DEF Kernel, EndsWith
<1>5. /\ pos - 1 \in Int /\ pos + 2 \in Int /\ pos - 1 <= l /\ pos + 2 <= l /\ e \in Int /\ l \in Int
      /\ 1 \in Nat \ {0} /\ pos + 3 \in Nat \ {0} /\ e + 1 \in Nat \ {0} /\ l <= l
  BY <1>3, <1>4
<1>6. PICK a, r : a = SubSeq(s, 1, pos - 1) /\ r = SubSeq(s, pos + 3, e)
  OBVIOUS
<1>7. /\ a \in Seq(Octet) /\ Len(a) = pos - 1 /\ \A i \in 1 .. (pos - 1) : a[i] = s[i]
  <2>1. /\ SubSeq(s, 1, pos - 1) \in Seq(Octet)
        /\ Len(SubSeq(s, 1, pos - 1)) = IF 1 <= pos - 1 THEN pos - 1 - 1 + 1 ELSE 0
        /\ \A i \in 1 .. (pos - 1 - 1 + 1) : SubSeq(s, 1, pos - 1)[i] = s[1 + i - 1]
    BY <1>2, <1>5, PieceOf
  <2>2. \A i \in 1 .. (pos - 1) : i \in 1 .. (pos - 1 - 1 + 1) /\ 1 + i - 1 = i
    BY <1>5
  <2>3. (IF 1 <= pos - 1 THEN pos - 1 - 1 + 1 ELSE 0) = pos - 1
    BY <1>5
  <2> QED
    BY <1>6, <2>1, <2>2, <2>3
<1>8. r \in Seq(Octet)
  BY <1>2, <1>4, <1>5, <1>6, PieceOf
<1>9. ~Contains(a, Separator)
  <2>1. SUFFICES ASSUME NEW p \in 1 .. (Len(a) + 1 - Len(Separator)), IsAt(a, Separator, p) PROVE FALSE
    BY DEF Contains
  <2>2. p \in 1 .. (pos - 1) /\ p + 1 \in 1 .. (pos - 1) /\ p + 2 \in 1 .. (pos - 1) /\ p \in Int
    BY <1>1, <1>7, <2>1
  <2>3. a[p] = Colon /\ a[p + 1] = Slash /\ a[p + 2] = Slash
    BY <2>1, <2>2, SeparatorIsAt
  <2>4. IsAt(s, Separator, p)
    BY <1>7, <2>2, <2>3, SeparatorIsAt
  <2> QED
    BY <1>3, <2>2, <2>4
<1>10. SubSeq(s, pos, pos + 2) = Separator
  <2>1. pos + Len(Separator) <= Len(s) + 1 /\ pos + Len(Separator) - 1 = pos + 2
    BY <1>1, <1>2, <1>3
  <2>2. SubSeq(s, pos, pos + Len(Separator) - 1) = Separator
    BY <1>1, <1>3, <2>1, WhatIsAt
  <2> QED
    BY <2>1, <2>2
<1>11. SubSeq(s, e + 1, l) = Lost(s)
  <2>1. CASE EndsWith(s, Separator)
    <3>1. l >= 3 /\ IsAt(s, Separator, l - 3 + 1) /\ e = l - 3
      BY <1>1, <1>2, <1>4, <2>1 DEF EndsWith, Kernel
    <3>2. PICK k \in Nat \ {0} : k = l - 3 + 1 /\ k = e + 1 /\ k + 3 <= l + 1 /\ k + 3 - 1 = l
      BY <3>1
    <3>3. SubSeq(s, k, k + Len(Separator) - 1) = Separator
      BY <1>1, <1>2, <3>1, <3>2, WhatIsAt
    <3> QED
      BY <1>1, <2>1, <3>2, <3>3 DEF Lost
  <2>2. CASE ~EndsWith(s, Separator)
    <3>1. e = l /\ l < e + 1
      BY <1>2, <1>4, <2>2 DEF Kernel
    <3> QED
      BY <1>5, <2>2, <3>1, SubSeqEmpty DEF Lost
  <2> QED
    BY <2>1, <2>2
<1>12. s = ((a \o Separator) \o r) \o Lost(s)
  <2>1. Meets(s, 1, pos - 1, pos + 2)
    <3>1. 1 <= (pos - 1) + 1 /\ pos - 1 <= pos + 2
      BY <1>5
    <3> QED
      BY <1>2, <1>5, <3>1, PiecesMeet
  <2>2. Meets(s, 1, pos + 2, e)
    <3>1. 1 <= (pos + 2) + 1
      BY <1>5
    <3> QED
      BY <1>2, <1>4, <1>5, <3>1, PiecesMeet
  <2>3. Meets(s, 1, e, l)
    <3>1. 1 <= e + 1
      BY <1>4
    <3> QED
      BY <1>2, <1>4, <1>5, <3>1, PiecesMeet
  <2>4. (pos - 1) + 1 = pos /\ (pos + 2) + 1 = pos + 3
    OBVIOUS
  <2>5. SubSeq(s, 1, l) = s
    BY <1>2, SubSeqFull
  <2> QED
    BY <1>6, <1>10, <1>11, <2>1, <2>2, <2>3, <2>4, <2>5 DEF Meets
<1> QED
  BY <1>4, <1>6, <1>7, <1>8, <1>9, <1>12

\* What UriParts says of the parts p of a URL s that is not an exception.
PartsOf(p, s) ==
    /\ ~Contains(p.protocol, Separator) /\ ~Contains(p.host, <<Slash>>)
    /\ ~Contains(p.port, <<Slash>>) /\ ~Contains(p.port, <<Colon>>)
    /\ p.path[1] = Slash
    /\ \/ /\ p.port = DefaultPort /\ p.path = <<Slash>>
          /\ s = ((p.protocol \o Separator) \o p.host) \o Lost(s)
       \/ /\ p.port = DefaultPort /\ ~Contains(p.host, <<Colon>>)
          /\ s = (((p.protocol \o Separator) \o p.host) \o p.path) \o Lost(s)
       \/ s = (((((p.protocol \o Separator) \o p.host) \o <<Colon>>) \o p.port) \o p.path) \o Lost(s)

\* The port of a URL that has none.
LEMMA DefaultPortIsPlain ==
  DefaultPort \in Seq(Octet) /\ ~Contains(DefaultPort, <<Slash>>) /\ ~Contains(DefaultPort, <<Colon>>)
<1>1. DefaultPort \in Seq(Octet) /\ Len(DefaultPort) = 2 /\ DefaultPort[1] = 56 /\ DefaultPort[2] = 48
  BY DEF DefaultPort, Octet
<1>2. Slash \in Octet /\ Colon \in Octet /\ Slash = 47 /\ Colon = 58
  BY DEF Slash, Colon, Octet
<1>3. \A p \in 1 .. 2 : p = 1 \/ p = 2
  OBVIOUS
<1>4. \A p \in 1 .. Len(DefaultPort) : DefaultPort[p] # Slash /\ DefaultPort[p] # Colon
  BY <1>1, <1>2, <1>3
<1> HIDE DEF DefaultPort, Slash, Colon, Octet
<1> QED
  BY <1>1, <1>2, <1>4, ContainsOne

\* The local variables of parse, and what it returns.
Locals(s, parts, rest, slash, authority, colon, p) ==
    /\ parts = SplitString(s, Separator) /\ rest = Rest(parts)
    /\ slash = Find(rest, <<Slash>>, 1) /\ authority = SubSeq(rest, 1, slash - 1)
    /\ colon = FindLast(authority, Colon) /\ p = parse(s)

\* What parse returns in terms of its local variables.
TakenApart(parts, rest, slash, authority, colon, p) ==
    /\ Len(parts) < 2 => p = Invalid
    /\ Len(parts) >= 2 =>
         /\ p.protocol = parts[1]
         /\ slash = NPos => p.host = rest /\ p.port = DefaultPort /\ p.path = <<Slash>>
         /\ slash # NPos => p.path = From(rest, slash)
         /\ slash # NPos /\ colon = NPos => p.host = authority /\ p.port = DefaultPort
         /\ slash # NPos /\ colon # NPos =>
              p.host = SubSeq(authority, 1, colon - 1) /\ p.port = From(authority, colon + 1)

\* The three ways in which parse takes apart what follows the protocol.
LEMMA ParseIs ==
  ASSUME NEW s, NEW parts, NEW rest, NEW slash, NEW authority, NEW colon, NEW p,
         Locals(s, parts, rest, slash, authority, colon, p), Len(parts) \in Nat
  PROVE  TakenApart(parts, rest, slash, authority, colon, p)
<1> DEFINE uri(host, port, path) == [protocol |-> parts[1], host |-> host, port |-> port, path |-> path]
<1>1. p = CASE Len(parts) < 2 -> Invalid
            [] Len(parts) >= 2 /\ slash = NPos -> uri(rest, DefaultPort, <<Slash>>)
            [] Len(parts) >= 2 /\ slash # NPos /\ colon = NPos ->
                 uri(authority, DefaultPort, From(rest, slash))
            [] OTHER ->
                 uri(SubSeq(authority, 1, colon - 1), From(authority, colon + 1), From(rest, slash))
  BY Zenon DEF parse, Locals
<1>2. CASE Len(parts) < 2
  BY <1>1, <1>2 DEF TakenApart
<1>3. CASE Len(parts) >= 2 /\ slash = NPos
  <2>1. p = uri(rest, DefaultPort, <<Slash>>)
    BY <1>1, <1>3
  <2> QED
    BY <1>3, <2>1 DEF TakenApart
<1>4. CASE Len(parts) >= 2 /\ slash # NPos /\ colon = NPos
  <2>1. PICK path : path = From(rest, slash)
    OBVIOUS
  <2>2. p = uri(authority, DefaultPort, path)
    BY <1>1, <1>4, <2>1
  <2>3. p.protocol = parts[1] /\ p.host = authority /\ p.port = DefaultPort /\ p.path = path
    BY <2>2
  <2> HIDE DEF uri
  <2> QED
    BY <1>4, <2>1, <2>3 DEF TakenApart
<1>5. CASE Len(parts) >= 2 /\ slash # NPos /\ colon # NPos
  <2>1. PICK host, port, path :
          host = SubSeq(authority, 1, colon - 1) /\ port = From(authority, colon + 1) /\ path = From(rest, slash)
    OBVIOUS
  <2>2. p = uri(host, port, path)
    BY <1>1, <1>5, <2>1
  <2>3. p.protocol = parts[1] /\ p.host = host /\ p.port = port /\ p.path = path
    BY <2>2
  <2> HIDE DEF uri
  <2> QED
    BY <1>5, <2>1, <2>3 DEF TakenApart
<1> QED
  BY <1>2, <1>3, <1>4, <1>5 DEF TakenApart

\* The parts of a URL that parse does not reject, in each of the three cases.
LEMMA PartsAreRight ==
  ASSUME NEW s \in Seq(Octet), Parsable(s), NEW p, p = parse(s)
  PROVE  PartsOf(p, s)
<1>1. PICK parts : parts = SplitString(s, Separator)
  OBVIOUS
<1>2. PICK rest, slash : rest = Rest(parts) /\ slash = Find(rest, <<Slash>>, 1)
  OBVIOUS
<1>3. PICK authority, colon : authority = SubSeq(rest, 1, slash - 1) /\ colon = FindLast(authority, Colon)
  OBVIOUS
<1>4. PICK pos \in Nat \ {0} :
        /\ Len(parts) \in Nat /\ Len(parts) >= 2
        /\ FirstAt(s, Separator, pos) /\ pos + 2 <= Kernel(s)
        /\ parts[1] = SubSeq(s, 1, pos - 1)
        /\ rest = SubSeq(s, pos + 3, Kernel(s))
  BY <1>1, <1>2, UrlIsCut
<1>5. /\ p.protocol = parts[1]
      /\ slash = NPos => p.host = rest /\ p.port = DefaultPort /\ p.path = <<Slash>>
      /\ slash # NPos => p.path = From(rest, slash)
      /\ slash # NPos /\ colon = NPos => p.host = authority /\ p.port = DefaultPort
      /\ slash # NPos /\ colon # NPos =>
           p.host = SubSeq(authority, 1, colon - 1) /\ p.port = From(authority, colon + 1)
  <2>1. Locals(s, parts, rest, slash, authority, colon, p)
    BY <1>1, <1>2, <1>3 DEF Locals
  <2> QED
    <3>1. Len(parts) \in Nat
      BY <1>4
    <3>2. TakenApart(parts, rest, slash, authority, colon, p)
      BY <2>1, <3>1, ParseIs
    <3> QED
      BY <1>4, <3>2 DEF TakenApart
<1>6. PICK a, lost : a = p.protocol /\ lost = Lost(s)
  OBVIOUS
<1>7. /\ a \in Seq(Octet) /\ rest \in Seq(Octet) /\ ~Contains(a, Separator)
      /\ s = ((a \o Separator) \o rest) \o lost
  BY <1>4, <1>5, <1>6, UrlIsPutTogether
<1>8. PICK b \in Seq(Octet) : b = a \o Separator
  BY <1>7, SeparatorIs, ConcatProperties
<1>9. s = (b \o rest) \o lost
  BY <1>7, <1>8
<1>10. CASE slash = NPos
  <2>1. ~Contains(rest, <<Slash>>)
    BY <1>2, <1>7, <1>10, RestIsCut
  <2>2. p.host = rest /\ p.port = DefaultPort /\ p.path = <<Slash>>
    BY <1>5, <1>10
  <2>3. s = ((p.protocol \o Separator) \o p.host) \o Lost(s)
    BY <1>6, <1>8, <1>9, <2>2, Zenon
  <2>4. <<Slash>>[1] = Slash
    OBVIOUS
  <2> QED
    BY <1>6, <1>7, <2>1, <2>2, <2>3, <2>4, DefaultPortIsPlain, Zenon DEF PartsOf
<1>11. CASE slash # NPos
  <2>1. PICK path : path = From(rest, slash)
    OBVIOUS
  <2>2. HasPath(rest, authority, path)
    BY <1>2, <1>3, <1>7, <1>11, <2>1, RestIsCut
  <2>3. /\ rest = authority \o path
        /\ authority \in Seq(Octet) /\ path \in Seq(Octet) /\ path[1] = Slash
        /\ ~Contains(authority, <<Slash>>)
    BY <2>2 DEF HasPath
  <2>4. b \o (authority \o path) = (b \o authority) \o path
    <3>1. Assoc(b, authority, path)
      BY <2>3, Associative
    <3> QED
      BY <3>1, Zenon DEF Assoc
  <2>5. s = ((b \o authority) \o path) \o lost
    BY <1>9, <2>3, <2>4, Zenon
  <2>6. p.path = path
    BY <1>5, <1>11, <2>1
  <2>7. CASE colon = NPos
    <3>1. p.host = authority /\ p.port = DefaultPort
      BY <1>5, <1>11, <2>7
    <3>2. ~Contains(authority, <<Colon>>)
      BY <1>3, <2>3, <2>7, AuthorityIsCut
    <3>3. s = (((p.protocol \o Separator) \o p.host) \o p.path) \o Lost(s)
      BY <1>6, <1>8, <2>5, <2>6, <3>1, Zenon
    <3> QED
      BY <1>6, <1>7, <2>3, <2>6, <3>1, <3>2, <3>3, DefaultPortIsPlain, Zenon DEF PartsOf
  <2>8. CASE colon # NPos
    <3>1. PICK host, port : host = SubSeq(authority, 1, colon - 1) /\ port = From(authority, colon + 1)
      OBVIOUS
    <3>2. HasPort(authority, host, port)
      BY <1>3, <2>3, <2>8, <3>1, AuthorityIsCut
    <3>3. /\ authority = (host \o <<Colon>>) \o port
          /\ host \in Seq(Octet) /\ port \in Seq(Octet)
          /\ ~Contains(host, <<Slash>>) /\ ~Contains(port, <<Slash>>) /\ ~Contains(port, <<Colon>>)
      BY <3>2 DEF HasPort
    <3>4. p.host = host /\ p.port = port
      BY <1>5, <1>11, <2>8, <3>1
    <3>5. <<Colon>> \in Seq(Octet)
      BY DEF Colon, Octet
    <3>6. PICK h \in Seq(Octet) : h = host \o <<Colon>>
      BY <3>3, <3>5, ConcatProperties
    <3>7. b \o (h \o port) = (b \o h) \o port
      <4>1. Assoc(b, h, port)
        BY <3>3, Associative
      <4> QED
        BY <4>1, Zenon DEF Assoc
    <3>8. b \o (host \o <<Colon>>) = (b \o host) \o <<Colon>>
      <4>1. Assoc(b, host, <<Colon>>)
        BY <3>3, <3>5, Associative
      <4> QED
        BY <4>1, Zenon DEF Assoc
    <3>9. b \o authority = ((b \o host) \o <<Colon>>) \o port
      BY <3>3, <3>6, <3>7, <3>8, Zenon
    <3>10. s = (((((p.protocol \o Separator) \o p.host) \o <<Colon>>) \o p.port) \o p.path) \o Lost(s)
      BY <1>6, <1>8, <2>5, <2>6, <3>4, <3>9, Zenon
    <3> QED
      BY <1>6, <1>7, <2>3, <2>6, <3>3, <3>4, <3>10, Zenon DEF PartsOf
  <2> QED
    BY <2>7, <2>8
<1> QED
  BY <1>10, <1>11

\* A URL is a sequence of octets, which is all that UriParts needs.
UrlOK == url \in Seq(Octet)

LEMMA UrlsAreRight == UrlOK => UriParts
<1> SUFFICES ASSUME UrlOK PROVE UriParts
  OBVIOUS
<1>1. PICK s, p : s \in Seq(Octet) /\ s = url /\ p = parse(s)
  BY DEF UrlOK
<1>2. CASE ~Parsable(s)
  <2>1. PICK parts, rest, slash : parts = SplitString(s, Separator) /\ rest = Rest(parts)
                                  /\ slash = Find(rest, <<Slash>>, 1)
    OBVIOUS
  <2>2. PICK authority, colon : authority = SubSeq(rest, 1, slash - 1) /\ colon = FindLast(authority, Colon)
    OBVIOUS
  <2>3. Len(parts) \in Nat /\ Len(parts) < 2
    BY <1>1, <1>2, <2>1, UrlIsCut
  <2>4. p = Invalid
    <3>1. Locals(s, parts, rest, slash, authority, colon, p)
      BY <1>1, <2>1, <2>2 DEF Locals
    <3>2. TakenApart(parts, rest, slash, authority, colon, p)
      BY <2>3, <3>1, ParseIs
    <3> QED
      BY <2>3, <3>2 DEF TakenApart
  <2>5. ~Contains(s, Separator) \/ Find(s, Separator, 1) = Len(s) - 2
    BY <1>2 DEF Parsable
  <2> QED
    BY <1>1, <2>4, <2>5, Zenon DEF UriParts
<1>3. CASE Parsable(s)
  <2>1. PartsOf(p, s)
    BY <1>1, <1>3, PartsAreRight
  <2>2. ~(~Contains(s, Separator) \/ Find(s, Separator, 1) = Len(s) - 2)
    BY <1>3 DEF Parsable
  <2> QED
    BY <1>1, <2>1, <2>2, Zenon DEF UriParts, PartsOf, Lost
<1> QED
  BY <1>2, <1>3

\* The URL grows by octets.
LEMMA UrlsAreOctets == CodecsSpec => []UrlOK
<1>1. CodecsInit => UrlOK
  BY DEF CodecsInit, UrlOK
<1>2. UrlOK /\ [GrowText \/ GrowUrl \/ GrowFields]_vars => UrlOK'
  <2> SUFFICES ASSUME UrlOK, [GrowText \/ GrowUrl \/ GrowFields]_vars PROVE UrlOK'
    OBVIOUS
  <2>1. CASE GrowUrl
    <3>1. PICK o \in UrlOctets : url' = Append(url, o)
      BY <2>1 DEF GrowUrl
    <3>2. o \in Octet
      BY CodecsAssumption
    <3> QED
      BY <3>1, <3>2 DEF UrlOK
  <2>2. CASE UNCHANGED url
    BY <2>2 DEF UrlOK
  <2> QED
    BY <2>1, <2>2 DEF GrowText, GrowFields, vars
<1> QED
  BY <1>1, <1>2, PTL DEF CodecsSpec

\* URI::parse takes every URL of every length apart such that the parts put
\* together are the URL, or throws where it says so.
THEOREM UriPartsAlways == CodecsSpec => []UriParts
BY UrlsAreOctets, UrlsAreRight, PTL

-----------------------------------------------------------------------------
(* Pairs on the wire of the connector *)

\* encode_int and decode_int, of a number of three octets.
LEMMA NumberIsRead ==
  ASSUME NEW n \in Nat, n < NumberBound
  PROVE  /\ encode_int(n) \in Seq(Octet) /\ Len(encode_int(n)) = 8
         /\ decode_int(encode_int(n)) = n
<1> DEFINE e == encode_int(n)
<1>1. e = [k \in 1 .. 8 |-> CASE k = 1 -> n % 256
                              [] k = 2 -> (n \div 256) % 256
                              [] k = 3 -> (n \div 65536) % 256
                              [] OTHER -> 0]
  BY DEF encode_int, LenSize
<1>2. /\ n % 256 \in Octet /\ (n \div 256) % 256 \in Octet /\ (n \div 65536) % 256 \in Octet
      /\ 0 \in Octet
      /\ (n % 256) + 256 * ((n \div 256) % 256) + 65536 * ((n \div 65536) % 256) = n
  BY DEF Octet, NumberBound
<1>3. PICK a \in Octet, b \in Octet, c \in Octet :
        a = n % 256 /\ b = (n \div 256) % 256 /\ c = (n \div 65536) % 256 /\ a + 256 * b + 65536 * c = n
  BY <1>2
<1>4. e = [k \in 1 .. 8 |-> CASE k = 1 -> a [] k = 2 -> b [] k = 3 -> c [] OTHER -> 0]
  BY <1>1, <1>3
<1>5. \A k \in 1 .. 8 : e[k] = IF k = 1 THEN a ELSE IF k = 2 THEN b ELSE IF k = 3 THEN c ELSE 0
  <2> HIDE DEF e
  <2> QED
    BY <1>4
<1>6. e \in [1 .. 8 -> Octet]
  <2>1. e = [k \in 1 .. 8 |-> e[k]]
    BY <1>4
  <2> HIDE DEF e
  <2>2. \A k \in 1 .. 8 : e[k] \in Octet
    BY <1>2, <1>5
  <2> QED
    BY <2>1, <2>2
<1> HIDE DEF e
<1>7. e \in Seq(Octet) /\ Len(e) = 8
  <2>1. PICK m \in Nat : m = 8
    OBVIOUS
  <2>2. e \in [1 .. m -> Octet]
    BY <1>6, <2>1
  <2>3. e \in Seq(Octet) /\ Len(e) = m
    BY <2>2
  <2> QED
    BY <2>1, <2>3
<1>8. decode_int(e) = e[1] + 256 * e[2] + 65536 * e[3]
  BY <1>7 DEF decode_int, LenSize
<1>9. decode_int(e) = n
  <2>1. e[1] = a /\ e[2] = b /\ e[3] = c
    BY <1>5
  <2> QED
    BY <1>3, <1>8, <2>1
<1> QED
  BY <1>7, <1>9 DEF e

\* A string with its length in front of it.
LEMMA PstrIs ==
  ASSUME NEW str \in Seq(Octet), Len(str) < NumberBound
  PROVE  to_pstr(str) \in Seq(Octet) /\ Len(to_pstr(str)) = 8 + Len(str)
<1>1. PICK n \in Nat : n = Len(str)
  OBVIOUS
<1>2. encode_int(n) \in Seq(Octet) /\ Len(encode_int(n)) = 8
  BY <1>1, NumberIsRead
<1>3. PICK e \in Seq(Octet) : e = encode_int(n) /\ Len(e) = 8
  BY <1>2
<1>4. to_pstr(str) = e \o str
  BY <1>1, <1>3 DEF to_pstr
<1>5. e \o str \in Seq(Octet) /\ Len(e \o str) = Len(e) + Len(str)
  BY ConcatProperties
<1> QED
  BY <1>3, <1>4, <1>5

\* A string with its length in front of it is read where it is.
LEMMA PstrIsRead ==
  ASSUME NEW line \in Seq(Octet), NEW str \in Seq(Octet), Len(str) < NumberBound,
         NEW pos \in Nat \ {0}, pos + 8 + Len(str) <= Len(line) + 1,
         IsAt(line, to_pstr(str), pos)
  PROVE  Pstr(line, pos).str = str /\ Pstr(line, pos).next = pos + 8 + Len(str)
<1>1. PICK n \in Nat : n = Len(str) /\ n < NumberBound
  OBVIOUS
<1>2. PICK e : e = encode_int(n)
  OBVIOUS
<1>3. e \in Seq(Octet) /\ Len(e) = 8 /\ decode_int(e) = n
  BY <1>1, <1>2, NumberIsRead
<1>4. IsAt(line, e, pos) /\ IsAt(line, str, pos + 8)
  <2>1. IsAt(line, e \o str, pos)
    BY <1>1, <1>2 DEF to_pstr
  <2>2. pos \in Int
    OBVIOUS
  <2> QED
    BY <1>3, <2>1, <2>2, IsAtBoth
<1>5. SubSeq(line, pos, pos + 7) = e
  <2>1. pos + Len(e) <= Len(line) + 1 /\ pos + Len(e) - 1 = pos + 7
    BY <1>1, <1>3
  <2>2. SubSeq(line, pos, pos + Len(e) - 1) = e
    BY <1>3, <1>4, <2>1, WhatIsAt
  <2> QED
    BY <2>1, <2>2
<1>6. SubSeq(line, pos + 8, pos + 8 + n - 1) = str
  <2>1. pos + 8 \in Nat \ {0} /\ pos + 8 + Len(str) <= Len(line) + 1
    OBVIOUS
  <2>2. SubSeq(line, pos + 8, (pos + 8) + Len(str) - 1) = str
    BY <1>4, <2>1, WhatIsAt
  <2> QED
    BY <1>1, <2>2
<1>7. pos + LenSize - 1 = pos + 7 /\ LenSize = 8
  BY DEF LenSize
<1>8. Pstr(line, pos) = [str |-> str, next |-> pos + 8 + n]
  <2>1. decode_int(SubSeq(line, pos, pos + LenSize - 1)) = n
    BY <1>3, <1>5, <1>7
  <2>2. Pstr(line, pos) = [str |-> SubSeq(line, pos + LenSize, pos + LenSize + n - 1), next |-> pos + LenSize + n]
    BY <2>1, Zenon DEF Pstr
  <2> QED
    BY <1>6, <1>7, <2>2
<1> QED
  BY <1>1, <1>8

-----------------------------------------------------------------------------
(* Maps *)

\* A name and its value.
Strings == [key : Seq(Octet), value : Seq(Octet)]

\* A map: each key once.
IsMap(fs) ==
    /\ fs \in Seq(Strings)
    /\ \A j, k \in 1 .. Len(fs) : fs[j].key = fs[k].key => j = k

\* The map is read pair by pair.
LEMMA SetAppends ==
  ASSUME NEW fs, IsMap(fs), NEW i \in 1 .. Len(fs)
  PROVE  Set(SubSeq(fs, 1, i - 1), fs[i].key, fs[i].value) = SubSeq(fs, 1, i)
<1>1. fs \in Seq(Strings) /\ \A j, k \in 1 .. Len(fs) : fs[j].key = fs[k].key => j = k
  BY DEF IsMap
<1>2. PICK n \in Nat : n = Len(fs) /\ i \in 1 .. n
  BY <1>1
<1> DEFINE before == SubSeq(fs, 1, i - 1)
<1>3. /\ before \in Seq(Strings) /\ Len(before) = i - 1
      /\ \A k \in 1 .. i - 1 : before[k] = fs[k]
  <2>1. 1 \in Nat \ {0} /\ i - 1 \in Int /\ i - 1 <= n
    BY <1>2
  <2>2. /\ SubSeq(fs, 1, i - 1) \in Seq(Strings)
        /\ Len(SubSeq(fs, 1, i - 1)) = IF 1 <= i - 1 THEN i - 1 - 1 + 1 ELSE 0
        /\ \A k \in 1 .. (i - 1 - 1 + 1) : SubSeq(fs, 1, i - 1)[k] = fs[1 + k - 1]
    BY <1>1, <1>2, <2>1, PieceOf
  <2>3. \A k \in 1 .. i - 1 : k \in 1 .. (i - 1 - 1 + 1) /\ 1 + k - 1 = k
    BY <1>2
  <2>4. (IF 1 <= i - 1 THEN i - 1 - 1 + 1 ELSE 0) = i - 1
    BY <1>2
  <2> QED
    BY <2>2, <2>3, <2>4
<1>4. fs[i] \in Strings
  BY <1>1, ElementOfSeq
<1>5. fs[i] = [key |-> fs[i].key, value |-> fs[i].value]
  BY <1>4 DEF Strings
<1>6. SubSeq(fs, 1, i) = before \o <<fs[i]>>
  <2>1. 1 \in 1 .. Len(fs) /\ i \in 1 .. Len(fs)
    BY <1>2
  <2> QED
    BY <1>1, <2>1, SubSeqRecursiveSecond
<1> HIDE DEF before
<1>7. ~\E k \in 1 .. Len(before) : before[k].key = fs[i].key
  <2>1. ASSUME NEW k \in 1 .. i - 1 PROVE fs[k].key # fs[i].key
    <3>1. k \in 1 .. Len(fs) /\ k # i
      BY <1>2
    <3> QED
      BY <1>1, <3>1
  <2> QED
    BY <1>3, <2>1
<1>8. Set(before, fs[i].key, fs[i].value) = Append(before, fs[i])
  BY <1>5, <1>7, Zenon DEF Set
<1>9. Append(before, fs[i]) = before \o <<fs[i]>>
  BY <1>3, <1>4
<1> QED
  BY <1>6, <1>8, <1>9 DEF before

\* What serialize writes for the k-th field, and for all of them.
PairOf(fs, k) == to_pstr(fs[k].key) \o to_pstr(fs[k].value)
PairsOf(fs) == [k \in 1 .. Len(fs) |-> PairOf(fs, k)]

\* No string is longer than encode_int can say.
Short(fs) == \A k \in 1 .. Len(fs) : Len(fs[k].key) < NumberBound /\ Len(fs[k].value) < NumberBound

\* The pairs lie in line one behind the other.
PairsLie(places, line, fs) ==
    /\ places[1] = 1 /\ places[Len(fs) + 1] = Len(line) + 1
    /\ \A i \in 1 .. Len(fs) + 1 : places[i] \in 1 .. (Len(line) + 1)
    /\ \A i \in 1 .. Len(fs) :
         /\ places[i + 1] = places[i] + 16 + Len(fs[i].key) + Len(fs[i].value)
         /\ IsAt(line, to_pstr(fs[i].key), places[i])
         /\ IsAt(line, to_pstr(fs[i].value), places[i] + 8 + Len(fs[i].key))

\* The pairs of a map are strings.
LEMMA FieldIs ==
  ASSUME NEW fs, IsMap(fs)
  PROVE  /\ fs \in Seq(Strings) /\ Len(fs) \in Nat
         /\ \A k \in 1 .. Len(fs) :
              /\ fs[k].key \in Seq(Octet) /\ fs[k].value \in Seq(Octet)
              /\ Len(fs[k].key) \in Nat /\ Len(fs[k].value) \in Nat
<1>1. fs \in Seq(Strings)
  BY DEF IsMap
<1>2. ASSUME NEW k \in 1 .. Len(fs) PROVE fs[k].key \in Seq(Octet) /\ fs[k].value \in Seq(Octet)
  <2>1. fs[k] \in Strings
    BY <1>1, ElementOfSeq
  <2> QED
    BY <2>1 DEF Strings
<1>3. Len(fs) \in Nat
  BY <1>1
<1> QED
  BY <1>1, <1>2, <1>3, LenProperties

\* How long a pair is as it is written.
LEMMA PairIs ==
  ASSUME NEW fs, IsMap(fs), Short(fs), NEW k \in 1 .. Len(fs)
  PROVE  /\ to_pstr(fs[k].key) \in Seq(Octet) /\ to_pstr(fs[k].value) \in Seq(Octet)
         /\ Len(to_pstr(fs[k].key)) = 8 + Len(fs[k].key)
         /\ PairOf(fs, k) \in Seq(Octet)
         /\ Len(PairOf(fs, k)) = 16 + Len(fs[k].key) + Len(fs[k].value)
<1>1. PICK x \in Seq(Octet), y \in Seq(Octet) : x = fs[k].key /\ y = fs[k].value
  BY FieldIs
<1>2. Len(x) < NumberBound /\ Len(y) < NumberBound
  BY <1>1 DEF Short
<1>3. to_pstr(x) \in Seq(Octet) /\ Len(to_pstr(x)) = 8 + Len(x)
  BY <1>2, PstrIs
<1>4. to_pstr(y) \in Seq(Octet) /\ Len(to_pstr(y)) = 8 + Len(y)
  BY <1>2, PstrIs
<1>5. PICK a \in Seq(Octet), b \in Seq(Octet) : a = to_pstr(x) /\ b = to_pstr(y)
  BY <1>3, <1>4
<1>6. PairOf(fs, k) = a \o b
  BY <1>1, <1>5 DEF PairOf
<1>7. a \o b \in Seq(Octet) /\ Len(a \o b) = Len(a) + Len(b)
  BY ConcatProperties
<1>8. Len(a) + Len(b) = 16 + Len(x) + Len(y)
  <2>1. Len(x) \in Nat /\ Len(y) \in Nat /\ Len(a) = 8 + Len(x) /\ Len(b) = 8 + Len(y)
    BY <1>3, <1>4, <1>5
  <2> QED
    BY <2>1
<1> QED
  BY <1>1, <1>3, <1>4, <1>6, <1>7, <1>8

\* serialize puts strings together, one for each pair.
LEMMA PairsAreStrings ==
  ASSUME NEW fs, IsMap(fs), Short(fs)
  PROVE  PairsOf(fs) \in Seq(Seq(Octet)) /\ Len(PairsOf(fs)) = Len(fs)
         /\ \A k \in 1 .. Len(fs) : PairsOf(fs)[k] = PairOf(fs, k)
<1>1. PICK n \in Nat : n = Len(fs)
  BY FieldIs
<1> DEFINE ps == PairsOf(fs)
<1>2. ps = [k \in 1 .. n |-> PairOf(fs, k)]
  BY <1>1 DEF PairsOf
<1>3. \A k \in 1 .. n : PairOf(fs, k) \in Seq(Octet)
  BY <1>1, PairIs
<1>4. ps = [k \in 1 .. n |-> ps[k]] /\ \A k \in 1 .. n : ps[k] = PairOf(fs, k)
  BY <1>2
<1> HIDE DEF ps
<1>5. ps \in [1 .. n -> Seq(Octet)]
  BY <1>3, <1>4
<1>6. ps \in Seq(Seq(Octet)) /\ Len(ps) = n
  BY <1>5
<1> QED
  BY <1>1, <1>4, <1>6 DEF ps

\* The two strings of each pair lie where the pair lies.
LEMMA PairsLieInOut ==
  ASSUME NEW fs, IsMap(fs), Short(fs), NEW places, NEW line, Laid(places, line, PairsOf(fs))
  PROVE  PairsLie(places, line, fs)
<1>1. PICK n \in Nat : n = Len(fs)
  BY FieldIs
<1>2. PICK ps : ps = PairsOf(fs) /\ Len(ps) = n /\ \A k \in 1 .. n : ps[k] = PairOf(fs, k)
  BY <1>1, PairsAreStrings
<1>3. /\ places[1] = 1 /\ places[n + 1] = Len(line) + 1
      /\ \A i \in 1 .. n + 1 : places[i] \in 1 .. (Len(line) + 1)
      /\ \A i \in 1 .. n : places[i + 1] = places[i] + Len(ps[i]) /\ IsAt(line, ps[i], places[i])
  BY <1>2 DEF Laid
<1>4. ASSUME NEW i \in 1 .. n
      PROVE  /\ places[i + 1] = places[i] + 16 + Len(fs[i].key) + Len(fs[i].value)
             /\ IsAt(line, to_pstr(fs[i].key), places[i])
             /\ IsAt(line, to_pstr(fs[i].value), places[i] + 8 + Len(fs[i].key))
  <2>1. PICK a \in Seq(Octet), b \in Seq(Octet) : a = to_pstr(fs[i].key) /\ b = to_pstr(fs[i].value)
    BY <1>1, PairIs
  <2>2. Len(a) = 8 + Len(fs[i].key) /\ Len(PairOf(fs, i)) = 16 + Len(fs[i].key) + Len(fs[i].value)
    BY <1>1, <2>1, PairIs
  <2>3. PairOf(fs, i) = a \o b
    BY <2>1 DEF PairOf
  <2>4. PICK p \in Int : p = places[i]
    <3>1. i \in 1 .. n + 1
      OBVIOUS
    <3>2. places[i] \in 1 .. (Len(line) + 1)
      BY <1>3, <3>1
    <3> QED
      BY <3>2
  <2>5. IsAt(line, a \o b, p)
    BY <1>2, <1>3, <2>3, <2>4
  <2>6. IsAt(line, a, p) /\ IsAt(line, b, p + Len(a))
    BY <2>5, IsAtBoth
  <2>7. PICK k \in Nat, v \in Nat : k = Len(fs[i].key) /\ v = Len(fs[i].value)
    BY <1>1, FieldIs
  <2>8. places[i + 1] = p + (16 + k + v)
    BY <1>2, <1>3, <2>2, <2>4, <2>7
  <2>9. p + (16 + k + v) = p + 16 + k + v /\ p + (8 + k) = p + 8 + k
    OBVIOUS
  <2> QED
    BY <2>1, <2>2, <2>4, <2>6, <2>7, <2>8, <2>9
<1> QED
  BY <1>1, <1>3, <1>4 DEF PairsLie

\* One round of the loop.
LEMMA RoundReads ==
  ASSUME NEW fs, IsMap(fs), Short(fs), NEW line \in Seq(Octet), NEW places,
         PairsLie(places, line, fs), NEW k \in 1 .. Len(fs)
  PROVE  /\ places[k] \in Nat /\ places[k] <= Len(line)
         /\ Pstr(line, places[k]).str = fs[k].key
         /\ Pstr(line, Pstr(line, places[k]).next).str = fs[k].value
         /\ Pstr(line, Pstr(line, places[k]).next).next = places[k + 1]
<1>1. PICK n \in Nat, l \in Nat : n = Len(fs) /\ l = Len(line)
  BY FieldIs
<1>2. PICK x \in Seq(Octet), y \in Seq(Octet) : x = fs[k].key /\ y = fs[k].value
  BY FieldIs
<1>3. PICK a \in Nat, b \in Nat : a = Len(x) /\ b = Len(y) /\ a < NumberBound /\ b < NumberBound
  BY <1>2 DEF Short
<1>4. PICK p \in Nat \ {0}, q \in Nat : p = places[k] /\ q = places[k + 1] /\ q <= l + 1
  <2>1. k \in 1 .. n + 1 /\ k + 1 \in 1 .. n + 1
    BY <1>1
  <2>2. places[k] \in 1 .. (l + 1) /\ places[k + 1] \in 1 .. (l + 1)
    BY <1>1, <2>1 DEF PairsLie
  <2> QED
    BY <2>2
<1>5. q = p + 16 + a + b /\ IsAt(line, to_pstr(x), p) /\ IsAt(line, to_pstr(y), p + 8 + a)
  BY <1>2, <1>3, <1>4 DEF PairsLie
<1> DEFINE r == p + 8 + a
<1>10. r \in Nat \ {0} /\ r + 8 + b = q /\ p <= l /\ r <= l + 1
  <2>1. q = p + 16 + a + b /\ q <= l + 1
    BY <1>4, <1>5
  <2> QED
    BY <2>1
<1>6. Pstr(line, p).str = x /\ Pstr(line, p).next = p + 8 + a
  <2>1. p + 8 + Len(x) <= Len(line) + 1 /\ Len(x) < NumberBound
    BY <1>1, <1>3, <1>10
  <2>2. Pstr(line, p).str = x /\ Pstr(line, p).next = p + 8 + Len(x)
    BY <1>5, <2>1, PstrIsRead
  <2> QED
    BY <1>3, <2>2
<1>7. IsAt(line, to_pstr(y), r)
  BY <1>5
<1> HIDE DEF r
<1>8. Pstr(line, r).str = y /\ Pstr(line, r).next = r + 8 + b
  <2>1. r + 8 + Len(y) <= Len(line) + 1 /\ Len(y) < NumberBound /\ IsAt(line, to_pstr(y), r)
    BY <1>1, <1>3, <1>4, <1>7, <1>10
  <2>2. Pstr(line, r).str = y /\ Pstr(line, r).next = r + 8 + Len(y)
    BY <1>10, <2>1, PstrIsRead
  <2> QED
    BY <1>3, <2>2
<1>9. Pstr(line, Pstr(line, p).next).str = y /\ Pstr(line, Pstr(line, p).next).next = q
  BY <1>6, <1>8, <1>10 DEF r
<1> QED
  BY <1>1, <1>2, <1>4, <1>6, <1>9, <1>10

\* A round of the loop of process: from pos and out before it to those after it.
Round(line, length, before) ==
    IF before.pos > length THEN before
    ELSE [pos |-> Pstr(line, Pstr(line, before.pos).next).next,
          out |-> Set(before.out, Pstr(line, before.pos).str,
                      Pstr(line, Pstr(line, before.pos).next).str)]

\* The loop, as a function of the number of rounds.
Rounds(f, line, length, rounds) ==
    f = [k \in 0 .. rounds |-> IF k = 0 THEN [pos |-> 1, out |-> <<>>]
                               ELSE Round(line, length, f[k - 1])]

\* pos and out after k rounds.
After(places, fs, k) ==
    IF k <= Len(fs) THEN [pos |-> places[k + 1], out |-> SubSeq(fs, 1, k)]
    ELSE [pos |-> places[Len(fs) + 1], out |-> fs]

\* A round reads the next pair; when there is none it changes nothing.
LEMMA RoundLeadsOn ==
  ASSUME NEW fs, IsMap(fs), Short(fs), NEW line \in Seq(Octet), NEW places,
         PairsLie(places, line, fs), NEW k \in Nat \ {0}
  PROVE  Round(line, Len(line), After(places, fs, k - 1)) = After(places, fs, k)
<1>1. PICK n \in Nat, l \in Nat : n = Len(fs) /\ l = Len(line)
  BY FieldIs
<1>2. CASE k <= n
  <2>1. k \in 1 .. Len(fs) /\ k - 1 <= Len(fs) /\ (k - 1) + 1 = k
    BY <1>1, <1>2
  <2>2. After(places, fs, k - 1) = [pos |-> places[k], out |-> SubSeq(fs, 1, k - 1)]
    BY <2>1 DEF After
  <2>3. After(places, fs, k) = [pos |-> places[k + 1], out |-> SubSeq(fs, 1, k)]
    BY <1>1, <1>2 DEF After
  <2>4. PICK a, b : a = SubSeq(fs, 1, k - 1) /\ b = SubSeq(fs, 1, k)
    OBVIOUS
  <2>5. PICK p \in Nat : p = places[k] /\ p <= l
    BY <1>1, <2>1, RoundReads
  <2>6. /\ Pstr(line, p).str = fs[k].key
        /\ Pstr(line, Pstr(line, p).next).str = fs[k].value
        /\ Pstr(line, Pstr(line, p).next).next = places[k + 1]
    BY <2>1, <2>5, RoundReads
  <2>7. Set(a, fs[k].key, fs[k].value) = b
    BY <2>1, <2>4, SetAppends
  <2>8. PICK before : before = [pos |-> p, out |-> a] /\ before.pos = p /\ before.out = a
    <3>1. PICK b0 : b0 = [pos |-> p, out |-> a]
      OBVIOUS
    <3>2. b0.pos = p /\ b0.out = a
      BY <3>1
    <3> QED
      BY <3>1, <3>2, Zenon
  <2>9. ~(before.pos > Len(line))
    BY <1>1, <2>5, <2>8
  <2>10. Round(line, Len(line), before) = [pos |-> places[k + 1], out |-> b]
    <3>1. Round(line, Len(line), before) =
            [pos |-> Pstr(line, Pstr(line, p).next).next,
             out |-> Set(a, Pstr(line, p).str, Pstr(line, Pstr(line, p).next).str)]
      BY <2>8, <2>9, Zenon DEF Round
    <3> QED
      BY <2>6, <2>7, <3>1, Zenon
  <2> QED
    BY <2>2, <2>3, <2>4, <2>5, <2>8, <2>10
<1>3. CASE k > n
  <2>1. After(places, fs, k) = [pos |-> places[n + 1], out |-> fs]
    BY <1>1, <1>3 DEF After
  <2>2. After(places, fs, k - 1) = [pos |-> places[n + 1], out |-> fs]
    <3>1. CASE k - 1 = n
      <4>1. SubSeq(fs, 1, n) = fs
        BY <1>1, FieldIs, SubSeqFull
      <4> QED
        BY <1>1, <3>1, <4>1 DEF After
    <3>2. CASE k - 1 # n
      BY <1>1, <1>3, <3>2 DEF After
    <3> QED
      BY <3>1, <3>2
  <2>3. PICK before : before = After(places, fs, k)
    OBVIOUS
  <2>4. before.pos = l + 1
    <3>1. places[n + 1] = l + 1
      BY <1>1 DEF PairsLie
    <3> QED
      BY <2>1, <2>3, <3>1
  <2>5. before.pos > Len(line)
    BY <1>1, <2>4
  <2>6. Round(line, Len(line), before) = before
    BY <2>5, Zenon DEF Round
  <2> QED
    BY <2>1, <2>2, <2>3, <2>6
<1> QED
  BY <1>1, <1>2, <1>3

\* Enough rounds for the pairs.
LEMMA RoundsSuffice ==
  ASSUME NEW fs, IsMap(fs), NEW line \in Seq(Octet), NEW places, PairsLie(places, line, fs)
  PROVE  /\ (Len(line) + 2 * LenSize - 1) \div (2 * LenSize) \in Nat
         /\ Len(fs) <= (Len(line) + 2 * LenSize - 1) \div (2 * LenSize)
<1>1. PICK n \in Nat, l \in Nat : n = Len(fs) /\ l = Len(line)
  BY FieldIs
<1> DEFINE T == {i \in Int : places[i] > 16 * (i - 1)}
<1>2. 1 \in T
  BY DEF PairsLie
<1>3. ASSUME NEW i \in 1 .. n, i \in T PROVE i + 1 \in T
  <2>1. PICK a \in Nat, b \in Nat : a = Len(fs[i].key) /\ b = Len(fs[i].value)
    BY <1>1, FieldIs
  <2>2. i \in 1 .. n + 1
    OBVIOUS
  <2>3. PICK p \in Int : p = places[i]
    <3>1. places[i] \in 1 .. (l + 1)
      BY <1>1, <2>2 DEF PairsLie
    <3> QED
      BY <3>1
  <2>4. places[i + 1] = p + 16 + a + b
    BY <1>1, <2>1, <2>3 DEF PairsLie
  <2>5. p > 16 * (i - 1)
    BY <1>3, <2>3
  <2>6. p + 16 + a + b > 16 * ((i + 1) - 1) /\ i + 1 \in Int
    BY <2>5
  <2> QED
    BY <2>4, <2>6
<1>4. n + 1 \in T
  <2> HIDE DEF T
  <2>1. 1 \in Int /\ n + 1 \in Int /\ \A i \in 1 .. ((n + 1) - 1) : i \in 1 .. n
    OBVIOUS
  <2>2. \A i \in 1 .. ((n + 1) - 1) : i \in T => i + 1 \in T
    BY <1>3, <2>1
  <2>3. \A i \in 1 .. (n + 1) : i \in T
    BY <1>2, <2>1, <2>2, FromTheStart
  <2> QED
    BY <2>3
<1>5. l + 1 > 16 * n
  <2>1. places[n + 1] > 16 * ((n + 1) - 1)
    BY <1>4
  <2>2. places[n + 1] = l + 1
    BY <1>1 DEF PairsLie
  <2> QED
    BY <2>1, <2>2
<1>6. (l + 15) \div 16 \in Nat /\ n <= (l + 15) \div 16
  BY <1>5
<1>7. l + 2 * LenSize - 1 = l + 15 /\ 2 * LenSize = 16
  BY DEF LenSize
<1> QED
  BY <1>1, <1>6, <1>7

\* The loop reads the map that lies in the line.
LEMMA PairsAreRead ==
  ASSUME NEW fs, IsMap(fs), Short(fs), NEW line \in Seq(Octet), NEW places,
         PairsLie(places, line, fs)
  PROVE  Pairs(line, Len(line)) = fs
<1>1. PICK n \in Nat, l \in Nat : n = Len(fs) /\ l = Len(line)
  BY FieldIs
<1>2. PICK rounds \in Nat : rounds = (l + 2 * LenSize - 1) \div (2 * LenSize) /\ n <= rounds
  BY <1>1, RoundsSuffice
<1> DEFINE Is(f) == Rounds(f, line, l, rounds)
           at == [k \in Nat |-> After(places, fs, k)]
<1>3. Pairs(line, l) = (CHOOSE f : Is(f))[rounds].out
  BY <1>2, Zenon DEF Pairs, Rounds, Round
<1>4. at[0] = [pos |-> 1, out |-> <<>>]
  <2>1. 0 <= Len(fs) /\ 0 + 1 = 1
    BY <1>1
  <2>2. places[1] = 1
    BY DEF PairsLie
  <2>3. SubSeq(fs, 1, 0) = <<>>
    BY SubSeqEmpty
  <2> QED
    BY <2>1, <2>2, <2>3 DEF After
<1>5. ASSUME NEW k \in Nat \ {0} PROVE at[k] = Round(line, l, at[k - 1])
  <2>1. k \in Nat /\ k - 1 \in Nat
    OBVIOUS
  <2>2. at[k] = After(places, fs, k) /\ at[k - 1] = After(places, fs, k - 1)
    BY <2>1
  <2> HIDE DEF at
  <2> QED
    BY <1>1, <2>2, RoundLeadsOn
<1>6. at[rounds].out = fs
  <2>1. CASE rounds = n
    <3>1. SubSeq(fs, 1, n) = fs
      BY <1>1, FieldIs, SubSeqFull
    <3> QED
      BY <1>1, <2>1, <3>1 DEF After
  <2>2. CASE rounds # n
    BY <1>1, <1>2, <2>2 DEF After
  <2> QED
    BY <2>1, <2>2
<1> HIDE DEF at
<1> DEFINE g == [k \in 0 .. rounds |-> at[k]]
<1>7. Is(g)
  <2>1. ASSUME NEW k \in 0 .. rounds
        PROVE  at[k] = IF k = 0 THEN [pos |-> 1, out |-> <<>>] ELSE Round(line, l, g[k - 1])
    <3>1. CASE k = 0
      BY <1>4, <3>1
    <3>2. CASE k # 0
      <4>1. k \in Nat \ {0} /\ k - 1 \in 0 .. rounds
        BY <3>2
      <4>2. g[k - 1] = at[k - 1]
        BY <4>1
      <4> HIDE DEF g
      <4> QED
        BY <1>5, <3>2, <4>1, <4>2
    <3> QED
      BY <3>1, <3>2
  <2>2. g = [k \in 0 .. rounds |-> at[k]]
    OBVIOUS
  <2> HIDE DEF g
  <2>3. g = [k \in 0 .. rounds |-> IF k = 0 THEN [pos |-> 1, out |-> <<>>] ELSE Round(line, l, g[k - 1])]
    BY <2>1, <2>2, Zenon
  <2> QED
    BY <2>3, Zenon DEF Rounds
<1>8. PICK f : Is(f) /\ Pairs(line, l) = f[rounds].out
  <2> HIDE DEF Is
  <2>1. Is(CHOOSE f : Is(f))
    BY <1>7
  <2> QED
    BY <1>3, <2>1
<1>9. ASSUME NEW k \in 0 .. rounds
      PROVE  f[k] = IF k = 0 THEN [pos |-> 1, out |-> <<>>] ELSE Round(line, l, f[k - 1])
  BY <1>8, Zenon DEF Rounds
<1>10. f[rounds] = at[rounds]
  <2> DEFINE T == {k \in Int : f[k] = at[k]}
  <2>1. 0 \in T
    <3>1. 0 \in 0 .. rounds
      OBVIOUS
    <3>2. f[0] = [pos |-> 1, out |-> <<>>]
      BY <1>9, <3>1
    <3> QED
      BY <1>4, <3>2
  <2>2. ASSUME NEW k \in 0 .. (rounds - 1), k \in T PROVE k + 1 \in T
    <3>1. k + 1 \in 0 .. rounds /\ k + 1 # 0 /\ (k + 1) - 1 = k /\ k + 1 \in Nat \ {0} /\ k + 1 \in Int
      OBVIOUS
    <3>2. f[k + 1] = Round(line, l, f[k])
      BY <1>9, <3>1
    <3>3. at[k + 1] = Round(line, l, at[k])
      BY <1>5, <3>1
    <3>4. f[k] = at[k]
      BY <2>2
    <3> QED
      BY <3>1, <3>2, <3>3, <3>4
  <2>3. \A k \in 0 .. rounds : k \in T
    <3>1. 0 \in Int /\ rounds \in Int
      OBVIOUS
    <3> HIDE DEF T
    <3> QED
      BY <2>1, <2>2, <3>1, FromTheStart
  <2> QED
    BY <2>3
<1> QED
  BY <1>1, <1>6, <1>8, <1>10

\* What serialize writes behind the length of all of it.
Written(fs) == Concat(PairsOf(fs))

\* What serialize writes is received, if the length of all of it fits.
LEMMA SerializedIsReceived ==
  ASSUME NEW fs, IsMap(fs), Short(fs), Len(Written(fs)) < NumberBound
  PROVE  Received(serialize(fs)) = fs
<1>1. PICK line : line = Written(fs)
  OBVIOUS
<1>2. line \in Seq(Octet) /\ \E places : Laid(places, line, PairsOf(fs))
  BY <1>1, PairsAreStrings, ConcatIsLaid DEF Written
<1>3. PICK places : Laid(places, line, PairsOf(fs))
  BY <1>2
<1>4. PairsLie(places, line, fs)
  BY <1>3, PairsLieInOut
<1>5. PICK n \in Nat : n = Len(line) /\ n < NumberBound
  BY <1>1, <1>2
<1>6. PICK e \in Seq(Octet) : e = encode_int(n) /\ Len(e) = 8 /\ decode_int(e) = n
  BY <1>5, NumberIsRead
<1>7. PICK wire : wire = serialize(fs) /\ wire = e \o line
  <2>1. serialize(fs) = encode_int(Len(line)) \o line
    BY <1>1, Zenon DEF serialize, Written, PairsOf, PairOf
  <2> QED
    BY <1>5, <1>6, <2>1
<1>8. wire \in Seq(Octet) /\ Len(wire) = 8 + n
  <2>1. e \o line \in Seq(Octet) /\ Len(e \o line) = Len(e) + Len(line)
    BY <1>2, ConcatProperties
  <2> QED
    BY <1>5, <1>6, <1>7, <2>1
<1>9. IsAt(wire, e, 1) /\ IsAt(wire, line, 1 + 8)
  <2>1. IsAt(wire, e \o line, 1)
    <3>1. \A k \in 1 .. Len(wire) : 1 + k - 1 = k
      BY <1>8
    <3> QED
      BY <1>7, <3>1 DEF IsAt
  <2>2. 1 \in Int
    OBVIOUS
  <2> QED
    BY <1>2, <1>6, <2>1, <2>2, IsAtBoth
<1>10. SubSeq(wire, 1, 8) = e
  <2>1. 1 \in Nat \ {0} /\ 1 + Len(e) <= Len(wire) + 1 /\ 1 + Len(e) - 1 = 8
    BY <1>6, <1>8
  <2>2. SubSeq(wire, 1, 1 + Len(e) - 1) = e
    BY <1>8, <1>9, <2>1, WhatIsAt
  <2> QED
    BY <2>1, <2>2
<1>11. SubSeq(wire, 9, 8 + n) = line
  <2>1. 9 \in Nat \ {0} /\ 9 + Len(line) <= Len(wire) + 1 /\ 9 + Len(line) - 1 = 8 + n /\ 1 + 8 = 9
    BY <1>5, <1>8
  <2>2. SubSeq(wire, 9, 9 + Len(line) - 1) = line
    BY <1>2, <1>8, <1>9, <2>1, WhatIsAt
  <2> QED
    BY <2>1, <2>2
<1>12. LenSize = 8 /\ 8 + 1 = 9
  BY DEF LenSize
<1>13. Received(wire) = Pairs(line, n)
  BY <1>6, <1>10, <1>11, <1>12 DEF Received
<1>14. Pairs(line, Len(line)) = fs
  BY <1>2, <1>4, PairsAreRead
<1> QED
  BY <1>5, <1>7, <1>13, <1>14

-----------------------------------------------------------------------------
(* The maps of Codecs are short enough *)

\* A pair is shorter than its two strings, each counted twice, say.
LEMMA Halves ==
  ASSUME NEW m \in Nat, NEW a \in Nat, NEW b \in Nat, NEW bound \in Nat,
         m * 2 * (8 + a) < bound, m * 2 * (8 + b) < bound
  PROVE  m * (16 + a + b) < bound
<1>1. PICK x \in Nat, y \in Nat : x = m * (8 + a) /\ y = m * (8 + b)
  OBVIOUS
<1>2. m * 2 * (8 + a) = 2 * (m * (8 + a)) /\ m * 2 * (8 + b) = 2 * (m * (8 + b))
  OBVIOUS
<1>3. m * (16 + a + b) = m * (8 + a) + m * (8 + b)
  OBVIOUS
<1>4. 2 * x < bound /\ 2 * y < bound /\ m * (16 + a + b) = x + y
  BY <1>1, <1>2, <1>3
<1> QED
  BY <1>4

\* The inductive invariant of the map: it is small, and has each name once.
FieldsOK ==
    /\ fields \in Seq([key : FieldNames, value : FieldValues]) /\ Len(fields) <= MaxFields
    /\ \A j, k \in 1 .. Len(fields) : fields[j].key = fields[k].key => j = k

\* So all of it fits.
LEMMA FieldsAreShort ==
  ASSUME NEW fs, fs = fields, FieldsOK
  PROVE  IsMap(fs) /\ Short(fs) /\ Len(Written(fs)) < NumberBound
<1>1. /\ fs \in Seq([key : FieldNames, value : FieldValues]) /\ Len(fs) <= MaxFields
      /\ \A j, k \in 1 .. Len(fs) : fs[j].key = fs[k].key => j = k
  BY DEF FieldsOK
<1>2. PICK m \in Nat : m = MaxFields
  BY CodecsAssumption
<1>3. PICK n \in Nat : n = Len(fs) /\ n <= m
  BY <1>1, <1>2
<1>4. NumberBound \in Nat \ {0}
  BY DEF NumberBound
<1>5. FieldNames \subseteq Seq(Octet) /\ FieldValues \subseteq Seq(Octet)
  BY CodecsAssumption
<1>6. IsMap(fs)
  <2>1. [key : FieldNames, value : FieldValues] \subseteq Strings
    BY <1>5 DEF Strings
  <2>2. fs \in Seq(Strings)
    BY <1>1, <2>1, SeqMonotonic
  <2> QED
    BY <1>1, <2>2 DEF IsMap
<1>7. ASSUME NEW k \in 1 .. n
      PROVE  /\ fs[k].key \in FieldNames /\ fs[k].value \in FieldValues
             /\ Len(fs[k].key) \in Nat /\ Len(fs[k].value) \in Nat
             /\ m * 2 * (8 + Len(fs[k].key)) < NumberBound
             /\ m * 2 * (8 + Len(fs[k].value)) < NumberBound
  <2>1. fs[k] \in [key : FieldNames, value : FieldValues]
    BY <1>1, <1>3, ElementOfSeq
  <2>2. fs[k].key \in FieldNames /\ fs[k].value \in FieldValues
    BY <2>1
  <2>3. LenSize = 8
    BY DEF LenSize
  <2>4. \A s \in FieldNames \cup FieldValues : m * 2 * (8 + Len(s)) < NumberBound
    BY <1>2, <2>3, CodecsAssumption
  <2>5. Len(fs[k].key) \in Nat /\ Len(fs[k].value) \in Nat
    BY <1>3, <1>6, FieldIs
  <2> QED
    BY <2>2, <2>4, <2>5
<1>8. ASSUME NEW a \in Nat, m * 2 * (8 + a) < NumberBound, m >= 1 PROVE a < NumberBound
  <2>1. m * 2 * (8 + a) = 2 * (m * (8 + a))
    OBVIOUS
  <2>2. m * (8 + a) >= 1 * (8 + a)
    BY <1>8
  <2>3. PICK x \in Nat : x = m * (8 + a)
    OBVIOUS
  <2> QED
    BY <1>4, <1>8, <2>1, <2>2, <2>3
<1>9. Short(fs)
  <2>1. ASSUME NEW k \in 1 .. n PROVE Len(fs[k].key) < NumberBound /\ Len(fs[k].value) < NumberBound
    <3>1. m >= 1
      BY <1>3
    <3> QED
      BY <1>7, <1>8, <3>1
  <2> QED
    BY <1>3, <2>1 DEF Short
<1>10. PICK ps : ps = PairsOf(fs) /\ ps \in Seq(Seq(Octet)) /\ Len(ps) = n
                 /\ \A k \in 1 .. n : ps[k] = PairOf(fs, k)
  BY <1>3, <1>6, <1>9, PairsAreStrings
<1>11. ASSUME NEW k \in 1 .. Len(ps) PROVE m * Len(ps[k]) < NumberBound
  <2>1. k \in 1 .. n
    BY <1>10
  <2>2. PICK a \in Nat, b \in Nat : a = Len(fs[k].key) /\ b = Len(fs[k].value)
    BY <1>7, <2>1
  <2>3. Len(ps[k]) = 16 + a + b
    BY <1>3, <1>6, <1>9, <1>10, <2>1, <2>2, PairIs
  <2>4. m * 2 * (8 + a) < NumberBound /\ m * 2 * (8 + b) < NumberBound
    BY <1>7, <2>1, <2>2
  <2>5. m * (16 + a + b) < NumberBound
    BY <1>4, <2>4, Halves
  <2> QED
    BY <2>3, <2>5
<1>12. Len(Concat(ps)) < NumberBound
  <2>1. Len(ps) <= m
    BY <1>3, <1>10
  <2> QED
    BY <1>4, <1>10, <1>11, <2>1, ConcatIsBounded
<1> QED
  BY <1>6, <1>9, <1>10, <1>12 DEF Written

-----------------------------------------------------------------------------
(* trim *)

\* trim drops the blanks before the first visible character, if the last is visible.
LEMMA TrimIs ==
  ASSUME NEW S, NEW s \in Seq(S), NEW a \in 1 .. Len(s),
         \A p \in 1 .. (a - 1) : s[p] \in WHITESPACE,
         s[a] \notin WHITESPACE, s[Len(s)] \notin WHITESPACE
  PROVE  trim(s) = SubSeq(s, a, Len(s))
<1>1. PICK l \in Nat : l = Len(s)
  OBVIOUS
<1> DEFINE visible == {p \in 1 .. l : s[p] \notin WHITESPACE}
<1>2. a \in visible /\ l \in visible /\ \A p \in visible : a <= p /\ p <= l
  <2>1. l \in 1 .. l
    BY <1>1
  <2>2. ASSUME NEW p \in 1 .. l, p < a PROVE s[p] \in WHITESPACE
    <3>1. p \in 1 .. (a - 1)
      BY <2>2
    <3> QED
      BY <3>1
  <2> QED
    BY <1>1, <2>1, <2>2
<1>3. trim(s) = SubSeq(s, Min(visible), Max(visible))
  <2>1. visible # {}
    BY <1>2
  <2> QED
    BY <1>1, <2>1, Zenon DEF trim
<1>4. visible \in SUBSET Nat /\ visible \in SUBSET (1 .. l) /\ visible # {}
  BY <1>2
<1> HIDE DEF visible
<1>5. Min(visible) \in visible /\ \A n \in visible : Min(visible) <= n
  BY <1>4, SmallestOf
<1>6. Max(visible) \in visible /\ \A p \in visible : Max(visible) >= p
  BY <1>4, LargestOf
<1>7. Min(visible) = a /\ Max(visible) = l
  <2>1. PICK x \in Nat, y \in Nat : x = Min(visible) /\ y = Max(visible)
    BY <1>4, <1>5, <1>6
  <2>2. a <= x /\ y <= l
    BY <1>2, <1>5, <1>6, <2>1
  <2>3. x <= a /\ y >= l
    BY <1>2, <1>5, <1>6, <2>1
  <2>4. x = a /\ y = l
    BY <1>1, <2>1, <2>2, <2>3
  <2> QED
    BY <2>1, <2>4
<1> QED
  BY <1>1, <1>3, <1>7

-----------------------------------------------------------------------------
(* A header line *)

\* What HttpMessage::serialize writes of a field, without the end of the line.
BodyOf(key, value) == key \o FieldColon \o <<Blank>> \o value

\* The name, a colon, a blank, and the value.
IsText(w, key, value) ==
    /\ w \in Seq(Octet) /\ Len(w) = Len(key) + 2 + Len(value)
    /\ \A k \in 1 .. Len(key) : w[k] = key[k]
    /\ w[Len(key) + 1] = Colon /\ w[Len(key) + 2] = Blank
    /\ \A k \in 1 .. Len(value) : w[Len(key) + 2 + k] = value[k]

\* The text of the line, character by character.
LEMMA BodyIsText ==
  ASSUME NEW key \in Seq(Octet), NEW value \in Seq(Octet)
  PROVE  IsText(BodyOf(key, value), key, value)
<1>1. PICK l \in Nat, m \in Nat : l = Len(key) /\ m = Len(value)
  OBVIOUS
<1>2. PICK c \in Seq(Octet), b \in Seq(Octet) :
        /\ c = FieldColon /\ Len(c) = 1 /\ c[1] = Colon
        /\ b = <<Blank>> /\ Len(b) = 1 /\ b[1] = Blank
  <2>1. Colon \in Octet /\ Blank \in Octet /\ FieldColon = <<Colon>>
    BY DEF Colon, Blank, Octet, FieldColon
  <2>2. PICK x \in Octet, y \in Octet : x = Colon /\ y = Blank
    BY <2>1
  <2>3. <<x>> \in Seq(Octet) /\ Len(<<x>>) = 1 /\ <<x>>[1] = x
        /\ <<y>> \in Seq(Octet) /\ Len(<<y>>) = 1 /\ <<y>>[1] = y
    OBVIOUS
  <2> QED
    BY <2>1, <2>2, <2>3, Zenon
<1>3. PICK u : u = key \o c /\ Together(u, key, c, Octet)
  BY PutTogether
<1>4. u \in Seq(Octet) /\ Len(u) = l + 1 /\ u[l + 1] = Colon /\ \A k \in 1 .. l : u[k] = key[k]
  <2>1. u \in Seq(Octet) /\ Len(u) = l + 1
        /\ \A i \in 1 .. l + 1 : u[i] = IF i <= l THEN key[i] ELSE c[i - l]
    BY <1>1, <1>2, <1>3 DEF Together
  <2>2. l + 1 \in 1 .. l + 1 /\ ~(l + 1 <= l) /\ (l + 1) - l = 1
    OBVIOUS
  <2>3. u[l + 1] = c[1]
    BY <2>1, <2>2
  <2> QED
    BY <1>2, <2>1, <2>3
<1>5. PICK v : v = u \o b /\ Together(v, u, b, Octet)
  BY <1>4, PutTogether
<1>6. v \in Seq(Octet) /\ Len(v) = l + 2 /\ v[l + 2] = Blank /\ \A k \in 1 .. l + 1 : v[k] = u[k]
  <2>1. v \in Seq(Octet) /\ Len(v) = l + 1 + 1
        /\ \A i \in 1 .. l + 1 + 1 : v[i] = IF i <= l + 1 THEN u[i] ELSE b[i - (l + 1)]
    BY <1>2, <1>4, <1>5 DEF Together
  <2>2. l + 2 \in 1 .. l + 1 + 1 /\ ~(l + 2 <= l + 1) /\ (l + 2) - (l + 1) = 1 /\ l + 1 + 1 = l + 2
    OBVIOUS
  <2>3. v[l + 2] = b[1]
    BY <2>1, <2>2
  <2> QED
    BY <1>2, <2>1, <2>2, <2>3
<1>7. PICK w : w = v \o value /\ Together(w, v, value, Octet)
  BY <1>6, PutTogether
<1>8. w \in Seq(Octet) /\ Len(w) = l + 2 + m
      /\ \A i \in 1 .. l + 2 + m : w[i] = IF i <= l + 2 THEN v[i] ELSE value[i - (l + 2)]
  BY <1>1, <1>6, <1>7 DEF Together
<1>9. w = BodyOf(key, value)
  BY <1>2, <1>3, <1>5, <1>7, Zenon DEF BodyOf
<1>10. \A k \in 1 .. l : w[k] = key[k]
  <2>1. ASSUME NEW k \in 1 .. l PROVE w[k] = key[k]
    <3>1. k \in 1 .. l + 2 + m /\ k <= l + 2 /\ k \in 1 .. l + 1
      OBVIOUS
    <3> QED
      BY <1>4, <1>6, <1>8, <3>1
  <2> QED
    BY <2>1
<1>11. w[l + 1] = Colon /\ w[l + 2] = Blank
  <2>1. l + 1 \in 1 .. l + 2 + m /\ l + 2 \in 1 .. l + 2 + m /\ l + 1 <= l + 2 /\ l + 2 <= l + 2
        /\ l + 1 \in 1 .. l + 1
    OBVIOUS
  <2>2. w[l + 1] = v[l + 1] /\ w[l + 2] = v[l + 2]
    BY <1>8, <2>1
  <2> QED
    BY <1>4, <1>6, <2>1, <2>2
<1>12. \A k \in 1 .. m : w[l + 2 + k] = value[k]
  <2>1. ASSUME NEW k \in 1 .. m PROVE w[l + 2 + k] = value[k]
    <3>1. l + 2 + k \in 1 .. l + 2 + m /\ ~(l + 2 + k <= l + 2) /\ (l + 2 + k) - (l + 2) = k
      OBVIOUS
    <3> QED
      BY <1>8, <3>1
  <2> QED
    BY <2>1
<1>13. IsText(w, key, value)
  BY <1>1, <1>8, <1>10, <1>11, <1>12 DEF IsText
<1> QED
  BY <1>9, <1>13

\* What Kept says of a string, place by place.
LEMMA KeptIs ==
  ASSUME NEW s \in Seq(Octet), Kept(s)
  PROVE  /\ Len(s) \in Nat \ {0}
         /\ s[1] \notin WHITESPACE /\ s[Len(s)] \notin WHITESPACE /\ s[Len(s)] # Colon
         /\ \A p \in 1 .. (Len(s) - 1) : ~(s[p] = 13 /\ s[p + 1] = 10)
<1>1. PICK l \in Nat : l = Len(s)
  OBVIOUS
<1>2. l # 0
  BY <1>1, EmptySeq DEF Kept
<1>3. EndOfLine[1] = 13 /\ EndOfLine[2] = 10 /\ Len(EndOfLine) = 2
  BY DEF EndOfLine
<1>4. ASSUME NEW p \in 1 .. (l - 1) PROVE ~(s[p] = 13 /\ s[p + 1] = 10)
  <2>1. p \in 1 .. (Len(s) + 1 - Len(EndOfLine))
    BY <1>1, <1>3
  <2>2. ~IsAt(s, EndOfLine, p)
    BY <2>1 DEF Kept, Contains
  <2>3. \A k \in 1 .. 2 : k = 1 \/ k = 2
    OBVIOUS
  <2>4. p + 1 - 1 = p /\ p + 2 - 1 = p + 1
    OBVIOUS
  <2>5. PICK k \in 1 .. 2 : s[p + k - 1] # EndOfLine[k]
    BY <1>3, <2>2 DEF IsAt
  <2>6. CASE k = 1
    BY <1>3, <2>4, <2>5, <2>6
  <2>7. CASE k = 2
    BY <1>3, <2>4, <2>5, <2>7
  <2> QED
    BY <2>3, <2>6, <2>7
<1> QED
  BY <1>1, <1>2, <1>4 DEF Kept

\* The line ends where it should.
LEMMA LineEndsOnce ==
  ASSUME NEW key \in Seq(Octet), NEW value \in Seq(Octet), Kept(key), Kept(value),
         NEW w, IsText(w, key, value)
  PROVE  w \o EndOfLine \in Seq(Octet) /\ EndsOnly(w \o EndOfLine, w, EndOfLine)
<1>1. PICK l \in Nat \ {0}, m \in Nat \ {0}, n \in Nat :
        l = Len(key) /\ m = Len(value) /\ n = Len(w) /\ n = l + 2 + m
  <2>1. Len(key) \in Nat \ {0} /\ Len(value) \in Nat \ {0}
    BY KeptIs
  <2>2. Len(w) = Len(key) + 2 + Len(value)
    BY DEF IsText
  <2> QED
    BY <2>1, <2>2
<1>2. PICK d \in Seq(Octet) : d = EndOfLine /\ Len(d) = 2 /\ d[1] = 13 /\ d[2] = 10
  <2>1. PICK x \in Octet, y \in Octet : x = 13 /\ y = 10
    BY DEF Octet
  <2>2. <<x, y>> \in Seq(Octet) /\ Len(<<x, y>>) = 2 /\ <<x, y>>[1] = x /\ <<x, y>>[2] = y
    OBVIOUS
  <2> QED
    BY <2>1, <2>2, Zenon DEF EndOfLine
<1>3. PICK line : line = w \o d /\ Together(line, w, d, Octet)
  BY PutTogether DEF IsText
<1>4. line \in Seq(Octet) /\ Len(line) = n + 2
      /\ \A i \in 1 .. n + 2 : line[i] = IF i <= n THEN w[i] ELSE d[i - n]
  BY <1>1, <1>2, <1>3 DEF Together
<1>5. \A i \in 1 .. n : line[i] = w[i]
  <2>1. \A i \in 1 .. n : i \in 1 .. n + 2 /\ i <= n
    OBVIOUS
  <2> QED
    BY <1>4, <2>1
<1>6. line[n + 1] = 13 /\ line[n + 2] = 10
  <2>1. n + 1 \in 1 .. n + 2 /\ n + 2 \in 1 .. n + 2 /\ ~(n + 1 <= n) /\ ~(n + 2 <= n)
        /\ (n + 1) - n = 1 /\ (n + 2) - n = 2
    OBVIOUS
  <2>2. line[n + 1] = d[1] /\ line[n + 2] = d[2]
    BY <1>4, <2>1
  <2> QED
    BY <1>2, <2>2
<1>7. /\ \A k \in 1 .. l : w[k] = key[k]
      /\ w[l + 1] = Colon /\ w[l + 2] = Blank
      /\ \A k \in 1 .. m : w[l + 2 + k] = value[k]
  BY <1>1 DEF IsText
<1>8. /\ \A p \in 1 .. (l - 1) : ~(key[p] = 13 /\ key[p + 1] = 10)
      /\ \A p \in 1 .. (m - 1) : ~(value[p] = 13 /\ value[p + 1] = 10)
      /\ key[l] # 13 /\ value[m] # 13
  <2>1. 13 \in WHITESPACE
    BY DEF WHITESPACE
  <2> QED
    BY <1>1, <2>1, KeptIs
<1>9. Colon # 13 /\ Blank # 13
  BY DEF Colon, Blank
<1>10. ASSUME NEW q \in 1 .. n PROVE ~(line[q] = 13 /\ line[q + 1] = 10)
  <2>1. CASE q < l
    <3>1. q \in 1 .. l /\ q + 1 \in 1 .. l /\ q \in 1 .. n /\ q + 1 \in 1 .. n /\ q \in 1 .. (l - 1)
      BY <1>1, <2>1
    <3>2. line[q] = key[q] /\ line[q + 1] = key[q + 1]
      BY <1>5, <1>7, <3>1
    <3> QED
      BY <1>8, <3>1, <3>2
  <2>2. CASE q = l
    <3>1. l \in 1 .. l /\ l \in 1 .. n
      BY <1>1
    <3>2. line[q] = key[l]
      BY <1>5, <1>7, <2>2, <3>1
    <3> QED
      BY <1>8, <3>2
  <2>3. CASE q = l + 1
    <3>1. line[q] = Colon
      BY <1>5, <1>7, <2>3
    <3> QED
      BY <1>9, <3>1
  <2>4. CASE q = l + 2
    <3>1. line[q] = Blank
      BY <1>5, <1>7, <2>4
    <3> QED
      BY <1>9, <3>1
  <2>5. CASE l + 2 < q /\ q < n
    <3>1. PICK p \in 1 .. (m - 1) : q = l + 2 + p /\ q + 1 = l + 2 + (p + 1)
      <4>1. q - (l + 2) \in 1 .. (m - 1) /\ q = l + 2 + (q - (l + 2)) /\ q + 1 = l + 2 + ((q - (l + 2)) + 1)
        BY <1>1, <2>5
      <4> QED
        BY <4>1
    <3>2. p \in 1 .. m /\ p + 1 \in 1 .. m /\ q \in 1 .. n /\ q + 1 \in 1 .. n
      BY <2>5
    <3>3. w[q] = value[p] /\ w[q + 1] = value[p + 1]
      BY <1>7, <3>1, <3>2
    <3>4. line[q] = value[p] /\ line[q + 1] = value[p + 1]
      BY <1>5, <3>2, <3>3
    <3> QED
      BY <1>8, <3>1, <3>4
  <2>6. CASE q = n
    <3>1. m \in 1 .. m /\ q = l + 2 + m
      BY <1>1, <2>6
    <3>2. line[q] = value[m]
      BY <1>5, <1>7, <3>1
    <3> QED
      BY <1>8, <3>2
  <2> QED
    BY <1>1, <2>1, <2>2, <2>3, <2>4, <2>5, <2>6
<1>11. IsAt(line, w, 1)
  <2>1. \A k \in 1 .. n : 1 + k - 1 = k
    OBVIOUS
  <2> QED
    BY <1>1, <1>5, <2>1 DEF IsAt
<1>12. IsAt(line, d, n + 1)
  <2>1. \A k \in 1 .. 2 : k = 1 \/ k = 2
    OBVIOUS
  <2>2. (n + 1) + 1 - 1 = n + 1 /\ (n + 1) + 2 - 1 = n + 2
    OBVIOUS
  <2> QED
    BY <1>2, <1>6, <2>1, <2>2 DEF IsAt
<1>13. ASSUME NEW q \in 1 .. n PROVE ~IsAt(line, d, q)
  <2>1. q + 1 - 1 = q /\ q + 2 - 1 = q + 1 /\ 1 \in 1 .. 2 /\ 2 \in 1 .. 2
    OBVIOUS
  <2>2. ASSUME IsAt(line, d, q) PROVE line[q] = 13 /\ line[q + 1] = 10
    <3>1. \A k \in 1 .. 2 : line[q + k - 1] = d[k]
      BY <1>2, <2>2 DEF IsAt
    <3>2. line[q + 1 - 1] = d[1] /\ line[q + 2 - 1] = d[2]
      BY <2>1, <3>1
    <3> QED
      BY <1>2, <2>1, <3>2
  <2> QED
    BY <1>10, <2>2
<1>14. FirstAt(line, d, Len(w) + 1)
  <2>1. n + 1 \in Nat \ {0} /\ (n + 1) + Len(d) <= Len(line) + 1 /\ (n + 1) - 1 = n
    BY <1>2, <1>4
  <2> QED
    BY <1>1, <1>12, <1>13, <2>1 DEF FirstAt
<1>15. EndsOnly(line, w, d)
  BY <1>1, <1>2, <1>4, <1>11, <1>14 DEF EndsOnly
<1> QED
  BY <1>2, <1>3, <1>4, <1>15

\* The line is taken apart into the name and the value.
LEMMA LineIsParsed ==
  ASSUME NEW key \in Seq(Octet), NEW value \in Seq(Octet), Kept(key), Kept(value),
         ~Contains(key, FieldColon), NEW w, IsText(w, key, value), NEW tmp, tmp = SplitString(w, FieldColon)
  PROVE  trim(tmp[1]) = key /\ trim(Value(tmp)) = value
<1>1. PICK l \in Nat \ {0}, m \in Nat \ {0}, n \in Nat :
        l = Len(key) /\ m = Len(value) /\ n = Len(w) /\ n = l + 2 + m
  <2>1. Len(key) \in Nat \ {0} /\ Len(value) \in Nat \ {0}
    BY KeptIs
  <2>2. Len(w) = Len(key) + 2 + Len(value)
    BY DEF IsText
  <2> QED
    BY <2>1, <2>2
<1>2. PICK x \in Octet, d \in Seq(Octet) : x = Colon /\ d = FieldColon /\ d = <<x>> /\ Len(d) = 1 /\ d[1] = x
  <2>1. Colon \in Octet /\ FieldColon = <<Colon>>
    BY DEF Colon, Octet, FieldColon
  <2>2. PICK y \in Octet : y = Colon
    BY <2>1
  <2>3. <<y>> \in Seq(Octet) /\ Len(<<y>>) = 1 /\ <<y>>[1] = y
    OBVIOUS
  <2> QED
    BY <2>1, <2>2, <2>3
<1>3. /\ w \in Seq(Octet)
      /\ \A k \in 1 .. l : w[k] = key[k]
      /\ w[l + 1] = x /\ w[l + 2] = Blank
      /\ \A k \in 1 .. m : w[l + 2 + k] = value[k]
  BY <1>1, <1>2 DEF IsText
<1>4. \A k \in 1 .. l : key[k] # x
  BY <1>1, <1>2, ContainsOne
<1>5. /\ key[1] \notin WHITESPACE /\ key[l] \notin WHITESPACE
      /\ value[1] \notin WHITESPACE /\ value[m] \notin WHITESPACE /\ value[m] # x
  BY <1>1, <1>2, KeptIs
<1>6. ASSUME NEW p \in Nat PROVE IsAt(w, d, p) <=> w[p] = x
  <2>1. \A k \in 1 .. 1 : k = 1 /\ p + k - 1 = p
    OBVIOUS
  <2> QED
    BY <1>2, <2>1 DEF IsAt
<1>7. FirstAt(w, d, l + 1)
  <2>1. l + 1 \in Nat \ {0} /\ (l + 1) + Len(d) <= Len(w) + 1 /\ (l + 1) - 1 = l
    BY <1>1, <1>2
  <2>2. ASSUME NEW q \in 1 .. l PROVE ~IsAt(w, d, q)
    <3>1. q \in Nat
      OBVIOUS
    <3> QED
      BY <1>3, <1>4, <1>6, <3>1
  <2>3. IsAt(w, d, l + 1)
    BY <1>3, <1>6, <2>1
  <2> QED
    BY <2>1, <2>2, <2>3 DEF FirstAt
<1>8. PICK places : Lie(places, Octet, tmp, w, d, 1)
  <2>1. Len(d) > 0 /\ tmp = SplitString(w, d)
    BY <1>2
  <2>2. \E places : Lie(places, Octet, SplitString(w, d), w, d, 1)
    BY <1>3, <2>1, PartsLie
  <2> QED
    BY <2>1, <2>2, Zenon
<1>9. /\ Len(tmp) >= 1
      /\ tmp[1] = SubSeq(w, 1, l + 1 - 1)
      /\ places[2] = l + 1 + Len(d)
  <2>1. /\ Len(tmp) >= 1
        /\ Cut(w, d, 1, places[2], tmp[1])
        /\ tmp[1] = SubSeq(w, 1, (l + 1) - 1)
        /\ places[2] = (l + 1) + Len(d)
    <3>1. Len(d) > 0 /\ w \in Seq(Octet)
      BY <1>2, <1>3
    <3>2. PICK p : p = l + 1
      OBVIOUS
    <3>3. FirstAt(w, d, p)
      BY <1>7, <3>2
    <3>4. /\ Len(tmp) >= 1
          /\ Cut(w, d, 1, places[2], tmp[1])
          /\ tmp[1] = SubSeq(w, 1, p - 1)
          /\ places[2] = p + Len(d)
      BY <1>8, <3>1, <3>3, FirstPart
    <3> QED
      BY <3>2, <3>4
  <2> QED
    BY <2>1
<1>10. tmp[1] = key
  <2>1. IsAt(w, key, 1)
    <3>1. \A k \in 1 .. l : 1 + k - 1 = k
      OBVIOUS
    <3> QED
      BY <1>1, <1>3, <3>1 DEF IsAt
  <2>2. 1 \in Nat \ {0} /\ 1 + Len(key) <= Len(w) + 1 /\ 1 + Len(key) - 1 = l + 1 - 1
    BY <1>1
  <2>3. SubSeq(w, 1, 1 + Len(key) - 1) = key
    BY <1>3, <2>1, <2>2, WhatIsAt
  <2> QED
    BY <1>9, <2>2, <2>3
<1>11. PICK t \in Nat : t = Len(tmp) /\ t >= 2
  <2>1. PICK t \in Nat : t = Len(tmp)
    BY <1>8 DEF Lie
  <2>2. places[t + 1] = n + 1
    BY <1>1, <1>8, <2>1 DEF Lie
  <2>3. places[2] = l + 2
    BY <1>2, <1>9
  <2>4. t # 1
    BY <1>1, <2>2, <2>3
  <2>5. t >= 1
    BY <1>9, <2>1
  <2>6. t >= 2
    BY <2>4, <2>5
  <2> QED
    BY <2>1, <2>6
<1>12. EndOf(places, tmp, w, d, t) = n
  <2>1. ~Cut(w, d, places[t], places[t + 1], tmp[t])
    <3>1. places[t + 1] = n + 1
      BY <1>1, <1>8, <1>11 DEF Lie
    <3>2. (n + 1) - Len(d) = n
      BY <1>2
    <3>3. w[n] = value[m]
      <4>1. m \in 1 .. m /\ n = l + 2 + m
        BY <1>1
      <4> QED
        BY <1>3, <4>1
    <3>4. ~IsAt(w, d, n)
      BY <1>5, <1>6, <3>3
    <3> QED
      BY <3>1, <3>2, <3>4 DEF Cut
  <2> QED
    BY <1>1, <2>1 DEF EndOf
<1>13. PICK v : v = Value(tmp) /\ v = SubSeq(w, l + 2, n)
  <2>1. Join(Tail(tmp), d) = SubSeq(w, places[2], EndOf(places, tmp, w, d, Len(tmp)))
    <3>1. Len(tmp) >= 2
      BY <1>11
    <3> QED
      BY <1>3, <1>8, <3>1, RejoinedParts
  <2>2. Value(tmp) = Join(Tail(tmp), d)
    BY <1>2 DEF Value
  <2>3. places[2] = l + 2
    BY <1>2, <1>9
  <2> QED
    BY <1>11, <1>12, <2>1, <2>2, <2>3
<1>14. v \in Seq(Octet) /\ Len(v) = m + 1 /\ \A i \in 1 .. m + 1 : v[i] = w[l + 1 + i]
  <2>1. l + 2 \in Nat \ {0} /\ n \in Int /\ n <= Len(w) /\ l + 2 <= n /\ n - (l + 2) + 1 = m + 1
    BY <1>1
  <2>2. /\ SubSeq(w, l + 2, n) \in Seq(Octet)
        /\ Len(SubSeq(w, l + 2, n)) = IF l + 2 <= n THEN n - (l + 2) + 1 ELSE 0
        /\ \A i \in 1 .. (n - (l + 2) + 1) : SubSeq(w, l + 2, n)[i] = w[l + 2 + i - 1]
    BY <1>3, <2>1, PieceOf
  <2>3. \A i \in 1 .. m + 1 : l + 2 + i - 1 = l + 1 + i
    OBVIOUS
  <2> QED
    BY <1>13, <2>1, <2>2, <2>3
<1>15. v[1] = Blank /\ \A k \in 1 .. m : v[2 + k - 1] = value[k]
  <2>1. 1 \in 1 .. m + 1 /\ l + 1 + 1 = l + 2
    OBVIOUS
  <2>2. ASSUME NEW k \in 1 .. m PROVE v[2 + k - 1] = value[k]
    <3>1. 2 + k - 1 \in 1 .. m + 1 /\ l + 1 + (2 + k - 1) = l + 2 + k
      OBVIOUS
    <3>2. v[2 + k - 1] = w[l + 2 + k]
      BY <1>14, <3>1
    <3> QED
      BY <1>3, <3>2
  <2>3. v[1] = w[l + 2]
    BY <1>14, <2>1
  <2> QED
    BY <1>3, <2>2, <2>3
<1>16. trim(v) = value
  <2>1. Blank \in WHITESPACE
    BY DEF WHITESPACE
  <2>2. 2 \in 1 .. Len(v) /\ v[2] \notin WHITESPACE /\ v[Len(v)] \notin WHITESPACE
    <3>1. 1 \in 1 .. m /\ m \in 1 .. m /\ 2 + 1 - 1 = 2 /\ 2 + m - 1 = m + 1
      OBVIOUS
    <3>2. v[2 + 1 - 1] = value[1] /\ v[2 + m - 1] = value[m]
      BY <1>15, <3>1
    <3>3. v[2] = value[1] /\ v[m + 1] = value[m]
      BY <3>1, <3>2
    <3> QED
      BY <1>5, <1>14, <3>3
  <2>3. \A p \in 1 .. (2 - 1) : v[p] \in WHITESPACE
    <3>1. \A p \in 1 .. (2 - 1) : p = 1
      OBVIOUS
    <3> QED
      BY <1>15, <2>1, <3>1
  <2>4. trim(v) = SubSeq(v, 2, Len(v))
    BY <1>14, <2>2, <2>3, TrimIs
  <2>5. 2 \in Nat \ {0} /\ 2 + Len(value) <= Len(v) + 1 /\ 2 + Len(value) - 1 = Len(v)
    BY <1>1, <1>14
  <2>6. IsAt(v, value, 2)
    BY <1>1, <1>15 DEF IsAt
  <2>7. SubSeq(v, 2, 2 + Len(value) - 1) = value
    BY <1>14, <2>5, <2>6, WhatIsAt
  <2> QED
    BY <2>4, <2>5, <2>7
<1>17. trim(key) = key
  <2>1. 1 \in 1 .. Len(key) /\ \A p \in 1 .. (1 - 1) : key[p] \in WHITESPACE
    BY <1>1
  <2>2. key[1] \notin WHITESPACE /\ key[Len(key)] \notin WHITESPACE
    BY <1>1, <1>5
  <2>3. trim(key) = SubSeq(key, 1, Len(key))
    BY <2>1, <2>2, TrimIs
  <2>4. SubSeq(key, 1, Len(key)) = key
    BY SubSeqFull
  <2> QED
    BY <2>3, <2>4
<1> QED
  BY <1>10, <1>13, <1>16, <1>17

-----------------------------------------------------------------------------
(* The header fields of a message *)

\* Names and values that a header line keeps.
HeaderKeeps(fs) ==
    \A k \in 1 .. Len(fs) :
        Kept(fs[k].key) /\ ~Contains(fs[k].key, FieldColon) /\ Kept(fs[k].value)

\* The lines of a header without and with their ends.
TextOf(fs, k) == BodyOf(fs[k].key, fs[k].value)
TextsOf(fs) == [k \in 1 .. Len(fs) |-> TextOf(fs, k)]
LineOf(fs, k) == fs[k].key \o FieldColon \o <<Blank>> \o fs[k].value \o EndOfLine
LinesOf(fs) == [k \in 1 .. Len(fs) |-> LineOf(fs, k)]

\* Each line of a header ends where it should.
LEMMA LinesAreLines ==
  ASSUME NEW fs, IsMap(fs), HeaderKeeps(fs)
  PROVE  /\ LinesOf(fs) \in Seq(Seq(Octet)) /\ TextsOf(fs) \in Seq(Seq(Octet))
         /\ AreLines(LinesOf(fs), TextsOf(fs), EndOfLine)
<1>1. PICK n \in Nat : n = Len(fs)
  BY FieldIs
<1>2. ASSUME NEW k \in 1 .. n
      PROVE  /\ TextOf(fs, k) \in Seq(Octet) /\ LineOf(fs, k) \in Seq(Octet)
             /\ EndsOnly(LineOf(fs, k), TextOf(fs, k), EndOfLine)
  <2>1. PICK key \in Seq(Octet), value \in Seq(Octet) : key = fs[k].key /\ value = fs[k].value
    BY <1>1, FieldIs
  <2>2. Kept(key) /\ Kept(value)
    BY <1>1, <2>1 DEF HeaderKeeps
  <2>3. PICK w : w = TextOf(fs, k) /\ IsText(w, key, value)
    BY <2>1, BodyIsText DEF TextOf
  <2>4. LineOf(fs, k) = w \o EndOfLine
    BY <2>1, <2>3, Zenon DEF TextOf, LineOf, BodyOf
  <2>5. w \o EndOfLine \in Seq(Octet) /\ EndsOnly(w \o EndOfLine, w, EndOfLine)
    BY <2>2, <2>3, LineEndsOnce
  <2>6. w \in Seq(Octet)
    BY <2>3 DEF IsText
  <2> QED
    BY <2>3, <2>4, <2>5, <2>6
<1>3. PICK x : x = LinesOf(fs) /\ x = [k \in 1 .. n |-> x[k]] /\ \A k \in 1 .. n : x[k] = LineOf(fs, k)
  <2> DEFINE z == LinesOf(fs)
  <2>1. z = [k \in 1 .. n |-> LineOf(fs, k)]
    BY <1>1 DEF LinesOf
  <2>2. z = [k \in 1 .. n |-> z[k]] /\ \A k \in 1 .. n : z[k] = LineOf(fs, k)
    BY <2>1
  <2> QED
    BY <2>2
<1>4. PICK y : y = TextsOf(fs) /\ y = [k \in 1 .. n |-> y[k]] /\ \A k \in 1 .. n : y[k] = TextOf(fs, k)
  <2> DEFINE z == TextsOf(fs)
  <2>1. z = [k \in 1 .. n |-> TextOf(fs, k)]
    BY <1>1 DEF TextsOf
  <2>2. z = [k \in 1 .. n |-> z[k]] /\ \A k \in 1 .. n : z[k] = TextOf(fs, k)
    BY <2>1
  <2> QED
    BY <2>2
<1>5. x \in Seq(Seq(Octet)) /\ Len(x) = n
  <2>1. \A k \in 1 .. n : x[k] \in Seq(Octet)
    BY <1>2, <1>3
  <2>2. x \in [1 .. n -> Seq(Octet)]
    BY <1>3, <2>1
  <2> QED
    BY <2>2
<1>6. y \in Seq(Seq(Octet)) /\ Len(y) = n
  <2>1. \A k \in 1 .. n : y[k] \in Seq(Octet)
    BY <1>2, <1>4
  <2>2. y \in [1 .. n -> Seq(Octet)]
    BY <1>4, <2>1
  <2> QED
    BY <2>2
<1>7. AreLines(x, y, EndOfLine)
  <2>1. ASSUME NEW k \in 1 .. n PROVE EndsOnly(x[k], y[k], EndOfLine)
    BY <1>2, <1>3, <1>4
  <2> QED
    BY <1>5, <1>6, <2>1 DEF AreLines
<1> QED
  BY <1>3, <1>4, <1>5, <1>6, <1>7

\* The loop over the lines.
Reads(f, lines) ==
    f = [i \in 0 .. Len(lines) |->
           IF i = 0 THEN <<>>
           ELSE Set(f[i - 1], trim(SplitString(lines[i], FieldColon)[1]),
                    trim(Value(SplitString(lines[i], FieldColon))))]

\* The loop reads the map that was written, line by line.
LEMMA HeadersAreParsed ==
  ASSUME NEW fs, IsMap(fs), HeaderKeeps(fs)
  PROVE  Parsed(HeaderLines(fs)) = fs
<1>1. PICK n \in Nat : n = Len(fs)
  BY FieldIs
<1>2. PICK bodies \in Seq(Seq(Octet)), lines \in Seq(Seq(Octet)) :
        bodies = TextsOf(fs) /\ lines = LinesOf(fs) /\ AreLines(lines, bodies, EndOfLine)
  BY LinesAreLines
<1>3. Len(bodies) = n /\ \A k \in 1 .. n : bodies[k] = TextOf(fs, k)
  <2>1. Len(bodies) \in Nat /\ DOMAIN bodies = 1 .. Len(bodies)
    OBVIOUS
  <2>2. DOMAIN bodies = 1 .. n /\ \A k \in 1 .. n : bodies[k] = TextOf(fs, k)
    BY <1>1, <1>2 DEF TextsOf
  <2>3. Len(bodies) = n
    <3>1. PICK b \in Nat : b = Len(bodies)
      BY <2>1
    <3>2. 1 .. b = 1 .. n
      BY <2>1, <2>2, <3>1
    <3> QED
      BY <3>1, <3>2
  <2> QED
    BY <2>2, <2>3
<1>4. PICK head : head = HeaderLines(fs) /\ head = Concat(lines)
  BY <1>2, Zenon DEF HeaderLines, LinesOf, LineOf
<1>5. SplitString(head, EndOfLine) = bodies
  <2>1. PICK at : head \in Seq(Octet) /\ Laid(at, head, lines)
    BY <1>4, ConcatIsLaid
  <2>2. EndOfLine \in Seq(Octet) /\ Len(EndOfLine) > 0
    <3>1. PICK x \in Octet, y \in Octet : x = 13 /\ y = 10
      BY DEF Octet
    <3>2. <<x, y>> \in Seq(Octet) /\ Len(<<x, y>>) > 0
      OBVIOUS
    <3> QED
      BY <3>1, <3>2, Zenon DEF EndOfLine
  <2> QED
    BY <1>2, <2>1, <2>2, LinesAreSplit
<1> DEFINE Is(f) == Reads(f, bodies)
<1>6. Parsed(head) = (CHOOSE f : Is(f))[n]
  BY <1>3, <1>5, Zenon DEF Parsed, Reads
<1>7. ASSUME NEW i \in 1 .. n
      PROVE  Set(SubSeq(fs, 1, i - 1), trim(SplitString(bodies[i], FieldColon)[1]),
                 trim(Value(SplitString(bodies[i], FieldColon)))) = SubSeq(fs, 1, i)
  <2>1. PICK key \in Seq(Octet), value \in Seq(Octet) : key = fs[i].key /\ value = fs[i].value
    BY <1>1, FieldIs
  <2>2. Kept(key) /\ Kept(value) /\ ~Contains(key, FieldColon)
    BY <1>1, <2>1 DEF HeaderKeeps
  <2>3. PICK w : w = bodies[i] /\ IsText(w, key, value)
    BY <1>3, <2>1, BodyIsText DEF TextOf
  <2>4. PICK tmp : tmp = SplitString(w, FieldColon)
    OBVIOUS
  <2>5. trim(tmp[1]) = key /\ trim(Value(tmp)) = value
    BY <2>2, <2>3, <2>4, LineIsParsed
  <2>6. Set(SubSeq(fs, 1, i - 1), key, value) = SubSeq(fs, 1, i)
    BY <1>1, <2>1, SetAppends
  <2> QED
    BY <2>3, <2>4, <2>5, <2>6, Zenon
<1> DEFINE g == [i \in 0 .. n |-> SubSeq(fs, 1, i)]
<1>8. Is(g)
  <2>1. ASSUME NEW i \in 0 .. n
        PROVE  SubSeq(fs, 1, i) =
                 IF i = 0 THEN <<>>
                 ELSE Set(g[i - 1], trim(SplitString(bodies[i], FieldColon)[1]),
                          trim(Value(SplitString(bodies[i], FieldColon))))
    <3>1. CASE i = 0
      <4>1. SubSeq(fs, 1, 0) = <<>>
        BY SubSeqEmpty
      <4> QED
        BY <3>1, <4>1
    <3>2. CASE i # 0
      <4>1. i \in 1 .. n /\ i - 1 \in 0 .. n
        BY <3>2
      <4>2. g[i - 1] = SubSeq(fs, 1, i - 1)
        BY <4>1
      <4> HIDE DEF g
      <4> QED
        BY <1>7, <3>2, <4>1, <4>2, Zenon
    <3> QED
      BY <3>1, <3>2
  <2>2. g = [i \in 0 .. n |-> SubSeq(fs, 1, i)]
    OBVIOUS
  <2> HIDE DEF g
  <2>3. g = [i \in 0 .. n |->
               IF i = 0 THEN <<>>
               ELSE Set(g[i - 1], trim(SplitString(bodies[i], FieldColon)[1]),
                        trim(Value(SplitString(bodies[i], FieldColon))))]
    BY <2>1, <2>2, Zenon
  <2> QED
    BY <1>3, <2>3, Zenon DEF Reads
<1>9. PICK f : Is(f) /\ Parsed(head) = f[n]
  <2> HIDE DEF Is
  <2>1. Is(CHOOSE h : Is(h))
    BY <1>8
  <2> QED
    BY <1>6, <2>1
<1>10. ASSUME NEW i \in 0 .. n
       PROVE  f[i] = IF i = 0 THEN <<>>
                     ELSE Set(f[i - 1], trim(SplitString(bodies[i], FieldColon)[1]),
                              trim(Value(SplitString(bodies[i], FieldColon))))
  BY <1>3, <1>9, Zenon DEF Reads
<1>11. f[n] = SubSeq(fs, 1, n)
  <2> DEFINE T == {i \in Int : f[i] = SubSeq(fs, 1, i)}
  <2>1. 0 \in T
    <3>1. 0 \in 0 .. n
      OBVIOUS
    <3>2. f[0] = <<>>
      BY <1>10, <3>1
    <3> QED
      <4>1. SubSeq(fs, 1, 0) = <<>> /\ 0 \in Int
        BY SubSeqEmpty
      <4> QED
        BY <3>2, <4>1
  <2>2. ASSUME NEW i \in 0 .. (n - 1), i \in T PROVE i + 1 \in T
    <3>1. i + 1 \in 0 .. n /\ i + 1 # 0 /\ (i + 1) - 1 = i /\ i + 1 \in 1 .. n /\ i + 1 \in Int
      OBVIOUS
    <3>2. f[i] = SubSeq(fs, 1, i)
      BY <2>2
    <3>3. PICK a, b, key, value :
            /\ a = SubSeq(fs, 1, i) /\ b = SubSeq(fs, 1, i + 1)
            /\ key = trim(SplitString(bodies[i + 1], FieldColon)[1])
            /\ value = trim(Value(SplitString(bodies[i + 1], FieldColon)))
      OBVIOUS
    <3>4. Set(a, key, value) = b
      <4>1. Set(SubSeq(fs, 1, (i + 1) - 1), key, value) = b
        BY <1>7, <3>1, <3>3
      <4> QED
        BY <3>1, <3>3, <4>1
    <3>5. f[i + 1] = Set(f[(i + 1) - 1], key, value)
      BY <1>10, <3>1, <3>3
    <3>6. f[i + 1] = b
      BY <3>1, <3>2, <3>3, <3>4, <3>5
    <3> QED
      BY <3>1, <3>3, <3>6
  <2>3. \A i \in 0 .. n : i \in T
    <3>1. 0 \in Int /\ n \in Int
      OBVIOUS
    <3> HIDE DEF T
    <3> QED
      BY <2>1, <2>2, <3>1, FromTheStart
  <2> QED
    BY <2>3
<1>12. SubSeq(fs, 1, n) = fs
  BY <1>1, SubSeqFull DEF IsMap
<1> QED
  BY <1>4, <1>9, <1>11, <1>12

\* A name in lower case is the same name.
LEMMA LowerIsSame ==
  ASSUME NEW s \in Seq(Octet)
  PROVE  string_to_lower(string_to_lower(s)) = string_to_lower(s)
<1>1. PICK n \in Nat : n = Len(s)
  OBVIOUS
<1> DEFINE Low(o) == IF o \in 65 .. 90 THEN o + 32 ELSE o
<1>2. PICK t : t = string_to_lower(s) /\ t = [k \in 1 .. n |-> Low(s[k])]
  BY <1>1 DEF string_to_lower
<1>3. \A k \in 1 .. n : s[k] \in Octet
  BY <1>1, ElementOfSeq
<1>4. \A o \in Octet : Low(o) \in Octet /\ Low(Low(o)) = Low(o)
  BY DEF Octet
<1> HIDE DEF Low
<1>5. t \in Seq(Octet) /\ Len(t) = n /\ \A k \in 1 .. n : t[k] = Low(s[k])
  <2>1. t \in [1 .. n -> Octet]
    BY <1>2, <1>3, <1>4
  <2>2. t \in Seq(Octet) /\ Len(t) = n
    BY <2>1
  <2>3. \A k \in 1 .. n : t[k] = Low(s[k])
    BY <1>2
  <2> QED
    BY <2>2, <2>3
<1>6. string_to_lower(t) = [k \in 1 .. n |-> Low(t[k])]
  BY <1>5 DEF string_to_lower, Low
<1>7. \A k \in 1 .. n : Low(t[k]) = Low(s[k])
  BY <1>3, <1>4, <1>5
<1> QED
  BY <1>2, <1>6, <1>7

\* The field is found under its name in any case.
LEMMA FieldIsFound ==
  ASSUME NEW fs, IsMap(fs), NEW k \in 1 .. Len(fs),
         \A j \in 1 .. Len(fs) : SameName(fs[j].key, fs[k].key) => j = k
  PROVE  get_header_field(fs, string_to_lower(fs[k].key)) = fs[k].value
<1>1. PICK n \in Nat : n = Len(fs) /\ k \in 1 .. n
  BY FieldIs
<1>2. PICK key, low : key \in Seq(Octet) /\ key = fs[k].key /\ low = string_to_lower(key)
  BY <1>1, FieldIs
<1>3. string_to_lower(low) = low
  BY <1>2, LowerIsSame
<1> DEFINE places == {j \in 1 .. n : SameName(fs[j].key, low)}
<1>4. places = {k}
  <2>1. ASSUME NEW j \in 1 .. n PROVE SameName(fs[j].key, low) <=> SameName(fs[j].key, key)
    BY <1>2, <1>3, Zenon DEF SameName
  <2>2. SameName(key, key)
    BY DEF SameName
  <2>3. \A j \in 1 .. n : SameName(fs[j].key, key) => j = k
    BY <1>1, <1>2
  <2>4. \A j \in 1 .. n : j \in places <=> j = k
    BY <1>1, <1>2, <2>1, <2>2, <2>3
  <2> QED
    BY <1>1, <2>4
<1>5. get_header_field(fs, low) = IF places = {} THEN <<>> ELSE fs[Min(places)].value
  BY <1>1, Zenon DEF get_header_field
<1> HIDE DEF places
<1>6. Min(places) = k
  <2>1. places \in SUBSET Nat /\ places # {}
    BY <1>1, <1>4
  <2>2. Min(places) \in places
    BY <2>1, SmallestOf
  <2> QED
    BY <1>4, <2>2
<1> QED
  BY <1>2, <1>4, <1>5, <1>6

-----------------------------------------------------------------------------
(* FieldsArrive *)

\* What FieldsArrive says follows from FieldsOK.
LEMMA FieldsAreRight == FieldsOK => FieldsArrive
<1> SUFFICES ASSUME FieldsOK PROVE FieldsArrive
  OBVIOUS
<1>1. PICK fs : fs = fields
  OBVIOUS
<1>2. IsMap(fs) /\ Short(fs) /\ Len(Written(fs)) < NumberBound
  BY <1>1, FieldsAreShort
<1>3. Received(serialize(fs)) = fs
  BY <1>2, SerializedIsReceived
<1>4. ASSUME KeptAsHeader PROVE Parsed(HeaderLines(fs)) = fs
  <2>1. HeaderKeeps(fs)
    BY <1>1, <1>4, Zenon DEF KeptAsHeader, HeaderKeeps
  <2> QED
    BY <1>2, <2>1, HeadersAreParsed
<1>5. \A k \in 1 .. Len(fs) :
        (\A j \in 1 .. Len(fs) : SameName(fs[j].key, fs[k].key) => j = k)
        => get_header_field(fs, string_to_lower(fs[k].key)) = fs[k].value
  BY <1>2, FieldIsFound
<1> QED
  BY <1>1, <1>3, <1>4, <1>5, Zenon DEF FieldsArrive

\* A name is added only if the map does not have it.
LEMMA FieldsKept == CodecsSpec => []FieldsOK
<1>1. CodecsInit => FieldsOK
  <2> SUFFICES ASSUME CodecsInit PROVE FieldsOK
    OBVIOUS
  <2>1. fields = <<>>
    BY DEF CodecsInit
  <2>2. MaxFields \in Nat
    BY CodecsAssumption
  <2> QED
    BY <2>1, <2>2 DEF FieldsOK
<1>2. FieldsOK /\ [GrowText \/ GrowUrl \/ GrowFields]_vars => FieldsOK'
  <2> SUFFICES ASSUME FieldsOK, [GrowText \/ GrowUrl \/ GrowFields]_vars PROVE FieldsOK'
    OBVIOUS
  <2>1. CASE fields' = fields
    BY <2>1 DEF FieldsOK
  <2>2. CASE GrowFields
    <3> DEFINE R == [key : FieldNames, value : FieldValues]
    <3>1. PICK key \in FieldNames, value \in FieldValues :
            /\ \A k \in 1 .. Len(fields) : fields[k].key # key
            /\ fields' = Append(fields, [key |-> key, value |-> value])
      BY <2>2 DEF GrowFields
    <3>2. PICK r \in R : r = [key |-> key, value |-> value] /\ r.key = key
      <4>1. [key |-> key, value |-> value] \in R /\ [key |-> key, value |-> value].key = key
        OBVIOUS
      <4> QED
        BY <4>1
    <3>3. PICK fs : fs = fields /\ fs \in Seq(R) /\ Len(fs) < MaxFields
      <4>1. fields \in Seq(R) /\ Len(fields) < MaxFields
        BY <2>2 DEF FieldsOK, GrowFields
      <4> QED
        BY <4>1
    <3>4. PICK n \in Nat : n = Len(fs) /\ n < MaxFields
      BY <3>3
    <3>5. MaxFields \in Nat
      BY CodecsAssumption
    <3> HIDE DEF R
    <3>6. PICK more \in Seq(R) : more = fields' /\ Len(more) = n + 1 /\ more[n + 1] = r
                                 /\ \A k \in 1 .. n : more[k] = fs[k]
      <4>1. Append(fs, r) \in Seq(R) /\ Len(Append(fs, r)) = n + 1 /\ Append(fs, r)[n + 1] = r
            /\ \A k \in 1 .. n : Append(fs, r)[k] = fs[k]
        BY <3>3, <3>4, AppendProperties
      <4> QED
        BY <3>1, <3>2, <3>3, <4>1
    <3>7. \A j, k \in 1 .. n : fs[j].key = fs[k].key => j = k
      BY <3>3, <3>4 DEF FieldsOK
    <3>8. \A k \in 1 .. n : fs[k].key # key
      BY <3>1, <3>3, <3>4
    <3>9. ASSUME NEW j \in 1 .. n + 1, NEW k \in 1 .. n + 1, more[j].key = more[k].key PROVE j = k
      <4>1. CASE j \in 1 .. n /\ k \in 1 .. n
        BY <3>6, <3>7, <3>9, <4>1
      <4>2. CASE j \in 1 .. n /\ k = n + 1
        BY <3>2, <3>6, <3>8, <3>9, <4>2
      <4>3. CASE j = n + 1 /\ k \in 1 .. n
        BY <3>2, <3>6, <3>8, <3>9, <4>3
      <4>4. j \in 1 .. n \/ j = n + 1
        OBVIOUS
      <4>5. k \in 1 .. n \/ k = n + 1
        OBVIOUS
      <4> QED
        BY <4>1, <4>2, <4>3, <4>4, <4>5
    <3>10. n + 1 <= MaxFields
      BY <3>5, <3>4
    <3> QED
      BY <3>6, <3>9, <3>10 DEF FieldsOK, R
  <2> QED
    BY <2>1, <2>2 DEF GrowText, GrowUrl, vars
<1> QED
  BY <1>1, <1>2, PTL DEF CodecsSpec

\* What one side writes the other reads, of the pairs of the connector and of
\* the fields of a header.
THEOREM FieldsArriveAlways == CodecsSpec => []FieldsArrive
BY FieldsKept, FieldsAreRight, PTL
===============================================================================
