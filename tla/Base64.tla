-------------------------------- MODULE Base64 --------------------------------
(***************************************************************************)
(* libBase64.cpp: the two functions with their table, over the octets of a *)
(* text that grows, against the Radix-64 of RFC 4880 (rfc4880.txt is kept  *)
(* beside the code).  A symbol of an encoded string is a string of one     *)
(* character.  Shifts and masks of a uint8_t are \div, % and *; the parts  *)
(* that | joins have no bit in common.                                     *)
(***************************************************************************)
EXTENDS Integers, Sequences

CONSTANTS Octets,    \* the octets that a text is made of
          MaxText    \* the longest text

Octet == 0 .. 255

ASSUME Base64Assumption == Octets \subseteq Octet /\ MaxText \in Nat

BASE64_TABLE ==
    <<"A", "B", "C", "D", "E", "F", "G", "H", "I", "J", "L", "K", "M", "N", "O", "P",
      "Q", "R", "S", "T", "U", "V", "W", "X", "Y", "Z", "a", "b", "c", "d", "e", "f",
      "g", "h", "i", "j", "k", "l", "m", "n", "o", "p", "q", "r", "s", "t", "u", "v",
      "w", "x", "y", "z", "0", "1", "2", "3", "4", "5", "6", "7", "8", "9", "+", "/">>

Symbol(part) == BASE64_TABLE[part + 1]

Pad == "="

-----------------------------------------------------------------------------
(* base64_encode *)

\* The four parts of three octets.
Parts(a, b, c) ==
    << a \div 4,
       ((a % 4) * 16) + (b \div 16),
       ((b % 16) * 4) + (c \div 64),
       c % 64 >>

\* Mutant: the two last octets are taken for a whole group.
EncodeAtWithoutPad(str, pos) ==
    LET octet(k) == IF k <= Len(str) THEN str[k] ELSE 0
        parts    == Parts(octet(pos), octet(pos + 1), octet(pos + 2))
        sym(k)   == Symbol(parts[k])
    IN  IF pos = Len(str) THEN <<sym(1), sym(2), Pad, Pad>>
                          ELSE <<sym(1), sym(2), sym(3), sym(4)>>

\* Mutant: the parts of an incomplete group lose their lowest bits.
EncodeAtShort(str, pos) ==
    LET octet(k) == IF k <= Len(str) THEN str[k] ELSE 0
        parts    == Parts(octet(pos), octet(pos + 1), octet(pos + 2))
        sym(k)   == Symbol(parts[k])
    IN  CASE pos = Len(str)     -> <<sym(1), Symbol(0), Pad, Pad>>
          [] pos + 1 = Len(str) -> <<sym(1), sym(2), Symbol(0), Pad>>
          [] OTHER              -> <<sym(1), sym(2), sym(3), sym(4)>>

\* What is written for the group at pos, with one, two or three octets left.
EncodeAt(str, pos) ==
    LET octet(k) == IF k <= Len(str) THEN str[k] ELSE 0
        parts    == Parts(octet(pos), octet(pos + 1), octet(pos + 2))
        sym(k)   == Symbol(parts[k])
    IN  CASE pos = Len(str)     -> <<sym(1), sym(2), Pad, Pad>>
          [] pos + 1 = Len(str) -> <<sym(1), sym(2), sym(3), Pad>>
          [] OTHER              -> <<sym(1), sym(2), sym(3), sym(4)>>

base64_encode(str) ==
    LET from[pos \in Nat] ==
          IF pos > Len(str) THEN <<>> ELSE EncodeAt(str, pos) \o from[pos + 3]
    IN  from[1]

-----------------------------------------------------------------------------
(* base64_decode *)

\* The first place in the table, or 0: the pad is one of the symbols that are
\* not in it.
base64_reverse_lookup(sym) ==
    LET places == {i \in 0 .. 63 : Symbol(i) = sym}
    IN  IF places = {} THEN 0 ELSE CHOOSE i \in places : \A j \in places : i <= j

\* The three octets of four symbols; each part is a uint8_t.
Unparts(s) ==
    << ((s[1] * 4) % 256) + (s[2] \div 16),
       ((s[2] % 16) * 16) + (s[3] \div 4),
       ((s[3] % 4) * 64) + s[4] >>

\* The comparison with the pad looks at the second symbol for all four.
DecodeAt(str, pos) ==
    Unparts([i \in 1 .. 4 |->
               IF str[pos + 1] = Pad THEN 0 ELSE base64_reverse_lookup(str[pos + i - 1])])

\* Of a string with a length that is a multiple of four, as base64_encode
\* returns it; the reads past the end of another one are not modelled.
base64_decode(str) ==
    LET from[pos \in Nat] ==
          IF pos > Len(str) THEN <<>> ELSE DecodeAt(str, pos) \o from[pos + 4]
    IN  from[1]

-----------------------------------------------------------------------------
(* The texts *)

VARIABLE text

Init == text = <<>>

Grow == Len(text) < MaxText /\ \E o \in Octets : text' = Append(text, o)

Spec == Init /\ [][Grow]_text

-----------------------------------------------------------------------------
(***************************************************************************)
(* Radix-64 as RFC 4880 puts it (section 6.3): the octets of a group are a *)
(* number of 24 bits, its digits in base 64 are the indices of the symbols *)
(* and what is missing of the last group is zero bits, then pads.          *)
(***************************************************************************)
Radix64Alphabet ==
    <<"A", "B", "C", "D", "E", "F", "G", "H", "I", "J", "K", "L", "M", "N", "O", "P",
      "Q", "R", "S", "T", "U", "V", "W", "X", "Y", "Z", "a", "b", "c", "d", "e", "f",
      "g", "h", "i", "j", "k", "l", "m", "n", "o", "p", "q", "r", "s", "t", "u", "v",
      "w", "x", "y", "z", "0", "1", "2", "3", "4", "5", "6", "7", "8", "9", "+", "/">>

Groups(str) == (Len(str) + 2) \div 3

Digits(a, b, c) ==
    LET bits == (a * 256 + b) * 256 + c
    IN  << bits \div 262144, (bits \div 4096) % 64, (bits \div 64) % 64, bits % 64 >>

Radix64(str, alphabet) ==
    LET octet(k) == IF k <= Len(str) THEN str[k] ELSE 0
        digit(k) == LET g == 3 * ((k - 1) \div 4)
                    IN  Digits(octet(g + 1), octet(g + 2), octet(g + 3))[((k - 1) % 4) + 1]
        \* a digit of a group with n octets that has none of their bits
        missing(k) == 4 * Groups(str) - k < 3 * Groups(str) - Len(str)
    IN  [k \in 1 .. 4 * Groups(str) |->
           IF missing(k) THEN Pad ELSE alphabet[digit(k) + 1]]

\* The result has the digits, the order and the pads of Radix-64, whatever
\* table it takes the symbols from.
EncodesRadix64 == base64_encode(text) = Radix64(text, BASE64_TABLE)

\* ... and the table is the one of Radix-64, so that another program (an HTTP
\* server that gets the "Authorization" field) can decode it.
UsesTheAlphabet == base64_encode(text) = Radix64(text, Radix64Alphabet)

\* Decoding gives the text back, with zero octets after it where the last
\* group was incomplete: base64_decode does not know of the pads.
RoundTrip ==
    base64_decode(base64_encode(text))
        = [k \in 1 .. 3 * Groups(text) |-> IF k <= Len(text) THEN text[k] ELSE 0]
=============================================================================
