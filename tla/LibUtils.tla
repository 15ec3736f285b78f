------------------------------- MODULE LibUtils -------------------------------
(***************************************************************************)
(* The string functions of libUtils.cpp on which the parsing of requests   *)
(* rests.  A string is a sequence; npos is NPos.                           *)
(***************************************************************************)
EXTENDS Naturals, Sequences, FiniteSetsExt

Ext == INSTANCE SequencesExt

\* One string after the other, and the same with a separator in between.
Concat(strings) == Ext!FlattenSeq(strings)
Join(strings, separator) ==
    IF strings = <<>> THEN <<>>
    ELSE Head(strings) \o Concat([k \in 1 .. Len(strings) - 1 |-> separator \o strings[k + 1]])

NPos == 0

\* std::string::find: the first place of d in s from "start" on.
IsAt(s, d, p) == \A k \in 1 .. Len(d) : s[p + k - 1] = d[k]

Find(s, d, start) ==
    LET places == {p \in start .. (Len(s) + 1 - Len(d)) : IsAt(s, d, p)}
    IN  IF places = {} THEN NPos ELSE Min(places)

Contains(s, d) == \E p \in 1 .. (Len(s) + 1 - Len(d)) : IsAt(s, d, p)

EndsWith(s, d) == Len(s) >= Len(d) /\ IsAt(s, d, Len(s) - Len(d) + 1)

\* split_string: what follows the last delimiter is a part only if it is not
\* empty.
SplitString(s, d) ==
    LET split[start \in 1 .. (Len(s) + 1)] ==
          LET pos == Find(s, d, start)
          IN  IF pos # NPos THEN <<SubSeq(s, start, pos - 1)>> \o split[pos + Len(d)]
              ELSE IF start <= Len(s) THEN <<SubSeq(s, start, Len(s))>>
              ELSE <<>>
    IN  split[1]

\* substr(pos): everything from place p on.
From(s, p) == SubSeq(s, p, Len(s))
=============================================================================
