------------------------------- MODULE MCCodecs -------------------------------
(* URLs of letters, colons and slashes; names that differ in case or have a  *)
(* colon in them; values of letters, colons and blanks, a line end, and one  *)
(* with a length of more than one octet.                                     *)
EXTENDS Codecs
Letter == 107
MCUrlOctets == {Letter, Colon, Slash}
MCFieldNames == {<<Letter>>, <<75>>, <<Letter, 45>>, <<Letter, Colon>>}
MCFieldValues ==
    UNION {[1 .. n -> {Letter, Colon, Blank}] : n \in 0 .. 3}
    \cup {EndOfLine, [k \in 1 .. 258 |-> Letter]}
=============================================================================
