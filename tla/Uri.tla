--------------------------------- MODULE Uri ----------------------------------
(***************************************************************************)
(* URI::parse of libHttpMessage.cpp.  A string is a sequence of octets.    *)
(***************************************************************************)
EXTENDS LibUtils

Colon == 58
Slash == 47

Separator == <<Colon, Slash, Slash>>

\* What parse throws an exception for.
Invalid == [protocol |-> <<>>, host |-> <<>>, port |-> <<>>, path |-> <<>>]

\* "80"
DefaultPort == <<56, 48>>

\* What follows the protocol: the other parts, with the separators between them.
Rest(parts) == Join(Tail(parts), Separator)

\* Mutant: find_first_of.
FindLastFirst(s, c) == Find(s, <<c>>, 1)

\* find_last_of a single character.
FindLast(s, c) ==
    LET places == {p \in 1 .. Len(s) : s[p] = c}
    IN  IF places = {} THEN NPos ELSE Max(places)

\* A port is only looked for if there is a path after it.
parse(url) ==
    LET parts     == SplitString(url, Separator)
        rest      == Rest(parts)
        slash     == Find(rest, <<Slash>>, 1)
        authority == SubSeq(rest, 1, slash - 1)
        colon     == FindLast(authority, Colon)
        uri(host, port, path) ==
            [protocol |-> parts[1], host |-> host, port |-> port, path |-> path]
    IN  CASE Len(parts) < 2 -> Invalid
          [] Len(parts) >= 2 /\ slash = NPos -> uri(rest, DefaultPort, <<Slash>>)
          [] Len(parts) >= 2 /\ slash # NPos /\ colon = NPos ->
               uri(authority, DefaultPort, From(rest, slash))
          [] OTHER ->
               uri(SubSeq(authority, 1, colon - 1), From(authority, colon + 1),
                   From(rest, slash))
=============================================================================
