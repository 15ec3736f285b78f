-------------------------------- MODULE Fields --------------------------------
(***************************************************************************)
(* How a map of names and values is written and read again: as the pairs   *)
(* of a ConnectorMessage, which the C++ and the Python side of the         *)
(* connector put on the wire, and as the header fields of an HttpMessage,  *)
(* which server and client parse.  A string is a sequence of octets, a map *)
(* the sequence of its pairs in the order in which it is iterated.         *)
(***************************************************************************)
EXTENDS LibUtils, Integers

LenSize == 8

\* content[key] = value.
Set(fields, key, value) ==
    IF \E k \in 1 .. Len(fields) : fields[k].key = key
    THEN [k \in 1 .. Len(fields) |->
            IF fields[k].key = key THEN [fields[k] EXCEPT !.value = value] ELSE fields[k]]
    ELSE Append(fields, [key |-> key, value |-> value])

-----------------------------------------------------------------------------
(* Pairs on the wire of the connector *)

\* memcpy and struct.pack of a number of 64 bits, lowest octet first (numbers
\* of more than three octets do not occur).
encode_int(n) ==
    [k \in 1 .. LenSize |-> CASE k = 1 -> n % 256
                              [] k = 2 -> (n \div 256) % 256
                              [] k = 3 -> (n \div 65536) % 256
                              [] OTHER -> 0]

decode_int(s) == IF Len(s) < LenSize THEN 0 ELSE s[1] + 256 * s[2] + 65536 * s[3]

to_pstr(s) == encode_int(Len(s)) \o s

serialize(fields) ==
    LET out == Concat([k \in 1 .. Len(fields) |->
                         to_pstr(fields[k].key) \o to_pstr(fields[k].value)])
    IN  encode_int(Len(out)) \o out

\* The string whose length is at pos, and the place after it.
Pstr(line, pos) ==
    LET size == decode_int(SubSeq(line, pos, pos + LenSize - 1))
    IN  [str |-> SubSeq(line, pos + LenSize, pos + LenSize + size - 1),
         next |-> pos + LenSize + size]

\* The loops of process and of get_message over a message of length octets; in
\* a round there are two lengths at least.
Pairs(line, length) ==
    LET rounds == (length + 2 * LenSize - 1) \div (2 * LenSize)
        round[k \in 0 .. rounds] ==
          IF k = 0 THEN [pos |-> 1, out |-> <<>>]
          ELSE LET before == round[k - 1]
                   key == Pstr(line, before.pos)
                   value == Pstr(line, key.next)
               IN  IF before.pos > length THEN before
                   ELSE [pos |-> value.next, out |-> Set(before.out, key.str, value.str)]
    IN  round[rounds].out

\* process and get_message: the length, and as many octets as it says.
Received(wire) ==
    LET length == decode_int(SubSeq(wire, 1, LenSize))
    IN  Pairs(SubSeq(wire, LenSize + 1, LenSize + length), length)

-----------------------------------------------------------------------------
(* Header fields *)

Blank == 32
EndOfLine == <<13, 10>>
FieldColon == <<58>>
WHITESPACE == {Blank, 9, 13, 10}

\* The lines after the first one, as HttpMessage::serialize writes them.
HeaderLines(fields) ==
    Concat([k \in 1 .. Len(fields) |->
              fields[k].key \o FieldColon \o <<Blank>> \o fields[k].value \o EndOfLine])

\* std::out_of_range
Thrown == <<-1>>

trim(s) ==
    LET visible == {p \in 1 .. Len(s) : s[p] \notin WHITESPACE}
    IN  IF visible = {} THEN Thrown ELSE SubSeq(s, Min(visible), Max(visible))

\* Mutant: what follows a second colon is dropped.
ValueOfFirst(tmp) == tmp[2]

\* The value of a line: the parts after the first, with the colons between them.
Value(tmp) == Join(Tail(tmp), FieldColon)

\* set_header_field for each line of the header.
Parsed(head) ==
    LET lines == SplitString(head, EndOfLine)
        fields[i \in 0 .. Len(lines)] ==
          IF i = 0 THEN <<>>
          ELSE LET tmp == SplitString(lines[i], FieldColon)
               IN  Set(fields[i - 1], trim(tmp[1]), trim(Value(tmp)))
    IN  fields[Len(lines)]

string_to_lower(s) ==
    [k \in 1 .. Len(s) |-> IF s[k] \in 65 .. 90 THEN s[k] + 32 ELSE s[k]]

SameName(key, other) == string_to_lower(key) = string_to_lower(other)

\* The first field whose name differs at most in case, or an empty string.
get_header_field(fields, key) ==
    LET places == {k \in 1 .. Len(fields) : SameName(fields[k].key, key)}
    IN  IF places = {} THEN <<>> ELSE fields[Min(places)].value
=============================================================================
