-------------------------------- MODULE Codecs --------------------------------
(***************************************************************************)
(* The functions of Base64, Uri and Fields on inputs that grow: a text, a  *)
(* URL or a map, one of the three.                                         *)
(***************************************************************************)
EXTENDS Base64, Uri, Fields

CONSTANTS UrlOctets,    \* the octets that a URL is made of
          MaxUrl,       \* the longest URL
          FieldNames, FieldValues,
          MaxFields     \* the largest map

\* What the three octets of encode_int count up to: a message of the connector
\* is not as long.
NumberBound == 256 * 256 * 256

ASSUME CodecsAssumption ==
    /\ UrlOctets \subseteq Octet /\ MaxUrl \in Nat /\ MaxFields \in Nat
    /\ FieldNames \cup FieldValues \subseteq Seq(Octet)
    /\ \A s \in FieldNames \cup FieldValues : MaxFields * 2 * (LenSize + Len(s)) < NumberBound

VARIABLES url, fields

vars == <<text, url, fields>>

CodecsInit == text = <<>> /\ url = <<>> /\ fields = <<>>

GrowText ==
    /\ url = <<>> /\ fields = <<>>
    /\ Grow
    /\ UNCHANGED <<url, fields>>

GrowUrl ==
    /\ text = <<>> /\ fields = <<>> /\ Len(url) < MaxUrl
    /\ \E o \in UrlOctets : url' = Append(url, o)
    /\ UNCHANGED <<text, fields>>

GrowFields ==
    /\ text = <<>> /\ url = <<>> /\ Len(fields) < MaxFields
    /\ \E key \in FieldNames, value \in FieldValues :
         /\ \A k \in 1 .. Len(fields) : fields[k].key # key
         /\ fields' = Append(fields, [key |-> key, value |-> value])
    /\ UNCHANGED <<text, url>>

CodecsSpec == CodecsInit /\ [][GrowText \/ GrowUrl \/ GrowFields]_vars

-----------------------------------------------------------------------------
(* Properties *)

\* The parts of a URL put together are the URL: there is a protocol, a host
\* without slash, a port without slash or colon if a colon stands before it, and
\* a path from the first slash on; without such a slash everything is host, a
\* colon and a port included.  A URL without the separator, or with nothing
\* after its first one, is an exception; one that ends with a separator loses
\* that one.
UriParts ==
    LET p == parse(url)
        authority == p.protocol \o Separator \o p.host
    IN  IF ~Contains(url, Separator) \/ Find(url, Separator, 1) = Len(url) - 2
        THEN p = Invalid
        ELSE LET lost == IF EndsWith(url, Separator) THEN Separator ELSE <<>>
             IN
             /\ ~Contains(p.protocol, Separator) /\ ~Contains(p.host, <<Slash>>)
             /\ ~Contains(p.port, <<Slash>>) /\ ~Contains(p.port, <<Colon>>)
             /\ p.path[1] = Slash
             /\ \/ p.port = DefaultPort /\ p.path = <<Slash>> /\ url = authority \o lost
                \/ p.port = DefaultPort /\ ~Contains(p.host, <<Colon>>)
                     /\ url = authority \o p.path \o lost
                \/ url = authority \o <<Colon>> \o p.port \o p.path \o lost

\* A name or value that a header line keeps: trim takes blanks from its ends and
\* throws if nothing else is there, split_string drops a colon at the end of the
\* line.
Kept(s) ==
    /\ s # <<>> /\ s[1] \notin WHITESPACE /\ s[Len(s)] \notin WHITESPACE
    /\ s[Len(s)] # Colon /\ ~Contains(s, EndOfLine)

KeptAsHeader ==
    \A k \in 1 .. Len(fields) :
        Kept(fields[k].key) /\ ~Contains(fields[k].key, FieldColon) /\ Kept(fields[k].value)

\* What one side writes the other reads, pair by pair: over the connector
\* whatever the names and values are, in the header of a message if they are
\* such that a header line keeps them.  A field of a header can then be asked
\* for in any case, if no other field has the same name in another case.
FieldsArrive ==
    /\ Received(serialize(fields)) = fields
    /\ KeptAsHeader =>
         LET parsed == Parsed(HeaderLines(fields))
         IN  /\ parsed = fields
             /\ \A k \in 1 .. Len(fields) :
                  (\A j \in 1 .. Len(fields) : SameName(fields[j].key, fields[k].key) => j = k)
                  => get_header_field(parsed, string_to_lower(fields[k].key)) = fields[k].value
=============================================================================
