------------------------------- MODULE HttpBytes -------------------------------
(***************************************************************************)
(* Messages of HTTP on a connection, as far as handleClient of the server  *)
(* and receive_message of the client tell them apart.  A byte of the model *)
(* is a byte of the message where the code counts bytes or looks for them  *)
(* (bodies, chunks and line ends); the first line and the header lines of  *)
(* a message are a single byte, its head, and so is the number before a    *)
(* chunk.                                                                  *)
(***************************************************************************)
EXTENDS LibUtils

\* What the header lines of a message are, for the loops that read them.  In a
\* "blank" head a field has no name or no value but white space: trim calls
\* substr with npos and throws std::out_of_range, which nobody catches.  A
\* "short" head has a line without a value, or a response line without a reason:
\* a vector is read beyond its end, and the program may end there or go on with
\* any value for a field that nothing here depends on.
HeadKinds == {"whole", "blank", "short"}

CRLF == << <<"CR", 0>>, <<"LF", 0>> >>
BlankLine == CRLF \o CRLF
HeadOf(i) == <<"head", i>>
SizeLine(n) == << <<"size", n>> >> \o CRLF

\* The only kinds of bytes there are.
Bytes == {"head", "CR", "LF", "size", "data"} \X Nat

\* s += receive(n): at least one byte and at most n, as the network has it.
Appended(s, n, network) ==
    {s \o SubSeq(network, 1, k) : k \in 1 .. Min({n, Len(network)})}

\* What the network has left when s has become longer.
Untaken(s, longer, network) == From(network, Len(longer) - Len(s) + 1)
=============================================================================
