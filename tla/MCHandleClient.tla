---------------------------- MODULE MCHandleClient ----------------------------
(* Any two requests of these: without a body, with a body of one byte, of a   *)
(* blank line or in a chunk, each with its own wish for the connection; a GET *)
(* with a body, a Transfer-Encoding that is not "chunked", and each bad head. *)
(* Any three of the Usual ones.                                               *)
EXTENDS HandleClient
Data == <<"data", 0>>
Request(method, head, framing, bytes, connection) ==
    [method |-> method, head |-> head, framing |-> framing, body |-> bytes,
     connection |-> connection]
Usual ==
    {Request("GET", "whole", "none", <<>>, c) : c \in {"", "keep-alive", "close"}}
    \cup {Request("PUT", "whole", "length", b, "keep-alive") : b \in {<<Data>>, BlankLine}}
    \cup {Request("PUT", "whole", "chunked", CRLF, "keep-alive")}
MCRequests ==
    Usual
    \cup {Request("GET", h, "none", <<>>, "keep-alive") : h \in {"blank", "short"}}
    \cup {Request("GET", "bare", "none", <<>>, "")}
    \cup {Request("GET", "whole", "length", <<Data>>, "keep-alive")}
    \cup {Request("PUT", "whole", "none", <<>>, "keep-alive")}
    \cup {Request("PUT", "whole", "length", <<Data>>, "")}
    \cup {Request("PUT", "whole", "chunked", <<Data, Data>>, "keep-alive")}
    \cup {Request("PUT", "whole", "coded", <<Data>>, "keep-alive")}
MCStreams ==
    [1 .. 1 -> MCRequests] \cup [1 .. 2 -> MCRequests] \cup [1 .. 3 -> Usual]
=============================================================================
