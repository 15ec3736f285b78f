----------------------------- MODULE MCHttpClient -----------------------------
(* Calls of each method on one host, of GET on another one, on none, and PUT *)
(* with a URL that is not one; the server answers with a body of each        *)
(* framing, compressed or not, with a body that is a blank line, and with    *)
(* each bad head.                                                             *)
EXTENDS HttpClient
Ask(method, host) == [method |-> method, host |-> host]
MCCalls == {Ask("GET", "a"), Ask("HEAD", "a"), Ask("PUT", "a"), Ask("GET", "b"),
            Ask("GET", NoHost), Ask("PUT", NotAUrl)}
Data == <<"data", 0>>
Answer(framing, bytes, encoding) ==
    [head |-> "whole", framing |-> framing, body |-> bytes, encoding |-> encoding]
Bad(head) == [head |-> head, framing |-> "none", body |-> <<>>, encoding |-> ""]
MCResponses ==
    {Answer("none", <<>>, ""), Answer("length", <<Data, Data>>, ""),
     Answer("length", <<Data>>, "gzip"), Answer("chunked", <<Data, Data>>, ""),
     Answer("coded", <<Data>>, ""), Answer("close", BlankLine, ""),
     Bad("blank"), Bad("short")}
=============================================================================
