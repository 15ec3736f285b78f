----------------------------- MODULE MCConnector ------------------------------
(***************************************************************************)
(* Two workers, two calls, and one of the processes ends once.           *)
(***************************************************************************)
EXTENDS Connector

CONSTANTS w1, w2

MCWorkers == {w1, w2}

\* Enough for two clients and two sockets, not for a lost one beside them.
MCFds == 3 .. 6

\* What default_page sets (the page and the status, but no code), and an answer
\* with a header field, on which the server ends.
MCAnswers == {<<"status", "body">>, <<"status", "header">>}
=============================================================================
