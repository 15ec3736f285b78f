---------------------------- MODULE MCClientQueue ----------------------------
(* Three workers and four clients: two workers can be asleep while a third  *)
(* is woken, and the queue can hold several sockets when the wake-up races  *)
(* with a worker that returns from handleClient.                            *)
EXTENDS ClientQueue
CONSTANTS w1, w2, w3, c1, c2, c3, c4
MCWorkers == {w1, w2, w3}
MCClients == {c1, c2, c3, c4}
=============================================================================
