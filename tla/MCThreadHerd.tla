----------------------------- MODULE MCThreadHerd -----------------------------
(* Two workers and three clients: one worker can sleep while the other is in *)
(* handleClient and a client waits in the queue, at every point of stop().    *)
EXTENDS ThreadHerd
CONSTANTS w1, w2, c1, c2, c3
MCWorkers == {w1, w2}
MCClients == {c1, c2, c3}
=============================================================================
