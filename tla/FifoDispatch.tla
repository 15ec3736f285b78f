---------------------------- MODULE FifoDispatch ----------------------------
(***************************************************************************)
(* What the hand-over of accepted connections from the acceptor thread to  *)
(* the worker threads promises (queue_add and queue_get of libHerd.cpp):   *)
(* every accepted connection is dispatched to a worker exactly once, in    *)
(* the order of acceptance, and none is kept waiting for ever.             *)
(***************************************************************************)
EXTENDS Naturals, Sequences, Functions

CONSTANT Clients      \* the connections that may be accepted

VARIABLES accepted,   \* the connections accepted so far, in order
          dispatched  \* the connections given to a worker so far, in order

dispatchVars == <<accepted, dispatched>>

Init == accepted = <<>> /\ dispatched = <<>>

Accept(c) ==
    /\ c \notin Range(accepted)
    /\ accepted' = Append(accepted, c)
    /\ UNCHANGED dispatched

\* The oldest connection that is still waiting goes to a worker.
Dispatch ==
    /\ Len(dispatched) < Len(accepted)
    /\ dispatched' = Append(dispatched, accepted[Len(dispatched) + 1])
    /\ UNCHANGED accepted

Next == Dispatch \/ \E c \in Clients : Accept(c)

SafeSpec == Init /\ [][Next]_dispatchVars

\* None waits for ever.
Promptness == WF_dispatchVars(Dispatch)

Spec == SafeSpec /\ Promptness
=============================================================================
