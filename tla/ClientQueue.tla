----------------------------- MODULE ClientQueue -----------------------------
(***************************************************************************)
(* The client queue of libHerd.cpp: the deque client_queue, protected by   *)
(* queue_mutex and the condition variable queue_cond, through which the    *)
(* acceptor thread (queue_add) hands accepted sockets to the worker        *)
(* threads (queue_get, called in the loop of workerThread).                *)
(*                                                                         *)
(* Every access to client_queue is made under queue_mutex and no thread    *)
(* blocks while it holds it, so a critical section is one action.  The     *)
(* blocking call inside queue_get, pthread_cond_wait, splits it: a worker  *)
(* goes to sleep (the mutex is released in the same action), is woken, and *)
(* only later gets the mutex back; another worker can run in between.      *)
(***************************************************************************)
EXTENDS Naturals, Sequences, Functions

CONSTANTS Workers,    \* the worker threads ThreadHerd::start creates
          Clients,    \* the sockets accept() returns, all greater than 0
          NoClient    \* the -1 that "out" holds before a socket is taken

ASSUME QueueAssumption ==
    /\ Workers # {}
    /\ NoClient \notin Clients

VARIABLES client_queue,  \* the deque of accepted sockets
          pc,            \* where each worker is in its loop
          fd,            \* the socket each worker has taken
          handed         \* history: the sockets taken so far, in order

queueVars == <<client_queue, pc, fd, handed>>

\* "loop": the test of the while in workerThread.  "get": calling queue_get.
\* "asleep": blocked in pthread_cond_wait.  "woken": woken up, but without
\* the mutex yet.  "serving": inside handleClient.
Locations == {"loop", "get", "asleep", "woken", "serving"}

Asleep == {w \in Workers : pc[w] = "asleep"}

QueueInit ==
    /\ client_queue = <<>>
    /\ pc = [w \in Workers |-> "loop"]
    /\ fd = [w \in Workers |-> NoClient]
    /\ handed = <<>>

\* pthread_cond_signal unblocks one sleeper if there is one.  (That it may
\* unblock more than one is covered by SpuriousWake.)
Signal ==
    \/ /\ Asleep = {}
       /\ UNCHANGED pc
    \/ \E w \in Asleep : pc' = [pc EXCEPT ![w] = "woken"]

\* Mutant: the size is read after the push.
QueueAddLateSize(c) ==
    /\ c \notin Range(client_queue) \cup Range(handed)
    /\ client_queue' = Append(client_queue, c)
    /\ \/ Len(client_queue') = 0 /\ Signal
       \/ Len(client_queue') # 0 /\ UNCHANGED pc
    /\ UNCHANGED <<fd, handed>>

\* queue_add: the signal is sent only if the queue was empty before the push.
QueueAdd(c) ==
    /\ c \notin Range(client_queue) \cup Range(handed)
    /\ client_queue' = Append(client_queue, c)
    /\ \/ Len(client_queue) = 0 /\ Signal
       \/ Len(client_queue) # 0 /\ UNCHANGED pc
    /\ UNCHANGED <<fd, handed>>

\* Mutant: pop_front is missing.
TakeClientNoPop(w) ==
    /\ client_queue # <<>>
    /\ fd' = [fd EXCEPT ![w] = Head(client_queue)]
    /\ handed' = Append(handed, Head(client_queue))
    /\ pc' = [pc EXCEPT ![w] = "serving"]
    /\ UNCHANGED client_queue

\* Mutant: the queue is used as a stack.
TakeClientLast(w) ==
    LET last == Len(client_queue) IN
    /\ client_queue # <<>>
    /\ fd' = [fd EXCEPT ![w] = client_queue[last]]
    /\ handed' = Append(handed, client_queue[last])
    /\ client_queue' = SubSeq(client_queue, 1, last - 1)
    /\ pc' = [pc EXCEPT ![w] = "serving"]

\* queue_get once the mutex is held and the queue is not empty.
TakeClient(w) ==
    /\ client_queue # <<>>
    /\ fd' = [fd EXCEPT ![w] = Head(client_queue)]
    /\ handed' = Append(handed, Head(client_queue))
    /\ client_queue' = Tail(client_queue)
    /\ pc' = [pc EXCEPT ![w] = "serving"]

\* queue_get when the queue is empty: pthread_cond_wait.
WaitForClient(w) ==
    /\ client_queue = <<>>
    /\ pc' = [pc EXCEPT ![w] = "asleep"]
    /\ UNCHANGED <<client_queue, fd, handed>>

\* Mutant: "if" instead of "while": a worker that was woken does not look at the
\* queue again.
QueueGetIf(w) ==
    \/ pc[w] = "get" /\ (TakeClient(w) \/ WaitForClient(w))
    \/ pc[w] = "woken" /\ TakeClient(w)
    \/ /\ pc[w] = "woken" /\ client_queue = <<>>
       /\ pc' = [pc EXCEPT ![w] = "serving"]
       /\ UNCHANGED <<client_queue, fd, handed>>

\* The worker gets the mutex, for the first time in this call ("get") or
\* after pthread_cond_wait ("woken"), and the while tests the queue.
QueueGet(w) ==
    /\ pc[w] \in {"get", "woken"}
    /\ TakeClient(w) \/ WaitForClient(w)

\* pthread_cond_wait may return without a signal.
SpuriousWake(w) ==
    /\ pc[w] = "asleep"
    /\ pc' = [pc EXCEPT ![w] = "woken"]
    /\ UNCHANGED <<client_queue, fd, handed>>

\* workerThread: RequestHandler::running is true, the worker calls queue_get.
EnterGet(w) ==
    /\ pc[w] = "loop"
    /\ pc' = [pc EXCEPT ![w] = "get"]
    /\ UNCHANGED <<client_queue, fd, handed>>

\* handleClient returns; it has disconnected the socket.
HandleReturn(w) ==
    /\ pc[w] = "serving"
    /\ pc' = [pc EXCEPT ![w] = "loop"]
    /\ fd' = [fd EXCEPT ![w] = NoClient]
    /\ UNCHANGED <<client_queue, handed>>

WorkerStep(w) == EnterGet(w) \/ QueueGet(w) \/ HandleReturn(w)

QueueNext ==
    \/ \E c \in Clients : QueueAdd(c)
    \/ \E w \in Workers : WorkerStep(w) \/ SpuriousWake(w)

QueueSafeSpec == QueueInit /\ [][QueueNext]_queueVars

\* The scheduler runs every thread that is not blocked and does not withhold
\* the mutex for ever.  Nothing obliges a client to connect, a worker to wake
\* up without a signal, or handleClient to return.
QueueSpec ==
    QueueSafeSpec /\ \A w \in Workers : WF_queueVars(EnterGet(w) \/ QueueGet(w))

\* What the workers need from handleClient on top of that: that it returns.
HandlersReturn == \A w \in Workers : WF_queueVars(HandleReturn(w))

-----------------------------------------------------------------------------
(* Properties *)

\* Types: a worker has a socket exactly while it is inside handleClient
\* (queue_get never returns its initial -1).
QueueTypeOK ==
    /\ client_queue \in Seq(Clients)
    /\ handed \in Seq(Clients)
    /\ pc \in [Workers -> Locations]
    /\ fd \in [Workers -> Clients \cup {NoClient}]
    /\ \A w \in Workers : pc[w] = "serving" <=> fd[w] # NoClient

\* No wake-up is lost: queue_add signals only on the change from empty to
\* non-empty, and still a socket never waits while every worker sleeps.
NoStrandedClient ==
    client_queue # <<>> => \E w \in Workers : pc[w] # "asleep"

\* No socket is handled by two workers, or handled again: what was handed out
\* and what is queued are all different, a worker's socket was handed out, and
\* the workers' sockets differ.
OneWorkerPerClient ==
    /\ IsInjective(handed \o client_queue)
    /\ \A w \in Workers : fd[w] # NoClient => fd[w] \in Range(handed)
    /\ \A v, w \in Workers : fd[v] = fd[w] /\ fd[v] # NoClient => v = w

\* The promise of FifoDispatch: what was accepted is what was handed out
\* followed by what is queued.
Fifo == INSTANCE FifoDispatch WITH accepted   <- handed \o client_queue,
                                   dispatched <- handed

\* Sockets are handed out once each, in the order of acceptance.
DispatchesInOrder == Fifo!SafeSpec

\* If every call of handleClient returns, every accepted socket is eventually
\* handed to a worker, although most of the pushes signal nobody.
DispatchesAll == HandlersReturn => Fifo!Promptness
=============================================================================
