------------------------------ MODULE ThreadHerd ------------------------------
(***************************************************************************)
(* The life of the server process: the main thread of saiga-server.cpp,    *)
(* which calls ThreadHerd::init, start and stop, the acceptor thread       *)
(* (ThreadHerd::run), and the worker threads, which take the accepted      *)
(* sockets from the queue of ClientQueue.  What a worker does with a       *)
(* socket is the subject of HandleClient; what the cleaner thread does is  *)
(* the subject of ResponseCache.                                           *)
(***************************************************************************)
EXTENDS ClientQueue, Integers, FiniteSets

CONSTANTS Acceptor,   \* the acceptor thread, called "worker" in ThreadHerd
          Unread      \* "this thread is not updating global_connection_count"

ASSUME HerdAssumption ==
    /\ Acceptor \notin Workers
    /\ Unread \notin Int

VARIABLES main,        \* where the main thread is
          created,     \* the worker threads that exist
          exited,      \* the worker threads that left the loop of workerThread
          running,     \* ThreadHerd::running, read by the acceptor
          rh_running,  \* RequestHandler::running, read by the workers
          acceptor,    \* where the acceptor is
          client,      \* the socket it got from accept()
          listening,   \* master_socket is open
          connection_count,  \* global_connection_count, an int without a lock
          register     \* the copy of it each thread is about to write back

herdVars == <<main, created, exited, running, rh_running, acceptor, client,
              listening, connection_count, register>>
vars == <<queueVars, herdVars>>

Threads == Workers \cup {Acceptor}

\* Mutant: start() keeps the ids of the workers for stop().
HandlerThreadsKept == created

\* The threads stop() joins besides the acceptor: start() puts the ids of the
\* workers in a local variable, and handler_threads stays empty.
HandlerThreads == {}

Init ==
    /\ QueueInit
    /\ main = "init" /\ created = {} /\ exited = {}
    /\ running = FALSE /\ rh_running = TRUE
    /\ acceptor = "none" /\ client = NoClient /\ listening = FALSE
    /\ connection_count = 0
    /\ register = [t \in Threads |-> Unread]

-----------------------------------------------------------------------------
(* The main thread *)

\* main catches what init and start throw, and returns: the process ends.
Fail ==
    /\ main \in {"init", "start"}
    /\ main' = "exited"
    /\ UNCHANGED <<queueVars, created, exited, running, rh_running, acceptor,
                   client, listening, connection_count, register>>

InitHerd ==
    /\ main = "init"
    /\ main' = "start"
    /\ listening' = TRUE
    /\ running' = TRUE
    /\ UNCHANGED <<queueVars, created, exited, rh_running, acceptor, client,
                   connection_count, register>>

CreateWorker(w) ==
    /\ main = "start"
    /\ w \notin created
    /\ created' = created \cup {w}
    /\ UNCHANGED <<queueVars, main, exited, running, rh_running, acceptor,
                   client, listening, connection_count, register>>

\* Mutant: the acceptor is created before the workers.
CreateAcceptorFirst ==
    /\ main = "start" /\ acceptor = "none"
    /\ acceptor' = "loop"
    /\ UNCHANGED <<queueVars, main, created, exited, running, rh_running,
                   client, listening, connection_count, register>>

\* The acceptor is created after the workers and starts its loop.
CreateAcceptor ==
    /\ main = "start" /\ created = Workers /\ acceptor = "none"
    /\ acceptor' = "loop"
    /\ UNCHANGED <<queueVars, main, created, exited, running, rh_running,
                   client, listening, connection_count, register>>

\* The cleaner is created last; main then waits for a key.
CreateCleaner ==
    /\ main = "start" /\ acceptor # "none"
    /\ main' = "getc"
    /\ UNCHANGED <<queueVars, created, exited, running, rh_running, acceptor,
                   client, listening, connection_count, register>>

\* The key is pressed, and stop() clears the two flags.
StopAcceptor ==
    /\ main = "getc"
    /\ main' = "stop"
    /\ running' = FALSE
    /\ UNCHANGED <<queueVars, created, exited, rh_running, acceptor, client,
                   listening, connection_count, register>>

StopWorkers ==
    /\ main = "stop"
    /\ main' = "join"
    /\ rh_running' = FALSE
    /\ UNCHANGED <<queueVars, created, exited, running, acceptor, client,
                   listening, connection_count, register>>

\* Mutant: the acceptor is not joined.
JoinNobody ==
    /\ main = "join"
    /\ main' = "join_handlers"
    /\ UNCHANGED <<queueVars, created, exited, running, rh_running, acceptor,
                   client, listening, connection_count, register>>

JoinAcceptor ==
    /\ main = "join"
    /\ acceptor = "exited"
    /\ main' = "join_handlers"
    /\ UNCHANGED <<queueVars, created, exited, running, rh_running, acceptor,
                   client, listening, connection_count, register>>

\* stop() joins handler_threads, closes the listening socket and returns.
CloseMaster ==
    /\ main = "join_handlers"
    /\ HandlerThreads \subseteq exited
    /\ main' = "return"
    /\ listening' = FALSE
    /\ UNCHANGED <<queueVars, created, exited, running, rh_running, acceptor,
                   client, connection_count, register>>

\* main returns, which ends every other thread with the process.
Return ==
    /\ main = "return"
    /\ main' = "exited"
    /\ UNCHANGED <<queueVars, created, exited, running, rh_running, acceptor,
                   client, listening, connection_count, register>>

Stop == StopWorkers \/ JoinAcceptor \/ CloseMaster \/ Return

Alive == main # "exited"

-----------------------------------------------------------------------------
(* The acceptor thread: ThreadHerd::run *)

TestRunning ==
    /\ acceptor = "loop"
    /\ acceptor' = IF running THEN "select" ELSE "exited"
    /\ UNCHANGED <<queueVars, main, created, exited, running, rh_running,
                   client, listening, connection_count, register>>

\* select times out after a second without a connection, or accept fails.
NothingAccepted ==
    /\ acceptor = "select"
    /\ acceptor' = "loop"
    /\ UNCHANGED <<queueVars, main, created, exited, running, rh_running,
                   client, listening, connection_count, register>>

AcceptClient(c) ==
    /\ acceptor = "select" /\ listening
    /\ c \notin Range(client_queue) \cup Range(handed)
    /\ acceptor' = "accepted"
    /\ client' = c
    /\ UNCHANGED <<queueVars, main, created, exited, running, rh_running,
                   listening, connection_count, register>>

\* ++global_connection_count reads and writes memory without a lock.
LoadForIncrement ==
    /\ acceptor = "accepted" /\ register[Acceptor] = Unread
    /\ register' = [register EXCEPT ![Acceptor] = connection_count]
    /\ UNCHANGED <<queueVars, main, created, exited, running, rh_running,
                   acceptor, client, listening, connection_count>>

StoreIncrement ==
    /\ register[Acceptor] # Unread
    /\ connection_count' = register[Acceptor] + 1
    /\ register' = [register EXCEPT ![Acceptor] = Unread]
    /\ acceptor' = "counted"
    /\ UNCHANGED <<queueVars, main, created, exited, running, rh_running,
                   client, listening>>

Enqueue ==
    /\ acceptor = "counted"
    /\ QueueAdd(client)
    /\ acceptor' = "loop"
    /\ client' = NoClient
    /\ UNCHANGED <<main, created, exited, running, rh_running, listening,
                   connection_count, register>>

AcceptorStep ==
    TestRunning \/ NothingAccepted \/ LoadForIncrement \/ StoreIncrement \/ Enqueue

-----------------------------------------------------------------------------
(* The worker threads: RequestHandler::workerThread *)

\* The while of workerThread tests RequestHandler::running before each call of
\* queue_get; a worker asleep in queue_get does not see the flag.
Enter(w) == rh_running /\ EnterGet(w) /\ UNCHANGED herdVars

Leave(w) ==
    /\ ~rh_running /\ pc[w] = "loop"
    /\ exited' = exited \cup {w}
    /\ UNCHANGED <<queueVars, main, created, running, rh_running, acceptor,
                   client, listening, connection_count, register>>

Get(w) == QueueGet(w) /\ UNCHANGED herdVars

Wake(w) == SpuriousWake(w) /\ UNCHANGED herdVars

\* handleClient has disconnected the socket: --global_connection_count, and
\* the return to the loop.
LoadForDecrement(w) ==
    /\ pc[w] = "serving" /\ register[w] = Unread
    /\ register' = [register EXCEPT ![w] = connection_count]
    /\ UNCHANGED <<queueVars, main, created, exited, running, rh_running,
                   acceptor, client, listening, connection_count>>

StoreDecrement(w) ==
    /\ register[w] # Unread
    /\ HandleReturn(w)
    /\ connection_count' = register[w] - 1
    /\ register' = [register EXCEPT ![w] = Unread]
    /\ UNCHANGED <<main, created, exited, running, rh_running, acceptor,
                   client, listening>>

Handle(w) == LoadForDecrement(w) \/ StoreDecrement(w)

HerdWorkerStep(w) ==
    /\ w \in created \ exited
    /\ Enter(w) \/ Leave(w) \/ Get(w) \/ Wake(w) \/ Handle(w)

-----------------------------------------------------------------------------
Next ==
    \/ Fail \/ InitHerd \/ CreateAcceptor \/ CreateCleaner \/ StopAcceptor
    \/ \E w \in Workers : CreateWorker(w)
    \/ Stop
    \/ Alive /\ (AcceptorStep \/ \E c \in Clients : AcceptClient(c))
    \/ Alive /\ \E w \in Workers : HerdWorkerStep(w)

SafeSpec == Init /\ [][Next]_vars

\* Threads that can run do run.  Nobody has to press the key, to connect, to
\* wake up without a signal, or to return from handleClient.
Spec ==
    /\ SafeSpec
    /\ WF_vars(Stop)
    /\ WF_vars(Alive /\ AcceptorStep)
    /\ \A w \in Workers :
        WF_vars(Alive /\ w \in created \ exited /\ (Enter(w) \/ Leave(w) \/ Get(w)))

\* The assumption that calls of handleClient return.
Handlers == \A w \in Workers : WF_vars(Alive /\ w \in created \ exited /\ Handle(w))

-----------------------------------------------------------------------------
(* Properties *)

HerdTypeOK ==
    /\ main \in {"init", "start", "getc", "stop", "join", "join_handlers",
                 "return", "exited"}
    /\ created \subseteq Workers /\ exited \subseteq created
    /\ running \in BOOLEAN /\ rh_running \in BOOLEAN /\ listening \in BOOLEAN
    /\ acceptor \in {"none", "loop", "select", "accepted", "counted", "exited"}
    /\ client \in Clients \cup {NoClient}
    /\ acceptor \in {"accepted", "counted"} <=> client # NoClient
    /\ connection_count \in Int
    /\ register \in [Threads -> Int \cup {Unread}]

\* Types: the acceptor holds a socket exactly between accept and queue_add.
TypeOK == QueueTypeOK /\ HerdTypeOK

\* stop() always returns and the process ends, however many workers sleep in
\* queue_get or are inside handleClient at that moment.
StopReturns == main = "stop" ~> main = "exited"

\* Until stop() tells the workers to leave, whatever main is about, a socket in
\* the queue has a worker that exists, has not left and is not asleep.
QueuedHasWorker ==
    rh_running /\ client_queue # <<>> => \E w \in created \ exited : pc[w] # "asleep"

\* Once stop() has closed the listening socket, no connection enters the queue:
\* the acceptor, which may hold an accepted socket, was joined before.
NothingQueuedAfterStop ==
    [][~listening /\ main # "init" /\ client_queue' # client_queue
        => Len(client_queue') < Len(client_queue)]_vars

\* While nobody stops the server and the handlers return, every connection the
\* acceptor takes is handed to a worker.
ServedUnlessStopped ==
    Handlers => \A c \in Clients : client = c ~> c \in Range(handed) \/ main = "exited" \/ ~running

\* "Global connection count" (the log line in ThreadHerd::run): when no thread is
\* between its read and its write of the counter, it is the number of
\* connections that were counted and are still open.
GlobalConnectionCount ==
    (\A t \in Threads : register[t] = Unread) =>
        connection_count = Len(client_queue)
                         + Cardinality({w \in Workers : pc[w] = "serving"})
                         + (IF acceptor = "counted" THEN 1 ELSE 0)
=============================================================================
