--------------------------- MODULE ThreadHerdProofs ---------------------------
(***************************************************************************)
(* What ClientQueue guarantees for any number of workers and clients, and  *)
(* proofs about ThreadHerd.  Theorem UsesClientQueue carries the theorems  *)
(* about the queue over to the whole server process: the acceptor and the  *)
(* workers use the queue only through QueueAdd and the worker steps.       *)
(***************************************************************************)
EXTENDS ThreadHerd, TLAPS

-----------------------------------------------------------------------------
(* The queue *)

\* Typing: in particular queue_get never hands out its initial -1, and a worker
\* holds a socket exactly while it is inside handleClient.
THEOREM QueueTypeCorrect == QueueSafeSpec => []QueueTypeOK
<1>1. QueueInit => QueueTypeOK
  BY QueueAssumption DEF QueueInit, QueueTypeOK, Locations
<1>2. QueueTypeOK /\ [QueueNext]_queueVars => QueueTypeOK'
  <2> SUFFICES ASSUME QueueTypeOK, [QueueNext]_queueVars
               PROVE  QueueTypeOK'
    OBVIOUS
  <2> USE DEF QueueTypeOK, Locations
  <2>1. ASSUME NEW c \in Clients, QueueAdd(c)
        PROVE  QueueTypeOK'
    BY <2>1 DEF QueueAdd, Signal, Asleep
  <2>2. ASSUME NEW w \in Workers, EnterGet(w)
        PROVE  QueueTypeOK'
    BY <2>2 DEF EnterGet
  <2>3. ASSUME NEW w \in Workers, QueueGet(w), TakeClient(w)
        PROVE  QueueTypeOK'
    <3>1. Head(client_queue) \in Clients /\ Tail(client_queue) \in Seq(Clients)
      BY <2>3 DEF TakeClient
    <3>2. QED
      BY <2>3, <3>1, QueueAssumption DEF QueueGet, TakeClient
  <2>4. ASSUME NEW w \in Workers, QueueGet(w), WaitForClient(w)
        PROVE  QueueTypeOK'
    BY <2>4 DEF QueueGet, WaitForClient
  <2>5. ASSUME NEW w \in Workers, SpuriousWake(w)
        PROVE  QueueTypeOK'
    BY <2>5 DEF SpuriousWake
  <2>6. ASSUME NEW w \in Workers, HandleReturn(w)
        PROVE  QueueTypeOK'
    BY <2>6, QueueAssumption DEF HandleReturn
  <2>7. CASE UNCHANGED queueVars
    BY <2>7 DEF queueVars
  <2>8. QED
    BY <2>1, <2>2, <2>3, <2>4, <2>5, <2>6, <2>7 DEF QueueNext, WorkerStep, QueueGet
<1>3. QED
  BY <1>1, <1>2, PTL DEF QueueSafeSpec

\* No wake-up is lost, whatever the number of workers: a queued socket always
\* finds a worker that is not asleep.
THEOREM NoLostWakeUp == QueueSafeSpec => []NoStrandedClient
<1>1. QueueInit => NoStrandedClient
  BY DEF QueueInit, NoStrandedClient
<1>2. QueueTypeOK /\ NoStrandedClient /\ [QueueNext]_queueVars => NoStrandedClient'
  <2> SUFFICES ASSUME QueueTypeOK, NoStrandedClient, [QueueNext]_queueVars
               PROVE  NoStrandedClient'
    OBVIOUS
  <2> USE DEF QueueTypeOK, NoStrandedClient
  <2>1. ASSUME NEW c \in Clients, QueueAdd(c)
        PROVE  NoStrandedClient'
    <3>1. CASE Len(client_queue) = 0 /\ Signal
      <4>1. CASE Asleep = {} /\ UNCHANGED pc
        BY <4>1, QueueAssumption DEF Asleep
      <4>2. CASE \E w \in Asleep : pc' = [pc EXCEPT ![w] = "woken"]
        BY <4>2 DEF Asleep
      <4>3. QED
        BY <3>1, <4>1, <4>2 DEF Signal
    <3>2. CASE Len(client_queue) # 0 /\ UNCHANGED pc
      BY <3>2, client_queue # <<>>
    <3>3. QED
      BY <2>1, <3>1, <3>2 DEF QueueAdd
  <2>2. ASSUME NEW w \in Workers, EnterGet(w)
        PROVE  NoStrandedClient'
    BY <2>2 DEF EnterGet
  <2>3. ASSUME NEW w \in Workers, TakeClient(w)
        PROVE  NoStrandedClient'
    BY <2>3 DEF TakeClient
  <2>4. ASSUME NEW w \in Workers, WaitForClient(w)
        PROVE  NoStrandedClient'
    BY <2>4 DEF WaitForClient
  <2>5. ASSUME NEW w \in Workers, SpuriousWake(w)
        PROVE  NoStrandedClient'
    BY <2>5 DEF SpuriousWake
  <2>6. ASSUME NEW w \in Workers, HandleReturn(w)
        PROVE  NoStrandedClient'
    BY <2>6 DEF HandleReturn
  <2>7. CASE UNCHANGED queueVars
    BY <2>7 DEF queueVars
  <2>8. QED
    BY <2>1, <2>2, <2>3, <2>4, <2>5, <2>6, <2>7 DEF QueueNext, WorkerStep, QueueGet
<1>3. QED
  BY <1>1, <1>2, QueueTypeCorrect, PTL DEF QueueSafeSpec

\* The two ends of the queue: pushing at the back extends what was accepted,
\* and taking from the front leaves it as it was.
LEMMA PushAccepts ==
    ASSUME NEW h \in Seq(Clients), NEW q \in Seq(Clients), NEW c \in Clients
    PROVE  h \o Append(q, c) = Append(h \o q, c)
  OBVIOUS

LEMMA TakeKeepsAccepted ==
    ASSUME NEW h \in Seq(Clients), NEW q \in Seq(Clients), q # <<>>
    PROVE  Append(h, Head(q)) \o Tail(q) = h \o q
  OBVIOUS

\* What a push adds to the set of a sequence's elements, and that a push of a
\* new element keeps the elements different.
LEMMA PushRange ==
    ASSUME NEW s \in Seq(Clients), NEW c \in Clients
    PROVE  c \in Range(Append(s, c)) /\ Range(s) \subseteq Range(Append(s, c))
<1>1. Append(s, c)[Len(s) + 1] = c /\ Len(s) + 1 \in DOMAIN Append(s, c)
  OBVIOUS
<1>2. \A i \in DOMAIN s : i \in DOMAIN Append(s, c) /\ Append(s, c)[i] = s[i]
  OBVIOUS
<1>3. QED
  BY <1>1, <1>2 DEF Range

LEMMA PushInjective ==
    ASSUME NEW s \in Seq(Clients), NEW c \in Clients, IsInjective(s),
           \A n \in 1..Len(s) : s[n] # c
    PROVE  IsInjective(Append(s, c))
<1>1. \A k \in DOMAIN Append(s, c) :
        \/ k \in DOMAIN s /\ k \in 1..Len(s) /\ Append(s, c)[k] = s[k]
        \/ k = Len(s) + 1 /\ Append(s, c)[k] = c
  OBVIOUS
<1>2. ASSUME NEW i \in DOMAIN Append(s, c), NEW j \in DOMAIN Append(s, c),
             Append(s, c)[i] = Append(s, c)[j]
      PROVE  i = j
  BY <1>1, <1>2 DEF IsInjective
<1>3. QED
  BY <1>2 DEF IsInjective

\* No accepted socket is handled twice or by two workers at a time.
THEOREM ExactlyOnce == QueueSafeSpec => []OneWorkerPerClient
<1> DEFINE all == handed \o client_queue
<1>1. QueueInit => OneWorkerPerClient
  BY DEF QueueInit, OneWorkerPerClient, IsInjective
<1>2. QueueTypeOK /\ OneWorkerPerClient /\ [QueueNext]_queueVars => OneWorkerPerClient'
  <2> SUFFICES ASSUME QueueTypeOK, OneWorkerPerClient, [QueueNext]_queueVars
               PROVE  OneWorkerPerClient'
    OBVIOUS
  <2> USE DEF QueueTypeOK
  <2>1. ASSUME NEW c \in Clients, QueueAdd(c)
        PROVE  OneWorkerPerClient'
    <3>1. all' = Append(all, c) /\ all \in Seq(Clients)
      BY <2>1, PushAccepts DEF QueueAdd
    <3>2. \A i \in 1..Len(all) : all[i] # c
      BY <2>1 DEF QueueAdd, Range
    <3>3. IsInjective(all')
      <4>1. IsInjective(all)
        BY DEF OneWorkerPerClient
      <4>2. IsInjective(Append(all, c))
        BY <3>1, <3>2, <4>1, PushInjective
      <4>3. QED
        BY <3>1, <4>2
    <3>4. QED
      BY <2>1, <3>3 DEF QueueAdd, OneWorkerPerClient
  <2>2. ASSUME NEW w \in Workers, TakeClient(w)
        PROVE  OneWorkerPerClient'
    <3> DEFINE taken == Head(client_queue)
    <3>1. all' = all
      BY <2>2, TakeKeepsAccepted DEF TakeClient
    <3>2. taken \in Range(handed') /\ Range(handed) \subseteq Range(handed')
      <4>1. handed' = Append(handed, taken) /\ taken \in Clients
        BY <2>2 DEF TakeClient
      <4>2. QED
        BY <4>1, PushRange
    <3>3. taken \notin Range(handed)
      <4>1. taken = all[Len(handed) + 1] /\ Len(handed) + 1 \in 1..Len(all)
        BY <2>2 DEF TakeClient
      <4>2. \A i \in 1..Len(handed) : all[i] = handed[i] /\ i \in 1..Len(all)
        OBVIOUS
      <4>3. \A i, j \in 1..Len(all) : all[i] = all[j] => i = j
        BY DEF OneWorkerPerClient, IsInjective
      <4>4. ASSUME NEW i \in 1..Len(handed), handed[i] = taken
            PROVE  FALSE
        BY <4>1, <4>2, <4>3, <4>4
      <4>5. QED
        BY <4>4 DEF Range
    <3>4. QED
      BY <2>2, <3>1, <3>2, <3>3 DEF TakeClient, OneWorkerPerClient
  <2>3. ASSUME NEW w \in Workers, HandleReturn(w)
        PROVE  OneWorkerPerClient'
    BY <2>3 DEF HandleReturn, OneWorkerPerClient
  <2>4. ASSUME UNCHANGED <<client_queue, fd, handed>>
        PROVE  OneWorkerPerClient'
    BY <2>4 DEF OneWorkerPerClient
  <2>5. QED
    BY <2>1, <2>2, <2>3, <2>4
    DEF QueueNext, WorkerStep, QueueGet, EnterGet, WaitForClient, SpuriousWake, queueVars
<1>3. QED
  BY <1>1, <1>2, QueueTypeCorrect, PTL DEF QueueSafeSpec

\* The queue implements FifoDispatch: the initial state maps to its initial
\* state, queue_add to Accept, the pop of queue_get to Dispatch, and every
\* other step to no step.
THEOREM ImplementsFifoDispatch == QueueSafeSpec => DispatchesInOrder
<1>1. QueueInit => Fifo!Init
  BY DEF QueueInit, Fifo!Init
<1>2. QueueTypeOK /\ [QueueNext]_queueVars => [Fifo!Next]_(Fifo!dispatchVars)
  <2> SUFFICES ASSUME QueueTypeOK, [QueueNext]_queueVars
               PROVE  [Fifo!Next]_(Fifo!dispatchVars)
    OBVIOUS
  <2> USE DEF QueueTypeOK
  <2>1. ASSUME NEW c \in Clients, QueueAdd(c)
        PROVE  Fifo!Accept(c)
    <3>1. c \notin Range(handed \o client_queue)
      BY <2>1 DEF QueueAdd, Range
    <3>2. (handed \o client_queue)' = Append(handed \o client_queue, c)
      BY <2>1, PushAccepts DEF QueueAdd
    <3>3. QED
      BY <2>1, <3>1, <3>2 DEF QueueAdd, Fifo!Accept, Fifo!Range, Range
  <2>2. ASSUME NEW w \in Workers, TakeClient(w)
        PROVE  Fifo!Dispatch
    <3>1. (handed \o client_queue)' = handed \o client_queue
      BY <2>2, TakeKeepsAccepted DEF TakeClient
    <3>2. Head(client_queue) = (handed \o client_queue)[Len(handed) + 1]
      BY <2>2 DEF TakeClient
    <3>3. Len(handed) < Len(handed \o client_queue)
      BY <2>2 DEF TakeClient
    <3>4. QED
      BY <2>2, <3>1, <3>2, <3>3 DEF TakeClient, Fifo!Dispatch
  <2>3. ASSUME UNCHANGED <<client_queue, handed>>
        PROVE  UNCHANGED Fifo!dispatchVars
    BY <2>3 DEF Fifo!dispatchVars
  <2>4. QED
    BY <2>1, <2>2, <2>3
    DEF QueueNext, WorkerStep, QueueGet, EnterGet, WaitForClient, SpuriousWake,
        HandleReturn, queueVars, Fifo!Next
<1>3. QED
  BY <1>1, <1>2, QueueTypeCorrect, PTL DEF QueueSafeSpec, DispatchesInOrder, Fifo!SafeSpec

-----------------------------------------------------------------------------
(* The herd: the inductive invariant *)

\* The acceptor updates the counter only between accept and queue_add; stop()
\* goes on only after the acceptor has left its loop, and closes the listening
\* socket after that.
HerdInv ==
    /\ HerdTypeOK
    /\ register[Acceptor] # Unread => acceptor = "accepted"
    /\ main \in {"init", "start"} /\ created # Workers => acceptor = "none"
    /\ main \in {"join_handlers", "return"} => acceptor = "exited"
    /\ main = "init" => acceptor = "none" /\ created = {}
    /\ main = "start" => listening
    /\ ~listening => acceptor \in {"none", "exited"}

LEMMA HerdInvInit == Init => HerdInv
<1> SUFFICES ASSUME Init
             PROVE  HerdInv
  OBVIOUS
<1>1. HerdTypeOK
  <2>1. register \in [Threads -> Int \cup {Unread}]
    BY DEF Init
  <2>2. created \subseteq Workers /\ exited \subseteq created
    BY DEF Init
  <2>3. running \in BOOLEAN /\ rh_running \in BOOLEAN /\ listening \in BOOLEAN
    BY DEF Init
  <2>4. acceptor = "none" /\ client = NoClient
    BY DEF Init
  <2>5. main = "init" /\ connection_count = 0
    BY DEF Init
  <2> QED
    BY <2>1, <2>2, <2>3, <2>4, <2>5 DEF HerdTypeOK
<1>2. register[Acceptor] = Unread
  BY DEF Init, Threads
<1> QED
  BY <1>1, <1>2, QueueAssumption DEF Init, HerdInv

\* Steps of the main thread.
LEMMA MainKeepsHerdInv ==
  ASSUME HerdInv,
         \/ Fail \/ InitHerd \/ CreateAcceptor \/ CreateCleaner \/ StopAcceptor
         \/ (\E w \in Workers : CreateWorker(w)) \/ Stop
  PROVE  HerdInv'
<1> USE HerdAssumption DEF HerdInv, HerdTypeOK, Threads
<1>1. CASE Fail \/ InitHerd
  BY <1>1 DEF Fail, InitHerd
<1>2. CASE \E w \in Workers : CreateWorker(w)
  BY <1>2 DEF CreateWorker
<1>3. CASE CreateAcceptor \/ CreateCleaner \/ StopAcceptor
  BY <1>3 DEF CreateAcceptor, CreateCleaner, StopAcceptor
<1>4. CASE Stop
  BY <1>4 DEF Stop, StopWorkers, JoinAcceptor, CloseMaster, Return
<1> QED
  BY <1>1, <1>2, <1>3, <1>4

\* Steps of the acceptor.
LEMMA AcceptorKeepsHerdInv ==
  ASSUME HerdInv, Alive,
         AcceptorStep \/ \E c \in Clients : AcceptClient(c)
  PROVE  HerdInv'
<1> USE HerdAssumption, QueueAssumption DEF HerdInv, HerdTypeOK, Threads, Alive
<1>1. CASE TestRunning \/ NothingAccepted
  BY <1>1 DEF TestRunning, NothingAccepted
<1>2. CASE \E c \in Clients : AcceptClient(c)
  BY <1>2 DEF AcceptClient
<1>3. CASE LoadForIncrement
  BY <1>3 DEF LoadForIncrement
<1>4. CASE StoreIncrement
  <2>1. register[Acceptor] \in Int /\ acceptor = "accepted"
    BY <1>4 DEF StoreIncrement
  <2> QED
    BY <1>4, <2>1 DEF StoreIncrement
<1>5. CASE Enqueue
  BY <1>5 DEF Enqueue
<1> QED
  BY <1>1, <1>2, <1>3, <1>4, <1>5 DEF AcceptorStep

\* Steps of a worker.
LEMMA WorkerKeepsHerdInv ==
  ASSUME HerdInv, NEW w \in Workers, HerdWorkerStep(w)
  PROVE  HerdInv'
<1> USE HerdAssumption DEF HerdInv, HerdTypeOK, Threads
<1>1. CASE Enter(w) \/ Get(w) \/ Wake(w)
  BY <1>1 DEF Enter, Get, Wake, herdVars
<1>2. CASE Leave(w)
  BY <1>2, HerdWorkerStep(w) DEF Leave, HerdWorkerStep
<1>3. CASE LoadForDecrement(w)
  BY <1>3 DEF LoadForDecrement
<1>4. CASE StoreDecrement(w)
  <2>1. register[w] \in Int
    BY <1>4 DEF StoreDecrement
  <2> QED
    BY <1>4, <2>1 DEF StoreDecrement
<1> QED
  BY <1>1, <1>2, <1>3, <1>4 DEF HerdWorkerStep, Handle

LEMMA HerdInvHolds == SafeSpec => []HerdInv
<1>1. HerdInv /\ [Next]_vars => HerdInv'
  <2> SUFFICES ASSUME HerdInv, [Next]_vars
               PROVE  HerdInv'
    OBVIOUS
  <2>1. CASE UNCHANGED vars
    BY <2>1 DEF vars, herdVars, HerdInv, HerdTypeOK, Threads
  <2> QED
    BY <2>1, MainKeepsHerdInv, AcceptorKeepsHerdInv, WorkerKeepsHerdInv DEF Next
<1> QED
  BY <1>1, HerdInvInit, PTL DEF SafeSpec

-----------------------------------------------------------------------------
(* The server process is an instance of the client queue. *)

\* Steps of the main thread and of the acceptor outside queue_add do not touch
\* the queue, and every other step is one of ClientQueue.
LEMMA HerdStep == HerdInv /\ [Next]_vars => [QueueNext]_queueVars
<1> SUFFICES ASSUME HerdInv, [Next]_vars
             PROVE  [QueueNext]_queueVars
  OBVIOUS
<1>1. CASE UNCHANGED vars
  BY <1>1 DEF vars
<1>2. CASE \/ Fail \/ InitHerd \/ CreateAcceptor \/ CreateCleaner \/ StopAcceptor
           \/ (\E w \in Workers : CreateWorker(w)) \/ Stop
  BY <1>2 DEF Fail, InitHerd, CreateAcceptor, CreateCleaner, StopAcceptor,
              CreateWorker, Stop, StopWorkers, JoinAcceptor, CloseMaster, Return
<1>3. CASE TestRunning \/ NothingAccepted \/ LoadForIncrement \/ StoreIncrement
           \/ \E c \in Clients : AcceptClient(c)
  BY <1>3 DEF TestRunning, NothingAccepted, LoadForIncrement, StoreIncrement,
              AcceptClient
<1>4. CASE Enqueue
  <2>1. QueueAdd(client) /\ client \in Clients
    BY <1>4 DEF Enqueue, HerdInv, HerdTypeOK
  <2> QED
    BY <2>1 DEF QueueNext
<1>5. CASE \E w \in Workers : HerdWorkerStep(w)
  <2>1. PICK w \in Workers : HerdWorkerStep(w)
    BY <1>5
  <2>2. CASE Enter(w) \/ Get(w) \/ Wake(w)
    BY <2>2 DEF Enter, Get, Wake, QueueNext, WorkerStep
  <2>3. CASE Leave(w) \/ LoadForDecrement(w)
    BY <2>3 DEF Leave, LoadForDecrement
  <2>4. CASE StoreDecrement(w)
    BY <2>4 DEF StoreDecrement, QueueNext, WorkerStep
  <2> QED
    BY <2>1, <2>2, <2>3, <2>4 DEF HerdWorkerStep, Handle
<1> QED
  BY <1>1, <1>2, <1>3, <1>4, <1>5 DEF Next, AcceptorStep

\* Every behaviour of the server process is a behaviour of the client queue:
\* all that holds of ClientQueue holds of it.
THEOREM UsesClientQueue == SafeSpec => QueueSafeSpec
<1>1. Init => QueueInit
  BY DEF Init
<1> QED
  BY <1>1, HerdInvHolds, HerdStep, PTL DEF SafeSpec, QueueSafeSpec

\* The type invariant of the server process.
THEOREM HerdTypeCorrect == SafeSpec => []TypeOK
<1>1. HerdInv => HerdTypeOK
  BY DEF HerdInv
<1> QED
  BY <1>1, HerdInvHolds, UsesClientQueue, QueueTypeCorrect, PTL DEF TypeOK

-----------------------------------------------------------------------------
(* What stop() promises. *)

\* After stop() has closed the listening socket the queue only shrinks: nobody
\* is left who could call queue_add.
THEOREM QueueOnlyDrainsAfterStop == SafeSpec => NothingQueuedAfterStop
<1>1. HerdInv /\ QueueTypeOK /\ [Next]_vars
        => [~listening /\ main # "init" /\ client_queue' # client_queue
              => Len(client_queue') < Len(client_queue)]_vars
  <2> SUFFICES ASSUME HerdInv, QueueTypeOK, Next, ~listening, main # "init",
                      client_queue' # client_queue
               PROVE  Len(client_queue') < Len(client_queue)
    BY DEF vars, queueVars
  <2>1. ~(Alive /\ Enqueue)
    BY DEF HerdInv, Enqueue, Alive
  <2>2. \E w \in Workers : Get(w) /\ TakeClient(w)
    BY <2>1 DEF Next, Fail, InitHerd, CreateAcceptor, CreateCleaner,
       StopAcceptor, CreateWorker, Stop, StopWorkers, JoinAcceptor,
       CloseMaster, Return, AcceptorStep, TestRunning, NothingAccepted,
       LoadForIncrement, StoreIncrement, AcceptClient, HerdWorkerStep, Enter,
       EnterGet, Leave, Get, QueueGet, WaitForClient, Wake, SpuriousWake, Handle,
       LoadForDecrement, StoreDecrement, HandleReturn, queueVars
  <2>3. client_queue \in Seq(Clients) /\ client_queue # <<>>
        /\ client_queue' = Tail(client_queue)
    BY <2>2 DEF TakeClient, QueueTypeOK
  <2> QED
    BY <2>3
<1> QED
  BY <1>1, HerdInvHolds, UsesClientQueue, QueueTypeCorrect, PTL
     DEF SafeSpec, NothingQueuedAfterStop
-----------------------------------------------------------------------------
(* Until stop() is called *)

\* The acceptor, the only one that fills the queue, is created after all the
\* workers, and these leave only when they are told to.
ServingInv ==
    /\ acceptor # "none" => created = Workers
    /\ acceptor = "none" => client_queue = <<>>
    /\ rh_running => exited = {}

LEMMA ServingInvHolds == SafeSpec => []ServingInv
<1>1. Init => ServingInv
  BY DEF Init, QueueInit, ServingInv
<1>2. HerdInv /\ ServingInv /\ [Next]_vars => ServingInv'
  <2> SUFFICES ASSUME HerdInv, ServingInv, [Next]_vars
               PROVE  ServingInv'
    OBVIOUS
  <2> USE DEF ServingInv
  <2>1. CASE Fail \/ InitHerd \/ CreateAcceptor \/ CreateCleaner \/ StopAcceptor \/ Stop
    BY <2>1 DEF Fail, InitHerd, CreateAcceptor, CreateCleaner, StopAcceptor, Stop,
       StopWorkers, JoinAcceptor, CloseMaster, Return, queueVars
  <2>2. ASSUME NEW w \in Workers, CreateWorker(w)
        PROVE  ServingInv'
    BY <2>2 DEF CreateWorker, queueVars
  <2>3. CASE TestRunning \/ NothingAccepted \/ LoadForIncrement \/ StoreIncrement
             \/ \E c \in Clients : AcceptClient(c)
    BY <2>3 DEF TestRunning, NothingAccepted, LoadForIncrement, StoreIncrement,
       AcceptClient, queueVars, HerdInv
  <2>4. CASE Enqueue
    BY <2>4 DEF Enqueue
  <2>5. ASSUME NEW w \in Workers, HerdWorkerStep(w)
        PROVE  ServingInv'
    <3>1. acceptor = "none" => client_queue' = client_queue
      BY <2>5 DEF HerdWorkerStep, Enter, EnterGet, Leave, Get, QueueGet, TakeClient,
         WaitForClient, Wake, SpuriousWake, Handle, LoadForDecrement,
         StoreDecrement, HandleReturn, queueVars
    <3>2. /\ UNCHANGED <<acceptor, created, rh_running>>
          /\ rh_running => exited' = exited
      BY <2>5 DEF HerdWorkerStep, Enter, Leave, Get, Wake, Handle, LoadForDecrement,
         StoreDecrement, herdVars
    <3> QED
      BY <3>1, <3>2
  <2>6. CASE UNCHANGED vars
    BY <2>6 DEF vars, queueVars, herdVars
  <2> QED
    BY <2>1, <2>2, <2>3, <2>4, <2>5, <2>6 DEF Next, AcceptorStep
<1> QED
  BY <1>1, <1>2, HerdInvHolds, PTL DEF SafeSpec

\* Until stop() tells the workers to leave, no socket waits in the queue for
\* workers that do not exist, have left, or are all asleep.
THEOREM ServesUntilStopped == SafeSpec => []QueuedHasWorker
<1>1. HerdInv /\ ServingInv /\ NoStrandedClient => QueuedHasWorker
  BY DEF HerdInv, HerdTypeOK, ServingInv, NoStrandedClient, QueuedHasWorker
<1> QED
  BY <1>1, HerdInvHolds, ServingInvHolds, UsesClientQueue, NoLostWakeUp, PTL
=============================================================================
