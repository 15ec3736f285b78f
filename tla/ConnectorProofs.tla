--------------------------- MODULE ConnectorProofs ----------------------------
(***************************************************************************)
(* The descriptors and the bytes of Connector, for any number of workers,  *)
(* of calls and of processes that end, and messages of any length: an HTTP *)
(* client gets its own answer and all of it, and the backend waits in vain *)
(* only for a server process that has ended.  The invariant on the bytes   *)
(* says of either message of every call which piece of it is where.        *)
(***************************************************************************)
EXTENDS Connector, TLAPS, SequenceTheorems

-----------------------------------------------------------------------------
(* Types *)

LEMMA InitTypeOK == Init => TypeOK
<1> SUFFICES ASSUME Init PROVE TypeOK
  OBVIOUS
<1> USE ConnectorAssumption DEF Init
<1>1. ServerTypeOK
  <2>1. 0 \in 0 .. MaxCalls
    OBVIOUS
  <2> QED
    BY <2>1 DEF ServerTypeOK, HasSock
<1>2. BackendTypeOK
  BY DEF BackendTypeOK, Calls
<1> QED
  BY <1>1, <1>2 DEF TypeOK

LEMMA NumbersAreFds == NoFd \notin Fds
  BY ConnectorAssumption DEF NoFd

\* What the steps of a worker up to the connection do to the server's types.
LEMMA StartKeepsServerType ==
  ASSUME ServerTypeOK, NEW w \in Workers,
         Begin(w) \/ Socket(w) \/ SocketFails(w) \/ Connect(w) \/ ConnectFails(w) \/ Reply(w)
  PROVE  ServerTypeOK'
<1> USE NumbersAreFds DEF ServerTypeOK, HasSock
<1>1. CASE Begin(w)
  <2>1. calls + 1 \in Calls
    BY <1>1, ConnectorAssumption DEF Begin, Calls
  <2>2. PICK n \in Fds : /\ client' = [client EXCEPT ![w] = n]
                         /\ file' = [file EXCEPT ![n] = <<"client", calls + 1>>]
    BY <1>1 DEF Begin
  <2> QED
    BY <1>1, <2>1, <2>2 DEF Begin, Files, Calls
<1>2. CASE Socket(w)
  <2>1. <<"new", call[w]>> \in Files
    BY <1>2 DEF Socket, Files
  <2>2. PICK n \in Fds : /\ sock' = [sock EXCEPT ![w] = n]
                         /\ file' = [file EXCEPT ![n] = <<"new", call[w]>>]
    BY <1>2 DEF Socket
  <2> QED
    BY <1>2, <2>1, <2>2 DEF Socket
<1>3. CASE SocketFails(w) \/ ConnectFails(w)
  <2>1. PICK fd \in Fds \cup {NoFd} :
          /\ file' = [n \in Fds |-> IF n = fd THEN Free ELSE file[n]]
          /\ undefined' = (fd \in HeldBesides(w) \ {NoFd})
    BY <1>3 DEF SocketFails, ConnectFails, Refuse
  <2>2. file' \in [Fds -> Files \cup {Free}]
    BY <2>1
  <2>4. undefined' \in BOOLEAN
    <3>1. CASE fd \in HeldBesides(w) \ {NoFd}
      BY <2>1, <3>1
    <3>2. CASE fd \notin HeldBesides(w) \ {NoFd}
      BY <2>1, <3>2
    <3> QED
      BY <3>1, <3>2
  <2>3. /\ sock' = [sock EXCEPT ![w] = NoFd]
        /\ pc' = [pc EXCEPT ![w] = "reply"]
        /\ UNCHANGED <<call, client, exits, calls>>
        /\ pc[w] # "idle"
    BY <1>3 DEF SocketFails, ConnectFails, Refuse
  <2> QED
    BY <2>2, <2>3, <2>4
<1>4. CASE Connect(w)
  <2>1. <<"link", call[w]>> \in Files
    BY <1>4 DEF Connect, Files
  <2> QED
    BY <1>4, <2>1 DEF Connect
<1>5. CASE Reply(w)
  BY <1>5 DEF Reply
<1> QED
  BY <1>1, <1>2, <1>3, <1>4, <1>5

LEMMA ProcessKeepsServerType ==
  ASSUME ServerTypeOK, NEW w \in Workers,
         \/ Write(w) \/ WriteFails(w) \/ ReceiveLength(w) \/ DecodeLength(w)
         \/ ReceiveContent(w) \/ ReceiveFails(w) \/ Respond(w)
  PROVE  ServerTypeOK'
<1> USE NumbersAreFds DEF ServerTypeOK, HasSock
<1>1. CASE Write(w)
  BY <1>1 DEF Write
<1>2. CASE WriteFails(w) \/ ReceiveFails(w)
  BY <1>2 DEF WriteFails, ReceiveFails, Receiving, Throw, Disconnect
<1>3. CASE ReceiveLength(w)
  BY <1>3 DEF ReceiveLength
<1>4. CASE DecodeLength(w)
  BY <1>4 DEF DecodeLength
<1>5. CASE ReceiveContent(w)
  BY <1>5 DEF ReceiveContent
<1>6. CASE Respond(w)
  BY <1>6 DEF Respond, Parsed, Disconnect
<1> QED
  BY <1>1, <1>2, <1>3, <1>4, <1>5, <1>6

LEMMA ServerGoneKeepsServerType ==
  ASSUME ServerTypeOK, ServerGone
  PROVE  ServerTypeOK'
<1>1. /\ pc' = [w \in Workers |-> "idle"]
      /\ client' = [w \in Workers |-> NoFd] /\ sock' = [w \in Workers |-> NoFd]
      /\ file' = [n \in Fds |-> Free] /\ undefined' = FALSE
      /\ exits' = exits + 1
      /\ UNCHANGED <<call, calls>>
  BY DEF ServerGone
<1>2. /\ pc' \in [Workers -> {"idle"}]
      /\ client' \in [Workers -> {NoFd}] /\ sock' \in [Workers -> {NoFd}]
      /\ file' \in [Fds -> {Free}]
  BY <1>1
<1>3. exits' \in Nat /\ UNCHANGED <<call, calls>> /\ undefined' = FALSE
  BY <1>1 DEF ServerTypeOK
<1>4. \A w \in Workers : pc'[w] = "idle" /\ client'[w] = NoFd /\ sock'[w] = NoFd
  BY <1>1
<1> QED
  BY <1>2, <1>3, <1>4 DEF ServerTypeOK, HasSock

LEMMA BackendKeepsServerType ==
  ASSUME ServerTypeOK, UNCHANGED serverVars
  PROVE  ServerTypeOK'
  BY DEF ServerTypeOK, serverVars, workerVars

\* A step of the backend leaves the server's variables alone.
BackendStep ==
    \/ BackendStart \/ BackendExit \/ MainStep
    \/ \E c \in Calls : RunHandler(c) \/ SendStep(c)

LEMMA BackendLeavesServer == BackendStep => UNCHANGED serverVars
  BY DEF BackendStep, BackendStart, BackendExit, MainStep, Accept, RecvLength,
         UnpackLength, RecvContent, StartThread, RunHandler, SendStep, SendPiece,
         EndThread

LEMMA BackendKeepsBackendType ==
  ASSUME ServerTypeOK, BackendTypeOK, BackendStep
  PROVE  BackendTypeOK'
<1> USE ConnectorAssumption DEF BackendTypeOK
<1>0. exits \in Nat
  BY DEF ServerTypeOK
<1>1. CASE BackendStart
  BY <1>1 DEF BackendStart, linkVars
<1>2. CASE BackendExit
  BY <1>0, <1>2 DEF BackendExit
<1>3. CASE Accept
  <2>1. Head(backlog) \in Calls /\ Tail(backlog) \in Seq(Calls)
    BY <1>3 DEF Accept
  <2> QED
    BY <1>3, <2>1 DEF Accept, linkVars, Calls
<1>4. CASE RecvLength \/ RecvContent
  BY <1>4 DEF RecvLength, RecvContent
<1>5. CASE UnpackLength \/ StartThread
  BY <1>5 DEF UnpackLength, StartThread, linkVars
<1>6. ASSUME NEW c \in Calls, RunHandler(c)
      PROVE  BackendTypeOK'
  BY <1>6 DEF RunHandler, linkVars, mainVars
<1>7. ASSUME NEW c \in Calls, SendStep(c)
      PROVE  BackendTypeOK'
  BY <1>7 DEF SendStep, SendPiece, EndThread, mainVars
<1> QED
  BY <1>1, <1>2, <1>3, <1>4, <1>5, <1>6, <1>7 DEF BackendStep, MainStep

\* A step of the server takes nothing from the backend's types.
LEMMA ServerKeepsBackendType ==
  ASSUME TypeOK,
         ServerGone \/ \E w \in Workers : Begin(w) \/ HandlerStep(w)
  PROVE  BackendTypeOK'
<1> USE DEF BackendTypeOK, backendVars, mainVars, linkVars
<1> TypeOK
  OBVIOUS
<1>1. CASE ServerGone
  BY <1>1 DEF TypeOK, ServerGone
<1>2. ASSUME NEW w \in Workers, Connect(w)
      PROVE  BackendTypeOK'
  <2>1. call[w] \in Calls
    BY <1>2 DEF TypeOK, ServerTypeOK, Connect
  <2> QED
    BY <1>2, <2>1 DEF TypeOK, Connect
<1>3. ASSUME NEW w \in Workers, Begin(w) \/ (HandlerStep(w) /\ ~Connect(w))
      PROVE  BackendTypeOK'
  <2>1. UNCHANGED <<backendEnd, backendVars>>
    BY <1>3 DEF Begin, HandlerStep, Socket, SocketFails, ConnectFails, Refuse,
         Write, WriteFails, Throw, ReceiveLength, DecodeLength, ReceiveContent,
         ReceiveFails, Respond, RespondCrashes, ServerGone, Reply
  <2> QED
    BY <2>1 DEF TypeOK
<1> QED
  BY <1>1, <1>2, <1>3

LEMMA TypeOKInductive ==
  ASSUME TypeOK, [Next]_vars
  PROVE  TypeOK'
<1>1. CASE \E w \in Workers : (~undefined /\ Begin(w)) \/ WorkerStep(w)
  <2>1. PICK w \in Workers : Begin(w) \/ HandlerStep(w)
    BY <1>1 DEF WorkerStep
  <2>2. ServerTypeOK'
    BY <2>1, StartKeepsServerType, ProcessKeepsServerType,
       ServerGoneKeepsServerType DEF TypeOK, HandlerStep, RespondCrashes
  <2>3. BackendTypeOK'
    BY <2>1, ServerKeepsBackendType
  <2> QED
    BY <2>2, <2>3 DEF TypeOK
<1>2. CASE ServerExit
  BY <1>2, ServerGoneKeepsServerType, ServerKeepsBackendType DEF TypeOK, ServerExit
<1>3. CASE BackendStep
  BY <1>3, BackendLeavesServer, BackendKeepsServerType, BackendKeepsBackendType
     DEF TypeOK
<1>4. CASE UNCHANGED vars
  BY <1>4, BackendKeepsServerType
     DEF TypeOK, BackendTypeOK, vars, linkVars, backendVars, mainVars
<1> QED
  BY <1>1, <1>2, <1>3, <1>4 DEF Next, BackendStep

\* Types: the descriptors that a worker has go with the place where it is in
\* start and process, and the link of the backend's main thread with its place in
\* get_message.
THEOREM ConnectorTypeCorrect == SafeSpec => []TypeOK
  BY InitTypeOK, TypeOKInductive, PTL DEF SafeSpec

-----------------------------------------------------------------------------
(* Descriptors *)

\* The calls are numbered in the order in which they begin.
Numbered == \A w \in Workers : call[w] <= calls

IInv == TypeOK /\ Numbered /\ OneOwner

\* Two workers never have the same number, and none has it twice.
Separate ==
    /\ \A v, w \in Workers :
         pc[v] # "idle" /\ pc[w] # "idle" /\ client[v] = client[w] => v = w
    /\ \A v, w \in Workers :
         pc[v] \in HasSock /\ pc[w] \in HasSock /\ sock[v] = sock[w] => v = w
    /\ \A v, w \in Workers :
         pc[v] # "idle" /\ pc[w] \in HasSock => client[v] # sock[w]

LEMMA NumbersAreSeparate ==
  ASSUME TypeOK, OneOwner, ~undefined
  PROVE  Separate
<1> USE DEF OneOwner, StandsForItsOwn, OneWorkerPerCall, HasSock, HasLink
<1>1. ASSUME NEW v \in Workers, NEW w \in Workers,
             pc[v] # "idle", pc[w] # "idle", client[v] = client[w]
      PROVE  v = w
  BY <1>1
<1>2. ASSUME NEW w \in Workers, pc[w] \in HasSock
      PROVE  /\ pc[w] # "idle"
             /\ file[sock[w]] \in {<<"new", call[w]>>, <<"link", call[w]>>}
  BY <1>2
<1>3. ASSUME NEW v \in Workers, NEW w \in Workers,
             pc[v] \in HasSock, pc[w] \in HasSock, sock[v] = sock[w]
      PROVE  v = w
  <2>1. call[v] = call[w]
    BY <1>2, <1>3
  <2> QED
    BY <1>2, <1>3, <2>1
<1>4. ASSUME NEW v \in Workers, NEW w \in Workers,
             pc[v] # "idle", pc[w] \in HasSock
      PROVE  client[v] # sock[w]
  <2>1. file[client[v]] = <<"client", call[v]>>
    BY <1>4
  <2> QED
    BY <1>2, <1>4, <2>1
<1> QED
  BY <1>1, <1>3, <1>4 DEF Separate

LEMMA FreeIsNoConnection ==
  \A c \in Calls : \A k \in {"client", "new", "link"} : Free # <<k, c>>
  BY ConnectorAssumption

LEMMA InitIInv == Init => IInv
<1> SUFFICES ASSUME Init PROVE IInv
  OBVIOUS
<1>1. TypeOK
  BY InitTypeOK
<1>2. Numbered
  <2>1. calls = 0 /\ \A w \in Workers : call[w] = 0
    BY DEF Init
  <2>2. ASSUME NEW w \in Workers
        PROVE  call[w] <= calls
    <3>1. call[w] = 0 /\ calls = 0
      BY <2>1
    <3>2. 0 <= 0
      OBVIOUS
    <3> QED
      BY <3>1, <3>2
  <2> QED
    BY <2>2 DEF Numbered
<1>3. OneOwner
  <2>1. \A w \in Workers : pc[w] = "idle"
    BY DEF Init
  <2>2. \A w \in Workers : StandsForItsOwn(w)
    BY <2>1 DEF StandsForItsOwn, HasLink
  <2>3. \A n \in Fds : HasWorker(n)
    BY FreeIsNoConnection DEF Init, HasWorker
  <2> QED
    BY <2>1, <2>2, <2>3 DEF OneOwner, OneWorkerPerCall
<1> QED
  BY <1>1, <1>2, <1>3 DEF IInv

\* What keeps OneOwner when no number is given or taken back.
LEMMA SameFiles ==
  ASSUME TypeOK, OneOwner, NEW w \in Workers,
         UNCHANGED <<call, client, sock, file, undefined>>,
         pc[w] \in HasLink, pc' \in {[pc EXCEPT ![w] = l] : l \in HasLink}
  PROVE  OneOwner'
  BY DEF TypeOK, ServerTypeOK, OneOwner, StandsForItsOwn, HasWorker,
         OneWorkerPerCall, HasLink

\* What keeps OneOwner when a worker gives its link back.
LEMMA LinkReturned ==
  ASSUME TypeOK, OneOwner, ~undefined, NEW w \in Workers,
         pc[w] \in HasLink,
         pc' = [pc EXCEPT ![w] = "reply"],
         file' = [file EXCEPT ![sock[w]] = Free],
         sock' = [sock EXCEPT ![w] = NoFd],
         UNCHANGED <<call, client, undefined>>
  PROVE  OneOwner'
<1> USE ConnectorAssumption DEF TypeOK, ServerTypeOK, HasSock, HasLink
<1>1. Separate
  BY NumbersAreSeparate
<1>2. ASSUME NEW v \in Workers PROVE StandsForItsOwn(v)'
  <2>1. StandsForItsOwn(v)
    BY DEF OneOwner
  <2>2. pc[v] # "idle" => client[v] # sock[w] /\ client[v] \in Fds
    BY <1>1 DEF Separate
  <2>3. CASE v = w
    BY <2>1, <2>2, <2>3 DEF StandsForItsOwn
  <2>4. CASE v # w
    <3>1. pc[v] \in HasSock => sock[v] # sock[w] /\ sock[v] \in Fds
      BY <1>1, <2>4 DEF Separate
    <3> QED
      BY <2>1, <2>2, <2>4, <3>1 DEF StandsForItsOwn
  <2> QED
    BY <2>3, <2>4
<1>3. ASSUME NEW n \in Fds PROVE HasWorker(n)'
  <2>1. HasWorker(n)
    BY DEF OneOwner
  <2>2. CASE n = sock[w]
    <3>1. file'[n] = Free
      BY <2>2
    <3> QED
      BY <3>1, FreeIsNoConnection DEF HasWorker
  <2>3. CASE n # sock[w]
    <3>1. file'[n] = file[n]
      BY <2>3
    <3>2. \A v \in Workers : sock[v] = n => sock'[v] = n
      BY <2>3
    <3> QED
      BY <2>1, <3>1, <3>2 DEF HasWorker
  <2> QED
    BY <2>2, <2>3
<1>4. OneWorkerPerCall'
  BY DEF OneOwner, OneWorkerPerCall
<1> QED
  BY <1>2, <1>3, <1>4 DEF OneOwner

LEMMA BeginKeepsOwners ==
  ASSUME IInv, ~undefined, NEW w \in Workers, Begin(w)
  PROVE  OneOwner'
<1> USE ConnectorAssumption DEF IInv, TypeOK, ServerTypeOK, HasSock, HasLink
<1>1. PICK n \in Fds : /\ file[n] = Free
                       /\ client' = [client EXCEPT ![w] = n]
                       /\ file' = [file EXCEPT ![n] = <<"client", calls + 1>>]
  BY DEF Begin, Lowest
<1>2. /\ pc[w] = "idle" /\ pc' = [pc EXCEPT ![w] = "socket"]
      /\ call' = [call EXCEPT ![w] = calls + 1]
      /\ UNCHANGED <<sock, undefined>>
      /\ calls + 1 \in Calls
  BY DEF Begin, Calls
<1>3. \A v \in Workers : call[v] # calls + 1
  <2> TAKE v \in Workers
  <2>1. call[v] <= calls
    BY DEF Numbered
  <2>2. call[v] \in Int /\ calls \in Int
    BY DEF Calls
  <2> QED
    BY <2>1, <2>2
<1>4. ASSUME NEW v \in Workers PROVE StandsForItsOwn(v)'
  <2>1. CASE v = w
    BY <1>1, <1>2, <2>1 DEF StandsForItsOwn
  <2>2. CASE v # w
    <3>1. StandsForItsOwn(v)
      BY DEF OneOwner
    <3> QED
      BY <1>1, <1>2, <2>2, <3>1 DEF StandsForItsOwn, Files
  <2> QED
    BY <2>1, <2>2
<1>5. ASSUME NEW m \in Fds PROVE HasWorker(m)'
  <2>1. HasWorker(m)
    BY DEF OneOwner
  <2>2. client[w] = NoFd /\ m # NoFd
    BY <1>2, NumbersAreFds
  <2> QED
    BY <1>1, <1>2, <2>1, <2>2 DEF HasWorker
<1>6. OneWorkerPerCall'
  BY <1>2, <1>3 DEF OneOwner, OneWorkerPerCall
<1> QED
  BY <1>4, <1>5, <1>6 DEF OneOwner

LEMMA SocketKeepsOwners ==
  ASSUME IInv, ~undefined, NEW w \in Workers, Socket(w)
  PROVE  OneOwner'
<1> USE ConnectorAssumption DEF IInv, TypeOK, ServerTypeOK, HasSock, HasLink
<1>1. PICK n \in Fds : /\ file[n] = Free
                       /\ sock' = [sock EXCEPT ![w] = n]
                       /\ file' = [file EXCEPT ![n] = <<"new", call[w]>>]
  BY DEF Socket, Lowest
<1>2. /\ pc[w] = "socket" /\ pc' = [pc EXCEPT ![w] = "connect"]
      /\ UNCHANGED <<call, client, undefined>>
      /\ call[w] \in Calls
  BY DEF Socket
<1>3. ASSUME NEW v \in Workers PROVE StandsForItsOwn(v)'
  <2>1. StandsForItsOwn(v)
    BY DEF OneOwner
  <2>2. pc[v] # "idle" => client[v] # n /\ client[v] \in Fds
    BY <1>1, <2>1, FreeIsNoConnection DEF StandsForItsOwn
  <2>3. CASE v = w
    BY <1>1, <1>2, <2>1, <2>2, <2>3 DEF StandsForItsOwn
  <2>4. CASE v # w
    <3>1. pc[v] \in HasSock => sock[v] # n /\ sock[v] \in Fds
      BY <1>1, <2>1, FreeIsNoConnection DEF StandsForItsOwn
    <3> QED
      BY <1>1, <1>2, <2>1, <2>2, <2>4, <3>1 DEF StandsForItsOwn
  <2> QED
    BY <2>3, <2>4
<1>4. ASSUME NEW m \in Fds PROVE HasWorker(m)'
  <2>1. HasWorker(m)
    BY DEF OneOwner
  <2>2. sock[w] = NoFd /\ m # NoFd
    BY <1>2, NumbersAreFds
  <2> QED
    BY <1>1, <1>2, <2>1, <2>2 DEF HasWorker
<1>5. OneWorkerPerCall'
  BY <1>2 DEF OneOwner, OneWorkerPerCall
<1> QED
  BY <1>3, <1>4, <1>5 DEF OneOwner

LEMMA ConnectKeepsOwners ==
  ASSUME IInv, ~undefined, NEW w \in Workers, Connect(w)
  PROVE  OneOwner'
<1> USE ConnectorAssumption DEF IInv, TypeOK, ServerTypeOK, HasSock, HasLink
<1>1. /\ pc[w] = "connect" /\ pc' = [pc EXCEPT ![w] = "send"]
      /\ file' = [file EXCEPT ![sock[w]] = <<"link", call[w]>>]
      /\ UNCHANGED <<call, client, sock, undefined>>
      /\ call[w] \in Calls /\ sock[w] \in Fds
  BY DEF Connect
<1>2. Separate
  BY NumbersAreSeparate
<1>3. ASSUME NEW v \in Workers PROVE StandsForItsOwn(v)'
  <2>1. StandsForItsOwn(v)
    BY DEF OneOwner
  <2>2. pc[v] # "idle" => client[v] # sock[w] /\ client[v] \in Fds
    BY <1>1, <1>2 DEF Separate
  <2>3. CASE v = w
    BY <1>1, <2>1, <2>2, <2>3 DEF StandsForItsOwn
  <2>4. CASE v # w
    <3>1. pc[v] \in HasSock => sock[v] # sock[w] /\ sock[v] \in Fds
      BY <1>1, <1>2, <2>4 DEF Separate
    <3> QED
      BY <1>1, <2>1, <2>2, <2>4, <3>1 DEF StandsForItsOwn
  <2> QED
    BY <2>3, <2>4
<1>4. ASSUME NEW m \in Fds PROVE HasWorker(m)'
  <2>1. HasWorker(m)
    BY DEF OneOwner
  <2> QED
    BY <1>1, <2>1 DEF HasWorker
<1>5. OneWorkerPerCall'
  BY <1>1 DEF OneOwner, OneWorkerPerCall
<1> QED
  BY <1>3, <1>4, <1>5 DEF OneOwner

\* The number that is closed by mistake is nobody's, or undefined becomes true.
LEMMA RefuseKeepsOwners ==
  ASSUME IInv, ~undefined, NEW w \in Workers,
         pc[w] \in {"socket", "connect"}, Refuse(w)
  PROVE  OneOwner'
<1> USE ConnectorAssumption DEF IInv, TypeOK, ServerTypeOK, HasSock, HasLink
<1> SUFFICES ASSUME ~undefined'
             PROVE  /\ \A v \in Workers : StandsForItsOwn(v)'
                    /\ \A n \in Fds : HasWorker(n)'
                    /\ OneWorkerPerCall'
  BY DEF OneOwner
<1>1. PICK fd \in Fds \cup {NoFd} :
        /\ file' = [n \in Fds |-> IF n = fd THEN Free ELSE file[n]]
        /\ undefined' = (fd \in HeldBesides(w) \ {NoFd})
  BY DEF Refuse
<1>2. /\ sock' = [sock EXCEPT ![w] = NoFd]
      /\ pc' = [pc EXCEPT ![w] = "reply"]
      /\ UNCHANGED <<call, client>>
  BY DEF Refuse
<1>3. fd = NoFd \/ fd \notin HeldBesides(w)
  BY <1>1
<1>4. ASSUME NEW v \in Workers PROVE StandsForItsOwn(v)'
  <2>1. StandsForItsOwn(v)
    BY DEF OneOwner
  <2>2. pc[v] # "idle" => client[v] # fd /\ client[v] \in Fds
    BY <1>3 DEF HeldBesides
  <2>3. CASE v = w
    BY <1>1, <1>2, <2>1, <2>2, <2>3 DEF StandsForItsOwn
  <2>4. CASE v # w
    <3>1. pc[v] \in HasSock => sock[v] # fd /\ sock[v] \in Fds
      BY <1>3, <2>4 DEF HeldBesides
    <3> QED
      BY <1>1, <1>2, <2>1, <2>2, <2>4, <3>1 DEF StandsForItsOwn
  <2> QED
    BY <2>3, <2>4
<1>5. ASSUME NEW n \in Fds PROVE HasWorker(n)'
  <2>1. HasWorker(n) /\ StandsForItsOwn(w)
    BY DEF OneOwner
  <2>2. CASE n = fd
    <3>1. file'[n] = Free
      BY <1>1, <2>2
    <3> QED
      BY <3>1, FreeIsNoConnection DEF HasWorker
  <2>3. CASE n # fd
    <3>1. file'[n] = file[n]
      BY <1>1, <2>3
    <3>2. sock[w] = n => \A c \in Calls : file[n] # <<"link", c>>
      BY <2>1, NumbersAreFds DEF StandsForItsOwn
    <3>3. \A v \in Workers : sock[v] = n => v = w \/ sock'[v] = n
      BY <1>2
    <3> QED
      BY <1>2, <2>1, <3>1, <3>2, <3>3 DEF HasWorker
  <2> QED
    BY <2>2, <2>3
<1>6. OneWorkerPerCall'
  BY <1>2 DEF OneOwner, OneWorkerPerCall
<1> QED
  BY <1>4, <1>5, <1>6

LEMMA ReplyKeepsOwners ==
  ASSUME IInv, ~undefined, NEW w \in Workers, Reply(w)
  PROVE  OneOwner'
<1> USE ConnectorAssumption DEF IInv, TypeOK, ServerTypeOK, HasSock, HasLink
<1>1. /\ pc[w] = "reply" /\ pc' = [pc EXCEPT ![w] = "idle"]
      /\ file' = [file EXCEPT ![client[w]] = Free]
      /\ client' = [client EXCEPT ![w] = NoFd]
      /\ UNCHANGED <<call, sock, undefined>>
      /\ client[w] \in Fds
  BY DEF Reply
<1>2. Separate
  BY NumbersAreSeparate
<1>3. ASSUME NEW v \in Workers PROVE StandsForItsOwn(v)'
  <2>1. StandsForItsOwn(v)
    BY DEF OneOwner
  <2>2. CASE v = w
    BY <1>1, <2>2 DEF StandsForItsOwn
  <2>3. CASE v # w
    <3>1. pc[v] # "idle" => client[v] # client[w]
      BY <1>1, <1>2, <2>3 DEF Separate
    <3>2. pc[v] \in HasSock => sock[v] # client[w]
      BY <1>1, <1>2 DEF Separate
    <3> QED
      BY <1>1, <2>1, <2>3, <3>1, <3>2 DEF StandsForItsOwn
  <2> QED
    BY <2>2, <2>3
<1>4. ASSUME NEW n \in Fds PROVE HasWorker(n)'
  <2>1. HasWorker(n)
    BY DEF OneOwner
  <2>2. CASE n = client[w]
    <3>1. file'[n] = Free
      BY <1>1, <2>2
    <3> QED
      BY <3>1, FreeIsNoConnection DEF HasWorker
  <2>3. CASE n # client[w]
    <3>1. file'[n] = file[n]
      BY <1>1, <2>3
    <3>2. \A v \in Workers : client[v] = n => client'[v] = n
      BY <1>1, <2>3
    <3> QED
      BY <1>1, <2>1, <3>1, <3>2 DEF HasWorker
  <2> QED
    BY <2>2, <2>3
<1>5. OneWorkerPerCall'
  BY <1>1 DEF OneOwner, OneWorkerPerCall
<1> QED
  BY <1>3, <1>4, <1>5 DEF OneOwner

LEMMA ServerGoneKeepsOwners ==
  ASSUME ServerGone
  PROVE  OneOwner'
<1>1. /\ pc' = [w \in Workers |-> "idle"]
      /\ file' = [n \in Fds |-> Free]
  BY DEF ServerGone
<1>2. \A w \in Workers : StandsForItsOwn(w)'
  BY <1>1 DEF StandsForItsOwn, HasLink
<1>3. \A n \in Fds : HasWorker(n)'
  BY <1>1, FreeIsNoConnection DEF HasWorker
<1>4. OneWorkerPerCall'
  BY <1>1 DEF OneWorkerPerCall
<1> QED
  BY <1>2, <1>3, <1>4 DEF OneOwner

LEMMA HandlerKeepsOwners ==
  ASSUME IInv, ~undefined, NEW w \in Workers, HandlerStep(w)
  PROVE  OneOwner'
<1>1. TypeOK /\ OneOwner
  BY DEF IInv
<1>2. CASE Socket(w)
  BY <1>2, SocketKeepsOwners
<1>3. CASE SocketFails(w) \/ ConnectFails(w)
  BY <1>3, RefuseKeepsOwners DEF SocketFails, ConnectFails
<1>4. CASE Connect(w)
  BY <1>4, ConnectKeepsOwners
<1>5. CASE Write(w)
  <2>1. pc' \in {[pc EXCEPT ![w] = l] : l \in HasLink}
    BY <1>5 DEF Write, HasLink
  <2> QED
    BY <1>1, <1>5, <2>1, SameFiles DEF Write, HasLink
<1>6. CASE ReceiveLength(w) \/ ReceiveContent(w)
  <2>1. UNCHANGED <<pc, call, client, sock, file, undefined>>
    BY <1>6 DEF ReceiveLength, ReceiveContent
  <2> QED
    BY <1>1, <2>1 DEF OneOwner, StandsForItsOwn, HasWorker, OneWorkerPerCall
<1>7. CASE DecodeLength(w)
  <2>1. pc' \in {[pc EXCEPT ![w] = l] : l \in HasLink}
    BY <1>7 DEF DecodeLength, HasLink
  <2> QED
    BY <1>1, <1>7, <2>1, SameFiles DEF DecodeLength, HasLink
<1>8. CASE WriteFails(w) \/ ReceiveFails(w)
  BY <1>1, <1>8, LinkReturned
     DEF WriteFails, ReceiveFails, Receiving, Throw, Disconnect, HasLink
<1>9. CASE Respond(w)
  BY <1>1, <1>9, LinkReturned DEF Respond, Parsed, Disconnect, HasLink
<1>10. CASE RespondCrashes(w)
  BY <1>10, ServerGoneKeepsOwners DEF RespondCrashes
<1>11. CASE Reply(w)
  BY <1>11, ReplyKeepsOwners
<1> QED
  BY <1>2, <1>3, <1>4, <1>5, <1>6, <1>7, <1>8, <1>9, <1>10, <1>11 DEF HandlerStep

LEMMA NumberedInductive ==
  ASSUME TypeOK, Numbered, [Next]_vars
  PROVE  Numbered'
<1> USE DEF TypeOK, ServerTypeOK
<1>1. \A v \in Workers : call[v] <= calls /\ call[v] \in Int
  BY DEF Numbered, Calls
<1>2. calls \in Int
  OBVIOUS
<1>3. ASSUME NEW w \in Workers, Begin(w)
      PROVE  Numbered'
  <2>1. calls' = calls + 1 /\ call' = [call EXCEPT ![w] = calls + 1]
    BY <1>3 DEF Begin
  <2> QED
    BY <1>1, <1>2, <2>1 DEF Numbered
<1>4. CASE UNCHANGED <<call, calls>>
  BY <1>4 DEF Numbered
<1>5. ASSUME NEW w \in Workers, HandlerStep(w)
      PROVE  UNCHANGED <<call, calls>>
  BY <1>5 DEF HandlerStep, Socket, SocketFails, ConnectFails, Connect, Refuse,
     Write, WriteFails, Throw, ReceiveLength, DecodeLength, ReceiveContent,
     ReceiveFails, Respond, RespondCrashes, ServerGone, Reply
<1>6. ServerExit \/ BackendStep \/ UNCHANGED vars => UNCHANGED <<call, calls>>
  <2>1. ServerExit => UNCHANGED <<call, calls>>
    BY DEF ServerExit, ServerGone
  <2>2. BackendStep \/ UNCHANGED vars => UNCHANGED serverVars
    BY BackendLeavesServer DEF vars
  <2> QED
    BY <2>1, <2>2 DEF serverVars, workerVars
<1> QED
  BY <1>3, <1>4, <1>5, <1>6 DEF Next, WorkerStep, BackendStep

LEMMA IInvInductive == IInv /\ [Next]_vars => IInv'
<1> SUFFICES ASSUME IInv, [Next]_vars
             PROVE  IInv'
  OBVIOUS
<1>1. TypeOK' /\ Numbered'
  BY TypeOKInductive, NumberedInductive DEF IInv
<1>2. CASE \E w \in Workers : (~undefined /\ Begin(w)) \/ WorkerStep(w)
  BY <1>1, <1>2, BeginKeepsOwners, HandlerKeepsOwners DEF IInv, WorkerStep
<1>3. CASE ServerExit
  BY <1>1, <1>3, ServerGoneKeepsOwners DEF IInv, ServerExit
<1>4. CASE BackendStep \/ UNCHANGED vars
  <2>1. UNCHANGED serverVars
    BY <1>4, BackendLeavesServer DEF vars
  <2>2. OneOwner'
    BY <2>1 DEF IInv, OneOwner, StandsForItsOwn, HasWorker, OneWorkerPerCall,
       serverVars, workerVars
  <2> QED
    BY <1>1, <2>2 DEF IInv
<1> QED
  BY <1>2, <1>3, <1>4 DEF Next, BackendStep

\* Whichever way the calls of the backend end, for any number of workers: a
\* number that a worker has is its own, and no connection stays open without
\* one; until a refused call closes a number that is in use.
THEOREM DescriptorsHaveOneOwner == SafeSpec => []OneOwner
<1>1. IInv => OneOwner
  BY DEF IInv
<1> QED
  BY <1>1, InitIInv, IInvInductive, PTL DEF SafeSpec

-----------------------------------------------------------------------------
(* Pieces of a sequence *)

LEMMA Cut ==
  ASSUME NEW S, NEW s \in Seq(S), NEW k \in 1 .. Len(s)
  PROVE  /\ SubSeq(s, 1, k) \in Seq(S) /\ From(s, k + 1) \in Seq(S)
         /\ SubSeq(s, 1, k) \o From(s, k + 1) = s
         /\ Len(SubSeq(s, 1, k)) = k
         /\ k = Len(s) => From(s, k + 1) = <<>>
<1>1. SubSeq(s, 1, k) \in Seq(S) /\ From(s, k + 1) \in Seq(S)
  BY DEF From
<1>2. SubSeq(s, 1, k) \o From(s, k + 1) = s
  BY SubSeqFull, ConcatAdjacentSubSeq DEF From
<1>3. Len(SubSeq(s, 1, k)) = k
  OBVIOUS
<1>4. ASSUME k = Len(s) PROVE From(s, k + 1) = <<>>
  <2>1. Len(From(s, k + 1)) = 0
    BY <1>4 DEF From
  <2> QED
    BY <1>1, <2>1
<1> QED
  BY <1>1, <1>2, <1>3, <1>4

LEMMA CutHead ==
  ASSUME NEW S, NEW s \in Seq(S), s # <<>>
  PROVE  /\ Head(s) \in S /\ Tail(s) \in Seq(S)
         /\ <<Head(s)>> \in Seq(S)
         /\ <<Head(s)>> \o Tail(s) = s
  BY HeadTailProperties

LEMMA SamePieces ==
  ASSUME NEW S, NEW a \in Seq(S), NEW b \in Seq(S), NEW c \in Seq(S), NEW d \in Seq(S),
         a \o b = c \o d, Len(a) = Len(c)
  PROVE  a = c /\ b = d
<1>1. a = c
  <2>1. \A i \in 1 .. Len(a) : a[i] = (a \o b)[i] /\ c[i] = (c \o d)[i]
    BY ConcatProperties
  <2> QED
    BY <2>1, SeqEqual
<1> QED
  BY <1>1, ConcatSimplifications

LEMMA NothingMissing ==
  ASSUME NEW S, NEW a \in Seq(S), NEW b \in Seq(S), NEW c \in Seq(S),
         a \o b = c, Len(a) >= Len(c)
  PROVE  a = c /\ b = <<>>
<1>1. Len(c) = Len(a) + Len(b) /\ Len(a) \in Nat /\ Len(b) \in Nat
  BY ConcatProperties, LenProperties
<1>2. Len(b) = 0
  BY <1>1
<1>3. b = <<>>
  BY <1>2
<1> QED
  BY <1>3, ConcatEmptySeq

-----------------------------------------------------------------------------
(* The messages *)

LEMMA RequestIsBytes ==
  ASSUME NEW c \in Calls
  PROVE  Request(c) \in Seq(Bytes) /\ Len(Request(c)) = 2
<1>0. c \in Nat
  BY ConnectorAssumption DEF Calls
<1>1. <<"request", c, "method">> \in Bytes /\ <<"request", c, "path">> \in Bytes
  BY <1>0 DEF Bytes
<1> QED
  BY <1>1 DEF Request

LEMMA AnswerIsBytes ==
  ASSUME NEW c \in Calls, NEW keys \in Answers
  PROVE  /\ Answer(c, keys) \in Seq(Bytes)
         /\ \A k \in 1 .. Len(Answer(c, keys)) : Answer(c, keys)[k][2] = c
<1>1. keys \in Seq(Keys)
  BY ConnectorAssumption
<1>0. c \in Nat
  BY ConnectorAssumption DEF Calls
<1>2. ASSUME NEW k \in 1 .. Len(keys)
      PROVE  <<"answer", c, keys[k]>> \in Bytes
  <2>1. keys[k] \in Keys
    BY <1>1
  <2> QED
    BY <1>0, <2>1 DEF Bytes
<1>3. Len(keys) \in Nat
  BY <1>1
<1> QED
  BY <1>2, <1>3 DEF Answer

LEMMA EncodedInt ==
  ASSUME NEW n \in Nat
  PROVE  /\ EncodeInt(n) \in Seq(Bytes) /\ Len(EncodeInt(n)) = LenSize
         /\ DecodeInt(EncodeInt(n)) = n
<1> DEFINE digit(k) == <<"length", IF k = 1 THEN n ELSE 0, "">>
<1>1. LenSize \in Nat /\ 1 \in 1 .. LenSize
  BY ConnectorAssumption
<1>2. \A k \in 1 .. LenSize : digit(k) \in Bytes
  BY DEF Bytes
<1>3. EncodeInt(n) = [k \in 1 .. LenSize |-> digit(k)]
  BY DEF EncodeInt
<1>4. EncodeInt(n)[1] = <<"length", n, "">>
  BY <1>1, <1>3
<1> HIDE DEF digit
<1>5. EncodeInt(n) \in Seq(Bytes) /\ Len(EncodeInt(n)) = LenSize
  BY <1>1, <1>2, <1>3
<1>6. DecodeInt(EncodeInt(n)) = EncodeInt(n)[1][2]
  BY DEF DecodeInt
<1>7. <<"length", n, "">>[2] = n
  OBVIOUS
<1> QED
  BY <1>4, <1>5, <1>6, <1>7

Assoc(a, b, c) == (a \o b) \o c = a \o (b \o c)

LEMMA Associative ==
  ASSUME NEW S, NEW a \in Seq(S), NEW b \in Seq(S), NEW c \in Seq(S)
  PROVE  Assoc(a, b, c)
  BY ConcatAssociative, SMTT(40) DEF Assoc

LEMMA Serialized ==
  ASSUME NEW s \in Seq(Bytes)
  PROVE  Serialize(s) \in Seq(Bytes) /\ Len(Serialize(s)) = LenSize + Len(s)
  BY EncodedInt, ConcatProperties, LenProperties DEF Serialize

\* What has been read of a message and what comes after it are the message.
ReadOf(got, more, s) == got \o more = Serialize(s)

\* A number of which all bytes are there has been read right.
LEMMA LengthRead ==
  ASSUME NEW s \in Seq(Bytes), NEW got \in Seq(Bytes), NEW more \in Seq(Bytes),
         ReadOf(got, more, s), Len(got) >= LenSize, Len(got) <= LenSize
  PROVE  DecodeInt(got) = Len(s) /\ more = s
<1>1. Len(s) \in Nat /\ Len(got) = LenSize
  BY ConnectorAssumption
<1>2. got = EncodeInt(Len(s)) /\ more = s
  BY <1>1, EncodedInt, SamePieces DEF Serialize, ReadOf
<1> QED
  BY <1>1, <1>2, EncodedInt
-----------------------------------------------------------------------------
(* The invariant *)

\* What the variables that hold bytes are.
DataTypeOK ==
    /\ unsent \in [Workers -> Seq(Bytes)] /\ line \in [Workers -> Seq(Bytes)]
    /\ length \in [Workers -> Nat] /\ result \in [Workers -> Seq(Bytes)]
    /\ up \in [Calls -> Seq(Bytes)] /\ down \in [Calls -> Seq(Bytes)]
    /\ serverEnd \in [Calls -> BOOLEAN]
    /\ received \in Seq(Bytes) /\ needed \in Nat
    /\ message \in [Calls -> Seq(Bytes)] /\ rest \in [Calls -> Seq(Bytes)]
    /\ made \in [Calls -> Seq(Bytes)] /\ replies \in [Calls -> Seq(Bytes)]

\* The link of the call is with the main thread of the backend, or before it.
Waiting(c) == c = cur \/ \E i \in 1 .. Len(backlog) : backlog[i] = c

\* An answer to the call may still be made.
Open(c) == Waiting(c) \/ thread[c] = "handler"

\* The call has no link yet.
Unlinked(c) ==
    c > calls \/ \E w \in Workers : call[w] = c /\ pc[w] \in {"socket", "connect"}

Unused ==
    \A c \in Calls : Unlinked(c) =>
        /\ up[c] = <<>> /\ down[c] = <<>> /\ made[c] = <<>> /\ replies[c] = <<>>
        /\ ~Waiting(c) /\ thread[c] = "none"

\* A link waits at one place, and nobody at the backend has closed it.
Queued ==
    /\ \A i, j \in 1 .. Len(backlog) : backlog[i] = backlog[j] => i = j
    /\ \A i \in 1 .. Len(backlog) : backlog[i] # cur
    /\ \A c \in Calls : Waiting(c) => thread[c] = "none" /\ backendEnd[c]

\* What get_message has of the message of a link, and what it is then to have.
Got(c) == IF c = cur THEN received ELSE <<>>

Whole(c) ==
    IF c = cur /\ bpc = "content" THEN Request(c) ELSE Serialize(Request(c))

\* What is missing of a request that waits is with its worker, and without one
\* something is missing only if a server process has ended.
Missing(c, more) ==
    /\ \A w \in Workers : call[w] = c /\ pc[w] \in HasLink => more = unsent[w]
    /\ exits = 0 /\ (\A w \in Workers : call[w] = c => pc[w] \notin HasLink) => more = <<>>

Arrives(c) ==
    \E more \in Seq(Bytes) :
        Got(c) \o (up[c] \o more) = Whole(c) /\ Missing(c, more)

Requests ==
    /\ \A c \in Calls : Waiting(c) => Arrives(c)
    /\ \A c \in Calls : thread[c] = "handler" => message[c] = Request(c)
    /\ bpc \notin {"length", "content"} => received = <<>>
    /\ bpc = "length" => Len(received) <= LenSize
    /\ bpc = "content" => needed = 2

\* The answer that is on its way to a worker, from where the worker is.
Expected(w) ==
    IF pc[w] = "content" THEN made[call[w]] ELSE Serialize(made[call[w]])

Comes(w) ==
    \E more \in Seq(Bytes) :
        /\ line[w] \o (down[call[w]] \o more) = Expected(w)
        /\ thread[call[w]] = "send" => more = rest[call[w]]

\* What a worker has where it is.
Places ==
    \A w \in Workers :
        /\ pc[w] \in HasLink => serverEnd[call[w]]
        /\ pc[w] # "send" => unsent[w] = <<>>
        /\ pc[w] \notin {"length", "content"} => line[w] = <<>>
        /\ pc[w] # "reply" => result[w] = <<>>
        /\ pc[w] = "length" => Len(line[w]) <= LenSize
        /\ pc[w] = "content" => length[w] = Len(made[call[w]])

\* Nothing comes before the answer is made, and then it is what comes.
Replies ==
    /\ \A w \in Workers : pc[w] \in HasLink => Comes(w)
    /\ \A w \in Workers : pc[w] \in HasLink /\ Open(call[w]) =>
        pc[w] # "content" /\ line[w] = <<>> /\ down[call[w]] = <<>>
    /\ \A w \in Workers : result[w] # <<>> => result[w] = made[call[w]] /\ ~Open(call[w])
    /\ \A c \in Calls : replies[c] # <<>> => replies[c] = made[c] /\ ~Open(c)
    /\ \A c \in Calls : \A k \in 1 .. Len(made[c]) : made[c][k][2] = c

BytesInv ==
    /\ IInv /\ DataTypeOK /\ OneWorkerPerCall
    /\ Unused /\ Queued /\ Requests /\ Places /\ Replies

LEMMA InitBytesInv == Init => BytesInv
<1> SUFFICES ASSUME Init PROVE BytesInv
  OBVIOUS
<1>1. IInv
  BY InitIInv
<1>2. DataTypeOK
  BY DEF Init, DataTypeOK
<1>3. \A w \in Workers : pc[w] = "idle" /\ result[w] = <<>>
  BY DEF Init
<1>4. \A c \in Calls : ~Waiting(c) /\ thread[c] = "none"
  BY DEF Init, Waiting, Calls
<1>5. OneWorkerPerCall /\ Queued
  BY <1>3, <1>4 DEF OneWorkerPerCall, Queued, Init
<1>6. Unused
  BY <1>4 DEF Unused, Init
<1>7. Requests
  BY <1>4 DEF Requests, Init
<1>8. Places
  BY <1>3 DEF Places, Init, HasLink
<1>9. Replies
  <2>1. \A c \in Calls : replies[c] = <<>> /\ made[c] = <<>>
    BY DEF Init
  <2> QED
    BY <1>3, <2>1 DEF Replies, HasLink
<1> QED
  BY <1>1, <1>2, <1>5, <1>6, <1>7, <1>8, <1>9 DEF BytesInv

\* The link of a worker is that of its call.
LEMMA OwnLink ==
  ASSUME IInv, ~undefined, NEW w \in Workers, pc[w] \in HasLink
  PROVE  Link(w) = call[w] /\ call[w] \in Calls
  BY DEF IInv, TypeOK, ServerTypeOK, OneOwner, StandsForItsOwn, Link, HasLink

LEMMA Update ==
  ASSUME NEW A, NEW B, NEW f \in [A -> B], NEW x, NEW e \in B
  PROVE  [f EXCEPT ![x] = e] \in [A -> B]
  OBVIOUS

LEMMA ServerKeepsData ==
  ASSUME IInv, DataTypeOK, ~undefined, NEW w \in Workers, Begin(w) \/ HandlerStep(w)
  PROVE  DataTypeOK'
<1>0. pc[w] \in HasLink => Link(w) \in Calls
  BY OwnLink
<1> USE DEF DataTypeOK
<1>1. CASE \/ Begin(w) \/ Socket(w) \/ SocketFails(w) \/ ConnectFails(w)
  BY <1>1 DEF Begin, Socket, SocketFails, ConnectFails, Refuse, linkVars,
     backendVars, mainVars
<1>2. CASE Connect(w)
  <2>1. call[w] \in Calls
    BY <1>2 DEF Connect, IInv, TypeOK, ServerTypeOK
  <2>2. Serialize(Request(call[w])) \in Seq(Bytes)
    BY <2>1, RequestIsBytes, Serialized
  <2> QED
    BY <1>2, <2>2 DEF Connect
<1>3. CASE Write(w)
  <2>1. PICK k \in 1 .. Len(unsent[w]) :
          /\ up' = [up EXCEPT ![Link(w)] = @ \o SubSeq(unsent[w], 1, k)]
          /\ unsent' = [unsent EXCEPT ![w] = From(@, k + 1)]
    BY <1>3 DEF Write
  <2>2. SubSeq(unsent[w], 1, k) \in Seq(Bytes) /\ From(unsent[w], k + 1) \in Seq(Bytes)
    BY Cut
  <2>3. Link(w) \in Calls
    BY <1>0, <1>3 DEF Write, HasLink
  <2>4. up[Link(w)] \o SubSeq(unsent[w], 1, k) \in Seq(Bytes)
    BY <2>2, <2>3, ConcatProperties
  <2>5. up' \in [Calls -> Seq(Bytes)] /\ unsent' \in [Workers -> Seq(Bytes)]
    BY <2>1, <2>2, <2>4
  <2> QED
    BY <1>3, <2>5 DEF Write, backendVars, mainVars
<1>4. CASE WriteFails(w) \/ ReceiveFails(w)
  <2>1. Throw(w)
    BY <1>4 DEF WriteFails, ReceiveFails
  <2>2. /\ serverEnd' \in [Calls -> BOOLEAN] /\ length' \in [Workers -> Nat]
        /\ unsent' \in [Workers -> Seq(Bytes)] /\ line' \in [Workers -> Seq(Bytes)]
    BY <2>1, Update DEF Throw, Disconnect
  <2> QED
    BY <2>1, <2>2 DEF Throw, backendVars, mainVars
<1>5. CASE ReceiveLength(w)
  <2>1. Link(w) \in Calls /\ down[Link(w)] # <<>>
    BY <1>0, <1>5 DEF ReceiveLength, HasLink
  <2>2. Head(down[Link(w)]) \in Bytes /\ Tail(down[Link(w)]) \in Seq(Bytes)
    BY <2>1, CutHead
  <2> QED
    BY <1>5, <2>1, <2>2, SMTT(40) DEF ReceiveLength, backendVars, mainVars
<1>6. CASE DecodeLength(w)
  <2>1. LenSize >= 1 /\ LenSize \in Nat
    BY ConnectorAssumption
  <2>2. line[w][1] \in Bytes
    BY <1>6, <2>1 DEF DecodeLength
  <2>3. DecodeInt(line[w]) \in Nat
    BY <2>2 DEF DecodeInt, Bytes
  <2> QED
    BY <1>6, <2>3 DEF DecodeLength, linkVars, backendVars, mainVars
<1>7. CASE ReceiveContent(w)
  <2>1. Link(w) \in Calls
    BY <1>0, <1>7 DEF ReceiveContent, HasLink
  <2>2. PICK k \in 1 .. (length[w] - Len(line[w])) :
         /\ k <= Len(down[Link(w)])
         /\ line' = [line EXCEPT ![w] = @ \o SubSeq(down[Link(w)], 1, k)]
         /\ down' = [down EXCEPT ![Link(w)] = From(@, k + 1)]
    BY <1>7 DEF ReceiveContent
  <2>3. k \in 1 .. Len(down[Link(w)])
    BY <2>1, <2>2
  <2>4. /\ SubSeq(down[Link(w)], 1, k) \in Seq(Bytes)
        /\ From(down[Link(w)], k + 1) \in Seq(Bytes)
    BY <2>1, <2>3, Cut
  <2>5. line[w] \o SubSeq(down[Link(w)], 1, k) \in Seq(Bytes)
    BY <2>4, ConcatProperties
  <2>6. line' \in [Workers -> Seq(Bytes)] /\ down' \in [Calls -> Seq(Bytes)]
    BY <2>1, <2>2, <2>4, <2>5
  <2> QED
    BY <1>7, <2>6 DEF ReceiveContent, backendVars, mainVars
<1>8. CASE Respond(w)
  <2>1. serverEnd' \in [Calls -> BOOLEAN]
    BY <1>8, Update DEF Respond, Disconnect
  <2>2. <<>> \in Seq(Bytes) /\ line[w] \in Seq(Bytes) /\ 0 \in Nat
    OBVIOUS
  <2>3. PICK answer \in Seq(Bytes) : result' = [result EXCEPT ![w] = answer]
    BY <1>8, <2>2 DEF Respond
  <2>4. /\ line' = [line EXCEPT ![w] = <<>>] /\ length' = [length EXCEPT ![w] = 0]
        /\ UNCHANGED <<unsent, up, down, backendVars, replies>>
    BY <1>8 DEF Respond
  <2>5. result' \in [Workers -> Seq(Bytes)]
    BY <2>3, Update
  <2>6. line' \in [Workers -> Seq(Bytes)] /\ length' \in [Workers -> Nat]
    BY <2>2, <2>4, Update
  <2> QED
    BY <2>1, <2>4, <2>5, <2>6 DEF backendVars, mainVars
<1>9. CASE RespondCrashes(w)
  BY <1>9 DEF RespondCrashes, ServerGone, backendVars, mainVars
<1>10. CASE Reply(w)
  <2>1. <<>> \in Seq(Bytes) /\ result[w] \in Seq(Bytes)
    OBVIOUS
  <2>2. /\ replies' = [replies EXCEPT ![file[client[w]][2]] = result[w]]
        /\ result' = [result EXCEPT ![w] = <<>>]
    BY <1>10 DEF Reply
  <2>3. replies' \in [Calls -> Seq(Bytes)] /\ result' \in [Workers -> Seq(Bytes)]
    BY <2>1, <2>2, Update
  <2> QED
    BY <1>10, <2>3 DEF Reply, linkVars, backendVars, mainVars
<1> QED
  BY <1>1, <1>2, <1>3, <1>4, <1>5, <1>6, <1>7, <1>8, <1>9, <1>10 DEF HandlerStep

LEMMA ServerGoneKeepsData ==
  ASSUME DataTypeOK, ServerGone
  PROVE  DataTypeOK'
<1>1. /\ unsent' = [w \in Workers |-> <<>>] /\ line' = [w \in Workers |-> <<>>]
      /\ length' = [w \in Workers |-> 0] /\ result' = [w \in Workers |-> <<>>]
      /\ serverEnd' = [c \in Calls |-> FALSE]
      /\ UNCHANGED <<up, down, received, needed, message, rest, made, replies>>
  BY DEF ServerGone, backendVars, mainVars
<1>2. <<>> \in Seq(Bytes) /\ 0 \in Nat
  OBVIOUS
<1>3. /\ unsent' \in [Workers -> Seq(Bytes)] /\ line' \in [Workers -> Seq(Bytes)]
      /\ length' \in [Workers -> Nat] /\ result' \in [Workers -> Seq(Bytes)]
  BY <1>1, <1>2
<1>4. serverEnd' \in [Calls -> BOOLEAN]
  BY <1>1
<1> QED
  BY <1>1, <1>3, <1>4 DEF DataTypeOK

LEMMA BackendKeepsData ==
  ASSUME IInv, DataTypeOK, Requests, Queued, BackendStep
  PROVE  DataTypeOK'
<1>0. /\ UNCHANGED <<unsent, line, length, result, serverEnd, replies>>
      /\ cur \in Calls \/ bpc \in {"down", "accept"}
  <2>1. UNCHANGED serverVars
    BY BackendLeavesServer
  <2>2. UNCHANGED <<serverEnd, replies>>
    BY DEF BackendStep, BackendStart, BackendExit, MainStep, Accept, RecvLength,
       UnpackLength, RecvContent, StartThread, RunHandler, SendStep, SendPiece,
       EndThread, linkVars
  <2> QED
    BY <2>1, <2>2 DEF serverVars, workerVars, IInv, TypeOK, BackendTypeOK
<1>1. <<>> \in Seq(Bytes) /\ 0 \in Nat
  OBVIOUS
<1> USE DEF DataTypeOK
<1>2. CASE BackendStart \/ Accept
  BY <1>0, <1>2 DEF BackendStart, Accept, linkVars
<1>3. CASE BackendExit
  BY <1>0, <1>1, <1>3 DEF BackendExit
<1>4. CASE RecvLength
  <2>1. Head(up[cur]) \in Bytes /\ Tail(up[cur]) \in Seq(Bytes)
    BY <1>0, <1>4, CutHead DEF RecvLength
  <2> QED
    BY <1>0, <1>4, <2>1 DEF RecvLength
<1>5. CASE UnpackLength
  <2>1. LenSize >= 1 /\ LenSize \in Nat
    BY ConnectorAssumption
  <2>2. received[1] \in Bytes
    BY <1>5, <2>1 DEF UnpackLength
  <2>3. DecodeInt(received) \in Nat
    BY <2>2 DEF DecodeInt, Bytes
  <2> QED
    BY <1>0, <1>1, <1>5, <2>3 DEF UnpackLength, linkVars
<1>6. CASE RecvContent
  <2>1. PICK k \in 1 .. (needed - Len(received)) :
          /\ k <= Len(up[cur])
          /\ received' = received \o SubSeq(up[cur], 1, k)
          /\ up' = [up EXCEPT ![cur] = From(@, k + 1)]
    BY <1>6 DEF RecvContent
  <2>2. cur \in Calls /\ k \in 1 .. Len(up[cur])
    BY <1>0, <1>6, <2>1 DEF RecvContent
  <2>3. SubSeq(up[cur], 1, k) \in Seq(Bytes) /\ From(up[cur], k + 1) \in Seq(Bytes)
    BY <2>2, Cut
  <2>4. received' \in Seq(Bytes) /\ up' \in [Calls -> Seq(Bytes)]
    BY <2>1, <2>3, ConcatProperties
  <2> QED
    BY <1>0, <1>6, <2>4 DEF RecvContent
<1>7. CASE StartThread
  BY <1>0, <1>1, <1>7 DEF StartThread, linkVars
<1>8. ASSUME NEW c \in Calls, RunHandler(c)
      PROVE  DataTypeOK'
  <2>1. message[c] = Request(c)
    BY <1>8 DEF RunHandler, Requests
  <2>2. Asked(message[c]) = c
    BY <2>1 DEF Asked, Request
  <2>3. PICK keys \in Answers : made' = [made EXCEPT ![c] = Answer(c, keys)]
    BY <1>8, <2>2 DEF RunHandler
  <2>4. Answer(c, keys) \in Seq(Bytes)
    BY AnswerIsBytes
  <2>5. made' \in [Calls -> Seq(Bytes)]
    BY <2>3, <2>4, Update
  <2>6. Serialize(made'[c]) \in Seq(Bytes)
    BY <2>5, Serialized
  <2>7. /\ rest' = [rest EXCEPT ![c] = Serialize(made'[c])]
        /\ message' = [message EXCEPT ![c] = <<>>]
        /\ UNCHANGED <<up, down, received, needed>>
    BY <1>8 DEF RunHandler, linkVars, mainVars
  <2>8. rest' \in [Calls -> Seq(Bytes)] /\ message' \in [Calls -> Seq(Bytes)]
    BY <1>1, <2>6, <2>7, Update
  <2> QED
    BY <1>0, <2>5, <2>7, <2>8
<1>9. ASSUME NEW c \in Calls, SendPiece(c)
      PROVE  DataTypeOK'
  <2>1. PICK k \in 1 .. Len(rest[c]) :
          /\ down' = [down EXCEPT ![c] = @ \o SubSeq(rest[c], 1, k)]
          /\ rest' = [rest EXCEPT ![c] = From(@, k + 1)]
    BY <1>9 DEF SendPiece
  <2>2. SubSeq(rest[c], 1, k) \in Seq(Bytes) /\ From(rest[c], k + 1) \in Seq(Bytes)
    BY Cut
  <2>3. down[c] \o SubSeq(rest[c], 1, k) \in Seq(Bytes)
    BY <2>2, ConcatProperties
  <2>4. down' \in [Calls -> Seq(Bytes)] /\ rest' \in [Calls -> Seq(Bytes)]
    BY <2>1, <2>2, <2>3
  <2> QED
    BY <1>0, <1>9, <2>4 DEF SendPiece, mainVars
<1>10. ASSUME NEW c \in Calls, EndThread(c)
       PROVE  DataTypeOK'
  BY <1>0, <1>1, <1>10 DEF EndThread, mainVars
<1> QED
  BY <1>2, <1>3, <1>4, <1>5, <1>6, <1>7, <1>8, <1>9, <1>10
     DEF BackendStep, MainStep, SendStep

-----------------------------------------------------------------------------
(* Calls *)

\* What the invariant says about the calls of workers follows from this.
LEMMA CallsAreNumbered ==
  ASSUME IInv, NEW w \in Workers
  PROVE  /\ call[w] \in Int /\ calls \in Int /\ call[w] <= calls
         /\ pc[w] # "idle" => call[w] \in Calls
  BY ConnectorAssumption
     DEF IInv, TypeOK, ServerTypeOK, Numbered, Calls

LEMMA OneWorkerPerCallInductive ==
  ASSUME IInv, OneWorkerPerCall, [Next]_vars
  PROVE  OneWorkerPerCall'
<1> USE DEF OneWorkerPerCall
<1>1. ASSUME NEW w \in Workers, Begin(w)
      PROVE  OneWorkerPerCall'
  <2>1. /\ call' = [call EXCEPT ![w] = calls + 1]
        /\ pc' = [pc EXCEPT ![w] = "socket"]
    BY <1>1 DEF Begin
  <2>2. \A v \in Workers : call[v] # calls + 1
    BY CallsAreNumbered
  <2>3. call \in [Workers -> Calls \cup {0}] /\ DOMAIN pc = Workers
    BY DEF IInv, TypeOK, ServerTypeOK
  <2> QED
    BY <2>1, <2>2, <2>3
<1>2. ASSUME NEW w \in Workers, HandlerStep(w), ~RespondCrashes(w)
      PROVE  OneWorkerPerCall'
  <2>1. DOMAIN pc = Workers
    BY DEF IInv, TypeOK, ServerTypeOK
  <2>2. call' = call /\ \A v \in Workers \ {w} : pc'[v] = pc[v]
    BY <1>2, <2>1 DEF HandlerStep, Socket, SocketFails, ConnectFails, Connect,
       Refuse, Write, WriteFails, Throw, ReceiveLength, DecodeLength,
       ReceiveContent, ReceiveFails, Respond, Reply
  <2>3. pc[w] # "idle"
    BY <1>2 DEF HandlerStep, Socket, SocketFails, ConnectFails, Connect,
       Write, WriteFails, ReceiveLength, DecodeLength, ReceiveContent,
       ReceiveFails, Receiving, Respond, Parsed, Reply
  <2> QED
    BY <2>2, <2>3
<1>3. CASE ServerGone
  BY <1>3 DEF ServerGone
<1>4. CASE BackendStep \/ UNCHANGED vars
  <2>1. UNCHANGED serverVars
    BY <1>4, BackendLeavesServer DEF vars
  <2> QED
    BY <2>1 DEF serverVars, workerVars
<1> QED
  BY <1>1, <1>2, <1>3, <1>4 DEF Next, WorkerStep, BackendStep, ServerExit, RespondCrashes

\* A worker that has a link has a call with a link.
LEMMA LinkedCall ==
  ASSUME IInv, OneWorkerPerCall, NEW w \in Workers, pc[w] \notin {"idle", "socket", "connect"}
  PROVE  ~Unlinked(call[w])
<1>1. call[w] <= calls /\ ~(call[w] > calls)
  BY CallsAreNumbered
<1>2. ASSUME NEW v \in Workers, call[v] = call[w], pc[v] \in {"socket", "connect"}
      PROVE  FALSE
  BY <1>2 DEF OneWorkerPerCall
<1> QED
  BY <1>1, <1>2 DEF Unlinked

-----------------------------------------------------------------------------
(* What the steps do to the messages *)

Flows == Unused /\ Queued /\ Requests /\ Places /\ Replies

\* A worker begins, or goes on without a link.
LEMMA AsideKeepsFlows ==
  ASSUME BytesInv, NEW w \in Workers, NEW l \in {"socket", "connect", "reply"},
         pc[w] \in {"idle", "socket", "connect"},
         pc' = [pc EXCEPT ![w] = l],
         \/ pc[w] # "idle" /\ UNCHANGED <<call, calls>>
         \/ call' = [call EXCEPT ![w] = calls + 1] /\ calls' = calls + 1,
         UNCHANGED <<unsent, line, length, result, exits, linkVars, backendVars, replies>>
  PROVE  Flows'
<1>1. DOMAIN pc = Workers /\ DOMAIN call = Workers
  BY DEF BytesInv, IInv, TypeOK, ServerTypeOK
<1>2. /\ \A v \in Workers : v # w => pc'[v] = pc[v] /\ call'[v] = call[v]
      /\ pc'[w] = l
  BY <1>1
<1>3. pc[w] \notin HasLink /\ pc'[w] \notin HasLink
  BY <1>2 DEF HasLink
<1>4. UNCHANGED <<up, down, serverEnd, backendEnd, bpc, backlog, cur, received,
                  needed, thread, message, rest, made, replies>>
  BY DEF linkVars, backendVars, mainVars
<1>5. \A c : (Waiting(c)' <=> Waiting(c)) /\ (Open(c)' <=> Open(c))
  BY <1>4 DEF Waiting, Open
<1>6. Unused'
  <2>1. ASSUME NEW c \in Calls, Unlinked(c)'
        PROVE  Unlinked(c)
    <3>1. calls \in Int /\ c \in Int
      BY CallsAreNumbered DEF BytesInv, Calls
    <3> QED
      BY <1>1, <1>2, <2>1, <3>1 DEF Unlinked
  <2> QED
    BY <1>4, <1>5, <2>1 DEF BytesInv, Unused
<1>7. Queued'
  BY <1>4, <1>5 DEF BytesInv, Queued
<1>8. Requests'
  <2>1. ASSUME NEW c \in Calls, Arrives(c)
        PROVE  Arrives(c)'
    <3>1. PICK more \in Seq(Bytes) :
            Got(c) \o (up[c] \o more) = Whole(c) /\ Missing(c, more)
      BY <2>1 DEF Arrives
    <3>2. Got(c)' = Got(c) /\ Whole(c)' = Whole(c)
      BY <1>4 DEF Got, Whole
    <3>3. \A v \in Workers : pc'[v] \in HasLink \/ pc[v] \in HasLink => v # w
      BY <1>3
    <3>4. Missing(c, more)'
      BY <1>2, <3>1, <3>3 DEF Missing
    <3> QED
      BY <1>4, <3>1, <3>2, <3>4 DEF Arrives
  <2> QED
    BY <1>4, <1>5, <2>1 DEF BytesInv, Requests
<1>9. /\ unsent[w] = <<>> /\ line[w] = <<>> /\ result[w] = <<>>
  BY DEF BytesInv, Places
<1>10. Places'
  BY <1>2, <1>3, <1>4, <1>9 DEF BytesInv, Places, HasLink
<1>11. Replies'
  <2>1. ASSUME NEW v \in Workers, pc'[v] \in HasLink
        PROVE  v # w /\ (Comes(v)' <=> Comes(v))
    BY <1>2, <1>3, <1>4, <2>1 DEF Comes, Expected
  <2> QED
    BY <1>2, <1>3, <1>4, <1>5, <1>9, <2>1 DEF BytesInv, Replies
<1> QED
  BY <1>6, <1>7, <1>8, <1>10, <1>11 DEF Flows

\* A new link: nothing has been on it, and the whole request is still to go.
LEMMA ConnectKeepsFlows ==
  ASSUME BytesInv, NEW w \in Workers, Connect(w)
  PROVE  Flows'
<1>0. PICK c0 \in Calls : call[w] = c0
  BY CallsAreNumbered DEF BytesInv, Connect
<1>1. /\ pc[w] = "connect" /\ call[w] = c0
      /\ DOMAIN pc = Workers /\ backlog \in Seq(Calls)
  BY <1>0 DEF BytesInv, Connect, IInv, TypeOK, ServerTypeOK, BackendTypeOK
<1>2. /\ \A v \in Workers : v # w => pc'[v] = pc[v] /\ unsent'[v] = unsent[v]
      /\ pc'[w] = "send" /\ unsent'[w] = Serialize(Request(c0))
      /\ backlog' = Append(backlog, c0)
      /\ \A c \in Calls : c # c0 => /\ backendEnd'[c] = backendEnd[c]
                                    /\ serverEnd'[c] = serverEnd[c]
      /\ backendEnd'[c0] = TRUE /\ serverEnd'[c0] = TRUE
      /\ UNCHANGED <<call, line, length, result, exits, calls, up, down, bpc, cur,
                     received, needed, thread, message, rest, made, replies>>
  BY <1>1 DEF Connect, BytesInv, DataTypeOK, IInv, TypeOK, BackendTypeOK
<1>3. \A v \in Workers : pc[v] # "idle" /\ call[v] = c0 => v = w
  BY <1>1 DEF BytesInv, OneWorkerPerCall
<1>4. /\ up[c0] = <<>> /\ down[c0] = <<>> /\ made[c0] = <<>> /\ replies[c0] = <<>>
      /\ ~Waiting(c0) /\ thread[c0] = "none"
  <2>1. Unlinked(c0)
    BY <1>1 DEF Unlinked
  <2> QED
    BY <1>1, <2>1 DEF BytesInv, Unused
<1>5. /\ Len(backlog') = Len(backlog) + 1 /\ Len(backlog) \in Nat
      /\ \A i \in 1 .. Len(backlog) : backlog'[i] = backlog[i]
      /\ backlog'[Len(backlog) + 1] = c0
  BY <1>1, <1>2
<1>6. \A c : Waiting(c)' <=> Waiting(c) \/ c = c0
  BY <1>2, <1>5 DEF Waiting
<1>7. Unused'
  <2>1. ASSUME NEW c \in Calls, Unlinked(c)'
        PROVE  Unlinked(c) /\ c # c0
    <3>1. ~(c0 > calls)
      BY <1>1, CallsAreNumbered DEF BytesInv
    <3> QED
      BY <1>1, <1>2, <1>3, <2>1, <3>1 DEF Unlinked
  <2> QED
    BY <1>2, <1>6, <2>1 DEF BytesInv, Unused
<1>8. Queued'
  <2>1. /\ \A i, j \in 1 .. Len(backlog) : backlog[i] = backlog[j] => i = j
        /\ \A i \in 1 .. Len(backlog) : backlog[i] # cur
        /\ \A c \in Calls : Waiting(c) => thread[c] = "none" /\ backendEnd[c]
    BY DEF BytesInv, Queued
  <2>2. c0 # cur /\ \A i \in 1 .. Len(backlog) : backlog[i] # c0
    BY <1>4 DEF Waiting
  <2>3. \A i, j \in 1 .. Len(backlog') : backlog'[i] = backlog'[j] => i = j
    BY <1>5, <2>1, <2>2
  <2>4. \A i \in 1 .. Len(backlog') : backlog'[i] # cur'
    BY <1>2, <1>5, <2>1, <2>2
  <2>5. \A c \in Calls : Waiting(c)' => thread'[c] = "none" /\ backendEnd'[c]
    BY <1>2, <1>4, <1>6, <2>1
  <2> QED
    BY <2>3, <2>4, <2>5 DEF Queued
<1>9. Requests'
  <2>1. Arrives(c0)'
    <3> DEFINE whole == Serialize(Request(c0))
    <3>1. whole \in Seq(Bytes)
      BY <1>1, RequestIsBytes, Serialized
    <3>2. Got(c0)' = <<>> /\ Whole(c0)' = whole
      BY <1>2, <1>4 DEF Got, Whole, Waiting
    <3>3. up'[c0] = <<>>
      BY <1>2, <1>4
    <3>4. Missing(c0, whole)'
      BY <1>1, <1>2, <1>3 DEF Missing, HasLink
    <3>5. <<>> \o (<<>> \o whole) = whole
      BY <3>1, ConcatEmptySeq
    <3> QED
      BY <3>1, <3>2, <3>3, <3>4, <3>5 DEF Arrives
  <2>2. ASSUME NEW c \in Calls, c # c0, Arrives(c)
        PROVE  Arrives(c)'
    <3>1. PICK more \in Seq(Bytes) :
            Got(c) \o (up[c] \o more) = Whole(c) /\ Missing(c, more)
      BY <2>2 DEF Arrives
    <3>2. Got(c)' = Got(c) /\ Whole(c)' = Whole(c) /\ up'[c] = up[c]
      BY <1>2 DEF Got, Whole
    <3>3. Missing(c, more)'
      BY <1>1, <1>2, <2>2, <3>1 DEF Missing
    <3> QED
      BY <3>1, <3>2, <3>3 DEF Arrives
  <2> QED
    BY <1>2, <1>6, <2>1, <2>2 DEF BytesInv, Requests
<1>10. line[w] = <<>> /\ result[w] = <<>>
  BY <1>1 DEF BytesInv, Places
<1>11. Places'
  <2> SUFFICES ASSUME NEW v \in Workers
               PROVE  /\ pc'[v] \in HasLink => serverEnd'[call[v]]
                      /\ pc'[v] # "send" => unsent'[v] = <<>>
                      /\ pc'[v] \notin {"length", "content"} => line[v] = <<>>
                      /\ pc'[v] # "reply" => result[v] = <<>>
                      /\ pc'[v] = "length" => Len(line[v]) <= LenSize
                      /\ pc'[v] = "content" => length[v] = Len(made[call[v]])
    BY <1>2 DEF Places
  <2>1. CASE v = w
    BY <1>1, <1>2, <1>10, <2>1
  <2>2. CASE v # w
    <3>1. pc'[v] = pc[v] /\ unsent'[v] = unsent[v]
      BY <1>2, <2>2
    <3>2. pc[v] \in HasLink => serverEnd'[call[v]]
      <4>1. pc[v] \in HasLink => call[v] \in Calls /\ serverEnd[call[v]]
        BY CallsAreNumbered DEF BytesInv, Places, HasLink
      <4> QED
        BY <1>2, <4>1
    <3> QED
      BY <3>1, <3>2 DEF BytesInv, Places
  <2> QED
    BY <2>1, <2>2
<1>12. Replies'
  <2>1. Comes(w)'
    <3>0. <<>> \in Seq(Bytes)
      OBVIOUS
    <3>1. Serialize(<<>>) \in Seq(Bytes)
      BY <3>0, Serialized
    <3>2. <<>> \o (<<>> \o Serialize(<<>>)) = Serialize(<<>>)
      BY <3>1, ConcatEmptySeq
    <3>3. /\ line'[w] = <<>> /\ down'[call'[w]] = <<>> /\ thread'[call'[w]] = "none"
          /\ Expected(w)' = Serialize(<<>>)
      BY <1>1, <1>2, <1>4, <1>10 DEF Expected
    <3> QED
      BY <3>1, <3>2, <3>3 DEF Comes
  <2>2. ASSUME NEW v \in Workers, v # w, pc'[v] \in HasLink
        PROVE  call[v] # c0 /\ (Comes(v)' <=> Comes(v))
    BY <1>2, <1>3, <2>2 DEF Comes, Expected, HasLink
  <2>3. \A c : c # c0 => (Open(c)' <=> Open(c))
    BY <1>2, <1>6 DEF Open
  <2>4. \A v \in Workers : result[v] # <<>> => call[v] # c0
    <3>1. \A v \in Workers : result[v] # <<>> => pc[v] = "reply" /\ v # w
      BY <1>10 DEF BytesInv, Places
    <3> QED
      BY <1>3, <3>1
  <2> QED
    BY <1>1, <1>2, <1>4, <1>10, <2>1, <2>2, <2>3, <2>4 DEF BytesInv, Replies
<1> QED
  BY <1>7, <1>8, <1>9, <1>11, <1>12 DEF Flows

\* A piece of the request goes from the worker to the link.
LEMMA WriteKeepsFlows ==
  ASSUME BytesInv, ~undefined, NEW w \in Workers, Write(w)
  PROVE  Flows'
<1>0. pc[w] \in HasLink
  BY DEF Write, HasLink
<1>1. PICK c0 \in Calls : call[w] = c0 /\ Link(w) = c0
  BY <1>0, OwnLink DEF BytesInv
<1>2. unsent[w] \in Seq(Bytes) /\ up[c0] \in Seq(Bytes) /\ DOMAIN up = Calls
  BY DEF BytesInv, DataTypeOK
<1>3. PICK X \in Seq(Bytes), Y \in Seq(Bytes) :
        /\ X \o Y = unsent[w]
        /\ up' = [up EXCEPT ![c0] = @ \o X]
        /\ unsent' = [unsent EXCEPT ![w] = Y]
        /\ \/ pc' = [pc EXCEPT ![w] = "send"]
           \/ pc' = [pc EXCEPT ![w] = "length"] /\ Y = <<>>
  <2>1. PICK k \in 1 .. Len(unsent[w]) :
          /\ up' = [up EXCEPT ![c0] = @ \o SubSeq(unsent[w], 1, k)]
          /\ unsent' = [unsent EXCEPT ![w] = From(@, k + 1)]
          /\ pc' = [pc EXCEPT ![w] = IF k = Len(unsent[w]) THEN "length" ELSE "send"]
    BY <1>1 DEF Write
  <2>2. /\ SubSeq(unsent[w], 1, k) \in Seq(Bytes) /\ From(unsent[w], k + 1) \in Seq(Bytes)
        /\ SubSeq(unsent[w], 1, k) \o From(unsent[w], k + 1) = unsent[w]
        /\ k = Len(unsent[w]) => From(unsent[w], k + 1) = <<>>
    BY <1>2, Cut
  <2>3. unsent' = [unsent EXCEPT ![w] = From(unsent[w], k + 1)]
    BY <2>1
  <2> QED
    BY <2>1, <2>2, <2>3
<1>5. /\ \A v \in Workers : v # w => pc'[v] = pc[v] /\ unsent'[v] = unsent[v]
      /\ pc[w] = "send" /\ pc'[w] \in {"send", "length"} /\ unsent'[w] = Y
      /\ pc'[w] = "length" => Y = <<>>
      /\ up'[c0] = up[c0] \o X
      /\ \A c \in Calls : c # c0 => up'[c] = up[c]
      /\ UNCHANGED <<call, line, length, result, exits, calls, down, serverEnd,
                     backendEnd, bpc, backlog, cur, received, needed, thread,
                     message, rest, made, replies>>
  BY <1>2, <1>3, ZenonT(40)
     DEF Write, BytesInv, DataTypeOK, IInv, TypeOK, ServerTypeOK, backendVars, mainVars
<1>6. \A c : (Waiting(c)' <=> Waiting(c)) /\ (Open(c)' <=> Open(c))
  BY <1>5 DEF Waiting, Open
<1>7. \A v \in Workers : pc[v] # "idle" /\ call[v] = c0 => v = w
  BY <1>1, <1>5 DEF BytesInv, OneWorkerPerCall
<1>8. Unused'
  <2>1. ~Unlinked(c0)
    BY <1>1, <1>5, LinkedCall DEF BytesInv
  <2>2. \A c \in Calls : Unlinked(c)' => Unlinked(c)
    BY <1>5 DEF Unlinked
  <2> QED
    BY <1>5, <1>6, <2>1, <2>2 DEF BytesInv, Unused
<1>9. Queued'
  BY <1>5, <1>6 DEF BytesInv, Queued
<1>10. Requests'
  <2>1. ASSUME Arrives(c0)
        PROVE  Arrives(c0)'
    <3>1. PICK more \in Seq(Bytes) :
            Got(c0) \o (up[c0] \o more) = Whole(c0) /\ Missing(c0, more)
      BY <2>1 DEF Arrives
    <3>2. more = X \o Y
      BY <1>0, <1>1, <1>3, <3>1 DEF Missing
    <3>3. Got(c0) \in Seq(Bytes)
      BY DEF Got, BytesInv, DataTypeOK
    <3>4. Got(c0) \o ((up[c0] \o X) \o Y) = Whole(c0)
      <4>1. (up[c0] \o X) \o Y = up[c0] \o (X \o Y)
        <5>1. Assoc(up[c0], X, Y)
          BY <1>2, Associative
        <5> QED
          BY <5>1, Zenon DEF Assoc
      <4> QED
        BY <3>1, <3>2, <4>1
    <3>5. Got(c0)' = Got(c0) /\ Whole(c0)' = Whole(c0)
      BY <1>5 DEF Got, Whole
    <3>6. Missing(c0, Y)'
      <4>1. pc'[w] \in HasLink /\ call'[w] = c0
        BY <1>1, <1>5 DEF HasLink
      <4>2. \A v \in Workers : call'[v] = c0 /\ pc'[v] \in HasLink => v = w
        BY <1>5, <1>7 DEF HasLink
      <4> QED
        BY <1>5, <4>1, <4>2 DEF Missing
    <3>7. Got(c0)' \o (up'[c0] \o Y) = Whole(c0)'
      BY <1>5, <3>4, <3>5
    <3> QED
      BY <3>6, <3>7 DEF Arrives
  <2>2. ASSUME NEW c \in Calls, c # c0, Arrives(c)
        PROVE  Arrives(c)'
    <3>1. PICK more \in Seq(Bytes) :
            Got(c) \o (up[c] \o more) = Whole(c) /\ Missing(c, more)
      BY <2>2 DEF Arrives
    <3>2. Got(c)' = Got(c) /\ Whole(c)' = Whole(c) /\ up'[c] = up[c]
      BY <1>5, <2>2 DEF Got, Whole
    <3>3. Missing(c, more)'
      BY <1>1, <1>5, <2>2, <3>1 DEF Missing
    <3> QED
      BY <3>1, <3>2, <3>3 DEF Arrives
  <2> QED
    BY <1>5, <1>6, <2>1, <2>2 DEF BytesInv, Requests
<1>11. Places'
  <2>1. line[w] = <<>> /\ result[w] = <<>> /\ serverEnd[call[w]]
    BY <1>0, <1>5 DEF BytesInv, Places
  <2>2. Len(<<>>) <= LenSize
    BY ConnectorAssumption
  <2> QED
    BY <1>5, <2>1, <2>2 DEF BytesInv, Places, HasLink
<1>12. Replies'
  <2>1. \A v \in Workers : /\ Comes(v)' <=> Comes(v)
                           /\ pc'[v] \in HasLink <=> pc[v] \in HasLink
                           /\ pc'[v] = "content" <=> pc[v] = "content"
    BY <1>0, <1>5 DEF Comes, Expected, HasLink
  <2> QED
    BY <1>5, <1>6, <2>1 DEF BytesInv, Replies
<1> QED
  BY <1>8, <1>9, <1>10, <1>11, <1>12 DEF Flows

\* A worker gives its link up, when all of the request is on its way or nobody
\* waits for it.
LEMMA LeaveKeepsFlows ==
  ASSUME BytesInv, NEW w \in Workers, pc[w] \in HasLink,
         unsent[w] = <<>> \/ ~Waiting(call[w]),
         NEW answer \in Seq(Bytes),
         answer # <<>> => answer = made[call[w]] /\ ~Open(call[w]),
         pc' = [pc EXCEPT ![w] = "reply"],
         unsent' = [unsent EXCEPT ![w] = <<>>], line' = [line EXCEPT ![w] = <<>>],
         length' = [length EXCEPT ![w] = 0], result' = [result EXCEPT ![w] = answer],
         serverEnd' = [serverEnd EXCEPT ![call[w]] = FALSE],
         UNCHANGED <<call, exits, calls, up, down, backendEnd, backendVars, replies>>
  PROVE  Flows'
<1>1. PICK c0 \in Calls : call[w] = c0
  BY CallsAreNumbered DEF BytesInv, HasLink
<1>2. /\ \A v \in Workers : v # w =>
           /\ pc'[v] = pc[v] /\ unsent'[v] = unsent[v] /\ line'[v] = line[v]
           /\ length'[v] = length[v] /\ result'[v] = result[v]
      /\ pc'[w] = "reply" /\ unsent'[w] = <<>> /\ line'[w] = <<>> /\ result'[w] = answer
      /\ \A c \in Calls : c # c0 => serverEnd'[c] = serverEnd[c]
      /\ UNCHANGED <<call, exits, calls, up, down, backendEnd, bpc, backlog, cur,
                     received, needed, thread, message, rest, made, replies>>
  BY <1>1 DEF BytesInv, DataTypeOK, IInv, TypeOK, ServerTypeOK, backendVars, mainVars
<1>3. \A v \in Workers : pc[v] # "idle" /\ call[v] = c0 => v = w
  BY <1>1 DEF BytesInv, OneWorkerPerCall, HasLink
<1>4. \A c : (Waiting(c)' <=> Waiting(c)) /\ (Open(c)' <=> Open(c))
  BY <1>2 DEF Waiting, Open
<1>5. Unused'
  <2>1. \A c \in Calls : Unlinked(c)' => Unlinked(c)
    BY <1>2 DEF Unlinked
  <2> QED
    BY <1>2, <1>4, <2>1 DEF BytesInv, Unused
<1>6. Queued'
  BY <1>2, <1>4 DEF BytesInv, Queued
<1>7. Requests'
  <2>1. ASSUME NEW c \in Calls, Waiting(c), Arrives(c)
        PROVE  Arrives(c)'
    <3>1. PICK more \in Seq(Bytes) :
            Got(c) \o (up[c] \o more) = Whole(c) /\ Missing(c, more)
      BY <2>1 DEF Arrives
    <3>2. Got(c)' = Got(c) /\ Whole(c)' = Whole(c) /\ up'[c] = up[c]
      BY <1>2 DEF Got, Whole
    <3>3. Missing(c, more)'
      <4>1. CASE c = c0
        <5>1. more = <<>>
          BY <1>1, <2>1, <3>1, <4>1 DEF Missing
        <5>2. \A v \in Workers : call'[v] = c => pc'[v] \notin HasLink
          BY <1>2, <1>3, <4>1 DEF HasLink
        <5> QED
          BY <5>1, <5>2 DEF Missing
      <4>2. CASE c # c0
        BY <1>1, <1>2, <3>1, <4>2 DEF Missing
      <4> QED
        BY <4>1, <4>2
    <3> QED
      BY <3>1, <3>2, <3>3 DEF Arrives
  <2> QED
    BY <1>2, <1>4, <2>1 DEF BytesInv, Requests
<1>8. Places'
  <2>1. ASSUME NEW v \in Workers, v # w, pc[v] \in HasLink
        PROVE  serverEnd'[call[v]]
    <3>1. call[v] # c0 /\ call[v] \in Calls
      BY <1>3, <2>1, CallsAreNumbered DEF BytesInv, HasLink
    <3> QED
      BY <1>2, <2>1, <3>1 DEF BytesInv, Places
  <2> QED
    BY <1>2, <2>1 DEF BytesInv, Places, HasLink
<1>9. Replies'
  <2>1. ASSUME NEW v \in Workers, pc'[v] \in HasLink
        PROVE  v # w /\ (Comes(v)' <=> Comes(v))
    <3>1. v # w
      BY <1>2, <2>1 DEF HasLink
    <3>2. /\ pc'[v] = pc[v] /\ line'[v] = line[v]
          /\ UNCHANGED <<call, down, made, thread, rest>>
      BY <1>2, <3>1
    <3>3. Expected(v)' = Expected(v)
      BY <3>2 DEF Expected
    <3>4. Comes(v)' <=> Comes(v)
      BY <3>2, <3>3 DEF Comes
    <3> QED
      BY <3>1, <3>4
  <2> QED
    BY <1>1, <1>2, <1>4, <2>1 DEF BytesInv, Replies
<1> QED
  BY <1>5, <1>6, <1>7, <1>8, <1>9 DEF Flows

LEMMA ThrowKeepsFlows ==
  ASSUME BytesInv, ~undefined, NEW w \in Workers, WriteFails(w) \/ ReceiveFails(w)
  PROVE  Flows'
<1>1. /\ pc[w] \in HasLink /\ Throw(w) /\ ~backendEnd[Link(w)]
  BY DEF WriteFails, ReceiveFails, Receiving, HasLink
<1>2. Link(w) = call[w] /\ call[w] \in Calls
  BY <1>1, OwnLink DEF BytesInv
<1>3. ~Waiting(call[w])
  BY <1>1, <1>2 DEF BytesInv, Queued
<1>4. <<>> \in Seq(Bytes)
  OBVIOUS
<1>5. result' = [result EXCEPT ![w] = <<>>]
  <2>1. result[w] = <<>> /\ result \in [Workers -> Seq(Bytes)]
    BY <1>1 DEF BytesInv, Places, DataTypeOK, HasLink
  <2>2. result' = result
    BY <1>1 DEF Throw
  <2> QED
    BY <2>1, <2>2
<1>6. /\ pc' = [pc EXCEPT ![w] = "reply"]
      /\ unsent' = [unsent EXCEPT ![w] = <<>>] /\ line' = [line EXCEPT ![w] = <<>>]
      /\ length' = [length EXCEPT ![w] = 0]
      /\ serverEnd' = [serverEnd EXCEPT ![call[w]] = FALSE]
      /\ UNCHANGED <<call, exits, calls, up, down, backendEnd, backendVars, replies>>
  BY <1>1, <1>2 DEF Throw, Disconnect
<1> QED
  BY <1>1, <1>3, <1>4, <1>5, <1>6, LeaveKeepsFlows

\* The answer that is parsed is all of the one that was made.
LEMMA RespondKeepsFlows ==
  ASSUME BytesInv, ~undefined, NEW w \in Workers, Respond(w)
  PROVE  Flows'
<1>1. pc[w] = "content" /\ pc[w] \in HasLink /\ Len(line[w]) >= length[w]
  BY DEF Respond, Parsed, HasLink
<1>2. Link(w) = call[w] /\ call[w] \in Calls
  BY <1>1, OwnLink DEF BytesInv
<1>3. /\ length[w] = Len(made[call[w]]) /\ unsent[w] = <<>>
      /\ Comes(w) /\ ~Open(call[w])
  BY <1>1 DEF BytesInv, Places, Replies
<1>4. line[w] = made[call[w]]
  <2>1. PICK more \in Seq(Bytes) : line[w] \o (down[call[w]] \o more) = made[call[w]]
    BY <1>1, <1>3 DEF Comes, Expected
  <2>2. /\ line[w] \in Seq(Bytes) /\ made[call[w]] \in Seq(Bytes)
        /\ down[call[w]] \in Seq(Bytes)
    BY <1>2 DEF BytesInv, DataTypeOK
  <2>3. down[call[w]] \o more \in Seq(Bytes)
    BY <2>2, ConcatProperties
  <2> QED
    BY <1>1, <1>3, <2>1, <2>2, <2>3, NothingMissing
<1>5. PICK answer \in {<<>>, line[w]} : result' = [result EXCEPT ![w] = answer]
  BY DEF Respond
<1>6. answer \in Seq(Bytes) /\ (answer # <<>> => answer = made[call[w]])
  <2>1. line[w] \in Seq(Bytes) /\ <<>> \in Seq(Bytes)
    BY DEF BytesInv, DataTypeOK
  <2> QED
    BY <1>4, <1>5, <2>1
<1>7. unsent' = [unsent EXCEPT ![w] = <<>>]
  <2>1. unsent' = unsent /\ unsent \in [Workers -> Seq(Bytes)]
    BY DEF Respond, BytesInv, DataTypeOK
  <2> QED
    BY <1>3, <2>1
<1>8. /\ pc' = [pc EXCEPT ![w] = "reply"]
      /\ line' = [line EXCEPT ![w] = <<>>] /\ length' = [length EXCEPT ![w] = 0]
      /\ serverEnd' = [serverEnd EXCEPT ![call[w]] = FALSE]
      /\ UNCHANGED <<call, exits, calls, up, down, backendEnd, backendVars, replies>>
  BY <1>2 DEF Respond, Disconnect
<1> QED
  BY <1>1, <1>3, <1>5, <1>6, <1>7, <1>8, LeaveKeepsFlows

\* The client gets what the worker has, and the worker forgets it.
LEMMA ReplyKeepsFlows ==
  ASSUME BytesInv, ~undefined, NEW w \in Workers, Reply(w)
  PROVE  Flows'
<1>1. PICK c0 \in Calls : call[w] = c0
  BY CallsAreNumbered DEF BytesInv, Reply
<1>2. file[client[w]][2] = c0
  <2>1. file[client[w]] = <<"client", c0>>
    BY <1>1 DEF Reply, BytesInv, IInv, OneOwner, StandsForItsOwn
  <2> QED
    BY <2>1
<1>3. /\ replies' = [replies EXCEPT ![c0] = result[w]]
      /\ pc' = [pc EXCEPT ![w] = "idle"]
      /\ result' = [result EXCEPT ![w] = <<>>]
  BY <1>2 DEF Reply
<1>4. /\ DOMAIN pc = Workers /\ DOMAIN result = Workers /\ DOMAIN replies = Calls
      /\ pc[w] = "reply"
  BY DEF Reply, BytesInv, IInv, TypeOK, ServerTypeOK, DataTypeOK
<1>5. /\ \A v \in Workers : v # w => pc'[v] = pc[v] /\ result'[v] = result[v]
      /\ pc'[w] = "idle" /\ result'[w] = <<>>
      /\ \A c \in Calls : c # c0 => replies'[c] = replies[c]
      /\ replies'[c0] = result[w]
      /\ UNCHANGED <<call, unsent, line, length, exits, calls, up, down, serverEnd,
                     backendEnd, bpc, backlog, cur, received, needed, thread,
                     message, rest, made>>
  BY <1>3, <1>4 DEF Reply, linkVars, backendVars, mainVars
<1>6. \A c : (Waiting(c)' <=> Waiting(c)) /\ (Open(c)' <=> Open(c))
  BY <1>5 DEF Waiting, Open
<1>7. \A v \in Workers : pc'[v] \in HasLink <=> pc[v] \in HasLink
  BY <1>4, <1>5 DEF HasLink
<1>8. Unused'
  <2>1. ~Unlinked(c0)
    BY <1>1, <1>4, LinkedCall DEF BytesInv
  <2>2. \A c \in Calls : Unlinked(c)' => Unlinked(c)
    BY <1>5 DEF Unlinked
  <2> QED
    BY <1>5, <1>6, <2>1, <2>2 DEF BytesInv, Unused
<1>9. Queued'
  BY <1>5, <1>6 DEF BytesInv, Queued
<1>10. Requests'
  <2>1. ASSUME NEW c \in Calls, Arrives(c)
        PROVE  Arrives(c)'
    <3>1. PICK more \in Seq(Bytes) :
            Got(c) \o (up[c] \o more) = Whole(c) /\ Missing(c, more)
      BY <2>1 DEF Arrives
    <3>2. Got(c)' = Got(c) /\ Whole(c)' = Whole(c)
      BY <1>5 DEF Got, Whole
    <3>3. Missing(c, more)'
      BY <1>5, <1>7, <3>1 DEF Missing
    <3> QED
      BY <1>5, <3>1, <3>2, <3>3 DEF Arrives
  <2> QED
    BY <1>5, <1>6, <2>1 DEF BytesInv, Requests
<1>11. Places'
  BY <1>4, <1>5, <1>7 DEF BytesInv, Places, HasLink
<1>12. Replies'
  <2>1. ASSUME NEW v \in Workers, pc[v] \in HasLink
        PROVE  v # w /\ (Comes(v)' <=> Comes(v))
    BY <1>4, <1>5, <2>1 DEF Comes, Expected, HasLink
  <2>2. result[w] # <<>> => result[w] = made[c0] /\ ~Open(c0)
    BY <1>1 DEF BytesInv, Replies
  <2> QED
    BY <1>5, <1>6, <1>7, <2>1, <2>2 DEF BytesInv, Replies
<1> QED
  BY <1>8, <1>9, <1>10, <1>11, <1>12 DEF Flows

\* Whatever a server process had of a request goes with it.
LEMMA ServerGoneKeepsFlows ==
  ASSUME BytesInv, ServerGone
  PROVE  Flows'
<1>1. /\ \A w \in Workers : /\ pc'[w] = "idle" /\ unsent'[w] = <<>> /\ line'[w] = <<>>
                            /\ result'[w] = <<>>
      /\ exits' = exits + 1
      /\ UNCHANGED <<call, calls, up, down, backendEnd, bpc, backlog, cur, received,
                     needed, thread, message, rest, made, replies>>
  BY DEF ServerGone, backendVars, mainVars
<1>2. exits' # 0
  <2>1. exits \in Nat
    BY DEF BytesInv, IInv, TypeOK, ServerTypeOK
  <2> QED
    BY <1>1, <2>1
<1>3. \A c : (Waiting(c)' <=> Waiting(c)) /\ (Open(c)' <=> Open(c))
  BY <1>1 DEF Waiting, Open
<1>4. \A w \in Workers : pc'[w] \notin HasLink
  BY <1>1 DEF HasLink
<1>5. Unused'
  <2>1. \A c \in Calls : Unlinked(c)' => Unlinked(c)
    BY <1>1 DEF Unlinked
  <2> QED
    BY <1>1, <1>3, <2>1 DEF BytesInv, Unused
<1>6. Queued'
  BY <1>1, <1>3 DEF BytesInv, Queued
<1>7. Requests'
  <2>1. ASSUME NEW c \in Calls, Arrives(c)
        PROVE  Arrives(c)'
    <3>1. PICK more \in Seq(Bytes) :
            Got(c) \o (up[c] \o more) = Whole(c) /\ Missing(c, more)
      BY <2>1 DEF Arrives
    <3>2. Got(c)' = Got(c) /\ Whole(c)' = Whole(c)
      BY <1>1 DEF Got, Whole
    <3>3. Missing(c, more)'
      BY <1>2, <1>4 DEF Missing
    <3> QED
      BY <1>1, <3>1, <3>2, <3>3 DEF Arrives
  <2> QED
    BY <1>1, <1>3, <2>1 DEF BytesInv, Requests
<1>8. Places'
  BY <1>1, <1>4 DEF Places
<1>9. Replies'
  BY <1>1, <1>3, <1>4 DEF BytesInv, Replies
<1> QED
  BY <1>5, <1>6, <1>7, <1>8, <1>9 DEF Flows

\* A piece of the answer goes from the link to the worker.
Takes(w, X, Y) ==
    /\ pc[w] \in {"length", "content"}
    /\ X \o Y = down[call[w]] /\ down[call[w]] # <<>>
    /\ line' = [line EXCEPT ![w] = line[w] \o X]
    /\ pc[w] = "length" => Len(line[w] \o X) <= LenSize
    /\ down' = [down EXCEPT ![call[w]] = Y]
    /\ UNCHANGED <<pc, call, unsent, length, result, exits, calls, up, serverEnd,
                   backendEnd, backendVars, replies>>

LEMMA TakeKeepsFlows ==
  ASSUME BytesInv, NEW w \in Workers, NEW X \in Seq(Bytes), NEW Y \in Seq(Bytes),
         Takes(w, X, Y)
  PROVE  Flows'
<1>0. pc[w] \in {"length", "content"}
  BY DEF Takes
<1>1. PICK c0 \in Calls : call[w] = c0
  BY <1>0, CallsAreNumbered DEF BytesInv
<1>2. /\ X \o Y = down[c0] /\ down[c0] # <<>>
      /\ pc[w] = "length" => Len(line[w] \o X) <= LenSize
      /\ \A v \in Workers : v # w => line'[v] = line[v]
      /\ line'[w] = line[w] \o X
      /\ \A c \in Calls : c # c0 => down'[c] = down[c]
      /\ down'[c0] = Y
      /\ UNCHANGED <<pc, call, unsent, length, result, exits, calls, up, serverEnd,
                     backendEnd, bpc, backlog, cur, received, needed, thread,
                     message, rest, made, replies>>
  BY <1>1 DEF Takes, BytesInv, DataTypeOK, backendVars, mainVars
<1>3. \A v \in Workers : pc[v] # "idle" /\ call[v] = c0 => v = w
  BY <1>0, <1>1 DEF BytesInv, OneWorkerPerCall
<1>4. \A c : (Waiting(c)' <=> Waiting(c)) /\ (Open(c)' <=> Open(c))
  BY <1>2 DEF Waiting, Open
<1>5. Unused'
  <2>1. ~Unlinked(c0)
    BY <1>0, <1>1, LinkedCall DEF BytesInv
  <2>2. \A c \in Calls : Unlinked(c)' => Unlinked(c)
    BY <1>2 DEF Unlinked
  <2> QED
    BY <1>2, <1>4, <2>1, <2>2 DEF BytesInv, Unused
<1>6. Queued'
  BY <1>2, <1>4 DEF BytesInv, Queued
<1>7. Requests'
  <2>1. ASSUME NEW c \in Calls, Arrives(c)
        PROVE  Arrives(c)'
    <3>1. PICK more \in Seq(Bytes) :
            Got(c) \o (up[c] \o more) = Whole(c) /\ Missing(c, more)
      BY <2>1 DEF Arrives
    <3>2. Got(c)' = Got(c) /\ Whole(c)' = Whole(c)
      BY <1>2 DEF Got, Whole
    <3>3. Missing(c, more)'
      BY <1>2, <3>1 DEF Missing
    <3> QED
      BY <1>2, <3>1, <3>2, <3>3 DEF Arrives
  <2> QED
    BY <1>2, <1>4, <2>1 DEF BytesInv, Requests
<1>8. Places'
  BY <1>0, <1>2 DEF BytesInv, Places
<1>9. Replies'
  <2>1. Comes(w)'
    <3>1. PICK more \in Seq(Bytes) :
            /\ line[w] \o (down[c0] \o more) = Expected(w)
            /\ thread[c0] = "send" => more = rest[c0]
      BY <1>0, <1>1, <1>2 DEF BytesInv, Replies, Comes, HasLink
    <3>2. PICK l \in Seq(Bytes) : l = line[w]
      BY DEF BytesInv, DataTypeOK
    <3>3. (l \o X) \o (Y \o more) = l \o ((X \o Y) \o more)
      <4>1. PICK R \in Seq(Bytes) : R = Y \o more
        BY ConcatProperties
      <4>2. (l \o X) \o R = l \o (X \o R)
        <5>1. Assoc(l, X, R)
          BY Associative
        <5> QED
          BY <5>1, Zenon DEF Assoc
      <4>3. (X \o Y) \o more = X \o (Y \o more)
        <5>1. Assoc(X, Y, more)
          BY Associative
        <5> QED
          BY <5>1, Zenon DEF Assoc
      <4> QED
        BY <4>1, <4>2, <4>3
    <3>4. Expected(w)' = Expected(w)
      BY <1>2 DEF Expected
    <3>5. (line[w] \o X) \o (Y \o more) = Expected(w)
      <4>1. (X \o Y) \o more = down[c0] \o more
        BY <1>2
      <4> QED
        BY <3>1, <3>2, <3>3, <4>1
    <3>6. line'[w] \o (down'[call'[w]] \o more) = Expected(w)'
      BY <1>1, <1>2, <3>4, <3>5
    <3>7. thread'[call'[w]] = "send" => more = rest'[call'[w]]
      BY <1>1, <1>2, <3>1
    <3> QED
      BY <3>6, <3>7 DEF Comes
  <2>2. ASSUME NEW v \in Workers, v # w, pc[v] \in HasLink
        PROVE  call[v] # c0 /\ (Comes(v)' <=> Comes(v)) /\ down'[call[v]] = down[call[v]]
    <3>1. call[v] # c0 /\ call[v] \in Calls
      BY <1>3, <2>2, CallsAreNumbered DEF BytesInv, HasLink
    <3>2. down'[call'[v]] = down[call[v]] /\ line'[v] = line[v] /\ call'[v] = call[v]
      BY <1>2, <2>2, <3>1
    <3>3. Expected(v)' = Expected(v) /\ UNCHANGED <<thread, rest>>
      BY <1>2 DEF Expected
    <3>4. Comes(v)' <=> Comes(v)
      BY <3>2, <3>3 DEF Comes
    <3> QED
      BY <3>1, <3>2, <3>4, <1>2
  <2>3. ~Open(c0)
    BY <1>0, <1>1, <1>2 DEF BytesInv, Replies, HasLink
  <2> QED
    BY <1>0, <1>1, <1>2, <1>4, <2>1, <2>2, <2>3 DEF BytesInv, Replies
<1> QED
  BY <1>5, <1>6, <1>7, <1>8, <1>9 DEF Flows

LEMMA ReceiveKeepsFlows ==
  ASSUME BytesInv, ~undefined, NEW w \in Workers, ReceiveLength(w) \/ ReceiveContent(w)
  PROVE  Flows'
<1>1. pc[w] \in {"length", "content"} /\ pc[w] \in HasLink
  BY DEF ReceiveLength, ReceiveContent, HasLink
<1>2. Link(w) = call[w] /\ call[w] \in Calls
  BY <1>1, OwnLink DEF BytesInv
<1>3. line[w] \in Seq(Bytes) /\ down[call[w]] \in Seq(Bytes)
  BY <1>2 DEF BytesInv, DataTypeOK
<1>4. CASE ReceiveLength(w)
  <2> DEFINE h == Head(down[call[w]])
  <2>1. /\ h \in Bytes /\ <<h>> \in Seq(Bytes) /\ Tail(down[call[w]]) \in Seq(Bytes)
        /\ <<h>> \o Tail(down[call[w]]) = down[call[w]]
        /\ down[call[w]] # <<>>
    BY <1>2, <1>3, <1>4, CutHead DEF ReceiveLength
  <2>2. Append(line[w], h) = line[w] \o <<h>>
    BY <1>3, <2>1, AppendIsConcat
  <2>3. /\ Len(line[w]) < LenSize /\ LenSize \in Nat
        /\ line' = [line EXCEPT ![w] = line[w] \o <<h>>]
        /\ down' = [down EXCEPT ![call[w]] = Tail(down[call[w]])]
        /\ UNCHANGED <<pc, call, unsent, length, result, exits, calls, up, serverEnd,
                       backendEnd, backendVars, replies>>
    BY <1>2, <1>4, <2>2, ConnectorAssumption DEF ReceiveLength
  <2>4. Len(line[w] \o <<h>>) <= LenSize
    BY <1>3, <2>1, <2>3
  <2> HIDE DEF h
  <2> QED
    BY <1>1, <2>1, <2>3, <2>4, TakeKeepsFlows DEF Takes
<1>5. CASE ReceiveContent(w)
  <2>1. PICK k \in 1 .. (length[w] - Len(line[w])) :
         /\ k <= Len(down[call[w]])
         /\ line' = [line EXCEPT ![w] = @ \o SubSeq(down[call[w]], 1, k)]
         /\ down' = [down EXCEPT ![call[w]] = From(@, k + 1)]
    BY <1>2, <1>5 DEF ReceiveContent
  <2>2. k \in 1 .. Len(down[call[w]]) /\ down[call[w]] # <<>>
    BY <1>3, <2>1
  <2> DEFINE X == SubSeq(down[call[w]], 1, k)
             Y == From(down[call[w]], k + 1)
  <2>3. X \in Seq(Bytes) /\ Y \in Seq(Bytes) /\ X \o Y = down[call[w]]
    BY <1>3, <2>2, Cut
  <2>4. /\ line' = [line EXCEPT ![w] = line[w] \o X]
        /\ down' = [down EXCEPT ![call[w]] = Y]
        /\ pc[w] # "length"
        /\ UNCHANGED <<pc, call, unsent, length, result, exits, calls, up, serverEnd,
                       backendEnd, backendVars, replies>>
    BY <1>5, <2>1 DEF ReceiveContent
  <2> HIDE DEF X, Y
  <2> QED
    BY <1>1, <2>2, <2>3, <2>4, TakeKeepsFlows DEF Takes
<1> QED
  BY <1>4, <1>5

\* The bytes of the number are all there: it is the length of what follows.
LEMMA DecodeKeepsFlows ==
  ASSUME BytesInv, ~undefined, NEW w \in Workers, DecodeLength(w)
  PROVE  Flows'
<1>1. PICK c0 \in Calls : call[w] = c0
  BY CallsAreNumbered DEF BytesInv, DecodeLength
<1>2. /\ pc[w] = "length" /\ Len(line[w]) >= LenSize
      /\ \A v \in Workers : v # w => /\ pc'[v] = pc[v] /\ line'[v] = line[v]
                                     /\ length'[v] = length[v]
      /\ pc'[w] = "content" /\ line'[w] = <<>> /\ length'[w] = DecodeInt(line[w])
      /\ UNCHANGED <<call, unsent, result, exits, calls, up, down, serverEnd,
                     backendEnd, bpc, backlog, cur, received, needed, thread,
                     message, rest, made, replies>>
  BY DEF BytesInv, DecodeLength, DataTypeOK, IInv, TypeOK, ServerTypeOK, linkVars,
     backendVars, mainVars
<1>3. \A v \in Workers : pc[v] # "idle" /\ call[v] = c0 => v = w
  BY <1>1, <1>2 DEF BytesInv, OneWorkerPerCall
<1>4. /\ \A c : (Waiting(c)' <=> Waiting(c)) /\ (Open(c)' <=> Open(c))
      /\ \A v \in Workers : pc'[v] \in HasLink <=> pc[v] \in HasLink
  BY <1>2 DEF Waiting, Open, HasLink
<1>5. PICK more \in Seq(Bytes) :
        /\ line[w] \o (down[c0] \o more) = Serialize(made[c0])
        /\ thread[c0] = "send" => more = rest[c0]
  BY <1>1, <1>2 DEF BytesInv, Replies, Comes, Expected, HasLink
<1>6. DecodeInt(line[w]) = Len(made[c0]) /\ down[c0] \o more = made[c0]
  <2>1. line[w] \in Seq(Bytes) /\ down[c0] \in Seq(Bytes) /\ made[c0] \in Seq(Bytes)
    BY DEF BytesInv, DataTypeOK
  <2>2. down[c0] \o more \in Seq(Bytes)
    BY <2>1, ConcatProperties
  <2>3. Len(line[w]) <= LenSize /\ Len(line[w]) >= LenSize
    BY <1>2 DEF BytesInv, Places
  <2>4. PICK l \in Seq(Bytes), R \in Seq(Bytes), m \in Seq(Bytes) :
          l = line[w] /\ R = down[c0] \o more /\ m = made[c0]
    BY <2>1, <2>2
  <2>5. ReadOf(l, R, m)
    BY <1>5, <2>4, Zenon DEF ReadOf
  <2>6. Len(l) <= LenSize /\ Len(l) >= LenSize
    BY <2>3, <2>4, Zenon
  <2>7. DecodeInt(l) = Len(m) /\ R = m
    BY <2>5, <2>6, LengthRead
  <2> QED
    BY <2>4, <2>7, Zenon
<1>7. ~Open(c0)
  <2>1. line[w] # <<>>
    BY <1>2, ConnectorAssumption
  <2> QED
    BY <1>1, <1>2, <2>1 DEF BytesInv, Replies, HasLink
<1>8. Unused'
  <2>1. \A c \in Calls : Unlinked(c)' => Unlinked(c)
    BY <1>2 DEF Unlinked
  <2> QED
    BY <1>2, <1>4, <2>1 DEF BytesInv, Unused
<1>9. Queued'
  BY <1>2, <1>4 DEF BytesInv, Queued
<1>10. Requests'
  <2>1. ASSUME NEW c \in Calls, Arrives(c)
        PROVE  Arrives(c)'
    <3>1. PICK left \in Seq(Bytes) :
            Got(c) \o (up[c] \o left) = Whole(c) /\ Missing(c, left)
      BY <2>1 DEF Arrives
    <3>2. Got(c)' = Got(c) /\ Whole(c)' = Whole(c)
      BY <1>2 DEF Got, Whole
    <3>3. Missing(c, left)'
      BY <1>2, <1>4, <3>1 DEF Missing
    <3> QED
      BY <1>2, <3>1, <3>2, <3>3 DEF Arrives
  <2> QED
    BY <1>2, <1>4, <2>1 DEF BytesInv, Requests
<1>11. Places'
  <2>1. unsent[w] = <<>> /\ result[w] = <<>> /\ serverEnd[call[w]]
    BY <1>2 DEF BytesInv, Places, HasLink
  <2> QED
    BY <1>1, <1>2, <1>4, <1>6, <2>1 DEF BytesInv, Places
<1>12. Replies'
  <2>1. Comes(w)'
    <3>1. Expected(w)' = made[c0] /\ line'[w] = <<>>
      BY <1>1, <1>2 DEF Expected
    <3>2. <<>> \o (down[c0] \o more) = made[c0]
      <4>1. down[c0] \o more \in Seq(Bytes)
        BY <1>6 DEF BytesInv, DataTypeOK
      <4> QED
        BY <1>6, <4>1, ConcatEmptySeq
    <3> QED
      BY <1>1, <1>2, <1>5, <3>1, <3>2 DEF Comes
  <2>2. ASSUME NEW v \in Workers, v # w, pc[v] \in HasLink
        PROVE  call[v] # c0 /\ (Comes(v)' <=> Comes(v))
    BY <1>2, <1>3, <2>2 DEF Comes, Expected, HasLink
  <2> QED
    BY <1>1, <1>2, <1>4, <1>7, <2>1, <2>2 DEF BytesInv, Replies
<1> QED
  BY <1>8, <1>9, <1>10, <1>11, <1>12 DEF Flows

-----------------------------------------------------------------------------
(* The backend *)

LEMMA BackendTypes ==
  ASSUME BytesInv
  PROVE  /\ cur = 0 <=> bpc \in {"down", "accept"}
         /\ cur \in Calls \cup {0} /\ 0 \notin Calls
         /\ backlog \in Seq(Calls)
         /\ DOMAIN thread = Calls /\ DOMAIN backendEnd = Calls
         /\ \A w \in Workers : pc[w] \in HasLink \/ result[w] # <<>> => call[w] \in Calls
<1>1. \A w \in Workers : pc[w] \in HasLink \/ result[w] # <<>> => pc[w] # "idle"
  BY DEF BytesInv, Places, HasLink
<1>2. 0 \notin Calls
  BY DEF Calls
<1>3. \A w \in Workers : pc[w] # "idle" => call[w] \in Calls
  BY CallsAreNumbered DEF BytesInv
<1>4. /\ cur = 0 <=> bpc \in {"down", "accept"}
      /\ cur \in Calls \cup {0}
      /\ backlog \in Seq(Calls)
      /\ DOMAIN thread = Calls /\ DOMAIN backendEnd = Calls
  BY DEF BytesInv, IInv, TypeOK, BackendTypeOK
<1> QED
  BY <1>1, <1>2, <1>3, <1>4

\* A step of the backend leaves these alone.
LEMMA BackendLeaves ==
  ASSUME BackendStep
  PROVE  UNCHANGED <<pc, call, unsent, line, length, result, exits, calls, serverEnd, replies>>
<1>1. UNCHANGED serverVars
  BY BackendLeavesServer
<1>2. UNCHANGED <<serverEnd, replies>>
  BY DEF BackendStep, BackendStart, BackendExit, MainStep, Accept, RecvLength,
     UnpackLength, RecvContent, StartThread, RunHandler, SendStep, SendPiece,
     EndThread, linkVars
<1> QED
  BY <1>1, <1>2 DEF serverVars, workerVars

\* What the invariant says of a request that no step of the backend touches.
LEMMA SameArrives ==
  ASSUME NEW c \in Calls, Arrives(c), Got(c)' = Got(c), Whole(c)' = Whole(c),
         up'[c] = up[c], UNCHANGED <<pc, call, unsent, exits>>
  PROVE  Arrives(c)'
  BY DEF Arrives, Missing

LEMMA StartKeepsFlows ==
  ASSUME BytesInv, BackendStart
  PROVE  Flows'
<1>1. /\ bpc = "down" /\ bpc' = "accept"
      /\ UNCHANGED <<pc, call, unsent, line, length, result, exits, calls, serverEnd, replies,
                     up, down, backendEnd, backlog, cur, received, needed, thread,
                     message, rest, made>>
  BY BackendLeaves DEF BackendStep, BackendStart, linkVars
<1>2. \A c : (Waiting(c)' <=> Waiting(c)) /\ (Open(c)' <=> Open(c))
  BY <1>1 DEF Waiting, Open
<1>3. Unused'
  BY <1>1, <1>2 DEF BytesInv, Unused, Unlinked
<1>4. Queued'
  BY <1>1, <1>2 DEF BytesInv, Queued
<1>5. Requests'
  <2>1. ASSUME NEW c \in Calls, Arrives(c)
        PROVE  Arrives(c)'
    <3>1. Got(c)' = Got(c) /\ Whole(c)' = Whole(c)
      BY <1>1 DEF Got, Whole
    <3> QED
      BY <1>1, <2>1, <3>1, SameArrives
  <2> QED
    BY <1>1, <1>2, <2>1 DEF BytesInv, Requests
<1>6. Places'
  BY <1>1 DEF BytesInv, Places
<1>7. Replies'
  BY <1>1, <1>2 DEF BytesInv, Replies, Comes, Expected
<1> QED
  BY <1>3, <1>4, <1>5, <1>6, <1>7 DEF Flows

\* Nothing waits any more, and no answer will be made to what has been sent.
LEMMA ExitKeepsFlows ==
  ASSUME BytesInv, BackendExit
  PROVE  Flows'
<1>1. /\ bpc' = "down" /\ backlog' = <<>> /\ cur' = 0 /\ received' = <<>>
      /\ \A c \in Calls : thread'[c] = "none"
      /\ UNCHANGED <<pc, call, unsent, line, length, result, exits, calls, serverEnd, replies,
                     up, down, made>>
  BY BackendLeaves DEF BackendStep, BackendExit
<1>2. \A c \in Calls : ~Waiting(c)' /\ ~Open(c)'
  BY <1>1, BackendTypes DEF Waiting, Open
<1>3. Unused'
  BY <1>1, <1>2 DEF BytesInv, Unused, Unlinked
<1>4. Queued'
  BY <1>1, <1>2 DEF BytesInv, Queued
<1>5. Requests'
  BY <1>1, <1>2 DEF Requests
<1>6. Places'
  BY <1>1 DEF BytesInv, Places
<1>7. Replies'
  <2>1. ASSUME NEW w \in Workers, pc[w] \in HasLink
        PROVE  Comes(w)'
    <3>1. PICK more \in Seq(Bytes) : line[w] \o (down[call[w]] \o more) = Expected(w)
      BY <2>1 DEF BytesInv, Replies, Comes
    <3>2. Expected(w)' = Expected(w) /\ thread'[call'[w]] # "send"
      BY <1>1, <2>1, BackendTypes DEF Expected
    <3> QED
      BY <1>1, <3>1, <3>2 DEF Comes
  <2> QED
    BY <1>1, <1>2, <2>1, BackendTypes DEF BytesInv, Replies
<1> QED
  BY <1>3, <1>4, <1>5, <1>6, <1>7 DEF Flows

\* The first link of the backlog goes to the main thread.
\* A link that is accepted goes from the backlog to the main thread.
LEMMA AcceptKeepsPlace ==
  ASSUME BytesInv, Accept
  PROVE  \A c \in Calls : Waiting(c)' <=> Waiting(c)
<1>1. PICK c0 \in Calls : /\ backlog # <<>> /\ c0 = backlog[1]
                          /\ cur' = c0 /\ backlog' = Tail(backlog)
  BY BackendTypes DEF Accept
<1>2. cur = 0
  BY BackendTypes DEF Accept
<1>3. /\ Len(backlog) \in Nat /\ Len(backlog) >= 1 /\ Len(backlog') = Len(backlog) - 1
      /\ \A i \in 1 .. Len(backlog') : backlog'[i] = backlog[i + 1]
  BY <1>1, BackendTypes
<1>4. ASSUME NEW c \in Calls, Waiting(c)' PROVE Waiting(c)
  <2>1. CASE c = c0
    BY <1>1, <1>3, <2>1 DEF Waiting
  <2>2. CASE \E i \in 1 .. Len(backlog') : backlog'[i] = c
    BY <1>3, <2>2 DEF Waiting
  <2> QED
    BY <1>1, <1>4, <2>1, <2>2 DEF Waiting
<1>5. ASSUME NEW c \in Calls, Waiting(c) PROVE Waiting(c)'
  <2>1. PICK i \in 1 .. Len(backlog) : backlog[i] = c
    BY <1>2, <1>5, BackendTypes DEF Waiting
  <2>2. CASE i = 1
    BY <1>1, <2>1, <2>2 DEF Waiting
  <2>3. CASE i # 1
    <3>1. i - 1 \in 1 .. Len(backlog') /\ backlog'[i - 1] = c
      BY <1>3, <2>1, <2>3
    <3> QED
      BY <3>1 DEF Waiting
  <2> QED
    BY <2>2, <2>3
<1> QED
  BY <1>4, <1>5

LEMMA AcceptKeepsFlows ==
  ASSUME BytesInv, Accept
  PROVE  Flows'
<1>1. PICK c0 \in Calls : /\ backlog # <<>> /\ c0 = backlog[1]
                          /\ cur' = c0 /\ backlog' = Tail(backlog)
  BY BackendTypes DEF Accept
<1>2. /\ bpc = "accept" /\ bpc' = "length" /\ cur = 0 /\ received = <<>>
      /\ UNCHANGED <<pc, call, unsent, line, length, result, exits, calls, serverEnd, replies,
                     up, down, backendEnd, received, needed, thread, message, rest, made>>
  BY BackendLeaves, BackendTypes DEF BackendStep, MainStep, Accept, linkVars, BytesInv, Requests
<1>3. /\ Len(backlog) \in Nat /\ Len(backlog) >= 1 /\ Len(backlog') = Len(backlog) - 1
      /\ \A i \in 1 .. Len(backlog') : backlog'[i] = backlog[i + 1]
  BY <1>1, BackendTypes
<1>4. \A c \in Calls : Waiting(c)' <=> Waiting(c)
  BY AcceptKeepsPlace
<1>5. \A c \in Calls : Open(c)' <=> Open(c)
  BY <1>2, <1>4 DEF Open
<1>6. Unused'
  BY <1>2, <1>4 DEF BytesInv, Unused, Unlinked
<1>7. Queued'
  <2>1. /\ \A i, j \in 1 .. Len(backlog) : backlog[i] = backlog[j] => i = j
        /\ \A c \in Calls : Waiting(c) => thread[c] = "none" /\ backendEnd[c]
    BY DEF BytesInv, Queued
  <2>2. \A i \in 1 .. Len(backlog') : i + 1 \in 1 .. Len(backlog) /\ i + 1 # 1
    BY <1>3
  <2>3. \A i, j \in 1 .. Len(backlog') : backlog'[i] = backlog'[j] => i = j
    <3>1. ASSUME NEW i \in 1 .. Len(backlog'), NEW j \in 1 .. Len(backlog'), backlog'[i] = backlog'[j]
          PROVE  i = j
      <4>1. i + 1 = j + 1
        BY <1>3, <2>1, <2>2, <3>1
      <4> QED
        BY <4>1
    <3> QED
      BY <3>1
  <2>4. \A i \in 1 .. Len(backlog') : backlog'[i] # cur'
    <3>1. 1 \in 1 .. Len(backlog)
      BY <1>3
    <3> QED
      BY <1>1, <1>3, <2>1, <2>2, <3>1
  <2>5. \A c \in Calls : Waiting(c)' => thread'[c] = "none" /\ backendEnd'[c]
    BY <1>2, <1>4, <2>1
  <2> QED
    BY <2>3, <2>4, <2>5 DEF Queued
<1>8. Requests'
  <2>1. ASSUME NEW c \in Calls, Arrives(c)
        PROVE  Arrives(c)'
    <3>1. Got(c)' = Got(c) /\ Whole(c)' = Whole(c)
      BY <1>2 DEF Got, Whole
    <3> QED
      BY <1>2, <2>1, <3>1, SameArrives
  <2>2. Len(<<>>) <= LenSize
    BY ConnectorAssumption
  <2> QED
    BY <1>2, <1>4, <2>1, <2>2 DEF BytesInv, Requests
<1>9. Places'
  BY <1>2 DEF BytesInv, Places
<1>10. Replies'
  BY <1>2, <1>5, BackendTypes DEF BytesInv, Replies, Comes, Expected
<1> QED
  BY <1>6, <1>7, <1>8, <1>9, <1>10 DEF Flows

\* A piece of the request goes from the link to the main thread.
Gets(X, Y) ==
    /\ bpc \in {"length", "content"}
    /\ X \o Y = up[cur]
    /\ received' = received \o X /\ up' = [up EXCEPT ![cur] = Y]
    /\ bpc = "length" => Len(received \o X) <= LenSize
    /\ UNCHANGED <<down, backendEnd, bpc, backlog, cur, needed, thread, message, rest, made>>
    /\ UNCHANGED <<pc, call, unsent, line, length, result, exits, calls, serverEnd, replies>>

LEMMA GetsKeepsFlows ==
  ASSUME BytesInv, NEW X \in Seq(Bytes), NEW Y \in Seq(Bytes), Gets(X, Y)
  PROVE  Flows'
<1>0. PICK c0 \in Calls : cur = c0
  BY BackendTypes DEF Gets
<1>1. /\ bpc \in {"length", "content"} /\ X \o Y = up[c0]
      /\ received' = received \o X /\ up'[c0] = Y
      /\ \A c \in Calls : c # c0 => up'[c] = up[c]
      /\ bpc = "length" => Len(received \o X) <= LenSize
      /\ UNCHANGED <<down, backendEnd, bpc, backlog, cur, needed, thread, message, rest, made,
                     pc, call, unsent, line, length, result, exits, calls, serverEnd, replies>>
  BY <1>0 DEF Gets, BytesInv, DataTypeOK
<1>2. \A c : (Waiting(c)' <=> Waiting(c)) /\ (Open(c)' <=> Open(c))
  BY <1>1 DEF Waiting, Open
<1>3. Unused'
  <2>1. ~Unlinked(c0)
    BY <1>0 DEF BytesInv, Unused, Waiting
  <2>2. \A c \in Calls : Unlinked(c)' => Unlinked(c)
    BY <1>1 DEF Unlinked
  <2> QED
    BY <1>1, <1>2, <2>1, <2>2 DEF BytesInv, Unused
<1>4. Queued'
  BY <1>1, <1>2 DEF BytesInv, Queued
<1>5. Requests'
  <2>1. ASSUME Arrives(c0)
        PROVE  Arrives(c0)'
    <3>1. PICK more \in Seq(Bytes) :
            received \o (up[c0] \o more) = Whole(c0) /\ Missing(c0, more)
      BY <1>0, <2>1 DEF Arrives, Got
    <3>2. PICK R \in Seq(Bytes) : R = received
      BY DEF BytesInv, DataTypeOK
    <3>3. PICK T \in Seq(Bytes) : T = Y \o more
      BY ConcatProperties
    <3>4. (X \o Y) \o more = X \o (Y \o more)
      <4>1. Assoc(X, Y, more)
        BY Associative
      <4> QED
        BY <4>1, Zenon DEF Assoc
    <3>5. (R \o X) \o T = R \o (X \o T)
      <4>1. Assoc(R, X, T)
        BY Associative
      <4> QED
        BY <4>1, Zenon DEF Assoc
    <3>6. (received \o X) \o (Y \o more) = Whole(c0)
      BY <1>1, <3>1, <3>2, <3>3, <3>4, <3>5
    <3>7. Got(c0)' = received \o X /\ Whole(c0)' = Whole(c0)
      BY <1>0, <1>1 DEF Got, Whole
    <3>8. Missing(c0, more)'
      BY <1>1, <3>1 DEF Missing
    <3> QED
      BY <1>1, <3>6, <3>7, <3>8 DEF Arrives
  <2>2. ASSUME NEW c \in Calls, c # c0, Arrives(c)
        PROVE  Arrives(c)'
    <3>1. Got(c)' = Got(c) /\ Whole(c)' = Whole(c)
      BY <1>0, <1>1, <2>2 DEF Got, Whole
    <3> QED
      BY <1>1, <2>2, <3>1, SameArrives
  <2> QED
    BY <1>1, <1>2, <2>1, <2>2 DEF BytesInv, Requests
<1>6. Places'
  BY <1>1 DEF BytesInv, Places
<1>7. Replies'
  BY <1>1, <1>2, ZenonT(40) DEF BytesInv, Replies, Comes, Expected
<1> QED
  BY <1>3, <1>4, <1>5, <1>6, <1>7 DEF Flows

LEMMA RecvKeepsFlows ==
  ASSUME BytesInv, RecvLength \/ RecvContent
  PROVE  Flows'
<1>1. cur \in Calls /\ bpc \in {"length", "content"}
  BY BackendTypes DEF RecvLength, RecvContent
<1>2. received \in Seq(Bytes) /\ up[cur] \in Seq(Bytes)
  BY <1>1 DEF BytesInv, DataTypeOK
<1>3. /\ UNCHANGED <<down, backendEnd, bpc, backlog, cur, needed, thread, message, rest, made>>
      /\ UNCHANGED <<pc, call, unsent, line, length, result, exits, calls, serverEnd, replies>>
  <2>1. BackendStep
    BY DEF BackendStep, MainStep
  <2> QED
    BY <2>1, BackendLeaves DEF RecvLength, RecvContent
<1>4. CASE RecvLength
  <2>1. up[cur] # <<>> /\ bpc = "length" /\ Len(received) < LenSize
    BY <1>4 DEF RecvLength
  <2>2. PICK h \in Bytes, t \in Seq(Bytes) :
          h = Head(up[cur]) /\ t = Tail(up[cur]) /\ <<h>> \o t = up[cur]
    BY <1>2, <2>1, CutHead
  <2>3. Append(received, h) = received \o <<h>>
    BY <1>2, AppendIsConcat
  <2>4. Len(received \o <<h>>) <= LenSize
    BY <1>2, <2>1, ConnectorAssumption
  <2>5. received' = received \o <<h>> /\ up' = [up EXCEPT ![cur] = t]
    BY <1>4, <2>2, <2>3 DEF RecvLength
  <2>6. Gets(<<h>>, t)
    BY <1>1, <1>3, <2>2, <2>4, <2>5 DEF Gets
  <2>7. <<h>> \in Seq(Bytes)
    OBVIOUS
  <2> QED
    BY <2>6, <2>7, GetsKeepsFlows
<1>5. CASE RecvContent
  <2>1. PICK k \in 1 .. (needed - Len(received)) :
          /\ k <= Len(up[cur])
          /\ received' = received \o SubSeq(up[cur], 1, k)
          /\ up' = [up EXCEPT ![cur] = From(@, k + 1)]
    BY <1>5 DEF RecvContent
  <2>2. k \in 1 .. Len(up[cur])
    BY <1>2, <2>1
  <2>3. PICK X \in Seq(Bytes), Y \in Seq(Bytes) :
          X = SubSeq(up[cur], 1, k) /\ Y = From(up[cur], k + 1) /\ X \o Y = up[cur]
    <3>1. /\ SubSeq(up[cur], 1, k) \in Seq(Bytes) /\ From(up[cur], k + 1) \in Seq(Bytes)
          /\ SubSeq(up[cur], 1, k) \o From(up[cur], k + 1) = up[cur]
      BY <1>2, <2>2, Cut
    <3> QED
      BY <3>1
  <2>4. Gets(X, Y)
    BY <1>1, <1>3, <1>5, <2>1, <2>3 DEF Gets, RecvContent
  <2> QED
    BY <2>4, GetsKeepsFlows
<1> QED
  BY <1>4, <1>5

\* The bytes of the number are all there: two pairs follow.
LEMMA UnpackKeepsFlows ==
  ASSUME BytesInv, UnpackLength
  PROVE  Flows'
<1>0. PICK c0 \in Calls : cur = c0
  BY BackendTypes DEF UnpackLength
<1>1. /\ bpc = "length" /\ bpc' = "content" /\ Len(received) >= LenSize
      /\ needed' = DecodeInt(received) /\ received' = <<>>
      /\ UNCHANGED <<up, down, backendEnd, backlog, cur, thread, message, rest, made,
                     pc, call, unsent, line, length, result, exits, calls, serverEnd, replies>>
  BY BackendLeaves DEF UnpackLength, BackendStep, MainStep, linkVars
<1>2. \A c : (Waiting(c)' <=> Waiting(c)) /\ (Open(c)' <=> Open(c))
  BY <1>1 DEF Waiting, Open
<1>3. PICK more \in Seq(Bytes) :
        received \o (up[c0] \o more) = Serialize(Request(c0)) /\ Missing(c0, more)
  <2>1. Arrives(c0)
    BY <1>0 DEF BytesInv, Requests, Waiting
  <2> QED
    BY <1>0, <1>1, <2>1 DEF Arrives, Got, Whole
<1>4. PICK left \in Seq(Bytes) : left = up[c0] \o more
  BY ConcatProperties DEF BytesInv, DataTypeOK
<1>5. DecodeInt(received) = 2 /\ left = Request(c0)
  <2>1. Request(c0) \in Seq(Bytes) /\ Len(Request(c0)) = 2
    BY RequestIsBytes
  <2>2. received \in Seq(Bytes) /\ Len(received) <= LenSize
    BY <1>1 DEF BytesInv, DataTypeOK, Requests
  <2>3. ReadOf(received, left, Request(c0))
    BY <1>3, <1>4, Zenon DEF ReadOf
  <2>4. DecodeInt(received) = Len(Request(c0)) /\ left = Request(c0)
    BY <1>1, <2>1, <2>2, <2>3, LengthRead
  <2> QED
    BY <2>1, <2>4
<1>6. Unused'
  BY <1>1, <1>2 DEF BytesInv, Unused, Unlinked
<1>7. Queued'
  BY <1>1, <1>2 DEF BytesInv, Queued
<1>8. Requests'
  <2>1. Arrives(c0)'
    <3>1. Got(c0)' = <<>> /\ Whole(c0)' = Request(c0)
      BY <1>0, <1>1 DEF Got, Whole
    <3>2. <<>> \o left = left
      BY ConcatEmptySeq
    <3>3. Missing(c0, more)'
      BY <1>1, <1>3 DEF Missing
    <3> QED
      BY <1>1, <1>4, <1>5, <3>1, <3>2, <3>3 DEF Arrives
  <2>2. ASSUME NEW c \in Calls, c # c0, Arrives(c)
        PROVE  Arrives(c)'
    <3>1. Got(c)' = Got(c) /\ Whole(c)' = Whole(c)
      BY <1>0, <1>1, <2>2 DEF Got, Whole
    <3> QED
      BY <1>1, <2>2, <3>1, SameArrives
  <2> QED
    BY <1>1, <1>2, <1>5, <2>1, <2>2 DEF BytesInv, Requests
<1>9. Places'
  BY <1>1 DEF BytesInv, Places
<1>10. Replies'
  BY <1>1, <1>2 DEF BytesInv, Replies, Comes, Expected
<1> QED
  BY <1>6, <1>7, <1>8, <1>9, <1>10 DEF Flows

\* The message that a thread gets is the whole request of its link.
LEMMA ThreadKeepsFlows ==
  ASSUME BytesInv, StartThread
  PROVE  Flows'
<1>0. PICK c0 \in Calls : cur = c0
  BY BackendTypes DEF StartThread
<1>1. /\ bpc = "content" /\ bpc' = "accept" /\ Len(received) >= needed
      /\ received' = <<>> /\ cur' = 0
      /\ thread'[c0] = "handler" /\ message'[c0] = received
      /\ \A c \in Calls : c # c0 => thread'[c] = thread[c] /\ message'[c] = message[c]
      /\ UNCHANGED <<up, down, backendEnd, backlog, rest, made,
                     pc, call, unsent, line, length, result, exits, calls, serverEnd, replies>>
  BY <1>0, BackendLeaves DEF StartThread, BackendStep, MainStep, linkVars, BytesInv,
     DataTypeOK, IInv, TypeOK, BackendTypeOK
<1>2. /\ \A c \in Calls : Waiting(c)' <=> Waiting(c) /\ c # c0
      /\ Waiting(c0)
  BY <1>0, <1>1, BackendTypes DEF Waiting, BytesInv, Queued
<1>3. thread[c0] = "none"
  BY <1>2 DEF BytesInv, Queued
<1>4. \A c \in Calls : Open(c)' <=> Open(c)
  BY <1>1, <1>2 DEF Open
<1>5. received = Request(c0)
  <2>1. PICK more \in Seq(Bytes) : received \o (up[c0] \o more) = Request(c0)
    BY <1>0, <1>1, <1>2 DEF BytesInv, Requests, Arrives, Got, Whole
  <2>2. PICK left \in Seq(Bytes) : left = up[c0] \o more
    BY ConcatProperties DEF BytesInv, DataTypeOK
  <2>3. received \in Seq(Bytes) /\ Len(received) >= 2
    BY <1>1 DEF BytesInv, Requests, DataTypeOK
  <2>4. Request(c0) \in Seq(Bytes) /\ Len(Request(c0)) = 2
    BY RequestIsBytes
  <2>5. received \o left = Request(c0)
    BY <2>1, <2>2
  <2> QED
    BY <2>3, <2>4, <2>5, NothingMissing
<1>6. Unused'
  BY <1>1, <1>2 DEF BytesInv, Unused, Unlinked
<1>7. Queued'
  <2>1. \A i \in 1 .. Len(backlog) : backlog[i] # 0
    BY BackendTypes
  <2> QED
    BY <1>1, <1>2, <2>1 DEF BytesInv, Queued
<1>8. Requests'
  <2>1. ASSUME NEW c \in Calls, c # c0, Arrives(c)
        PROVE  Arrives(c)'
    <3>1. Got(c)' = Got(c) /\ Whole(c)' = Whole(c)
      BY <1>0, <1>1, <2>1, BackendTypes DEF Got, Whole
    <3> QED
      BY <1>1, <2>1, <3>1, SameArrives
  <2> QED
    BY <1>1, <1>2, <1>5, <2>1 DEF BytesInv, Requests
<1>9. Places'
  BY <1>1 DEF BytesInv, Places
<1>10. Replies'
  <2>1. ASSUME NEW w \in Workers, pc[w] \in HasLink
        PROVE  Comes(w)'
    <3>1. call[w] \in Calls /\ Comes(w)
      BY <2>1, BackendTypes DEF BytesInv, Replies
    <3>2. thread'[call[w]] = "send" => thread[call[w]] = "send"
      BY <1>1, <3>1
    <3>3. Expected(w)' = Expected(w)
      BY <1>1 DEF Expected
    <3> QED
      BY <1>1, <3>1, <3>2, <3>3 DEF Comes
  <2> QED
    BY <1>1, <1>4, <2>1, BackendTypes DEF BytesInv, Replies
<1> QED
  BY <1>6, <1>7, <1>8, <1>9, <1>10 DEF Flows

\* The answer is made when nothing has been sent to the worker.
LEMMA MakeKeepsFlows ==
  ASSUME BytesInv, NEW c0 \in Calls, RunHandler(c0)
  PROVE  Flows'
<1>1. PICK answer \in Seq(Bytes) :
        /\ made' = [made EXCEPT ![c0] = answer]
        /\ \A k \in 1 .. Len(answer) : answer[k][2] = c0
  <2>1. message[c0] = Request(c0)
    BY DEF RunHandler, BytesInv, Requests
  <2>2. Asked(message[c0]) = c0
    BY <2>1 DEF Asked, Request
  <2>3. PICK keys \in Answers : made' = [made EXCEPT ![c0] = Answer(c0, keys)]
    BY <2>2 DEF RunHandler
  <2> QED
    BY <2>3, AnswerIsBytes
<1>2. /\ thread[c0] = "handler" /\ thread'[c0] = "send"
      /\ made'[c0] = answer /\ rest'[c0] = Serialize(answer)
      /\ \A c \in Calls : c # c0 => /\ thread'[c] = thread[c] /\ message'[c] = message[c]
                                    /\ made'[c] = made[c] /\ rest'[c] = rest[c]
      /\ UNCHANGED <<up, down, backendEnd, bpc, backlog, cur, received, needed,
                     pc, call, unsent, line, length, result, exits, calls, serverEnd, replies>>
  BY <1>1, BackendLeaves DEF RunHandler, BackendStep, linkVars, mainVars, BytesInv,
     DataTypeOK, IInv, TypeOK, BackendTypeOK
<1>3. \A c : Waiting(c)' <=> Waiting(c)
  BY <1>2 DEF Waiting
<1>4. ~Waiting(c0) /\ Open(c0) /\ ~Open(c0)'
  BY <1>2, <1>3 DEF BytesInv, Queued, Open
<1>5. \A c \in Calls : c # c0 => (Open(c)' <=> Open(c))
  BY <1>2, <1>3 DEF Open
<1>6. Unused'
  BY <1>2, <1>3 DEF BytesInv, Unused, Unlinked
<1>7. Queued'
  BY <1>2, <1>3, <1>4 DEF BytesInv, Queued
<1>8. Requests'
  <2>1. ASSUME NEW c \in Calls, Arrives(c)
        PROVE  Arrives(c)'
    <3>1. Got(c)' = Got(c) /\ Whole(c)' = Whole(c)
      BY <1>2 DEF Got, Whole
    <3> QED
      BY <1>2, <2>1, <3>1, SameArrives
  <2> QED
    BY <1>2, <1>3, <2>1 DEF BytesInv, Requests
<1>9. \A w \in Workers : pc[w] \in HasLink /\ call[w] = c0 =>
        pc[w] # "content" /\ line[w] = <<>> /\ down[c0] = <<>>
  BY <1>4 DEF BytesInv, Replies
<1>10. Places'
  <2>1. ASSUME NEW w \in Workers, pc[w] = "content"
        PROVE  made'[call[w]] = made[call[w]]
    BY <1>2, <1>9, <2>1, BackendTypes DEF HasLink
  <2> QED
    BY <1>2, <2>1 DEF BytesInv, Places
<1>11. Replies'
  <2>1. ASSUME NEW w \in Workers, pc[w] \in HasLink
        PROVE  Comes(w)'
    <3>1. call[w] \in Calls /\ Comes(w)
      BY <2>1, BackendTypes DEF BytesInv, Replies
    <3>2. CASE call[w] = c0
      <4>1. Serialize(answer) \in Seq(Bytes)
        BY Serialized
      <4>2. <<>> \o (<<>> \o Serialize(answer)) = Serialize(answer)
        BY <4>1, ConcatEmptySeq
      <4>3. Expected(w)' = Serialize(answer)
        BY <1>2, <1>9, <2>1, <3>2 DEF Expected
      <4>4. line'[w] = <<>> /\ down'[call'[w]] = <<>> /\ rest'[call'[w]] = Serialize(answer)
        BY <1>2, <1>9, <2>1, <3>2
      <4> QED
        BY <4>1, <4>2, <4>3, <4>4 DEF Comes
    <3>3. CASE call[w] # c0
      BY <1>2, <3>1, <3>3 DEF Comes, Expected
    <3> QED
      BY <3>2, <3>3
  <2>2. \A w \in Workers : result[w] # <<>> => call[w] # c0
    BY <1>4 DEF BytesInv, Replies
  <2>3. replies[c0] = <<>>
    BY <1>4 DEF BytesInv, Replies
  <2>4. \A w \in Workers : pc[w] \in HasLink /\ Open(call[w])' => Open(call[w])
    BY <1>2, <1>4, <1>5, BackendTypes
  <2> QED
    BY <1>1, <1>2, <1>4, <1>5, <2>1, <2>2, <2>3, <2>4, BackendTypes DEF BytesInv, Replies
<1> QED
  BY <1>6, <1>7, <1>8, <1>10, <1>11 DEF Flows

\* A piece of the answer goes from the thread to the link.
LEMMA PieceKeepsFlows ==
  ASSUME BytesInv, NEW c0 \in Calls, SendPiece(c0)
  PROVE  Flows'
<1>1. PICK X \in Seq(Bytes), Y \in Seq(Bytes) :
        /\ X \o Y = rest[c0]
        /\ down' = [down EXCEPT ![c0] = @ \o X]
        /\ rest' = [rest EXCEPT ![c0] = Y]
  <2>1. PICK k \in 1 .. Len(rest[c0]) :
          /\ down' = [down EXCEPT ![c0] = @ \o SubSeq(rest[c0], 1, k)]
          /\ rest' = [rest EXCEPT ![c0] = From(rest[c0], k + 1)]
    BY DEF SendPiece
  <2>2. rest[c0] \in Seq(Bytes)
    BY DEF BytesInv, DataTypeOK
  <2>3. /\ SubSeq(rest[c0], 1, k) \in Seq(Bytes) /\ From(rest[c0], k + 1) \in Seq(Bytes)
        /\ SubSeq(rest[c0], 1, k) \o From(rest[c0], k + 1) = rest[c0]
    BY <2>2, Cut
  <2> QED
    BY <2>1, <2>3
<1>2. /\ thread[c0] = "send" /\ down'[c0] = down[c0] \o X /\ rest'[c0] = Y
      /\ \A c \in Calls : c # c0 => down'[c] = down[c] /\ rest'[c] = rest[c]
      /\ UNCHANGED <<up, backendEnd, bpc, backlog, cur, received, needed, thread, message, made,
                     pc, call, unsent, line, length, result, exits, calls, serverEnd, replies>>
  BY <1>1, BackendLeaves DEF SendPiece, SendStep, BackendStep, mainVars, BytesInv, DataTypeOK
<1>3. \A c : (Waiting(c)' <=> Waiting(c)) /\ (Open(c)' <=> Open(c))
  BY <1>2 DEF Waiting, Open
<1>4. ~Open(c0)
  BY <1>2 DEF BytesInv, Queued, Open
<1>5. Unused'
  BY <1>2, <1>3 DEF BytesInv, Unused, Unlinked
<1>6. Queued'
  BY <1>2, <1>3 DEF BytesInv, Queued
<1>7. Requests'
  <2>1. ASSUME NEW c \in Calls, Arrives(c)
        PROVE  Arrives(c)'
    <3>1. Got(c)' = Got(c) /\ Whole(c)' = Whole(c)
      BY <1>2 DEF Got, Whole
    <3> QED
      BY <1>2, <2>1, <3>1, SameArrives
  <2> QED
    BY <1>2, <1>3, <2>1 DEF BytesInv, Requests
<1>8. Places'
  BY <1>2 DEF BytesInv, Places
<1>9. Replies'
  <2>1. ASSUME NEW w \in Workers, pc[w] \in HasLink
        PROVE  Comes(w)'
    <3>1. call[w] \in Calls /\ Comes(w)
      BY <2>1, BackendTypes DEF BytesInv, Replies
    <3>2. CASE call[w] = c0
      <4>1. line[w] \o (down[c0] \o (X \o Y)) = Expected(w)
        BY <1>1, <1>2, <3>1, <3>2 DEF Comes
      <4>2. PICK D \in Seq(Bytes) : D = down[c0]
        BY DEF BytesInv, DataTypeOK
      <4>3. (D \o X) \o Y = D \o (X \o Y)
        <5>1. Assoc(D, X, Y)
          BY Associative
        <5> QED
          BY <5>1, Zenon DEF Assoc
      <4>4. Expected(w)' = Expected(w)
        BY <1>2 DEF Expected
      <4>5. line'[w] \o (down'[call'[w]] \o Y) = Expected(w)'
        BY <1>2, <3>2, <4>1, <4>2, <4>3, <4>4
      <4>6. rest'[call'[w]] = Y
        BY <1>2, <3>2
      <4> QED
        BY <4>5, <4>6 DEF Comes
    <3>3. CASE call[w] # c0
      BY <1>2, <3>1, <3>3 DEF Comes, Expected
    <3> QED
      BY <3>2, <3>3
  <2>2. \A w \in Workers : pc[w] \in HasLink /\ Open(call[w]) => down'[call[w]] = down[call[w]]
    BY <1>2, <1>4, BackendTypes
  <2> QED
    BY <1>2, <1>3, <2>1, <2>2 DEF BytesInv, Replies
<1> QED
  BY <1>5, <1>6, <1>7, <1>8, <1>9 DEF Flows

\* What has been sent stays on the link when the thread has ended.
LEMMA EndKeepsFlows ==
  ASSUME BytesInv, NEW c0 \in Calls, EndThread(c0)
  PROVE  Flows'
<1>1. /\ thread[c0] = "send" /\ thread'[c0] = "none"
      /\ \A c \in Calls : c # c0 => /\ thread'[c] = thread[c] /\ rest'[c] = rest[c]
                                    /\ backendEnd'[c] = backendEnd[c]
      /\ UNCHANGED <<up, down, bpc, backlog, cur, received, needed, message, made,
                     pc, call, unsent, line, length, result, exits, calls, serverEnd, replies>>
  BY BackendLeaves DEF EndThread, SendStep, BackendStep, mainVars, BytesInv, DataTypeOK,
     IInv, TypeOK, BackendTypeOK
<1>2. \A c : Waiting(c)' <=> Waiting(c)
  BY <1>1 DEF Waiting
<1>3. ~Waiting(c0)
  BY <1>1 DEF BytesInv, Queued
<1>4. \A c \in Calls : Open(c)' <=> Open(c)
  BY <1>1, <1>2 DEF Open
<1>5. Unused'
  BY <1>1, <1>2 DEF BytesInv, Unused, Unlinked
<1>6. Queued'
  BY <1>1, <1>2, <1>3 DEF BytesInv, Queued
<1>7. Requests'
  <2>1. ASSUME NEW c \in Calls, Arrives(c)
        PROVE  Arrives(c)'
    <3>1. Got(c)' = Got(c) /\ Whole(c)' = Whole(c)
      BY <1>1 DEF Got, Whole
    <3> QED
      BY <1>1, <2>1, <3>1, SameArrives
  <2> QED
    BY <1>1, <1>2, <2>1 DEF BytesInv, Requests
<1>8. Places'
  BY <1>1 DEF BytesInv, Places
<1>9. Replies'
  <2>1. ASSUME NEW w \in Workers, pc[w] \in HasLink
        PROVE  Comes(w)'
    <3>1. call[w] \in Calls /\ Comes(w)
      BY <2>1, BackendTypes DEF BytesInv, Replies
    <3>2. PICK more \in Seq(Bytes) :
            /\ line[w] \o (down[call[w]] \o more) = Expected(w)
            /\ thread[call[w]] = "send" => more = rest[call[w]]
      BY <3>1 DEF Comes
    <3>3. Expected(w)' = Expected(w)
      BY <1>1 DEF Expected
    <3>4. thread'[call'[w]] = "send" => more = rest'[call'[w]]
      BY <1>1, <3>1, <3>2
    <3> QED
      BY <1>1, <3>2, <3>3, <3>4 DEF Comes
  <2> QED
    BY <1>1, <1>4, <2>1, BackendTypes DEF BytesInv, Replies
<1> QED
  BY <1>5, <1>6, <1>7, <1>8, <1>9 DEF Flows

-----------------------------------------------------------------------------
(* All steps *)

LEMMA HandlerKeepsFlows ==
  ASSUME BytesInv, ~undefined, NEW w \in Workers, HandlerStep(w)
  PROVE  Flows'
<1>1. CASE Socket(w) \/ SocketFails(w) \/ ConnectFails(w)
  <2>1. PICK l \in {"socket", "connect", "reply"} :
          /\ pc[w] \in {"idle", "socket", "connect"} /\ pc[w] # "idle"
          /\ pc' = [pc EXCEPT ![w] = l]
          /\ UNCHANGED <<call, calls>>
          /\ UNCHANGED <<unsent, line, length, result, exits, linkVars, backendVars, replies>>
    BY <1>1 DEF Socket, SocketFails, ConnectFails, Refuse
  <2> QED
    BY <2>1, AsideKeepsFlows
<1>2. CASE Connect(w)
  BY <1>2, ConnectKeepsFlows
<1>3. CASE Write(w)
  BY <1>3, WriteKeepsFlows
<1>4. CASE WriteFails(w) \/ ReceiveFails(w)
  BY <1>4, ThrowKeepsFlows
<1>5. CASE ReceiveLength(w) \/ ReceiveContent(w)
  BY <1>5, ReceiveKeepsFlows
<1>6. CASE DecodeLength(w)
  BY <1>6, DecodeKeepsFlows
<1>7. CASE Respond(w)
  BY <1>7, RespondKeepsFlows
<1>8. CASE RespondCrashes(w)
  BY <1>8, ServerGoneKeepsFlows DEF RespondCrashes
<1>9. CASE Reply(w)
  BY <1>9, ReplyKeepsFlows
<1> QED
  BY <1>1, <1>2, <1>3, <1>4, <1>5, <1>6, <1>7, <1>8, <1>9 DEF HandlerStep

LEMMA BackendKeepsFlows ==
  ASSUME BytesInv, BackendStep
  PROVE  Flows'
  BY StartKeepsFlows, ExitKeepsFlows, AcceptKeepsFlows, RecvKeepsFlows, UnpackKeepsFlows,
     ThreadKeepsFlows, MakeKeepsFlows, PieceKeepsFlows, EndKeepsFlows
     DEF BackendStep, MainStep, SendStep

LEMMA BytesInvInductive == BytesInv /\ [Next]_vars => BytesInv'
<1> SUFFICES ASSUME BytesInv, [Next]_vars
             PROVE  BytesInv'
  OBVIOUS
<1>1. IInv' /\ OneWorkerPerCall'
  BY IInvInductive, OneWorkerPerCallInductive DEF BytesInv
<1>2. ASSUME NEW w \in Workers, ~undefined, Begin(w) \/ HandlerStep(w)
      PROVE  DataTypeOK' /\ Flows'
  <2>1. DataTypeOK'
    BY <1>2, ServerKeepsData DEF BytesInv
  <2>2. CASE Begin(w)
    <3>1. /\ pc[w] \in {"idle", "socket", "connect"}
          /\ pc' = [pc EXCEPT ![w] = "socket"]
          /\ call' = [call EXCEPT ![w] = calls + 1] /\ calls' = calls + 1
          /\ UNCHANGED <<unsent, line, length, result, exits, linkVars, backendVars, replies>>
      BY <2>2 DEF Begin
    <3> QED
      BY <2>1, <3>1, AsideKeepsFlows
  <2>3. CASE HandlerStep(w)
    BY <1>2, <2>1, <2>3, HandlerKeepsFlows
  <2> QED
    BY <1>2, <2>2, <2>3
<1> IInv /\ DataTypeOK /\ Queued /\ Requests
  BY DEF BytesInv
<1>3. ASSUME ServerExit PROVE DataTypeOK' /\ Flows'
  BY <1>3, ServerGoneKeepsData, ServerGoneKeepsFlows DEF ServerExit
<1>4. ASSUME BackendStep PROVE DataTypeOK' /\ Flows'
  BY <1>4, BackendKeepsData, BackendKeepsFlows
<1>5. ASSUME UNCHANGED vars PROVE DataTypeOK' /\ Flows'
  <2>1. DataTypeOK'
    BY <1>5 DEF BytesInv, DataTypeOK, vars, serverVars, workerVars, linkVars, backendVars,
       mainVars
  <2>2. /\ UNCHANGED <<pc, call, unsent, line, length, result, exits, calls, up, down,
                       serverEnd, backendEnd, bpc, backlog, cur, received, needed, thread,
                       message, rest, made, replies>>
    BY <1>5 DEF vars, serverVars, workerVars, linkVars, backendVars, mainVars
  <2>3. \A c : (Waiting(c)' <=> Waiting(c)) /\ (Open(c)' <=> Open(c))
    BY <2>2 DEF Waiting, Open
  <2>4. Unused'
    BY <2>2, <2>3 DEF BytesInv, Unused, Unlinked
  <2>5. Queued'
    BY <2>2, <2>3 DEF Queued
  <2>6. Requests'
    <3>1. \A c \in Calls : Got(c)' = Got(c) /\ Whole(c)' = Whole(c)
      BY <2>2 DEF Got, Whole
    <3>2. \A c \in Calls : Arrives(c) => Arrives(c)'
      BY <2>2, <3>1, SameArrives
    <3> QED
      BY <2>2, <2>3, <3>2 DEF Requests
  <2>7. Places'
    BY <2>2 DEF BytesInv, Places
  <2>8. Replies'
    BY <2>2, <2>3 DEF BytesInv, Replies, Comes, Expected
  <2> QED
    BY <2>1, <2>4, <2>5, <2>6, <2>7, <2>8 DEF Flows
<1> QED
  BY <1>1, <1>2, <1>3, <1>4, <1>5 DEF Next, WorkerStep, BackendStep, BytesInv, Flows

LEMMA BytesInvHolds == SafeSpec => []BytesInv
  BY InitBytesInv, BytesInvInductive, PTL DEF SafeSpec

\* What an HTTP client gets is the answer made to its own request, and all of
\* it, for any number of workers and calls, any lengths and any cuts of the
\* messages, and whoever ends in the middle.
THEOREM AnswersAreOwn == SafeSpec => []OwnAnswer
<1>1. BytesInv => OwnAnswer
  <2> SUFFICES ASSUME BytesInv, NEW c \in Calls, replies[c] # <<>>
               PROVE  /\ replies[c] = made[c]
                      /\ \A k \in 1 .. Len(replies[c]) : replies[c][k][2] = c
    BY DEF OwnAnswer
  <2>1. replies[c] = made[c]
    BY DEF BytesInv, Replies
  <2>2. \A k \in 1 .. Len(made[c]) : made[c][k][2] = c
    BY DEF BytesInv, Replies
  <2> QED
    BY <2>1, <2>2
<1> QED
  BY <1>1, BytesInvHolds, PTL

\* get_message waits, although nothing of its request is missing: this cannot be.
LEMMA WaitsForMore ==
  ASSUME BytesInv, NEW c0 \in Calls, cur = c0, MainWaits,
         Got(c0) \o (up[c0] \o <<>>) = Whole(c0)
  PROVE  FALSE
<1>1. received \in Seq(Bytes) /\ up[c0] = <<>> /\ Got(c0) = received
  BY DEF BytesInv, DataTypeOK, MainWaits, Got
<1>2. received = Whole(c0)
  BY <1>1, ConcatEmptySeq
<1>3. Request(c0) \in Seq(Bytes) /\ Len(Request(c0)) = 2
  BY RequestIsBytes
<1>4. CASE bpc = "length"
  <2>1. Len(received) = LenSize + 2
    BY <1>2, <1>3, <1>4, Serialized DEF Whole
  <2> QED
    BY <1>4, <2>1, ConnectorAssumption DEF MainWaits
<1>5. CASE bpc = "content"
  <2>1. Len(received) = 2
    BY <1>2, <1>3, <1>5 DEF Whole
  <2>2. needed = 2
    BY <1>5 DEF BytesInv, Requests
  <2>3. Len(received) < needed
    BY <1>5 DEF MainWaits
  <2> QED
    BY <2>1, <2>2, <2>3
<1> QED
  BY <1>4, <1>5 DEF MainWaits

\* However a call fails, the main thread of the backend waits in vain only if a
\* server process has ended.
THEOREM BackendStuckAfterExit == SafeSpec => []StuckOnlyAfterExit
<1>1. BytesInv => StuckOnlyAfterExit
  <2> SUFFICES ASSUME BytesInv, Stuck, ~(exits > 0)
               PROVE  FALSE
    BY DEF StuckOnlyAfterExit
  <2>0. exits = 0
    <3>1. exits \in Nat
      BY DEF BytesInv, IInv, TypeOK, ServerTypeOK
    <3> QED
      BY <3>1
  <2>1. PICK c0 \in Calls : cur = c0
    BY BackendTypes DEF Stuck, MainWaits
  <2>2. PICK more \in Seq(Bytes) :
          Got(c0) \o (up[c0] \o more) = Whole(c0) /\ Missing(c0, more)
    BY <2>1 DEF BytesInv, Requests, Waiting, Arrives
  <2>3. \A w \in Workers : call[w] = c0 => pc[w] \notin HasLink
    BY <2>1 DEF Stuck, BytesInv, Places
  <2>4. more = <<>>
    BY <2>0, <2>2, <2>3 DEF Missing
  <2> QED
    BY <2>1, <2>2, <2>4, WaitsForMore DEF Stuck
<1> QED
  BY <1>1, BytesInvHolds, PTL
-----------------------------------------------------------------------------
(* Who waits for whom *)

\* An end of a link that is open has somebody who knows of it: a worker, and a
\* place at the backend.
ServerEnds ==
    \A c \in Calls : serverEnd[c] => \E w \in Workers : call[w] = c /\ pc[w] \in HasLink

BackendEnds == \A c \in Calls : backendEnd[c] => Waiting(c) \/ thread[c] # "none"

LEMMA InitEnds == Init => ServerEnds /\ BackendEnds
  BY DEF Init, ServerEnds, BackendEnds

\* A worker has a link or not as before, or gets or loses one.
LEMMA LinkKeepsServerEnds ==
  ASSUME ServerEnds, NEW w \in Workers,
         \A v \in Workers \ {w} : pc'[v] = pc[v] /\ call'[v] = call[v],
         UNCHANGED serverEnd, pc[w] \in HasLink => pc'[w] \in HasLink /\ call'[w] = call[w]
  PROVE  ServerEnds'
<1> SUFFICES ASSUME NEW c \in Calls, serverEnd[c]
             PROVE  \E v \in Workers : call'[v] = c /\ pc'[v] \in HasLink
  BY DEF ServerEnds
<1>1. PICK v \in Workers : call[v] = c /\ pc[v] \in HasLink
  BY DEF ServerEnds
<1>2. call'[v] = c /\ pc'[v] \in HasLink
  <2>1. CASE v = w
    BY <1>1, <2>1
  <2>2. CASE v # w
    BY <1>1, <2>2
  <2> QED
    BY <2>1, <2>2
<1> QED
  BY <1>2

LEMMA ServerKeepsServerEnds ==
  ASSUME BytesInv, ServerEnds, ~undefined, NEW w \in Workers, Begin(w) \/ HandlerStep(w)
  PROVE  ServerEnds'
<1> DOMAIN pc = Workers /\ DOMAIN call = Workers /\ DOMAIN serverEnd = Calls
  BY DEF BytesInv, IInv, TypeOK, ServerTypeOK, DataTypeOK
<1>1. CASE Begin(w)
  <2>1. /\ \A v \in Workers \ {w} : pc'[v] = pc[v] /\ call'[v] = call[v]
        /\ UNCHANGED serverEnd /\ pc[w] \notin HasLink
    BY <1>1 DEF Begin, linkVars, HasLink
  <2> QED
    BY <2>1, LinkKeepsServerEnds
<1>2. CASE Socket(w) \/ SocketFails(w) \/ ConnectFails(w) \/ Reply(w)
  <2>1. /\ \A v \in Workers \ {w} : pc'[v] = pc[v] /\ call'[v] = call[v]
        /\ UNCHANGED serverEnd /\ pc[w] \notin HasLink
    BY <1>2 DEF Socket, SocketFails, ConnectFails, Refuse, Reply, linkVars, HasLink
  <2> QED
    BY <2>1, LinkKeepsServerEnds
<1>3. CASE Write(w) \/ ReceiveLength(w) \/ DecodeLength(w) \/ ReceiveContent(w)
  <2>1. /\ \A v \in Workers \ {w} : pc'[v] = pc[v] /\ call'[v] = call[v]
        /\ UNCHANGED serverEnd /\ pc'[w] \in HasLink /\ call'[w] = call[w]
    BY <1>3 DEF Write, ReceiveLength, DecodeLength, ReceiveContent, linkVars, HasLink
  <2> QED
    BY <2>1, LinkKeepsServerEnds
<1>4. CASE Connect(w)
  <2>1. /\ \A v \in Workers \ {w} : pc'[v] = pc[v]
        /\ pc'[w] = "send" /\ call' = call
        /\ \A c \in Calls : c # call[w] => serverEnd'[c] = serverEnd[c]
        /\ pc[w] \notin HasLink
    BY <1>4 DEF Connect, HasLink
  <2> QED
    BY <2>1 DEF ServerEnds, HasLink
<1>5. CASE WriteFails(w) \/ ReceiveFails(w) \/ Respond(w)
  <2>1. pc[w] \in HasLink /\ Disconnect(w) /\ pc' = [pc EXCEPT ![w] = "reply"] /\ call' = call
    BY <1>5 DEF WriteFails, ReceiveFails, Receiving, Throw, Respond, Parsed, HasLink
  <2>2. Link(w) = call[w] /\ call[w] \in Calls
    BY <2>1, OwnLink DEF BytesInv
  <2>3. /\ ~serverEnd'[call[w]]
        /\ \A c \in Calls : c # call[w] => serverEnd'[c] = serverEnd[c]
    BY <2>1, <2>2 DEF Disconnect
  <2> QED
    BY <2>1, <2>3 DEF ServerEnds
<1>6. CASE RespondCrashes(w)
  BY <1>6 DEF RespondCrashes, ServerGone, ServerEnds
<1> QED
  BY <1>1, <1>2, <1>3, <1>4, <1>5, <1>6 DEF HandlerStep

LEMMA ServerKeepsBackendEnds ==
  ASSUME BytesInv, BackendEnds,
         \/ \E w \in Workers : Begin(w) \/ HandlerStep(w)
         \/ ServerGone
  PROVE  BackendEnds'
<1>1. CASE \E w \in Workers : Connect(w)
  <2>1. PICK w \in Workers : Connect(w)
    BY <1>1
  <2>2. /\ DOMAIN backendEnd = Calls /\ backlog \in Seq(Calls)
        /\ call[w] \in Calls
    BY <2>1, BackendTypes, CallsAreNumbered DEF BytesInv, Connect
  <2>3. /\ \A c \in Calls : c # call[w] => backendEnd'[c] = backendEnd[c]
        /\ backlog' = Append(backlog, call[w]) /\ UNCHANGED <<cur, thread>>
    BY <2>1, <2>2 DEF Connect
  <2>4. /\ Len(backlog) \in Nat /\ Len(backlog') = Len(backlog) + 1
        /\ \A i \in 1 .. Len(backlog) : backlog'[i] = backlog[i]
        /\ backlog'[Len(backlog) + 1] = call[w]
    BY <2>2, <2>3
  <2>5. \A c : Waiting(c) \/ c = call[w] => Waiting(c)'
    BY <2>3, <2>4 DEF Waiting
  <2> QED
    BY <2>3, <2>5 DEF BackendEnds
<1>2. CASE ~\E w \in Workers : Connect(w)
  <2>1. UNCHANGED <<backendEnd, backlog, cur, thread>>
    BY <1>2 DEF Begin, HandlerStep, Socket, SocketFails, ConnectFails, Refuse, Write,
       WriteFails, Throw, ReceiveLength, DecodeLength, ReceiveContent, ReceiveFails,
       Respond, RespondCrashes, ServerGone, Reply, linkVars, backendVars, mainVars
  <2> QED
    BY <2>1 DEF BackendEnds, Waiting
<1> QED
  BY <1>1, <1>2

LEMMA BackendKeepsBackendEnds ==
  ASSUME BytesInv, BackendEnds, BackendStep
  PROVE  BackendEnds'
<1> DOMAIN backendEnd = Calls /\ DOMAIN thread = Calls /\ 0 \notin Calls
  BY BackendTypes
<1>1. CASE BackendStart \/ RecvLength \/ UnpackLength \/ RecvContent
  <2>1. UNCHANGED <<backendEnd, backlog, cur, thread>>
    BY <1>1 DEF BackendStart, RecvLength, UnpackLength, RecvContent, linkVars
  <2> QED
    BY <2>1 DEF BackendEnds, Waiting
<1>2. CASE BackendExit
  BY <1>2 DEF BackendExit, BackendEnds
<1>3. CASE Accept
  <2>1. UNCHANGED <<backendEnd, thread>>
    BY <1>3 DEF Accept, linkVars
  <2>2. \A c \in Calls : Waiting(c) => Waiting(c)'
    BY <1>3, AcceptKeepsPlace
  <2> QED
    BY <2>1, <2>2 DEF BackendEnds
<1>4. CASE StartThread
  <2>1. /\ thread' = [thread EXCEPT ![cur] = "handler"] /\ cur \in Calls
        /\ UNCHANGED <<backendEnd, backlog>>
    BY <1>4, BackendTypes DEF StartThread, linkVars
  <2>2. \A c \in Calls : Waiting(c) => c = cur \/ Waiting(c)'
    BY <2>1 DEF Waiting
  <2> QED
    BY <2>1, <2>2 DEF BackendEnds
<1>5. CASE \E c \in Calls : RunHandler(c) \/ SendPiece(c)
  <2>1. /\ UNCHANGED <<backendEnd, backlog, cur>>
        /\ \A c \in Calls : thread[c] # "none" => thread'[c] # "none"
    BY <1>5 DEF RunHandler, SendPiece, linkVars, mainVars
  <2> QED
    BY <2>1 DEF BackendEnds, Waiting
<1>6. CASE \E c \in Calls : EndThread(c)
  <2>1. PICK c0 \in Calls : EndThread(c0)
    BY <1>6
  <2>2. /\ ~backendEnd'[c0] /\ UNCHANGED <<backlog, cur>>
        /\ \A c \in Calls : c # c0 => thread'[c] = thread[c] /\ backendEnd'[c] = backendEnd[c]
    BY <2>1 DEF EndThread, mainVars
  <2> QED
    BY <2>2 DEF BackendEnds, Waiting
<1> QED
  BY <1>1, <1>2, <1>3, <1>4, <1>5, <1>6 DEF BackendStep, MainStep, SendStep

EndsInv == BytesInv /\ ServerEnds /\ BackendEnds

LEMMA EndsInvInductive == EndsInv /\ [Next]_vars => EndsInv'
<1> SUFFICES ASSUME BytesInv, ServerEnds, BackendEnds, [Next]_vars
             PROVE  ServerEnds' /\ BackendEnds'
  BY BytesInvInductive DEF EndsInv
<1>1. CASE ~undefined /\ \E w \in Workers : Begin(w) \/ HandlerStep(w)
  BY <1>1, ServerKeepsServerEnds, ServerKeepsBackendEnds
<1>2. CASE ServerGone
  <2>1. ServerEnds'
    BY <1>2 DEF ServerGone, ServerEnds
  <2> QED
    BY <1>2, <2>1, ServerKeepsBackendEnds
<1>3. CASE BackendStep
  <2>1. ServerEnds'
    BY <1>3, BackendLeaves DEF ServerEnds
  <2> QED
    BY <1>3, <2>1, BackendKeepsBackendEnds
<1>4. CASE UNCHANGED vars
  BY <1>4 DEF vars, serverVars, workerVars, linkVars, backendVars, mainVars,
     ServerEnds, BackendEnds, Waiting
<1> QED
  BY <1>1, <1>2, <1>3, <1>4 DEF Next, WorkerStep, BackendStep, ServerExit

LEMMA EndsInvHolds == SafeSpec => []EndsInv
<1>1. Init => EndsInv
  BY InitEnds, InitBytesInv DEF EndsInv
<1> QED
  BY <1>1, EndsInvInductive, PTL DEF SafeSpec

\* Nobody waits for somebody who does not know of it: the backend has the link
\* of every worker that waits, and get_message waits only for a worker that has
\* more to send, unless it is stuck.
THEOREM EveryWaitHasAnEnd == SafeSpec => []NobodyIsForgotten
<1>1. EndsInv => NobodyIsForgotten
  <2> SUFFICES ASSUME EndsInv, ~undefined
               PROVE  NobodyIsForgotten
    BY DEF NobodyIsForgotten
  <2> BytesInv /\ ServerEnds /\ BackendEnds
    BY DEF EndsInv
  <2>1. ASSUME NEW w \in Workers, Waits(w)
        PROVE  Waiting(Link(w)) \/ thread[Link(w)] # "none"
    <3>1. pc[w] \in HasLink /\ backendEnd[Link(w)]
      BY <2>1 DEF Waits, Receiving, HasLink
    <3>2. Link(w) \in Calls
      BY <3>1, OwnLink DEF BytesInv
    <3> QED
      BY <3>1, <3>2 DEF BackendEnds
  <2>2. ASSUME MainWaits, ~Stuck
        PROVE  /\ backendEnd[cur]
               /\ \E w \in Workers : pc[w] = "send" /\ Link(w) = cur /\ unsent[w] # <<>>
    <3>1. PICK c0 \in Calls : cur = c0
      BY <2>2, BackendTypes DEF MainWaits
    <3>2. Waiting(c0) /\ backendEnd[c0]
      BY <3>1 DEF Waiting, BytesInv, Queued
    <3>3. serverEnd[c0]
      BY <2>2, <3>1 DEF Stuck
    <3>4. PICK w \in Workers : call[w] = c0 /\ pc[w] \in HasLink
      BY <3>3 DEF ServerEnds
    <3>5. PICK more \in Seq(Bytes) :
            Got(c0) \o (up[c0] \o more) = Whole(c0) /\ Missing(c0, more)
      BY <3>2 DEF BytesInv, Requests, Arrives
    <3>6. more = unsent[w]
      BY <3>4, <3>5 DEF Missing
    <3>7. more # <<>>
      BY <2>2, <3>1, <3>5, WaitsForMore
    <3>8. pc[w] = "send"
      BY <3>6, <3>7 DEF BytesInv, Places
    <3>9. Link(w) = c0
      BY <3>4, OwnLink DEF BytesInv
    <3> QED
      BY <3>1, <3>2, <3>6, <3>7, <3>8, <3>9
  <2> QED
    BY <2>1, <2>2 DEF NobodyIsForgotten, Waiting
<1> QED
  BY <1>1, EndsInvHolds, PTL
=============================================================================
