------------------------------ MODULE Connector -------------------------------
(***************************************************************************)
(* A handler of the server that asks a backend: SaigaConnector::start and  *)
(* process and handler_connector in the workers, get_message, send_message *)
(* and the threads of pythonHandler.py on the other side of a Unix socket, *)
(* and the descriptors that all workers of the server share.  Either       *)
(* process may end and be started again.                                   *)
(*                                                                         *)
(* A call is one request that a worker has at hand; it has a connection to *)
(* its HTTP client and, if connect succeeds, a link to the backend.  What  *)
(* goes over a link are bytes: those of a number that says how many follow,*)
(* and one for each pair of a key and a value.                             *)
(***************************************************************************)
EXTENDS Integers, Sequences

CONSTANTS
    Workers,    \* threads of the server
    Fds,        \* the numbers a descriptor can have
    Answers,    \* what a handler of the backend sets: sequences of keys
    LenSize,    \* sizeof( uint64_t )
    MaxCalls,   \* bound: calls altogether
    MaxExits,   \* bound: times that a process ends for a reason not shown here
    Free        \* a number that is not in use

Calls == 1 .. MaxCalls

Keys == {"status", "body", "code", "header"}

ASSUME ConnectorAssumption ==
    /\ Fds \subseteq Nat
    /\ Answers \subseteq Seq(Keys)
    /\ LenSize \in Nat \ {0} /\ MaxCalls \in Nat /\ MaxExits \in Nat
    /\ Free \notin {"client", "new", "link"} \X Calls

\* No number.
NoFd == -1

-----------------------------------------------------------------------------
(* What goes over a link *)

Bytes == {"length", "request", "answer"} \X Nat \X (Keys \cup {"", "path", "method"})

\* encode_int, decode_int and struct.pack, struct.unpack: the machine's byte
\* order; the messages here are shorter than 256.
EncodeInt(n) == [k \in 1 .. LenSize |-> <<"length", IF k = 1 THEN n ELSE 0, "">>]

DecodeInt(s) == s[1][2]

Serialize(content) == EncodeInt(Len(content)) \o content

Request(c) == <<<<"request", c, "method">>, <<"request", c, "path">>>>

\* The answer to request c in which a handler has set the keys.
Answer(c, keys) == [k \in 1 .. Len(keys) |-> <<"answer", c, keys[k]>>]

Sets(answer, key) == \E k \in 1 .. Len(answer) : answer[k][3] = key

\* The request that a message is; 0 if it is not one, or not all of one.
Asked(message) ==
    IF \E c \in Calls : message = Request(c) THEN message[1][2] ELSE 0

-----------------------------------------------------------------------------
VARIABLES
    \* server
    pc, call, client, sock,     \* of each worker; client and sock are numbers
    unsent, line, length,       \* of each worker, in send and in process
    result,                     \* of each worker: the answer, <<>> for an error
    file,                       \* what each number stands for
    undefined,                  \* a descriptor in use was closed by mistake
    exits, calls,
    \* the links
    up, down,                   \* bytes on their way to the backend, to the server
    serverEnd, backendEnd,      \* the end is open
    \* backend
    bpc, backlog, cur, received, needed,    \* its main thread
    thread, message, rest,                  \* its thread for each call
    bexits,
    \* history
    made,                       \* the answer that was made for a call
    replies                     \* the answer that the HTTP client got

workerVars == <<pc, call, client, sock, unsent, line, length, result>>
serverVars == <<workerVars, file, undefined, exits, calls>>
linkVars == <<up, down, serverEnd, backendEnd>>
mainVars == <<bpc, backlog, cur, received, needed>>
backendVars == <<mainVars, thread, message, rest, bexits, made>>
vars == <<serverVars, linkVars, backendVars, replies>>

Init ==
    /\ pc = [w \in Workers |-> "idle"]
    /\ call = [w \in Workers |-> 0]
    /\ client = [w \in Workers |-> NoFd] /\ sock = [w \in Workers |-> NoFd]
    /\ unsent = [w \in Workers |-> <<>>] /\ line = [w \in Workers |-> <<>>]
    /\ length = [w \in Workers |-> 0] /\ result = [w \in Workers |-> <<>>]
    /\ file = [n \in Fds |-> Free] /\ undefined = FALSE
    /\ exits = 0 /\ calls = 0
    /\ up = [c \in Calls |-> <<>>] /\ down = [c \in Calls |-> <<>>]
    /\ serverEnd = [c \in Calls |-> FALSE] /\ backendEnd = [c \in Calls |-> FALSE]
    /\ bpc = "down" /\ backlog = <<>> /\ cur = 0
    /\ received = <<>> /\ needed = 0
    /\ thread = [c \in Calls |-> "none"]
    /\ message = [c \in Calls |-> <<>>] /\ rest = [c \in Calls |-> <<>>]
    /\ bexits = 0
    /\ made = [c \in Calls |-> <<>>] /\ replies = [c \in Calls |-> <<>>]

\* A new descriptor has the lowest number that is free.
Lowest(n) == file[n] = Free /\ \A m \in Fds : file[m] = Free => n <= m

From(s, p) == SubSeq(s, p, Len(s))

-----------------------------------------------------------------------------
(* The worker around the handler *)

\* A client is accepted and its request has been received.
Begin(w) ==
    /\ pc[w] = "idle" /\ calls < MaxCalls
    /\ \E n \in Fds :
         /\ Lowest(n)
         /\ client' = [client EXCEPT ![w] = n]
         /\ file' = [file EXCEPT ![n] = <<"client", calls + 1>>]
    /\ calls' = calls + 1
    /\ call' = [call EXCEPT ![w] = calls + 1]
    /\ pc' = [pc EXCEPT ![w] = "socket"]
    /\ UNCHANGED <<sock, unsent, line, length, result, undefined, exits,
                   linkVars, backendVars, replies>>

\* handleClient has sent the response, which may have waited for the client to
\* read it, and closes the connection of the client.
Reply(w) ==
    /\ pc[w] = "reply"
    /\ replies' = [replies EXCEPT ![file[client[w]][2]] = result[w]]
    /\ file' = [file EXCEPT ![client[w]] = Free]
    /\ client' = [client EXCEPT ![w] = NoFd]
    /\ result' = [result EXCEPT ![w] = <<>>]
    /\ pc' = [pc EXCEPT ![w] = "idle"]
    /\ UNCHANGED <<call, sock, unsent, line, length, undefined, exits, calls,
                   linkVars, backendVars>>

-----------------------------------------------------------------------------
(* SaigaConnector::start *)

\* The numbers that somebody else counts on, or the worker for its client.
HeldBesides(w) ==
    {client[v] : v \in Workers} \cup {sock[v] : v \in Workers \ {w}}

\* start fails and handler_connector throws.  The socket stays open.  conn is a
\* Connection that has never been given a descriptor, and its destructor closes
\* whatever number is in fd.
Refuse(w) ==
    /\ \E fd \in Fds \cup {NoFd} :
         /\ file' = [n \in Fds |-> IF n = fd THEN Free ELSE file[n]]
         /\ undefined' = (fd \in HeldBesides(w) \ {NoFd})
    /\ sock' = [sock EXCEPT ![w] = NoFd]
    /\ pc' = [pc EXCEPT ![w] = "reply"]
    /\ UNCHANGED <<call, client, unsent, line, length, result, exits, calls,
                   linkVars, backendVars, replies>>

Socket(w) ==
    /\ pc[w] = "socket"
    /\ \E n \in Fds :
         /\ Lowest(n)
         /\ sock' = [sock EXCEPT ![w] = n]
         /\ file' = [file EXCEPT ![n] = <<"new", call[w]>>]
    /\ pc' = [pc EXCEPT ![w] = "connect"]
    /\ UNCHANGED <<call, client, unsent, line, length, result, undefined, exits,
                   calls, linkVars, backendVars, replies>>

\* Mutant: the result of socket is not tested.
SocketUntested(w) ==
    /\ pc[w] = "socket"
    /\ pc' = [pc EXCEPT ![w] = "connect"]
    /\ UNCHANGED <<call, client, sock, unsent, line, length, result, file,
                   undefined, exits, calls, linkVars, backendVars, replies>>

\* There is no number left, or another limit of the system is reached.
SocketFails(w) == pc[w] = "socket" /\ Refuse(w)

\* The backlog of 255 connections is longer than there are workers.
Connect(w) ==
    /\ pc[w] = "connect" /\ bpc # "down"
    /\ file' = [file EXCEPT ![sock[w]] = <<"link", call[w]>>]
    /\ serverEnd' = [serverEnd EXCEPT ![call[w]] = TRUE]
    /\ backendEnd' = [backendEnd EXCEPT ![call[w]] = TRUE]
    /\ backlog' = Append(backlog, call[w])
    /\ unsent' = [unsent EXCEPT ![w] = Serialize(Request(call[w]))]
    /\ pc' = [pc EXCEPT ![w] = "send"]
    /\ UNCHANGED <<call, client, sock, line, length, result, undefined, exits,
                   calls, up, down, bpc, cur, received, needed, thread, message,
                   rest, bexits, made, replies>>

ConnectFails(w) == pc[w] = "connect" /\ bpc = "down" /\ Refuse(w)

-----------------------------------------------------------------------------
(* SaigaConnector::process *)

\* The link behind the number that the worker has.
Link(w) == file[sock[w]][2]

\* Mutant: the descriptor is not closed when there is an exception.
CloseNothing(w) ==
    /\ sock' = [sock EXCEPT ![w] = NoFd]
    /\ UNCHANGED <<file, serverEnd>>

\* ~SaigaConnector.
Disconnect(w) ==
    /\ file' = [file EXCEPT ![sock[w]] = Free]
    /\ serverEnd' = [serverEnd EXCEPT ![Link(w)] = FALSE]
    /\ sock' = [sock EXCEPT ![w] = NoFd]

\* The exception of send or receive passes through process and the handler to
\* handleRequest.
Throw(w) ==
    /\ Disconnect(w)
    /\ pc' = [pc EXCEPT ![w] = "reply"]
    /\ unsent' = [unsent EXCEPT ![w] = <<>>] /\ line' = [line EXCEPT ![w] = <<>>]
    /\ length' = [length EXCEPT ![w] = 0]
    /\ UNCHANGED <<call, client, result, undefined, exits, calls, up, down,
                   backendEnd, backendVars, replies>>

\* Mutant: send does not go on after a write that takes a part.
WriteOnce(w) ==
    /\ pc[w] = "send" /\ backendEnd[Link(w)]
    /\ \E k \in 1 .. Len(unsent[w]) :
         up' = [up EXCEPT ![Link(w)] = @ \o SubSeq(unsent[w], 1, k)]
    /\ unsent' = [unsent EXCEPT ![w] = <<>>]
    /\ pc' = [pc EXCEPT ![w] = "length"]
    /\ UNCHANGED <<call, client, sock, line, length, result, file, undefined,
                   exits, calls, down, serverEnd, backendEnd, backendVars, replies>>

\* One write of the loop in Connection::send.
Write(w) ==
    /\ pc[w] = "send" /\ backendEnd[Link(w)]
    /\ \E k \in 1 .. Len(unsent[w]) :
         /\ up' = [up EXCEPT ![Link(w)] = @ \o SubSeq(unsent[w], 1, k)]
         /\ unsent' = [unsent EXCEPT ![w] = From(@, k + 1)]
         /\ pc' = [pc EXCEPT ![w] = IF k = Len(unsent[w]) THEN "length" ELSE "send"]
    /\ UNCHANGED <<call, client, sock, line, length, result, file, undefined,
                   exits, calls, down, serverEnd, backendEnd, backendVars, replies>>

\* Mutant: the connection has a timeout, and write gives up.
WriteTimesOut(w) == pc[w] = "send" /\ Throw(w)

WriteFails(w) == pc[w] = "send" /\ ~backendEnd[Link(w)] /\ Throw(w)

ReceiveLength(w) ==
    /\ pc[w] = "length" /\ Len(line[w]) < LenSize /\ down[Link(w)] # <<>>
    /\ line' = [line EXCEPT ![w] = Append(@, Head(down[Link(w)]))]
    /\ down' = [down EXCEPT ![Link(w)] = Tail(@)]
    /\ UNCHANGED <<pc, call, client, sock, unsent, length, result, file,
                   undefined, exits, calls, up, serverEnd, backendEnd,
                   backendVars, replies>>

DecodeLength(w) ==
    /\ pc[w] = "length" /\ Len(line[w]) >= LenSize
    /\ length' = [length EXCEPT ![w] = DecodeInt(line[w])]
    /\ line' = [line EXCEPT ![w] = <<>>]
    /\ pc' = [pc EXCEPT ![w] = "content"]
    /\ UNCHANGED <<call, client, sock, unsent, result, file, undefined, exits,
                   calls, linkVars, backendVars, replies>>

ReceiveContent(w) ==
    /\ pc[w] = "content" /\ Len(line[w]) < length[w]
    /\ \E k \in 1 .. (length[w] - Len(line[w])) :
         /\ k <= Len(down[Link(w)])
         /\ line' = [line EXCEPT ![w] = @ \o SubSeq(down[Link(w)], 1, k)]
         /\ down' = [down EXCEPT ![Link(w)] = From(@, k + 1)]
    /\ UNCHANGED <<pc, call, client, sock, unsent, length, result, file,
                   undefined, exits, calls, up, serverEnd, backendEnd,
                   backendVars, replies>>

Receiving(w) ==
    \/ pc[w] = "length" /\ Len(line[w]) < LenSize
    \/ pc[w] = "content" /\ Len(line[w]) < length[w]

\* Mutant: nothing is what receive returns at the end of the connection.
ReceiveAgain(w) ==
    /\ Receiving(w) /\ down[Link(w)] = <<>> /\ ~backendEnd[Link(w)]
    /\ UNCHANGED vars

\* The end of the connection.  There is no timeout.
ReceiveFails(w) ==
    /\ Receiving(w) /\ down[Link(w)] = <<>> /\ ~backendEnd[Link(w)]
    /\ Throw(w)

\* The server process is gone, with all its descriptors, and is started again.
ServerGone ==
    /\ pc' = [w \in Workers |-> "idle"]
    /\ client' = [w \in Workers |-> NoFd] /\ sock' = [w \in Workers |-> NoFd]
    /\ unsent' = [w \in Workers |-> <<>>] /\ line' = [w \in Workers |-> <<>>]
    /\ length' = [w \in Workers |-> 0] /\ result' = [w \in Workers |-> <<>>]
    /\ file' = [n \in Fds |-> Free] /\ undefined' = FALSE
    /\ serverEnd' = [c \in Calls |-> FALSE]
    /\ exits' = exits + 1
    /\ UNCHANGED <<call, calls, up, down, backendEnd, backendVars, replies>>

\* Mutant: whatever one receive returns is parsed.
ParsedEarly(w) == pc[w] = "content" /\ line[w] # <<>>

Parsed(w) == pc[w] = "content" /\ Len(line[w]) >= length[w]

\* The rest of handler_connector: the answer becomes the response if its status
\* is ok, and is replaced by an error 404 if not.
Respond(w) ==
    /\ Parsed(w) /\ ~(Sets(line[w], "status") /\ Sets(line[w], "header"))
    /\ Disconnect(w)
    /\ result' = [result EXCEPT ![w] = IF Sets(line[w], "status") THEN line[w] ELSE <<>>]
    /\ pc' = [pc EXCEPT ![w] = "reply"]
    /\ line' = [line EXCEPT ![w] = <<>>] /\ length' = [length EXCEPT ![w] = 0]
    /\ UNCHANGED <<call, client, unsent, undefined, exits, calls, up, down,
                   backendEnd, backendVars, replies>>

\* A header field whose name does not hold its value (and two colons) is trimmed
\* down from the empty string: nobody catches std::out_of_range.
RespondCrashes(w) ==
    /\ Parsed(w) /\ Sets(line[w], "status") /\ Sets(line[w], "header")
    /\ ServerGone

-----------------------------------------------------------------------------
(* The backend *)

\* A backend is started: the path of an earlier one is removed and bound.
BackendStart ==
    /\ bpc = "down"
    /\ bpc' = "accept"
    /\ UNCHANGED <<serverVars, linkVars, backlog, cur, received, needed, thread,
                   message, rest, bexits, made, replies>>

\* KeyboardInterrupt, or a kill: the threads are daemons.
BackendExit ==
    /\ bpc # "down" /\ exits + bexits < MaxExits
    /\ bpc' = "down" /\ backlog' = <<>> /\ cur' = 0
    /\ received' = <<>> /\ needed' = 0
    /\ backendEnd' = [c \in Calls |-> FALSE]
    /\ thread' = [c \in Calls |-> "none"]
    /\ message' = [c \in Calls |-> <<>>] /\ rest' = [c \in Calls |-> <<>>]
    /\ bexits' = bexits + 1
    /\ UNCHANGED <<serverVars, up, down, serverEnd, made, replies>>

Accept ==
    /\ bpc = "accept" /\ backlog # <<>>
    /\ cur' = Head(backlog) /\ backlog' = Tail(backlog)
    /\ bpc' = "length"
    /\ UNCHANGED <<serverVars, linkVars, received, needed, thread, message, rest,
                   bexits, made, replies>>

\* recv: at the end of the connection it returns nothing, and the loops around
\* it, in which nothing then changes, go on.
RecvLength ==
    /\ bpc = "length" /\ Len(received) < LenSize /\ up[cur] # <<>>
    /\ received' = Append(received, Head(up[cur]))
    /\ up' = [up EXCEPT ![cur] = Tail(@)]
    /\ UNCHANGED <<serverVars, down, serverEnd, backendEnd, bpc, backlog, cur,
                   needed, thread, message, rest, bexits, made, replies>>

UnpackLength ==
    /\ bpc = "length" /\ Len(received) >= LenSize
    /\ needed' = DecodeInt(received) /\ received' = <<>>
    /\ bpc' = "content"
    /\ UNCHANGED <<serverVars, linkVars, backlog, cur, thread, message, rest,
                   bexits, made, replies>>

RecvContent ==
    /\ bpc = "content" /\ Len(received) < needed
    /\ \E k \in 1 .. (needed - Len(received)) :
         /\ k <= Len(up[cur])
         /\ received' = received \o SubSeq(up[cur], 1, k)
         /\ up' = [up EXCEPT ![cur] = From(@, k + 1)]
    /\ UNCHANGED <<serverVars, down, serverEnd, backendEnd, bpc, backlog, cur,
                   needed, thread, message, rest, bexits, made, replies>>

\* get_message returns, and the message gets a thread.
StartThread ==
    /\ bpc = "content" /\ Len(received) >= needed
    /\ thread' = [thread EXCEPT ![cur] = "handler"]
    /\ message' = [message EXCEPT ![cur] = received]
    /\ received' = <<>> /\ needed' = 0 /\ cur' = 0
    /\ bpc' = "accept"
    /\ UNCHANGED <<serverVars, linkVars, backlog, rest, bexits, made, replies>>

\* The thread of a link: its handler, and then send_message.
RunHandler(c) ==
    /\ thread[c] = "handler"
    /\ \E keys \in Answers : made' = [made EXCEPT ![c] = Answer(Asked(message[c]), keys)]
    /\ rest' = [rest EXCEPT ![c] = Serialize(made'[c])]
    /\ message' = [message EXCEPT ![c] = <<>>]
    /\ thread' = [thread EXCEPT ![c] = "send"]
    /\ UNCHANGED <<serverVars, linkVars, mainVars, bexits, replies>>

SendPiece(c) ==
    /\ thread[c] = "send" /\ serverEnd[c]
    /\ \E k \in 1 .. Len(rest[c]) :
         /\ down' = [down EXCEPT ![c] = @ \o SubSeq(rest[c], 1, k)]
         /\ rest' = [rest EXCEPT ![c] = From(@, k + 1)]
    /\ UNCHANGED <<serverVars, up, serverEnd, backendEnd, mainVars, thread,
                   message, bexits, made, replies>>

\* Everything has been sent and the socket is closed, or send has thrown, which
\* ends the thread.
EndThread(c) ==
    /\ thread[c] = "send" /\ (rest[c] = <<>> \/ ~serverEnd[c])
    /\ backendEnd' = [backendEnd EXCEPT ![c] = FALSE]
    /\ thread' = [thread EXCEPT ![c] = "none"]
    /\ rest' = [rest EXCEPT ![c] = <<>>]
    /\ UNCHANGED <<serverVars, up, down, serverEnd, mainVars, message, bexits,
                   made, replies>>

-----------------------------------------------------------------------------
\* handleRequest with handler_connector for its handler.
HandlerStep(w) ==
    \/ Socket(w) \/ SocketFails(w) \/ Connect(w) \/ ConnectFails(w)
    \/ Write(w) \/ WriteFails(w)
    \/ ReceiveLength(w) \/ DecodeLength(w) \/ ReceiveContent(w) \/ ReceiveFails(w)
    \/ Respond(w) \/ RespondCrashes(w) \/ Reply(w)

\* Once a number in use has been closed by mistake it will stand for something
\* else, and what the workers then do is not told here.
WorkerStep(w) == ~undefined /\ HandlerStep(w)

\* What a worker does without the HTTP client, which may not read its answer: the
\* send in Reply has no timeout.
CallStep(w) == WorkerStep(w) /\ pc[w] # "reply"

ServerExit == exits + bexits < MaxExits /\ ServerGone

MainStep == Accept \/ RecvLength \/ UnpackLength \/ RecvContent \/ StartThread

SendStep(c) == SendPiece(c) \/ EndThread(c)

Next ==
    \/ \E w \in Workers : (~undefined /\ Begin(w)) \/ WorkerStep(w)
    \/ ServerExit
    \/ BackendStart \/ BackendExit \/ MainStep
    \/ \E c \in Calls : RunHandler(c) \/ SendStep(c)

SafeSpec == Init /\ [][Next]_vars

\* The threads of both processes are scheduled.  Nobody has to send a request, to
\* read an answer, or to start a backend.
Spec ==
    /\ SafeSpec
    /\ \A w \in Workers : WF_vars(CallStep(w))
    /\ WF_vars(MainStep)
    /\ \A c \in Calls : WF_vars(SendStep(c))

\* Handlers of the backend return.
BackendHandlersReturn == \A c \in Calls : WF_vars(RunHandler(c))

-----------------------------------------------------------------------------
(* Properties *)

HasSock == {"connect", "send", "length", "content"}

HasLink == {"send", "length", "content"}

Files == {"client", "new", "link"} \X Calls

ServerTypeOK ==
    /\ pc \in [Workers -> {"idle", "socket", "reply"} \cup HasSock]
    /\ call \in [Workers -> Calls \cup {0}]
    /\ client \in [Workers -> Fds \cup {NoFd}] /\ sock \in [Workers -> Fds \cup {NoFd}]
    /\ \A w \in Workers :
         /\ client[w] = NoFd <=> pc[w] = "idle"
         /\ sock[w] = NoFd <=> pc[w] \notin HasSock
         /\ pc[w] # "idle" => call[w] \in Calls
    /\ file \in [Fds -> Files \cup {Free}]
    /\ undefined \in BOOLEAN /\ exits \in Nat /\ calls \in 0 .. MaxCalls

BackendTypeOK ==
    /\ backendEnd \in [Calls -> BOOLEAN]
    /\ bpc \in {"down", "accept", "length", "content"}
    /\ backlog \in Seq(Calls) /\ cur \in Calls \cup {0}
    /\ cur = 0 <=> bpc \in {"down", "accept"}
    /\ thread \in [Calls -> {"none", "handler", "send"}]
    /\ bexits \in 0 .. MaxExits

\* Types: in particular a worker has the descriptor of its client while it has a
\* request, and one for the backend in the middle of start and process only; the
\* main thread of the backend has a link in the middle of get_message only.
TypeOK == ServerTypeOK /\ BackendTypeOK

StandsForItsOwn(w) ==
    /\ pc[w] # "idle" => file[client[w]] = <<"client", call[w]>>
    /\ pc[w] = "connect" => file[sock[w]] = <<"new", call[w]>>
    /\ pc[w] \in HasLink => file[sock[w]] = <<"link", call[w]>>

HasWorker(n) ==
    /\ (\E c \in Calls : file[n] = <<"client", c>>) => \E w \in Workers : client[w] = n
    /\ (\E c \in Calls : file[n] = <<"link", c>>) => \E w \in Workers : sock[w] = n

OneWorkerPerCall ==
    \A v, w \in Workers :
        pc[v] # "idle" /\ pc[w] # "idle" /\ call[v] = call[w] => v = w

\* The descriptors of the server: the number that a worker has for its client
\* or for the backend stands for its own connection, and every connection that
\* is open has a worker, whichever way the calls before it ended.  This is so
\* until a call that was refused closes somebody's number.
OneOwner ==
    ~undefined =>
        /\ \A w \in Workers : StandsForItsOwn(w)
        /\ \A n \in Fds : HasWorker(n)
        /\ OneWorkerPerCall

\* What an HTTP client gets as an answer of the backend is the answer that was
\* made to its own request, and all of it: wherever the bytes of either message
\* are cut, whichever calls are under way, and whoever ends in the middle.
OwnAnswer ==
    \A c \in Calls : replies[c] # <<>> =>
        /\ replies[c] = made[c]
        /\ \A k \in 1 .. Len(replies[c]) : replies[c][k][2] = c

\* The main thread of the backend is in get_message, and what it needs next is
\* not there ...
MainWaits ==
    /\ bpc \in {"length", "content"} /\ up[cur] = <<>>
    /\ Len(received) < (IF bpc = "length" THEN LenSize ELSE needed)

\* ... and never will be.
Stuck == MainWaits /\ ~serverEnd[cur]

\* No call, however it fails, brings the backend there: it takes the end of the
\* server process.
StuckOnlyAfterExit == Stuck => exits > 0

\* A worker is in receive, and there is nothing to be read, not even an end.
Waits(w) == Receiving(w) /\ down[Link(w)] = <<>> /\ backendEnd[Link(w)]

\* Nothing in a call has a timeout, so nobody may wait for somebody who does not
\* know of it.  The backend has the link of every worker that waits: in the
\* backlog, in get_message or in a thread.  And get_message, which waits for one
\* link while the others are in the backlog, waits for a worker that has more to
\* send and can send it, unless it is stuck.
NobodyIsForgotten ==
    ~undefined =>
        /\ \A w \in Workers : Waits(w) =>
             \/ thread[Link(w)] # "none"
             \/ Link(w) = cur
             \/ \E i \in 1 .. Len(backlog) : backlog[i] = Link(w)
        /\ MainWaits /\ ~Stuck =>
             /\ backendEnd[cur]
             /\ \E w \in Workers : pc[w] = "send" /\ Link(w) = cur /\ unsent[w] # <<>>

\* Although nothing in a call of the backend has a timeout, each one ends, and its
\* worker has something to send to the HTTP client, if the handlers of the backend
\* end, whatever becomes of the backend and however long other HTTP clients take to
\* read their answers; unless the backend is stuck or a descriptor was closed by
\* mistake.
CallReturns ==
    BackendHandlersReturn =>
        \A w \in Workers :
            pc[w] # "idle" ~> pc[w] \in {"idle", "reply"} \/ Stuck \/ undefined
=============================================================================
