----------------------------- MODULE HandleClient -----------------------------
(***************************************************************************)
(* One connection of the server: RequestHandler::handleClient.             *)
(*                                                                         *)
(* The peer sends the requests of "stream", one after the other or         *)
(* pipelined, and TCP delivers their bytes in order and in segments of     *)
(* any size, at any time.  HttpBytes says what a byte is.                  *)
(***************************************************************************)
EXTENDS HttpBytes

CONSTANTS Requests,     \* the requests a peer can make: [method ("PUT" stands
                        \* for PUT and POST, "GET" for all others), head,
                        \* framing, body, connection].  A "bare" head has no
                        \* header line at all.
          Streams,      \* what it makes on this connection
          Limit,        \* 15: the last value of request_counter that goes on
          GarbageSizes  \* what hex_string_to_integer can make of something
                        \* that is not a number (an uninitialised variable)

\* The bytes of the i-th request r of a connection.  One that is "coded" has
\* chunks as well, but its Transfer-Encoding says something besides ("gzip,
\* chunked") or says it in other letters ("Chunked").
Wire(i, r) ==
    <<HeadOf(i)>> \o BlankLine \o
    (CASE r.framing = "none"   -> <<>>
       [] r.framing = "length" -> r.body
       [] r.framing \in {"chunked", "coded"} ->
            SizeLine(Len(r.body)) \o r.body \o CRLF \o SizeLine(0) \o CRLF)

ASSUME SessionAssumption ==
    /\ Streams \subseteq Seq(Requests) /\ Limit \in Nat /\ GarbageSizes \subseteq Nat
    /\ \A r \in Requests :
         /\ r.method \in {"GET", "PUT"} /\ r.head \in HeadKinds \cup {"bare"}
         /\ r.framing \in {"none", "length", "chunked", "coded"}
         /\ r.framing = "none" => r.body = <<>>
         /\ r.connection \in {"", "keep-alive", "close"}
         /\ r.body \in Seq(Bytes) /\ \A k \in 1 .. Len(r.body) : r.body[k][1] # "head"

VARIABLES stream,    \* the requests the peer makes
          released,  \* how many of them it has sent
          network,   \* the bytes sent and not received yet
          pc,        \* where handleClient is
          content, body, chunk_size, request_counter,
          request,   \* the head parsed last, and the header fields and the
                     \* body that "request" has accumulated
          answers,   \* history: the requests handleRequest was called with
          clean      \* history: none of the things has happened that spoil the
                     \* framing of the rest of the connection (see Faithful)

vars == <<stream, released, network, pc, content, body, chunk_size,
          request_counter, request, answers, clean>>

peerVars == <<stream, released>>

\* Not the head of a request of the peer.
NoHead == 0

Init ==
    /\ stream \in Streams
    /\ released = 0 /\ network = <<>>
    /\ pc = "receive"
    /\ content = <<>> /\ body = <<>> /\ chunk_size = 0 /\ request_counter = 0
    /\ request = [head |-> NoHead, length |-> 0, encoding |-> "", connection |-> "",
                  body |-> <<>>]
    /\ answers = <<>> /\ clean = TRUE

-----------------------------------------------------------------------------
(* The peer, and Connection::receive *)

\* A peer that does not wait for the answer to its last request is pipelining.
Release ==
    /\ released < Len(stream)
    /\ released' = released + 1
    /\ network' = network \o Wire(released + 1, stream[released + 1])
    /\ clean' = (clean /\ Len(answers) = released)
    /\ UNCHANGED <<stream, pc, content, body, chunk_size, request_counter,
                   request, answers>>

\* s += receive(n)
AppendReceived(n, s) == Appended(s, n, network)

Taken(s, longer) == network' = Untaken(s, longer, network)

-----------------------------------------------------------------------------
(* The head of a request *)

ReceiveHead ==
    /\ pc = "receive" /\ ~Contains(content, BlankLine)
    /\ content' \in AppendReceived(1024, content)
    /\ Taken(content, content')
    /\ UNCHANGED <<peerVars, pc, body, chunk_size, request_counter, request,
                   answers, clean>>

\* Mutant: the error does not end the loop.
ReceiveHeadRetries ==
    /\ pc = "receive" /\ ~Contains(content, BlankLine)
    /\ UNCHANGED vars

\* The timeout of 15 seconds, or the end of the connection.
ReceiveHeadFails ==
    /\ pc = "receive" /\ ~Contains(content, BlankLine)
    /\ pc' = "done"
    /\ UNCHANGED <<peerVars, network, content, body, chunk_size,
                   request_counter, request, answers, clean>>

\* Mutant: the last part is left out.
RejoinButLast(parts) ==
    LET upto[i \in 1 .. Len(parts)] ==
          CASE i = 1 -> <<>>
            [] i = 2 -> IF Len(parts) = 2 THEN <<>> ELSE parts[2]
            [] i = Len(parts) /\ i > 2 -> upto[i - 1]
            [] OTHER -> upto[i - 1] \o BlankLine \o parts[i]
    IN  upto[Len(parts)]

\* The parts after the first one, with the blank lines between them: where the
\* content ends with a blank line, that one is lost.
Rejoin(parts) ==
    LET upto[i \in 1 .. Len(parts)] ==
          CASE i = 1 -> <<>>
            [] i = 2 -> parts[2]
            [] OTHER -> upto[i - 1] \o BlankLine \o parts[i]
    IN  upto[Len(parts)]

\* set_header_field of the fields that matter here: a field the request does
\* not have keeps the value of the request before it.
SetHeaders(i) ==
    LET r == stream[i]
    IN  [request EXCEPT
           !.head = i,
           !.length = IF r.framing = "length" THEN Len(r.body) ELSE @,
           !.encoding = IF r.framing \in {"chunked", "coded"} THEN r.framing ELSE @,
           !.connection = IF r.connection # "" THEN r.connection ELSE @]

\* PUT and POST: the others are handled before their body, if any, is read.
HasBody(i) == i # NoHead /\ stream[i].method = "PUT"

\* The request has said something about a body.
Framed(i) == i # NoHead /\ stream[i].framing # "none"

\* The lines before the blank line.
HeaderLines == SplitString(SplitString(content, BlankLine)[1], CRLF)

HeadReceived == pc = "receive" /\ Contains(content, BlankLine)

\* header_lines[0] of an empty vector.
EmptyHead ==
    /\ HeadReceived /\ HeaderLines = <<>>
    /\ pc' = "crashed"
    /\ UNCHANGED <<peerVars, network, content, body, chunk_size,
                   request_counter, request, answers, clean>>

\* The first line is not a head, or something before the head has spaces in it,
\* or there is no second line.
InvalidHead ==
    /\ HeadReceived /\ HeaderLines # <<>>
    /\ LET line == HeaderLines[1]
       IN  ~(/\ Len(line) = 1 /\ line[1][1] = "head"
             /\ stream[line[1][2]].head # "bare")
    /\ pc' = "done"
    /\ UNCHANGED <<peerVars, network, content, body, chunk_size,
                   request_counter, request, answers, clean>>

\* A header field ends the server.
BadField ==
    LET line == HeaderLines[1]
    IN
    /\ HeadReceived /\ HeaderLines # <<>>
    /\ line # <<>> /\ line[Len(line)][1] = "head"
    /\ stream[line[Len(line)][2]].head \in {"blank", "short"}
    /\ pc' = "crashed"
    /\ UNCHANGED <<peerVars, network, content, body, chunk_size,
                   request_counter, request, answers, clean>>

\* What precedes the head in its line spoils the method, which is then neither
\* PUT nor POST.
ParseHead ==
    LET parts == SplitString(content, BlankLine)
        line  == HeaderLines[1]
        i     == line[Len(line)][2]
        rest  == body \o Rejoin(parts)
        more  == From(content, Len(parts[1]) + Len(BlankLine) + 1)
    IN
    /\ HeadReceived /\ HeaderLines # <<>>
    /\ line # <<>> /\ line[Len(line)][1] = "head"
    /\ stream[i].head \in {"whole", "short"}
    /\ request' = IF Len(line) = 1 THEN SetHeaders(i)
                                   ELSE [SetHeaders(i) EXCEPT !.head = NoHead]
    /\ IF ~HasBody(request'.head)
       THEN pc' = "handle" /\ content' = <<>> /\ body' = rest
       ELSE IF request'.encoding = "chunked"
       THEN pc' = "chunk" /\ content' = rest /\ body' = <<>>
       ELSE pc' = "body" /\ content' = <<>> /\ body' = rest
    /\ chunk_size' = 0
    /\ clean' = (clean /\ stream[i].head = "whole" /\ ~EndsWith(more, BlankLine)
                       /\ (pc' = "chunk" => Contains(more, CRLF))
                       /\ (pc' = "body" => request'.encoding = ""))
    /\ UNCHANGED <<peerVars, network, request_counter, answers>>

-----------------------------------------------------------------------------
(* A body with a Content-Length, or with a Transfer-Encoding that is not      *)
(* "chunked": then no more of it is received.                                 *)

BodyMissing == pc = "body" /\ request.encoding = "" /\ Len(body) < request.length

\* content is empty here, and so receive may take more than is missing.
ReceiveBody ==
    /\ BodyMissing
    /\ body' \in AppendReceived(request.length - Len(content), body)
    /\ Taken(body, body')
    /\ UNCHANGED <<peerVars, pc, content, chunk_size, request_counter, request,
                   answers, clean>>

ReceiveBodyFails ==
    /\ BodyMissing
    /\ pc' = "done"
    /\ UNCHANGED <<peerVars, network, content, body, chunk_size,
                   request_counter, request, answers, clean>>

SetBody ==
    /\ pc' = "handle"
    /\ request' = [request EXCEPT !.body = body]

\* Mutant: "if" instead of "while": one receive is enough.
EndBodyEarly ==
    /\ pc = "body"
    /\ SetBody
    /\ UNCHANGED <<peerVars, network, content, body, chunk_size,
                   request_counter, answers, clean>>

EndBody ==
    /\ pc = "body" /\ ~BodyMissing
    /\ SetBody
    /\ UNCHANGED <<peerVars, network, content, body, chunk_size,
                   request_counter, answers, clean>>

-----------------------------------------------------------------------------
(* A chunked body *)

\* The number before a chunk.  trim throws std::out_of_range if there is none.
ParseSize ==
    LET pos == Find(content, CRLF, 1)
        hex == SubSeq(content, 1, pos - 1)
    IN
    /\ pc = "chunk" /\ pos # NPos
    /\ IF hex = <<>>
       THEN pc' = "crashed" /\ UNCHANGED <<content, chunk_size, request>>
       ELSE /\ content' = From(content, pos + Len(CRLF))
            /\ chunk_size' \in IF Len(hex) = 1 /\ hex[1][1] = "size"
                               THEN {hex[1][2]} ELSE GarbageSizes
            /\ IF chunk_size' = 0 THEN SetBody
                                  ELSE pc' = "chunk_data" /\ UNCHANGED request
    /\ UNCHANGED <<peerVars, network, body, request_counter, answers, clean>>

\* Without a complete line the size stays what it was, at first zero.
NoSize ==
    /\ pc = "chunk" /\ ~Contains(content, CRLF)
    /\ pc' = "chunk_data"
    /\ UNCHANGED <<peerVars, network, content, body, chunk_size,
                   request_counter, request, answers, clean>>

ReceiveChunk ==
    /\ pc = "chunk_data" /\ Len(content) < chunk_size + 2
    /\ content' \in AppendReceived(chunk_size - Len(content) + 2, content)
    /\ Taken(content, content')
    /\ UNCHANGED <<peerVars, pc, body, chunk_size, request_counter, request,
                   answers, clean>>

\* The "continue" goes on with the loop over the chunks, not with the one over
\* the requests: if there is a line end in what has been received of the chunk, a
\* size is read from it.
ReceiveChunkFails ==
    /\ pc = "chunk_data" /\ Len(content) < chunk_size + 2
    /\ pc' = "chunk"
    /\ clean' = (clean /\ ~Contains(content, CRLF))
    /\ UNCHANGED <<peerVars, network, content, body, chunk_size,
                   request_counter, request, answers>>

\* Mutant: the line end after the chunk is not skipped.
EndChunkKeepsLineEnd ==
    /\ pc = "chunk_data" /\ Len(content) >= chunk_size + 2
    /\ body' = body \o SubSeq(content, 1, chunk_size)
    /\ content' = From(content, chunk_size + 1)
    /\ pc' = "chunk_next"
    /\ UNCHANGED <<peerVars, network, chunk_size, request_counter, request,
                   answers, clean>>

EndChunk ==
    /\ pc = "chunk_data" /\ Len(content) >= chunk_size + 2
    /\ body' = body \o SubSeq(content, 1, chunk_size)
    /\ content' = From(content, chunk_size + 3)
    /\ pc' = "chunk_next"
    /\ UNCHANGED <<peerVars, network, chunk_size, request_counter, request,
                   answers, clean>>

ReceiveSize ==
    /\ pc = "chunk_next" /\ ~Contains(content, CRLF)
    /\ content' \in AppendReceived(1, content)
    /\ Taken(content, content')
    /\ UNCHANGED <<peerVars, pc, body, chunk_size, request_counter, request,
                   answers, clean>>

\* The "break" leaves the loop over the chunks: what there is of the body is
\* taken for the whole.
ReceiveSizeFails ==
    /\ pc = "chunk_next" /\ ~Contains(content, CRLF)
    /\ SetBody
    /\ UNCHANGED <<peerVars, network, content, body, chunk_size,
                   request_counter, answers, clean>>

NextChunk ==
    /\ pc = "chunk_next" /\ Contains(content, CRLF)
    /\ pc' = "chunk"
    /\ UNCHANGED <<peerVars, network, content, body, chunk_size,
                   request_counter, request, answers, clean>>

-----------------------------------------------------------------------------
\* handleRequest calls a handler, which returns when it likes.  If it throws a
\* string, nothing is sent; nothing else depends on that.
Handle ==
    /\ pc = "handle" /\ pc' = "send"
    /\ answers' = Append(answers, [head |-> request.head, body |-> request.body,
                                   clean |-> clean])
    /\ UNCHANGED <<peerVars, network, content, body, chunk_size,
                   request_counter, request, clean>>

\* Mutant: the limit is tested before the request is counted.
SendLateCount ==
    /\ pc = "send"
    /\ request_counter' = request_counter + 1
    /\ pc' = IF request.connection = "keep-alive" /\ request_counter <= Limit
             THEN "receive" ELSE "done"
    /\ clean' = (clean /\ ~Framed(request.head))
    /\ UNCHANGED <<peerVars, network, content, body, chunk_size, request, answers>>

\* Mutant: the request is not counted.
SendUncounted ==
    /\ pc = "send"
    /\ pc' = IF request.connection = "keep-alive" THEN "receive" ELSE "done"
    /\ clean' = (clean /\ ~Framed(request.head))
    /\ UNCHANGED <<peerVars, network, content, body, chunk_size,
                   request_counter, request, answers>>

\* The answer, and the decision to go on.  An error of send is ignored; it has no
\* timeout, and waits for a peer that does not read.
Send ==
    /\ pc = "send"
    /\ request_counter' = request_counter + 1
    /\ pc' = IF request.connection = "keep-alive" /\ request_counter' <= Limit
             THEN "receive" ELSE "done"
    /\ clean' = (clean /\ ~Framed(request.head))
    /\ UNCHANGED <<peerVars, network, content, body, chunk_size, request, answers>>

Receives == ReceiveHead \/ ReceiveBody \/ ReceiveChunk \/ ReceiveSize

Fails == ReceiveHeadFails \/ ReceiveBodyFails \/ ReceiveChunkFails \/ ReceiveSizeFails

Computes ==
    \/ EmptyHead \/ InvalidHead \/ BadField \/ ParseHead \/ EndBody
    \/ ParseSize \/ NoSize \/ EndChunk \/ NextChunk

\* In the hands of the handler, or of a peer that has to read its answer.
Answers == Handle \/ Send

Server == Receives \/ Fails \/ Computes \/ Answers

Next == Release \/ Server

SafeSpec == Init /\ [][Next]_vars

\* handleClient is in a call of receive.
Receiving ==
    \/ pc = "receive" /\ ~Contains(content, BlankLine)
    \/ BodyMissing
    \/ pc = "chunk_data" /\ Len(content) < chunk_size + 2
    \/ pc = "chunk_next" /\ ~Contains(content, CRLF)

\* receive comes back after at most 15 seconds, and the peer has finitely many
\* bytes to send; handleClient goes on outside of receive, of the handler and of
\* send.  Nothing obliges those two, or the peer.  (The second conjunct is
\* WF_vars(Computes), spelled out because TLC is slow to evaluate ENABLED: one of
\* these steps is possible whenever handleClient is nowhere else and has not
\* ended, and a step that releases nothing is one.)
ServerRuns ==
    /\ WF_vars(Fails)
    /\ \/ []<>(Receiving \/ pc \in {"handle", "send", "done", "crashed"})
       \/ []<><<UNCHANGED released>>_vars

Spec == SafeSpec /\ ServerRuns

-----------------------------------------------------------------------------
(* Properties *)

Locations == {"receive", "body", "chunk", "chunk_data", "chunk_next", "handle",
              "send", "done", "crashed"}

\* Types: whatever the segments, content and body only hold bytes of the peer.
TypeOK ==
    /\ released \in 0 .. Len(stream) /\ pc \in Locations
    /\ \A s \in {network, content, body, request.body} :
         \A k \in 1 .. Len(s) : s[k] \in Bytes
    /\ chunk_size \in Nat
    /\ request_counter = Len(answers) - (IF pc = "send" THEN 1 ELSE 0)
    /\ request.head \in 0 .. Len(stream)
    /\ clean \in BOOLEAN

\* However the network cuts the bytes, the requests that handleRequest sees are
\* the ones the peer sent, and each PUT or POST comes with its own body; until
\* one of the following spoils the rest of the connection: a request with a body
\* has been handled (body and header fields are not reset, and the body of another
\* method is not even read), the peer has pipelined, what was received with the
\* head ended with a blank line (which split_string drops), the size of the first
\* chunk was not received together with the head, the Transfer-Encoding of a PUT
\* is not exactly "chunked" (its body is not read), a header line without a value
\* has been read beyond its end, or the peer has paused for 15 seconds in a
\* chunk, behind a line end.
Faithful ==
    \A n \in 1 .. Len(answers) : answers[n].clean =>
        /\ answers[n].head = n
        /\ HasBody(n) => answers[n].body = stream[n].body

\* As long as none of that has happened, the server never waits for more of a
\* request that it has received completely.
NeverWaitsForNothing ==
    clean /\ network = <<>> /\ Receiving => released = Len(answers)

\* Nor does a request end the whole server, by an exception that nobody catches,
\* unless a field of its own head has no name or no value.
NoCrashWhileClean ==
    pc = "crashed" /\ clean =>
        /\ Len(answers) < Len(stream)
        /\ stream[Len(answers) + 1].head \in {"blank", "short"}

\* A peer that says "Connection: close" gets no further request handled, and
\* nobody gets more than the limit.
NothingAfterClose ==
    /\ Len(answers) <= Limit + 1
    /\ \A n \in 1 .. (Len(answers) - 1) :
         answers[n].head # NoHead => stream[answers[n].head].connection # "close"

\* Whatever the peer sends or fails to send, handleClient returns and the worker
\* is free again, except from three places that nothing limits in time: a chunk
\* (a timeout there only leads back to the loop over the chunks), the handler, and
\* the write of an answer that the peer does not read.
ReturnsUnlessInChunk ==
    <>[](pc \in {"done", "crashed", "chunk", "chunk_data", "handle", "send"})
=============================================================================
