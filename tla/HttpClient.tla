------------------------------ MODULE HttpClient ------------------------------
(***************************************************************************)
(* One HttpClient object and its Connection: do_get, do_head and do_put,   *)
(* called one after the other, and the server they ask.                    *)
(*                                                                         *)
(* The server is external.  It reads when it likes, answers the requests   *)
(* of the connection in order, with well-formed responses, and may close   *)
(* the connection at any time; bytes on the way may then be lost.          *)
(***************************************************************************)
EXTENDS HttpBytes

CONSTANTS Calls,        \* what the program can ask for: [method, host]
          NoHost,       \* the host of a URL without one ("http:///path")
          NotAUrl,      \* stands for the host of a URL without "://"
          MaxCalls,     \* bound on the calls of the program
          Responses,    \* what the server can answer: [head, framing, body, encoding]
          Addresses,    \* how many addresses a host has
          Capacity,     \* how much the system buffers of what the client sends
          GarbageSizes  \* what hex_string_to_integer can make of something
                        \* that is not a number (an uninitialised variable)

Methods == {"GET", "HEAD", "PUT"}
Framings == {"none", "length", "chunked", "coded", "close"}

\* The host of no connection, and no answer yet.
NoPeer == "no peer"
NoAnswer == [framing |-> "no answer"]

ASSUME ClientAssumption ==
    /\ MaxCalls \in Nat /\ Addresses \in Nat \ {0} /\ Capacity \in Nat \ {0}
    /\ GarbageSizes \subseteq Nat
    /\ Calls # {} /\ \A c \in Calls : c.method \in Methods /\ c.host # NoPeer
    /\ \A r \in Responses :
         /\ r.head \in HeadKinds
         /\ r.framing \in Framings /\ (r.framing = "none" => r.body = <<>>)
         /\ r.body \in Seq(Bytes) /\ \A k \in 1 .. Len(r.body) : r.body[k][1] # "head"

VARIABLES
    calls,       \* how many calls the program has made
    call,        \* the last of them
    pc,          \* where the call is
    address,     \* the address of the host that start() is trying
    peer,        \* the host that the connection leads to: connected, if any
    open,        \* the server has not closed its end
    unsent,      \* the parts of the request that send() has still to write
    up,          \* parts of requests that the server has not read
    owed,        \* the requests that the server has read and not answered
    network,     \* the bytes sent by the server and not received yet
    content, body, chunk_size,
    payload,     \* the head parsed last, and the header fields and the body
                 \* that "payload" has accumulated
    answers,     \* history: the server's response to each call
    cut,         \* history: bytes of the server have been lost
    results,     \* history: what each call has returned
    clean        \* history: none of the things has happened that spoil the
                 \* rest of the life of the object (see OwnResponse)

parseVars == <<content, body, chunk_size>>
linkVars == <<peer, open, up, owed, network>>
clientVars == <<calls, call, pc, address, peer, unsent, content, body,
                chunk_size, payload, results, clean>>
vars == <<calls, call, pc, address, peer, open, unsent, up, owed, network,
          content, body, chunk_size, payload, answers, cut, results, clean>>

Init ==
    /\ calls = 0 /\ call = (CHOOSE c \in Calls : TRUE) /\ pc = "idle"
    /\ address = 1 /\ peer = NoPeer /\ open = FALSE
    /\ unsent = 0 /\ up = <<>> /\ owed = <<>> /\ network = <<>>
    /\ content = <<>> /\ body = <<>> /\ chunk_size = 0
    /\ payload = [head |-> 0, length |-> 0, transfer |-> "", encoding |-> "",
                  body |-> <<>>, inflated |-> ""]
    /\ answers = <<>> /\ cut = FALSE /\ results = <<>> /\ clean = TRUE

-----------------------------------------------------------------------------
(* The server *)

\* In how many parts a request is written: one with a body may be longer than
\* the buffer has room for.
Size(method) == IF method = "PUT" THEN Capacity + 1 ELSE 1

\* The bytes of response r to call n.  A response of HTTP/1.1 without a length
\* ends with the connection; one that is "coded" has chunks as well, but its
\* Transfer-Encoding says something besides ("gzip, chunked").
Wire(n, method, r) ==
    LET chunk(k) == SizeLine(1) \o <<r.body[k]>> \o CRLF
        chunks[k \in 0 .. Len(r.body)] == IF k = 0 THEN <<>> ELSE chunks[k - 1] \o chunk(k)
    IN  <<HeadOf(n)>> \o BlankLine \o
        (IF method = "HEAD" THEN <<>>
         ELSE CASE r.framing = "none"               -> <<>>
                [] r.framing \in {"length", "close"} -> r.body
                [] r.framing \in {"chunked", "coded"} ->
                     chunks[Len(r.body)] \o SizeLine(0) \o CRLF)

ServerReads ==
    /\ open /\ up # <<>>
    /\ up' = Tail(up)
    /\ owed' = IF Head(up).last THEN Append(owed, Head(up)) ELSE owed
    /\ UNCHANGED <<clientVars, open, network, answers, cut>>

ServerResponds(r) ==
    /\ open /\ owed # <<>>
    /\ LET request == Head(owed)
       IN  /\ network' = network \o Wire(request.call, request.method, r)
           /\ answers' = [answers EXCEPT ![request.call] = r]
    /\ open' = (r.framing # "close")
    /\ owed' = IF open' THEN Tail(owed) ELSE <<>>
    /\ up' = IF open' THEN up ELSE <<>>
    /\ UNCHANGED <<clientVars, cut>>

ServerCloses ==
    /\ open /\ open' = FALSE
    /\ up' = <<>> /\ owed' = <<>>
    /\ \E k \in 0 .. Len(network) : network' = SubSeq(network, 1, k)
    /\ cut' = (cut \/ network' # network)
    /\ UNCHANGED <<clientVars, answers>>

Server == ServerReads \/ (\E r \in Responses : ServerResponds(r)) \/ ServerCloses

-----------------------------------------------------------------------------
(* The beginning and the end of do_get, do_head and do_put *)

\* URI throws a string out of the call before anything else has happened, and
\* the program ends: saiga-client does not catch it around do_put.  (One that
\* catches it, as saiga-client does around do_get, has made no step.)
CallThrows(c) ==
    /\ pc = "idle" /\ c.host = NotAUrl
    /\ pc' = "thrown"
    /\ UNCHANGED <<calls, call, address, linkVars, unsent, parseVars, payload,
                   answers, cut, results, clean>>

\* start() returns true if "connected", whatever the host is now, and false,
\* which nobody looks at, if there is no host.
Call(c) ==
    /\ pc = "idle" /\ calls < MaxCalls /\ c.host # NotAUrl
    /\ calls' = calls + 1 /\ call' = c
    /\ pc' = IF peer # NoPeer \/ c.host = NoHost THEN "send" ELSE "resolve"
    /\ unsent' = Size(c.method)
    /\ content' = <<>> /\ body' = <<>> /\ chunk_size' = 0
    /\ answers' = Append(answers, NoAnswer)
    /\ clean' = (clean /\ IF peer = NoPeer THEN c.host # NoHost ELSE c.host = peer)
    /\ UNCHANGED <<address, linkVars, payload, cut, results>>

\* response is what get_response() will return.
Return(ok, response) ==
    /\ pc' = "idle"
    /\ results' = Append(results,
         [ok |-> ok, clean |-> clean, call |-> call, peer |-> peer,
          answer |-> answers[calls], cut |-> cut, response |-> response])

\* The destructor: disconnect() closes the socket.
Delete ==
    /\ pc = "idle" /\ pc' = "deleted"
    /\ open' = FALSE /\ up' = <<>> /\ owed' = <<>> /\ network' = <<>>
    /\ UNCHANGED <<calls, call, address, peer, unsent, parseVars, payload,
                   answers, cut, results, clean>>

-----------------------------------------------------------------------------
(* Connection::start *)

Resolve ==
    /\ pc = "resolve"
    /\ pc' = "socket" /\ address' = 1
    /\ UNCHANGED <<calls, call, linkVars, unsent, parseVars, payload, answers,
                   cut, results, clean>>

ResolveFails ==
    /\ pc = "resolve" /\ Return(FALSE, payload)
    /\ UNCHANGED <<calls, call, address, linkVars, unsent, parseVars, payload,
                   answers, cut, clean>>

\* If socket() fails, the loop goes on with the same address: nothing changes.
Socket ==
    /\ pc = "socket" /\ pc' = "connect"
    /\ UNCHANGED <<calls, call, address, linkVars, unsent, parseVars, payload,
                   answers, cut, results, clean>>

Connect ==
    /\ pc = "connect" /\ pc' = "send"
    /\ peer' = call.host /\ open' = TRUE
    /\ UNCHANGED <<calls, call, address, unsent, up, owed, network, parseVars,
                   payload, answers, cut, results, clean>>

\* Mutant: the end of the list is tested too late.
ConnectFailsLate ==
    /\ pc = "connect"
    /\ IF address <= Addresses
       THEN pc' = "socket" /\ address' = address + 1 /\ UNCHANGED results
       ELSE Return(FALSE, payload) /\ UNCHANGED address
    /\ UNCHANGED <<calls, call, linkVars, unsent, parseVars, payload, answers,
                   cut, clean>>

ConnectFails ==
    /\ pc = "connect"
    /\ IF address < Addresses
       THEN pc' = "socket" /\ address' = address + 1 /\ UNCHANGED results
       ELSE Return(FALSE, payload) /\ UNCHANGED address
    /\ UNCHANGED <<calls, call, linkVars, unsent, parseVars, payload, answers,
                   cut, clean>>

-----------------------------------------------------------------------------
(* Connection::send.  The caller prints its exceptions and goes on. *)

SendGoesOn ==
    UNCHANGED <<calls, call, address, peer, open, owed, network, parseVars,
                payload, answers, cut, results, clean>>

SendNotConnected ==
    /\ pc = "send" /\ peer = NoPeer
    /\ pc' = "receive" /\ UNCHANGED <<unsent, up>>
    /\ SendGoesOn

\* select() says within 15 seconds whether there is room in the buffer ...
SendReady ==
    /\ pc = "send" /\ peer # NoPeer /\ Len(up) < Capacity
    /\ pc' = "write" /\ UNCHANGED <<unsent, up>>
    /\ SendGoesOn

SendTimesOut ==
    /\ pc = "send" /\ peer # NoPeer /\ Len(up) = Capacity
    /\ pc' = "receive" /\ UNCHANGED <<unsent, up>>
    /\ SendGoesOn

\* ... but then write() returns only when there was room for all of it.
Write ==
    /\ pc = "write" /\ open /\ Len(up) < Capacity
    /\ unsent' = unsent - 1
    /\ up' = Append(up, [call |-> calls, method |-> call.method, last |-> unsent = 1])
    /\ pc' = IF unsent' = 0 THEN "receive" ELSE "write"
    /\ SendGoesOn

\* An error, or nobody will read it.
WriteToNobody ==
    /\ pc = "write" /\ ~open
    /\ pc' = "receive" /\ UNCHANGED <<unsent, up>>
    /\ SendGoesOn

Blocked == pc = "write" /\ open /\ Len(up) = Capacity

-----------------------------------------------------------------------------
(* receive_message *)

HeadReceived == pc = "receive" /\ Contains(content, BlankLine)

\* In a call of Connection::receive.
Receiving ==
    \/ pc = "receive" /\ ~Contains(content, BlankLine)
    \/ pc = "body" /\ payload.transfer = "" /\ Len(body) < payload.length
    \/ pc = "chunk_data" /\ Len(content) < chunk_size + 2
    \/ pc = "chunk_next" /\ ~Contains(content, CRLF)

NothingToRead == Receiving /\ peer # NoPeer /\ network = <<>>

ContentReceived(n) ==
    /\ content' \in Appended(content, n, network)
    /\ network' = Untaken(content, content', network)
    /\ UNCHANGED <<calls, call, pc, address, peer, open, unsent, up, owed, body,
                   chunk_size, payload, answers, cut, results, clean>>

\* receive() sets a bit of fd_set for fd before it tests "connected"; without a
\* connection there has been no fd, and the program may end here.
NotConnected ==
    /\ pc = "receive" /\ peer = NoPeer
    /\ \/ Return(FALSE, payload)
       \/ pc' = "crashed" /\ UNCHANGED results
    /\ UNCHANGED <<calls, call, address, linkVars, unsent, parseVars, payload,
                   answers, cut, clean>>

\* Mutant: the exception does not leave the loop.
ReceiveFailsRetries ==
    /\ NothingToRead
    /\ UNCHANGED vars

\* 15 seconds without a byte, or the end of the connection.
ReceiveFails ==
    /\ NothingToRead
    /\ Return(FALSE, payload) /\ clean' = FALSE
    /\ UNCHANGED <<calls, call, address, linkVars, unsent, parseVars, payload,
                   answers, cut>>

ReceiveHead == pc = "receive" /\ Receiving /\ ContentReceived(1)

\* The first line before the blank line, <<>> if there is none.
FirstLine ==
    LET lines == SplitString(SplitString(content, BlankLine)[1], CRLF)
    IN  IF lines = <<>> THEN <<>> ELSE lines[1]

StartsWithHead == FirstLine # <<>> /\ FirstLine[Len(FirstLine)][1] = "head"

\* Element 0, 1 or 2 of a vector that is too short.
NoHead ==
    /\ HeadReceived /\ ~StartsWithHead
    /\ pc' = "crashed"
    /\ UNCHANGED <<calls, call, address, linkVars, unsent, parseVars, payload,
                   answers, cut, results, clean>>

\* set_header_field of the fields that matter here: a field the response does
\* not have keeps the value of the response before it.
SetHeaders(n) ==
    LET r == answers[n]
    IN  [payload EXCEPT
           !.head = n,
           !.length = IF r.framing = "length" THEN Len(r.body) ELSE @,
           !.transfer = IF r.framing \in {"chunked", "coded"} THEN r.framing ELSE @,
           !.encoding = IF r.encoding # "" THEN r.encoding ELSE @]

\* The fields of "payload" frame the body of response r, and say how it is encoded.
OwnFields(p, r) ==
    /\ p.transfer # "coded"
    /\ p.transfer = "chunked" => r.framing = "chunked"
    /\ p.transfer = "" => IF r.framing = "length" THEN p.length = Len(r.body)
                          ELSE r.framing = "none" /\ p.length = 0
    /\ p.encoding = r.encoding

\* A header field, or the first line, ends the program.
BadField ==
    /\ HeadReceived /\ StartsWithHead
    /\ answers[FirstLine[Len(FirstLine)][2]].head \in {"blank", "short"}
    /\ pc' = "crashed"
    /\ UNCHANGED <<calls, call, address, linkVars, unsent, parseVars, payload,
                   answers, cut, results, clean>>

\* Something before the head in its line becomes a part of the version.
ParseHead ==
    LET n == FirstLine[Len(FirstLine)][2]
    IN
    /\ HeadReceived /\ StartsWithHead
    /\ answers[n].head \in {"whole", "short"}
    /\ payload' = SetHeaders(n)
    /\ content' = <<>>
    /\ IF call.method = "HEAD"
       THEN Return(TRUE, payload')
       ELSE /\ pc' = IF payload'.transfer = "chunked" THEN "chunk" ELSE "body"
            /\ UNCHANGED results
    /\ clean' = (clean /\ answers[n].head = "whole" /\ OwnFields(payload', answers[n]))
    /\ UNCHANGED <<calls, call, address, linkVars, unsent, body, chunk_size,
                   answers, cut>>

\* set_body, after the function that Content-Encoding asks for.
SetBody(bytes) ==
    /\ payload' = [payload EXCEPT !.body = bytes, !.inflated = payload.encoding]
    /\ Return(TRUE, payload')

\* content is empty here.  With another Transfer-Encoding nothing is received.
ReceiveBody ==
    /\ pc = "body" /\ Receiving
    /\ body' \in Appended(body, payload.length - Len(content), network)
    /\ network' = Untaken(body, body', network)
    /\ UNCHANGED <<calls, call, pc, address, peer, open, unsent, up, owed,
                   content, chunk_size, payload, answers, cut, results, clean>>

EndBody ==
    /\ pc = "body" /\ ~Receiving
    /\ SetBody(body)
    /\ UNCHANGED <<calls, call, address, linkVars, unsent, parseVars, answers,
                   cut, clean>>

-----------------------------------------------------------------------------
(* A chunked body *)

\* The number before a chunk; trim throws std::out_of_range if there is none.
\* After the last chunk, of size zero, its blank line is left to be received.
ParseSize ==
    LET pos == Find(content, CRLF, 1)
        hex == SubSeq(content, 1, pos - 1)
    IN
    /\ pc = "chunk" /\ pos # NPos
    /\ IF hex = <<>>
       THEN pc' = "crashed" /\ UNCHANGED <<content, chunk_size, payload, results, clean>>
       ELSE /\ content' = From(content, pos + Len(CRLF))
            /\ chunk_size' \in IF Len(hex) = 1 /\ hex[1][1] = "size"
                               THEN {hex[1][2]} ELSE GarbageSizes
            /\ IF chunk_size' = 0
               THEN SetBody(body) /\ clean' = FALSE
               ELSE pc' = "chunk_data" /\ UNCHANGED <<payload, results, clean>>
    /\ UNCHANGED <<calls, call, address, linkVars, unsent, body, answers, cut>>

\* At first there is nothing, and chunk_size is zero.
NoSize ==
    /\ pc = "chunk" /\ ~Contains(content, CRLF)
    /\ pc' = "chunk_data"
    /\ UNCHANGED <<calls, call, address, linkVars, unsent, parseVars, payload,
                   answers, cut, results, clean>>

ReceiveChunk ==
    pc = "chunk_data" /\ Receiving /\ ContentReceived(chunk_size - Len(content) + 2)

\* Mutant: two bytes too many are cut when there was no chunk.
EndChunkAlways ==
    /\ pc = "chunk_data" /\ ~Receiving
    /\ body' = body \o SubSeq(content, 1, chunk_size)
    /\ content' = From(content, chunk_size + 3)
    /\ pc' = "chunk_next"
    /\ UNCHANGED <<calls, call, address, linkVars, unsent, chunk_size, payload,
                   answers, cut, results, clean>>

\* The two bytes read before the first size are kept.
EndChunk ==
    /\ pc = "chunk_data" /\ ~Receiving
    /\ body' = body \o SubSeq(content, 1, chunk_size)
    /\ content' = IF chunk_size > 0 THEN From(content, chunk_size + 3) ELSE content
    /\ pc' = "chunk_next"
    /\ UNCHANGED <<calls, call, address, linkVars, unsent, chunk_size, payload,
                   answers, cut, results, clean>>

ReceiveSize == pc = "chunk_next" /\ Receiving /\ ContentReceived(1)

NextChunk ==
    /\ pc = "chunk_next" /\ ~Receiving
    /\ pc' = "chunk"
    /\ UNCHANGED <<calls, call, address, linkVars, unsent, parseVars, payload,
                   answers, cut, results, clean>>

-----------------------------------------------------------------------------
Starts == Resolve \/ ResolveFails \/ Connect \/ ConnectFails

Sends == SendNotConnected \/ SendReady \/ SendTimesOut \/ Write \/ WriteToNobody

Receives == ReceiveHead \/ ReceiveBody \/ ReceiveChunk \/ ReceiveSize

Fails == NotConnected \/ ReceiveFails

Parses ==
    NoHead \/ BadField \/ ParseHead \/ EndBody \/ ParseSize \/ NoSize \/ EndChunk
    \/ NextChunk

\* The steps of a call that end by themselves.
Runs == Starts \/ Sends \/ Receives \/ Fails \/ Parses

Program == (\E c \in Calls : Call(c) \/ CallThrows(c)) \/ Delete

Next == Program \/ Socket \/ Runs \/ Server

SafeSpec == Init /\ [][Next]_vars

\* getaddrinfo() and connect() give up after a while, and so do select() and
\* receive().  Nobody says that socket() will succeed, that the server reads,
\* answers or closes, or that the program makes another call.  (The
\* second conjunct is WF_vars(Runs), spelled out because TLC is slow to evaluate
\* ENABLED: in a call, one of these steps is possible except at socket() and
\* where the call is blocked, and they are the steps that change clientVars
\* without a new call, apart from the finitely many of Socket, CallThrows and
\* Delete.)
CallsRun ==
    /\ WF_vars(ReceiveFails)
    /\ \/ []<>(\/ pc \in {"idle", "deleted", "thrown", "crashed", "socket"}
               \/ Blocked
               \/ NothingToRead)
       \/ []<><<UNCHANGED calls>>_clientVars

Spec == SafeSpec /\ CallsRun

-----------------------------------------------------------------------------
(* Properties *)

Locations == {"idle", "resolve", "socket", "connect", "send", "write", "receive",
              "body", "chunk", "chunk_data", "chunk_next", "crashed", "deleted",
              "thrown"}

\* Types: start() stays within the list of addresses, each call returns once,
\* and what has been received only consists of bytes of the server.
TypeOK ==
    /\ calls \in 0 .. MaxCalls /\ call \in Calls /\ pc \in Locations
    /\ address \in 1 .. Addresses
    /\ peer \in {NoPeer} \cup {c.host : c \in Calls}
    /\ open \in BOOLEAN /\ cut \in BOOLEAN /\ clean \in BOOLEAN
    /\ open => peer # NoPeer
    /\ unsent \in 0 .. Capacity + 1 /\ chunk_size \in Nat
    /\ Len(up) <= Capacity
    /\ \A s \in {network, content, body, payload.body} :
         \A k \in 1 .. Len(s) : s[k] \in Bytes
    /\ payload.head \in 0 .. calls
    /\ Len(answers) = calls
    /\ \A n \in 1 .. calls : answers[n] \in Responses \cup {NoAnswer}
    /\ Len(results) = IF pc \in {"idle", "deleted", "thrown"} THEN calls
                      ELSE calls - 1

\* A call that returns true has the response to its own request, from the host
\* it was meant for, with the whole body and only the decompression that this
\* response asks for; one that returns false has got no connection or no
\* complete response.  However the bytes are cut, and until one of the
\* following spoils the rest of the object's life: an earlier call has failed
\* on the connection, which may bring its response later; the URL has another
\* host than the connection, which start() does not compare; an earlier response
\* was chunked, for its last line end is still to come; a response ends with the
\* connection, has another Transfer-Encoding, or has made the client read a line
\* of its head beyond its end; or a header field of an earlier
\* response, which is not reset, says something about the length or the encoding
\* of this one.
OwnResponse ==
    \A n \in 1 .. Len(results) :
        LET result == results[n]
            r == result.answer
        IN  result.clean =>
            IF result.ok
            THEN /\ result.peer = result.call.host /\ result.response.head = n
                 /\ r # NoAnswer
                 /\ result.call.method # "HEAD" =>
                      /\ result.response.body = r.body
                      /\ result.response.inflated = r.encoding
            ELSE result.peer = NoPeer \/ r = NoAnswer \/ result.cut

\* Every call ends, although the server may do what it likes, unless socket()
\* keeps failing or the server does not read a request that is longer than what
\* the system buffers: write() has no timeout.  It ends by returning, except that
\* URI throws if the URL is not one, and that the whole program may end after
\* something has spoiled the connection, or by a head with a field or a reason
\* that is not there.
CallEnds ==
    <>[](\/ pc \in {"idle", "deleted", "thrown"}
         \/ pc = "crashed" /\ (clean => answers[calls].head \in {"blank", "short"})
         \/ pc = "socket"
         \/ Blocked)
=============================================================================
