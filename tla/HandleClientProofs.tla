-------------------------- MODULE HandleClientProofs ---------------------------
(***************************************************************************)
(* The session of a client, proved: the types, the end of the session, and *)
(* that the requests arrive as they were sent while nothing has spoiled    *)
(* the framing of the connection.                                          *)
(***************************************************************************)
EXTENDS HandleClient, HttpBytesProofs

\* Everything a request consists of is bytes of the peer.
LEMMA BodyIsBytes ==
  ASSUME NEW n \in Nat, NEW r \in Requests
  PROVE  r.body \in Seq(BytesOf(1 .. n))
<1>1. r.body \in Seq(Bytes) /\ \A k \in 1 .. Len(r.body) : r.body[k][1] # "head"
  BY SessionAssumption
<1>2. \A k \in 1 .. Len(r.body) : r.body[k] \in BytesOf(1 .. n)
  BY <1>1, ElementOfSeq DEF BytesOf
<1> QED
  BY <1>1, <1>2

LEMMA WireIsBytes ==
  ASSUME NEW n \in Nat, NEW i \in 1 .. n, NEW r \in Requests
  PROVE  Wire(i, r) \in Seq(BytesOf(1 .. n))
<1> DEFINE B == BytesOf(1 .. n)
<1>1. <<HeadOf(i)>> \in Seq(B)
  BY DEF BytesOf, Bytes, HeadOf
<1>2. BlankLine \in Seq(B) /\ CRLF \in Seq(B)
  BY LineEnds
<1>3. r.body \in Seq(B) /\ Len(r.body) \in Nat
  BY BodyIsBytes
<1>4. SizeLine(Len(r.body)) \in Seq(B) /\ SizeLine(0) \in Seq(B)
  BY <1>3, SizeLineIs
<1>5. <<>> \in Seq(B)
  OBVIOUS
<1>6. r.framing \in {"none", "length", "chunked", "coded"}
  BY SessionAssumption
<1> HIDE DEF B
<1>7. <<HeadOf(i)>> \o BlankLine \in Seq(B)
  BY <1>1, <1>2, ConcatProperties
<1>8. SizeLine(Len(r.body)) \o r.body \o CRLF \o SizeLine(0) \o CRLF \in Seq(B)
  <2>1. SizeLine(Len(r.body)) \o r.body \in Seq(B)
    BY <1>3, <1>4, ConcatProperties
  <2>2. SizeLine(Len(r.body)) \o r.body \o CRLF \in Seq(B)
    BY <1>2, <2>1, ConcatProperties
  <2>3. SizeLine(Len(r.body)) \o r.body \o CRLF \o SizeLine(0) \in Seq(B)
    BY <1>4, <2>2, ConcatProperties
  <2> QED
    BY <1>2, <2>3, ConcatProperties
<1>9. CASE r.framing = "none"
  <2>1. Wire(i, r) = (<<HeadOf(i)>> \o BlankLine) \o <<>>
    BY <1>9 DEF Wire
  <2> QED
    BY <2>1, <1>5, <1>7, ConcatProperties DEF B
<1>10. CASE r.framing = "length"
  <2>1. Wire(i, r) = (<<HeadOf(i)>> \o BlankLine) \o r.body
    BY <1>10 DEF Wire
  <2> QED
    BY <2>1, <1>3, <1>7, ConcatProperties DEF B
<1>11. CASE r.framing \in {"chunked", "coded"}
  <2>1. Wire(i, r) = (<<HeadOf(i)>> \o BlankLine) \o (SizeLine(Len(r.body)) \o r.body \o CRLF \o SizeLine(0) \o CRLF)
    BY <1>11 DEF Wire
  <2> QED
    BY <2>1, <1>7, <1>8, ConcatProperties DEF B
<1> QED
  BY <1>6, <1>9, <1>10, <1>11 DEF B

-----------------------------------------------------------------------------
(* The parts of the content put together again *)

LEMMA RejoinIs ==
  ASSUME NEW S, NEW s \in Seq(S), BlankLine \in Seq(S), NEW parts, NEW places, NEW start,
         Lie(places, S, parts, s, BlankLine, start), Len(parts) >= 1
  PROVE  Rejoin(parts) = IF Len(parts) = 1 THEN <<>>
                         ELSE SubSeq(s, places[2], EndOf(places, parts, s, BlankLine, Len(parts)))
<1>1. PICK n \in Nat : n = Len(parts) /\ n >= 1
  BY DEF Lie
<1>2. parts \in Seq(Seq(S))
  BY DEF Lie
<1> DEFINE Is(f) == f = [i \in 1 .. Len(parts) |->
                           CASE i = 1 -> <<>>
                             [] i = 2 -> parts[2]
                             [] OTHER -> f[i - 1] \o BlankLine \o parts[i]]
           Runs(f) == \A i \in 1 .. Len(parts) :
                        f[i] = IF i = 1 THEN <<>> ELSE IF i = 2 THEN parts[2]
                               ELSE (f[i - 1] \o BlankLine) \o parts[i]
<1>3. PICK f : f = [i \in 1 .. Len(parts) |-> f[i]] /\ Runs(f)
  BY <1>2, JoiningExists
<1>4. Is(f)
  <2>1. \A i \in 1 .. Len(parts) :
          f[i] = CASE i = 1 -> <<>>
                   [] i = 2 -> parts[2]
                   [] OTHER -> f[i - 1] \o BlankLine \o parts[i]
    <3>1. Runs(f)
      BY <1>3
    <3> QED
      BY <3>1
  <2> QED
    BY <1>3, <2>1
<1>5. Rejoin(parts) = (CHOOSE g : Is(g))[n]
  BY <1>1 DEF Rejoin
<1>6. Is(CHOOSE g : Is(g))
  <2> HIDE DEF Is
  <2> QED
    BY <1>4
<1>7. PICK g : Is(g) /\ Rejoin(parts) = g[n]
  <2> HIDE DEF Is
  <2> QED
    BY <1>5, <1>6
<1>8. Runs(g)
  <2>1. \A i \in 1 .. Len(parts) :
          g[i] = CASE i = 1 -> <<>>
                   [] i = 2 -> parts[2]
                   [] OTHER -> g[i - 1] \o BlankLine \o parts[i]
    BY <1>7
  <2> QED
    BY <2>1
<1>9. CASE n = 1
  BY <1>1, <1>7, <1>8, <1>9
<1>10. CASE n > 1
  <2>1. Joins(g, parts, BlankLine)
    BY <1>1, <1>8 DEF Joins
  <2>2. n \in 2 .. Len(parts)
    BY <1>1, <1>10
  <2>3. g[n] = SubSeq(s, places[2], EndOf(places, parts, s, BlankLine, n))
    BY <2>1, <2>2, JoinedParts
  <2>4. Len(parts) # 1
    BY <1>1, <1>10
  <2>5. Rejoin(parts) = SubSeq(s, places[2], EndOf(places, parts, s, BlankLine, Len(parts)))
    <3> HIDE DEF Is, Runs
    <3> QED
      BY <1>1, <1>7, <2>3
  <2> QED
    BY <2>4, <2>5
<1> QED
  BY <1>1, <1>9, <1>10

LEMMA RejoinedIsString ==
  ASSUME NEW S, NEW s \in Seq(S), BlankLine \in Seq(S), s # <<>>
  PROVE  Rejoin(SplitString(s, BlankLine)) \in Seq(S)
<1> DEFINE parts == SplitString(s, BlankLine)
<1>1. Len(BlankLine) > 0
  BY LineEnds
<1>2. PICK places : Lie(places, S, parts, s, BlankLine, 1)
  BY <1>1, PartsLie
<1>3. parts \in Seq(Seq(S)) /\ parts # <<>>
  BY <1>1, PartsAreStrings
<1> HIDE DEF parts
<1>4. PICK n \in Nat : n = Len(parts) /\ n >= 1
  BY <1>3
<1>5. CASE n = 1
  <2>1. Rejoin(parts) = <<>>
    BY <1>2, <1>4, <1>5, RejoinIs
  <2> QED
    BY <2>1 DEF parts
<1>6. CASE n > 1
  <2> DEFINE e == EndOf(places, parts, s, BlankLine, n)
  <2>1. Rejoin(parts) = SubSeq(s, places[2], e)
    <3>1. Len(parts) >= 1 /\ Len(parts) # 1
      BY <1>4, <1>6
    <3> QED
      BY <1>2, <1>4, <3>1, RejoinIs
  <2>2. n \in 1 .. Len(parts) /\ 2 \in 1 .. Len(parts)
    BY <1>4, <1>6
  <2>3. e \in Int /\ e <= Len(s)
    BY <1>2, <2>2, PartIsPiece
  <2>4. places[2] \in Nat \ {0}
    <3>1. places[2] \in 1 .. (Len(s) + 1)
      BY <1>2, <2>2, PartsInOrder
    <3> QED
      BY <3>1
  <2> HIDE DEF e
  <2>5. SubSeq(s, places[2], e) \in Seq(S)
    BY <2>3, <2>4, PieceOf
  <2> QED
    BY <2>1, <2>5 DEF parts
<1> QED
  BY <1>4, <1>5, <1>6

-----------------------------------------------------------------------------
(* The types *)

\* A byte that says it is a head is the head of a request of the stream.
PeerBytes == BytesOf(1 .. Len(stream))

HeldRequest == [head : 0 .. Len(stream), length : Nat, encoding : {"", "chunked", "coded"},
                connection : {"", "keep-alive", "close"}, body : Seq(PeerBytes)]

Answer == [head : 0 .. Len(stream), body : Seq(PeerBytes), clean : BOOLEAN]

\* The answer that is being sent is not counted yet.
Counted == request_counter = Len(answers) - (IF pc = "send" THEN 1 ELSE 0)

TypeInv ==
    /\ stream \in Seq(Requests) /\ released \in 0 .. Len(stream) /\ pc \in Locations
    /\ network \in Seq(PeerBytes) /\ content \in Seq(PeerBytes) /\ body \in Seq(PeerBytes)
    /\ chunk_size \in Nat /\ clean \in BOOLEAN
    /\ request \in HeldRequest
    /\ answers \in Seq(Answer) /\ Counted

LEMMA TypeInvIsTypeOK == TypeInv => TypeOK
<1> SUFFICES ASSUME TypeInv PROVE TypeOK
  OBVIOUS
<1>1. PeerBytes \subseteq Bytes
  BY DEF PeerBytes, BytesOf
<1>2. \A s \in {network, content, body, request.body} : s \in Seq(PeerBytes)
  BY DEF TypeInv, HeldRequest
<1>3. \A s \in {network, content, body, request.body} : \A k \in 1 .. Len(s) : s[k] \in Bytes
  BY <1>1, <1>2, ElementOfSeq
<1>4. request.head \in 0 .. Len(stream)
  BY DEF TypeInv, HeldRequest
<1> QED
  BY <1>3, <1>4 DEF TypeInv, TypeOK, Counted

LEMMA InitTypes == Init => TypeInv
<1> SUFFICES ASSUME Init PROVE TypeInv
  OBVIOUS
<1>3. stream \in Seq(Requests) /\ Len(stream) \in Nat
  <2>1. Streams \subseteq Seq(Requests)
    BY SessionAssumption
  <2>2. stream \in Streams
    BY DEF Init
  <2>3. stream \in Seq(Requests)
    BY <2>1, <2>2
  <2> QED
    BY <2>3
<1>4. <<>> \in Seq(PeerBytes) /\ <<>> \in Seq(Answer) /\ Len(<<>>) = 0
  OBVIOUS
<1>5. request \in HeldRequest
  <2>1. request = [head |-> 0, length |-> 0, encoding |-> "", connection |-> "", body |-> <<>>]
    BY DEF Init, NoHead
  <2>2. 0 \in 0 .. Len(stream) /\ 0 \in Nat
    BY <1>3
  <2> QED
    BY <1>4, <2>1, <2>2 DEF HeldRequest
<1>6. released \in 0 .. Len(stream)
  <2>1. released = 0
    BY DEF Init
  <2> QED
    BY <1>3, <2>1
<1>7. Counted
  <2>1. answers = <<>> /\ request_counter = 0 /\ pc = "receive" /\ Len(answers) = 0
    BY DEF Init
  <2> QED
    BY <2>1 DEF Counted
<1> QED
  BY <1>3, <1>4, <1>5, <1>6, <1>7 DEF Init, TypeInv, Locations

\* Nobody changes what the peer wants to send.
LEMMA SameStream == Next => stream' = stream
BY DEF Next, Server, Receives, Fails, Computes, Answers, Release, ReceiveHead, ReceiveBody, ReceiveChunk,
       ReceiveSize, ReceiveHeadFails, ReceiveBodyFails, ReceiveChunkFails, ReceiveSizeFails,
       EmptyHead, InvalidHead, BadField, ParseHead, EndBody, ParseSize, NoSize, EndChunk, NextChunk,
       Handle, Send, peerVars

\* What ParseHead finds: the number of a request, and strings of the peer.
LEMMA HeadsAreOfRequests ==
  ASSUME TypeInv, HeadReceived, HeaderLines # <<>>, NEW line, line = HeaderLines[1],
         line # <<>>, line[Len(line)][1] = "head"
  PROVE  /\ line \in Seq(PeerBytes)
         /\ line[Len(line)][2] \in 1 .. Len(stream)
         /\ Rejoin(SplitString(content, BlankLine)) \in Seq(PeerBytes)
<1>1. content \in Seq(PeerBytes) /\ Len(stream) \in Nat
  BY DEF TypeInv
<1>2. /\ BlankLine \in Seq(PeerBytes) /\ CRLF \in Seq(PeerBytes)
      /\ Len(BlankLine) = 4 /\ Len(CRLF) = 2
  BY <1>1, LineEnds DEF PeerBytes
<1>3. content # <<>>
  <2>1. Contains(content, BlankLine)
    BY DEF HeadReceived
  <2>2. content = <<>> => Len(content) = 0
    OBVIOUS
  <2> QED
    BY <1>2, <2>1, <2>2 DEF Contains
<1>4. SplitString(content, BlankLine) \in Seq(Seq(PeerBytes)) /\ SplitString(content, BlankLine) # <<>>
  <2>1. Len(BlankLine) > 0
    BY <1>2
  <2> QED
    BY <1>1, <1>2, <1>3, <2>1, PartsAreStrings
<1>5. SplitString(content, BlankLine)[1] \in Seq(PeerBytes)
  <2>1. 1 \in 1 .. Len(SplitString(content, BlankLine))
    BY <1>4
  <2> QED
    BY <1>4, <2>1, ElementOfSeq
<1>6. HeaderLines \in Seq(Seq(PeerBytes))
  <2>1. Len(CRLF) > 0
    BY <1>2
  <2> QED
    BY <1>2, <1>5, <2>1, PartsAreStrings DEF HeaderLines
<1>7. line \in Seq(PeerBytes)
  <2>1. 1 \in 1 .. Len(HeaderLines)
    BY <1>6
  <2> QED
    BY <1>6, <2>1, ElementOfSeq
<1>8. line[Len(line)] \in PeerBytes
  <2>1. Len(line) \in 1 .. Len(line)
    BY <1>7
  <2> QED
    BY <1>7, <2>1, ElementOfSeq
<1>9. line[Len(line)][2] \in 1 .. Len(stream)
  BY <1>8 DEF PeerBytes, BytesOf
<1> QED
  BY <1>1, <1>2, <1>3, <1>7, <1>9, RejoinedIsString

LEMMA HeadersOfRequest ==
  ASSUME TypeInv, NEW i \in 1 .. Len(stream)
  PROVE  /\ stream[i] \in Requests
         /\ SetHeaders(i) \in HeldRequest
         /\ [SetHeaders(i) EXCEPT !.head = NoHead] \in HeldRequest
<1>1. stream[i] \in Requests
  BY ElementOfSeq DEF TypeInv
<1>2. PICK r \in Requests : r = stream[i]
  BY <1>1
<1>3. r.connection \in {"", "keep-alive", "close"} /\ Len(r.body) \in Nat
  <2>1. r.connection \in {"", "keep-alive", "close"}
    BY SessionAssumption
  <2>2. r.body \in Seq(Bytes)
    BY SessionAssumption
  <2>3. Len(r.body) \in Nat
    BY <2>2, LenProperties
  <2> QED
    BY <2>1, <2>3
<1>4. request \in HeldRequest /\ i \in 0 .. Len(stream) /\ 0 \in 0 .. Len(stream)
  BY DEF TypeInv
<1>5. SetHeaders(i) = [request EXCEPT
           !.head = i,
           !.length = IF r.framing = "length" THEN Len(r.body) ELSE @,
           !.encoding = IF r.framing \in {"chunked", "coded"} THEN r.framing ELSE @,
           !.connection = IF r.connection # "" THEN r.connection ELSE @]
  BY <1>2 DEF SetHeaders
<1>6. SetHeaders(i) \in HeldRequest
  BY <1>3, <1>4, <1>5 DEF HeldRequest
<1> QED
  BY <1>1, <1>4, <1>6 DEF HeldRequest, NoHead

LEMMA StepCounts == ASSUME TypeInv, Next PROVE Counted'
<1>1. answers \in Seq(Answer) /\ Len(answers) \in Nat /\ request \in HeldRequest /\ clean \in BOOLEAN
  BY DEF TypeInv
<1>2. CASE Handle
  <2>1. [head |-> request.head, body |-> request.body, clean |-> clean] \in Answer
    BY <1>1 DEF HeldRequest, Answer
  <2>2. Len(answers') = Len(answers) + 1
    BY <1>1, <1>2, <2>1, AppendProperties DEF Handle
  <2> QED
    BY <1>1, <1>2, <2>2 DEF Handle, Counted, TypeInv
<1>3. CASE Send
  BY <1>1, <1>3 DEF Send, Counted, TypeInv
<1>4. CASE Release \/ Receives
  BY <1>4 DEF Release, Receives, ReceiveHead, ReceiveBody, ReceiveChunk, ReceiveSize, Counted, TypeInv
<1>5. CASE Fails \/ Computes
  <2>1. pc # "send" /\ pc' # "send" /\ UNCHANGED <<answers, request_counter>>
    BY <1>5
    DEF Fails, Computes, ReceiveHeadFails, ReceiveBodyFails, ReceiveChunkFails, ReceiveSizeFails,
        BodyMissing, HeadReceived, EmptyHead, InvalidHead, BadField, ParseHead, EndBody, SetBody,
        ParseSize, NoSize, EndChunk, NextChunk
  <2> QED
    BY <2>1 DEF Counted, TypeInv
<1> QED
  BY <1>2, <1>3, <1>4, <1>5 DEF Next, Server, Answers

LEMMA StepTypes == TypeInv /\ [Next]_vars => TypeInv'
<1> SUFFICES ASSUME TypeInv, [Next]_vars PROVE TypeInv'
  OBVIOUS
<1>1. CASE UNCHANGED vars
  BY <1>1 DEF TypeInv, vars, PeerBytes, HeldRequest, Answer, Counted
<1>2. CASE Next
  <2>1. stream' = stream
    BY <1>2, SameStream
  <2>2. PeerBytes' = PeerBytes
    BY <2>1 DEF PeerBytes
  <2>3. HeldRequest' = HeldRequest /\ Answer' = Answer
    BY <2>1, <2>2 DEF HeldRequest, Answer
  <2>4. /\ stream \in Seq(Requests) /\ released \in 0 .. Len(stream) /\ pc \in Locations
        /\ network \in Seq(PeerBytes) /\ content \in Seq(PeerBytes) /\ body \in Seq(PeerBytes)
        /\ chunk_size \in Nat /\ clean \in BOOLEAN /\ request \in HeldRequest
        /\ answers \in Seq(Answer) /\ Len(stream) \in Nat
    BY DEF TypeInv
  <2>5. {"receive", "body", "chunk", "chunk_data", "chunk_next", "handle", "send", "done", "crashed"}
          \subseteq Locations
    BY DEF Locations
  <2>6. SUFFICES
          /\ released' \in 0 .. Len(stream) /\ pc' \in Locations
          /\ network' \in Seq(PeerBytes) /\ content' \in Seq(PeerBytes) /\ body' \in Seq(PeerBytes)
          /\ chunk_size' \in Nat /\ clean' \in BOOLEAN
          /\ request' \in HeldRequest
          /\ answers' \in Seq(Answer)
    BY <1>2, <2>1, <2>2, <2>3, <2>4, StepCounts DEF TypeInv
  <2>7. [request EXCEPT !.body = body] \in HeldRequest
    BY <2>4 DEF HeldRequest
  <2>8. CASE Release
    <3>1. /\ released' = released + 1 /\ released < Len(stream)
          /\ network' = network \o Wire(released + 1, stream[released + 1])
          /\ clean' = (clean /\ Len(answers) = released)
          /\ UNCHANGED <<pc, content, body, chunk_size, request_counter, request, answers>>
      BY <2>8 DEF Release
    <3>2. released + 1 \in 1 .. Len(stream)
      BY <2>4, <3>1
    <3>3. stream[released + 1] \in Requests
      BY <2>4, <3>2, ElementOfSeq
    <3>4. Wire(released + 1, stream[released + 1]) \in Seq(PeerBytes)
      BY <2>4, <3>2, <3>3, WireIsBytes DEF PeerBytes
    <3>5. network' \in Seq(PeerBytes)
      BY <2>4, <3>1, <3>4, ConcatProperties
    <3> QED
      BY <2>4, <3>1, <3>2, <3>5
  <2>9. ASSUME NEW s \in Seq(PeerBytes), NEW longer, NEW n \in Int, longer \in AppendReceived(n, s),
               Taken(s, longer)
        PROVE  longer \in Seq(PeerBytes) /\ network' \in Seq(PeerBytes)
    BY <2>4, <2>9, ReceivedIs DEF AppendReceived, Taken
  <2>10. CASE ReceiveHead
    <3>1. content' \in Seq(PeerBytes) /\ network' \in Seq(PeerBytes)
      BY <2>4, <2>9, <2>10 DEF ReceiveHead
    <3> QED
      BY <2>4, <2>10, <3>1 DEF ReceiveHead, peerVars
  <2>11. CASE ReceiveBody
    <3>1. request.length - Len(content) \in Int
      <4>1. request.length \in Nat
        BY <2>4 DEF HeldRequest
      <4>2. Len(content) \in Nat
        BY <2>4
      <4> QED
        BY <4>1, <4>2
    <3>2. body' \in Seq(PeerBytes) /\ network' \in Seq(PeerBytes)
      BY <2>4, <2>9, <2>11, <3>1 DEF ReceiveBody
    <3> QED
      BY <2>4, <2>11, <3>2 DEF ReceiveBody, peerVars
  <2>12. CASE ReceiveChunk
    <3>1. chunk_size - Len(content) + 2 \in Int
      BY <2>4
    <3>2. content' \in Seq(PeerBytes) /\ network' \in Seq(PeerBytes)
      BY <2>4, <2>9, <2>12, <3>1 DEF ReceiveChunk
    <3> QED
      BY <2>4, <2>12, <3>2 DEF ReceiveChunk, peerVars
  <2>13. CASE ReceiveSize
    <3>1. content' \in Seq(PeerBytes) /\ network' \in Seq(PeerBytes)
      BY <2>4, <2>9, <2>13 DEF ReceiveSize
    <3> QED
      BY <2>4, <2>13, <3>1 DEF ReceiveSize, peerVars
  <2>14. CASE Fails
    BY <2>4, <2>5, <2>7, <2>14
    DEF Fails, ReceiveHeadFails, ReceiveBodyFails, ReceiveChunkFails, ReceiveSizeFails, SetBody, peerVars
  <2>15. CASE EmptyHead \/ InvalidHead \/ BadField \/ NoSize \/ NextChunk
    BY <2>4, <2>5, <2>15 DEF EmptyHead, InvalidHead, BadField, NoSize, NextChunk, peerVars
  <2>16. CASE ParseHead
    <3> DEFINE parts == SplitString(content, BlankLine)
               line == HeaderLines[1]
               i == line[Len(line)][2]
               rejoined == Rejoin(parts)
    <3>1. HeadReceived /\ HeaderLines # <<>> /\ line # <<>> /\ line[Len(line)][1] = "head"
      BY <2>16 DEF ParseHead
    <3>2. i \in 1 .. Len(stream) /\ rejoined \in Seq(PeerBytes)
      BY <3>1, HeadsAreOfRequests
    <3>3. /\ request' = IF Len(line) = 1 THEN SetHeaders(i) ELSE [SetHeaders(i) EXCEPT !.head = NoHead]
          /\ \/ pc' = "handle" /\ content' = <<>> /\ body' = body \o rejoined
             \/ pc' = "chunk" /\ content' = body \o rejoined /\ body' = <<>>
             \/ pc' = "body" /\ content' = <<>> /\ body' = body \o rejoined
          /\ chunk_size' = 0 /\ clean' \in BOOLEAN
          /\ UNCHANGED <<released, network, request_counter, answers>>
      BY <2>16 DEF ParseHead, peerVars
    <3> HIDE DEF i, line, rejoined
    <3>4. request' \in HeldRequest
      BY <3>2, <3>3, HeadersOfRequest
    <3>5. body \o rejoined \in Seq(PeerBytes) /\ <<>> \in Seq(PeerBytes)
      BY <2>4, <3>2, ConcatProperties
    <3> QED
      BY <2>4, <2>5, <3>3, <3>4, <3>5
  <2>17. CASE EndBody
    BY <2>4, <2>5, <2>7, <2>17 DEF EndBody, SetBody, peerVars
  <2>18. CASE ParseSize
    <3> DEFINE pos == Find(content, CRLF, 1)
               hex == SubSeq(content, 1, pos - 1)
    <3>1. CRLF \in Seq(PeerBytes) /\ Len(CRLF) = 2
      BY <2>4, LineEnds DEF PeerBytes
    <3>2. pos \in 1 .. (Len(content) - 1)
      <4>1. pos # NPos /\ Len(content) + 1 - Len(CRLF) = Len(content) - 1 /\ 1 \in Nat \ {0}
        BY <2>4, <2>18, <3>1 DEF ParseSize
      <4> HIDE DEF pos
      <4>2. pos = NPos \/ pos \in 1 .. (Len(content) + 1 - Len(CRLF))
        BY <2>4, <3>1, <4>1, FindIs DEF pos
      <4> QED
        BY <4>1, <4>2
    <3>3. CASE hex = <<>>
      BY <2>4, <2>5, <2>18, <3>3 DEF ParseSize, peerVars
    <3>4. CASE hex # <<>>
      <4>1. content' = From(content, pos + Len(CRLF))
        BY <2>18, <3>4 DEF ParseSize
      <4>2. chunk_size' \in IF Len(hex) = 1 /\ hex[1][1] = "size" THEN {hex[1][2]} ELSE GarbageSizes
        BY <2>18, <3>4 DEF ParseSize
      <4>3. IF chunk_size' = 0 THEN SetBody ELSE pc' = "chunk_data" /\ UNCHANGED request
        BY <2>18, <3>4 DEF ParseSize
      <4>4. UNCHANGED <<released, network, body, request_counter, answers, clean>>
        BY <2>18 DEF ParseSize, peerVars
      <4>5. content' \in Seq(PeerBytes)
        <5>1. pos + Len(CRLF) \in Nat \ {0} /\ Len(content) \in Int /\ Len(content) <= Len(content)
          BY <2>4, <3>1, <3>2
        <5> HIDE DEF pos
        <5> QED
          BY <2>4, <4>1, <5>1, PieceOf DEF From
      <4>6. chunk_size' \in Nat
        <5>1. GarbageSizes \subseteq Nat
          BY SessionAssumption
        <5>2. hex[1] \in PeerBytes
          <6>1. hex \in Seq(PeerBytes)
            <7>1. 1 \in Nat \ {0} /\ pos - 1 \in Int /\ pos - 1 <= Len(content)
              BY <2>4, <3>2
            <7> HIDE DEF pos
            <7> QED
              BY <2>4, <7>1, PieceOf
          <6>2. 1 \in 1 .. Len(hex)
            <7> HIDE DEF hex
            <7> QED
              BY <3>4, <6>1
          <6> HIDE DEF hex
          <6> QED
            BY <6>1, <6>2, ElementOfSeq
        <5>3. hex[1][2] \in Nat
          <6> HIDE DEF hex
          <6> QED
            BY <5>2 DEF PeerBytes, BytesOf, Bytes
        <5> HIDE DEF hex
        <5> QED
          BY <4>2, <5>1, <5>3
      <4> QED
        BY <2>4, <2>5, <2>7, <4>3, <4>4, <4>5, <4>6 DEF SetBody
    <3> QED
      BY <3>3, <3>4
  <2>19. CASE EndChunk
    <3>1. /\ Len(content) >= chunk_size + 2 /\ body' = body \o SubSeq(content, 1, chunk_size)
          /\ content' = From(content, chunk_size + 3) /\ pc' = "chunk_next"
          /\ UNCHANGED <<released, network, chunk_size, request_counter, request, answers, clean>>
      BY <2>19 DEF EndChunk, peerVars
    <3>2. SubSeq(content, 1, chunk_size) \in Seq(PeerBytes)
      <4>1. 1 \in Nat \ {0} /\ chunk_size \in Int /\ chunk_size <= Len(content)
        BY <2>4, <3>1
      <4> QED
        BY <2>4, <4>1, PieceOf
    <3>3. content' \in Seq(PeerBytes)
      <4>1. chunk_size + 3 \in Nat \ {0} /\ Len(content) \in Int /\ Len(content) <= Len(content)
        BY <2>4
      <4> QED
        BY <2>4, <3>1, <4>1, PieceOf DEF From
    <3>4. body' \in Seq(PeerBytes)
      BY <2>4, <3>1, <3>2, ConcatProperties
    <3> QED
      BY <2>4, <2>5, <3>1, <3>3, <3>4
  <2>20. CASE Handle
    <3>1. /\ answers' = Append(answers, [head |-> request.head, body |-> request.body, clean |-> clean])
          /\ pc' = "send"
          /\ UNCHANGED <<released, network, content, body, chunk_size, request, clean>>
      BY <2>20 DEF Handle, peerVars
    <3>2. [head |-> request.head, body |-> request.body, clean |-> clean] \in Answer
      BY <2>4 DEF HeldRequest, Answer
    <3>3. answers' \in Seq(Answer)
      BY <2>4, <3>1, <3>2, AppendProperties
    <3> QED
      BY <2>4, <2>5, <3>1, <3>3
  <2>21. CASE Send
    BY <2>4, <2>5, <2>21 DEF Send, peerVars
  <2> QED
    BY <1>2, <2>8, <2>10, <2>11, <2>12, <2>13, <2>14, <2>15, <2>16, <2>17, <2>18, <2>19, <2>20, <2>21
    DEF Next, Server, Receives, Computes, Answers
<1> QED
  BY <1>1, <1>2

\* The types of TypeOK, with which every byte that says it is a head is the head
\* of a request of the peer.
THEOREM SessionTypes == SafeSpec => []TypeInv
<1>1. TypeInv /\ [Next]_vars => TypeInv'
  BY StepTypes
<1> QED
  BY InitTypes, <1>1, PTL DEF SafeSpec

\* Whatever is received in whatever pieces, it is kept as bytes of the peer, each
\* request is counted, and the sizes are numbers.
THEOREM SessionTypesOK == SafeSpec => []TypeOK
BY SessionTypes, TypeInvIsTypeOK, PTL

-----------------------------------------------------------------------------
(* The end of the session *)

\* The request that is being read, handled or answered, if it is known, has said
\* the last about the connection.
InHand == {"body", "chunk", "chunk_data", "chunk_next", "handle", "send"}
LastWord ==
    /\ pc \in InHand /\ request.head # NoHead
         => \/ stream[request.head].connection = ""
            \/ request.connection = stream[request.head].connection
    /\ pc = "send" => answers[Len(answers)].head = request.head

\* As long as the session goes on there is room below the limit, and nobody whose
\* answer has been sent has said "close".
GoesOnWhileWanted ==
    pc \notin {"done", "crashed"} =>
      /\ request_counter <= Limit
      /\ \A n \in 1 .. request_counter :
           answers[n].head # NoHead => stream[answers[n].head].connection # "close"

CloseInv == TypeInv /\ LastWord /\ GoesOnWhileWanted /\ NothingAfterClose

LEMMA StepKeepsClose == CloseInv /\ [Next]_vars => CloseInv'
<1> SUFFICES ASSUME CloseInv, [Next]_vars PROVE CloseInv'
  OBVIOUS
<1>1. TypeInv /\ TypeInv'
  BY StepTypes DEF CloseInv
<1>2. CASE UNCHANGED vars
  BY <1>1, <1>2 DEF CloseInv, LastWord, GoesOnWhileWanted, NothingAfterClose, vars
<1>3. CASE Next
  <2>1. stream' = stream
    BY <1>3, SameStream
  <2>2. /\ request \in HeldRequest /\ answers \in Seq(Answer) /\ Counted
        /\ Len(answers) \in Nat /\ Limit \in Nat
    <3>1. Limit \in Nat
      BY SessionAssumption
    <3> QED
      BY <1>1, <3>1 DEF TypeInv
  <2>3. ASSUME UNCHANGED <<answers, request_counter>>, pc' \notin {"done", "crashed"} => pc \notin {"done", "crashed"}
        PROVE  GoesOnWhileWanted' /\ NothingAfterClose'
    BY <2>1, <2>3 DEF CloseInv, GoesOnWhileWanted, NothingAfterClose
  <2>4. ASSUME request'.head = request.head, request'.connection = request.connection,
               pc' \in InHand => pc \in InHand, pc' = "send" => pc = "send", answers' = answers
        PROVE  LastWord'
    BY <2>1, <2>4 DEF CloseInv, LastWord
  <2>5. LET new == [request EXCEPT !.body = body] IN new.head = request.head /\ new.connection = request.connection
    BY <2>2 DEF HeldRequest
  <2>6. CASE Release
    BY <1>1, <2>3, <2>4, <2>6 DEF Release, CloseInv
  <2>7. CASE Receives
    BY <1>1, <2>3, <2>4, <2>7 DEF Receives, ReceiveHead, ReceiveBody, ReceiveChunk, ReceiveSize, CloseInv
  <2>8. CASE Fails
    BY <1>1, <2>3, <2>4, <2>5, <2>8
    DEF Fails, ReceiveHeadFails, ReceiveBodyFails, BodyMissing, ReceiveChunkFails, ReceiveSizeFails,
        SetBody, InHand, CloseInv
  <2>9. CASE EmptyHead \/ InvalidHead \/ BadField \/ NoSize \/ NextChunk
    BY <1>1, <2>3, <2>4, <2>9
    DEF EmptyHead, InvalidHead, BadField, NoSize, NextChunk, HeadReceived, InHand, CloseInv
  <2>10. CASE ParseHead
    <3> DEFINE line == HeaderLines[1]
               i == line[Len(line)][2]
    <3>1. /\ pc = "receive" /\ HeadReceived /\ HeaderLines # <<>>
          /\ line # <<>> /\ line[Len(line)][1] = "head"
          /\ UNCHANGED <<answers, request_counter>> /\ pc' # "send"
          /\ request' = IF Len(line) = 1 THEN SetHeaders(i) ELSE [SetHeaders(i) EXCEPT !.head = NoHead]
      BY <2>10 DEF ParseHead, HeadReceived
    <3>2. i \in 1 .. Len(stream)
      BY <1>1, <3>1, HeadsAreOfRequests
    <3> HIDE DEF i, line
    <3>3. GoesOnWhileWanted' /\ NothingAfterClose'
      BY <2>3, <3>1
    <3>4. LastWord'
      <4>1. /\ SetHeaders(i).head = i
            /\ SetHeaders(i).connection = IF stream[i].connection # "" THEN stream[i].connection
                                          ELSE request.connection
            /\ [SetHeaders(i) EXCEPT !.head = NoHead].head = NoHead
        BY <2>2 DEF SetHeaders, HeldRequest
      <4>2. request'.head # NoHead => request' = SetHeaders(i)
        BY <3>1, <4>1
      <4> QED
        BY <2>1, <3>1, <4>1, <4>2 DEF LastWord
    <3> QED
      BY <1>1, <3>3, <3>4 DEF CloseInv
  <2>11. CASE EndBody
    BY <1>1, <2>3, <2>4, <2>5, <2>11 DEF EndBody, SetBody, InHand, CloseInv
  <2>12. CASE ParseSize
    <3>1. /\ pc = "chunk" /\ UNCHANGED <<answers, request_counter>>
          /\ request' = request \/ request' = [request EXCEPT !.body = body]
          /\ pc' \in {"crashed", "handle", "chunk_data"}
      BY <2>12 DEF ParseSize, SetBody
    <3> QED
      BY <1>1, <2>3, <2>4, <2>5, <3>1 DEF InHand, CloseInv
  <2>13. CASE EndChunk
    BY <1>1, <2>3, <2>4, <2>13 DEF EndChunk, InHand, CloseInv
  <2>14. CASE Handle
    <3> DEFINE a == [head |-> request.head, body |-> request.body, clean |-> clean]
    <3>1. /\ pc = "handle" /\ pc' = "send"
          /\ answers' = Append(answers, a)
          /\ UNCHANGED <<request, request_counter>>
      BY <2>14 DEF Handle
    <3>2. /\ request_counter = Len(answers) /\ request_counter <= Limit
          /\ \A n \in 1 .. Len(answers) :
               answers[n].head # NoHead => stream[answers[n].head].connection # "close"
      <4>1. request_counter = Len(answers)
        BY <2>2, <3>1 DEF Counted
      <4> QED
        BY <3>1, <4>1 DEF CloseInv, GoesOnWhileWanted
    <3>3. a \in Answer /\ a.head = request.head
      BY <1>1 DEF TypeInv, HeldRequest, Answer
    <3> HIDE DEF a
    <3>4. /\ Len(answers') = Len(answers) + 1
          /\ \A n \in 1 .. Len(answers) : answers'[n] = answers[n]
          /\ answers'[Len(answers) + 1] = a
      BY <2>2, <3>1, <3>3, AppendProperties
    <3>5. Len(answers') - 1 = Len(answers) /\ Len(answers') <= Limit + 1
      BY <2>2, <3>2, <3>4
    <3>6. \A n \in 1 .. Len(answers) :
            answers'[n].head # NoHead => stream'[answers'[n].head].connection # "close"
      BY <2>1, <3>2, <3>4
    <3>7. NothingAfterClose' /\ GoesOnWhileWanted'
      BY <3>1, <3>2, <3>5, <3>6 DEF NothingAfterClose, GoesOnWhileWanted
    <3>8. LastWord'
      BY <2>1, <3>1, <3>3, <3>4 DEF LastWord, InHand, CloseInv
    <3> QED
      BY <1>1, <3>7, <3>8 DEF CloseInv
  <2>15. CASE Send
    <3>1. /\ pc = "send"
          /\ UNCHANGED <<request, answers>>
          /\ request_counter' = request_counter + 1
          /\ pc' = IF request.connection = "keep-alive" /\ request_counter' <= Limit THEN "receive" ELSE "done"
      BY <2>15 DEF Send
    <3>2. /\ answers[Len(answers)].head = request.head
          /\ request.head # NoHead => \/ stream[request.head].connection = ""
                                      \/ request.connection = stream[request.head].connection
      BY <3>1 DEF CloseInv, LastWord, InHand
    <3>3. /\ request_counter' = Len(answers)
          /\ \A n \in 1 .. (Len(answers) - 1) :
               answers[n].head # NoHead => stream[answers[n].head].connection # "close"
      BY <2>2, <3>1 DEF Counted, CloseInv, NothingAfterClose
    <3>4. NothingAfterClose'
      BY <2>1, <3>1 DEF CloseInv, NothingAfterClose
    <3>5. GoesOnWhileWanted'
      <4>1. SUFFICES ASSUME pc' = "receive", NEW n \in 1 .. Len(answers), answers[n].head # NoHead
                     PROVE  stream[answers[n].head].connection # "close"
        BY <2>1, <3>1, <3>3 DEF GoesOnWhileWanted
      <4>2. CASE n \in 1 .. (Len(answers) - 1)
        BY <3>3, <4>1, <4>2
      <4>3. CASE n = Len(answers)
        BY <3>1, <3>2, <4>1, <4>3
      <4> QED
        BY <2>2, <4>2, <4>3
    <3>6. LastWord'
      BY <3>1 DEF LastWord, InHand
    <3> QED
      BY <1>1, <3>4, <3>5, <3>6 DEF CloseInv
  <2> QED
    BY <1>3, <2>6, <2>7, <2>8, <2>9, <2>10, <2>11, <2>12, <2>13, <2>14, <2>15
    DEF Next, Server, Computes, Answers
<1> QED
  BY <1>2, <1>3

\* Whoever says "Connection: close" gets no further request handled, whatever is
\* still to come, and nobody gets more than the limit.
THEOREM SessionEnds == SafeSpec => []NothingAfterClose
<1>1. Init => CloseInv
  <2> SUFFICES ASSUME Init PROVE CloseInv
    OBVIOUS
  <2>1. TypeInv
    BY InitTypes
  <2>2. Limit \in Nat
    BY SessionAssumption
  <2>3. answers = <<>> /\ request_counter = 0 /\ pc = "receive" /\ Len(answers) = 0
    BY DEF Init
  <2> QED
    BY <2>1, <2>2, <2>3 DEF CloseInv, LastWord, InHand, GoesOnWhileWanted, NothingAfterClose
<1>2. CloseInv /\ [Next]_vars => CloseInv'
  BY StepKeepsClose
<1>3. CloseInv => NothingAfterClose
  BY DEF CloseInv
<1> QED
  BY <1>1, <1>2, <1>3, PTL DEF SafeSpec

-----------------------------------------------------------------------------
(* The requests as they were sent *)

\* What a request sends behind the blank line.
LastChunk == SizeLine(0) \o CRLF
Payload(r) ==
    CASE r.framing = "none"    -> <<>>
      [] r.framing = "length"  -> r.body
      [] r.framing \in {"chunked", "coded"} -> SizeLine(Len(r.body)) \o (r.body \o (CRLF \o LastChunk))

LEMMA WireIs ==
  ASSUME NEW n \in Nat, NEW i \in 1 .. n, NEW r \in Requests
  PROVE  /\ Wire(i, r) = Opening(i) \o Payload(r)
         /\ Payload(r) \in Seq(BytesOf(1 .. n))
         /\ LastChunk \in Seq(BytesOf(1 .. n)) /\ CRLF \o LastChunk \in Seq(BytesOf(1 .. n))
         /\ r.body \o (CRLF \o LastChunk) \in Seq(BytesOf(1 .. n))
         /\ r.framing \in {"none", "length", "chunked", "coded"}
         /\ r.framing = "none" => r.body = <<>>
<1> DEFINE B == BytesOf(1 .. n)
           s == SizeLine(Len(r.body))
           z == SizeLine(0)
           b == r.body
<1>1. r.framing \in {"none", "length", "chunked", "coded"} /\ (r.framing = "none" => r.body = <<>>)
  BY SessionAssumption
<1>2. b \in Seq(B) /\ Len(b) \in Nat
  BY BodyIsBytes
<1>3. s \in Seq(B) /\ z \in Seq(B)
  <2>1. Len(r.body) \in Nat /\ 0 \in Nat
    BY <1>2
  <2> QED
    BY <2>1, SizeLineIs
<1>4. CRLF \in Seq(B)
  BY LineEnds
<1> HIDE DEF B, s, z, b
<1>5. z \o CRLF \in Seq(B) /\ CRLF \o (z \o CRLF) \in Seq(B)
  BY <1>3, <1>4, ConcatProperties
<1>6. b \o (CRLF \o (z \o CRLF)) \in Seq(B)
  BY <1>2, <1>5, ConcatProperties
<1>7. s \o (b \o (CRLF \o (z \o CRLF))) \in Seq(B)
  BY <1>3, <1>6, ConcatProperties
<1>8. (((s \o b) \o CRLF) \o z) \o CRLF = s \o (b \o (CRLF \o (z \o CRLF)))
  <2>1. Regroups(s, b, CRLF, z)
    BY <1>2, <1>3, <1>4, Regroup
  <2> QED
    BY <2>1, Zenon DEF Regroups
<1>9. LastChunk = z \o CRLF
  BY DEF LastChunk, z
<1>10. Wire(i, r) = Opening(i) \o Payload(r) /\ Payload(r) \in Seq(B)
  <2>1. CASE r.framing = "none"
    <3>1. Payload(r) = <<>> /\ Wire(i, r) = (<<HeadOf(i)>> \o BlankLine) \o <<>>
      BY <2>1 DEF Payload, Wire
    <3> QED
      BY <3>1 DEF Opening
  <2>2. CASE r.framing = "length"
    <3>1. Payload(r) = b /\ Wire(i, r) = (<<HeadOf(i)>> \o BlankLine) \o b
      BY <2>2 DEF Payload, Wire, b
    <3> QED
      BY <1>2, <3>1 DEF Opening
  <2>3. CASE r.framing \in {"chunked", "coded"}
    <3>1. Payload(r) = s \o (b \o (CRLF \o (z \o CRLF)))
      BY <1>9, <2>3 DEF Payload, b, s
    <3>2. Wire(i, r) = (<<HeadOf(i)>> \o BlankLine) \o ((((s \o b) \o CRLF) \o z) \o CRLF)
      BY <2>3 DEF Wire, b, s, z
    <3> QED
      BY <1>7, <1>8, <3>1, <3>2 DEF Opening
  <2> QED
    BY <1>1, <2>1, <2>2, <2>3
<1> QED
  BY <1>1, <1>5, <1>6, <1>9, <1>10 DEF B, b

\* What ParseHead makes of a head that has been received with the blank line.
LEMMA HeadRead ==
  ASSUME Len(stream) \in Nat, content \in Seq(PeerBytes), network \in Seq(PeerBytes),
         NEW i \in 1 .. Len(stream), NEW q \in Seq(PeerBytes),
         Begins(content, network, Opening(i), q), Contains(content, BlankLine)
  PROVE  /\ SplitString(content, BlankLine)[1] = <<HeadOf(i)>>
         /\ HeaderLines = << <<HeadOf(i)>> >>
         /\ From(content, 6) \in Seq(PeerBytes) /\ From(content, 6) \o network = q
         /\ ~EndsWith(From(content, 6), BlankLine)
              => Rejoin(SplitString(content, BlankLine)) = From(content, 6)
<1> DEFINE parts == SplitString(content, BlankLine)
           more == From(content, 6)
<1>1. /\ BlankLine \in Seq(PeerBytes) /\ CRLF \in Seq(PeerBytes)
      /\ Len(BlankLine) = 4 /\ Len(CRLF) = 2
  BY LineEnds DEF PeerBytes
<1>2. /\ Len(content) >= 5 /\ FirstAt(content, BlankLine, 2)
      /\ more \in Seq(PeerBytes) /\ more \o network = q
      /\ parts[1] = <<HeadOf(i)>>
      /\ SplitString(<<HeadOf(i)>>, CRLF) = << <<HeadOf(i)>> >>
  <2>1. 1 .. Len(stream) \in SUBSET Nat
    OBVIOUS
  <2> QED
    BY <2>1, HeadIsFirst DEF PeerBytes
<1>3. PICK l \in Nat : l = Len(content) /\ l >= 5
  <2>1. Len(content) \in Nat
    OBVIOUS
  <2> QED
    BY <1>2, <2>1, Zenon
<1>6. PICK places : Lie(places, PeerBytes, parts, content, BlankLine, 1)
  <2>1. Len(BlankLine) > 0
    BY <1>1
  <2> QED
    BY <1>1, <2>1, PartsLie
<1> HIDE DEF parts
<1>7. Len(parts) >= 1 /\ places[2] = 6
  <2>1. BlankLine \in Seq(PeerBytes) /\ Len(BlankLine) > 0 /\ 2 + Len(BlankLine) = 6
    BY <1>1
  <2> HIDE DEF more
  <2>2. Len(parts) >= 1
    BY <1>2, <1>6, <2>1, FirstPart
  <2>3. places[2] = 2 + Len(BlankLine)
    BY <1>2, <1>6, <2>1, FirstPart
  <2> QED
    BY <2>1, <2>2, <2>3
<1>8. HeaderLines = << <<HeadOf(i)>> >>
  BY <1>2 DEF HeaderLines, parts
<1>9. ASSUME ~EndsWith(more, BlankLine) PROVE Rejoin(parts) = more
  <2>1. PICK n \in Nat : n = Len(parts) /\ n >= 1
    BY <1>6, <1>7 DEF Lie
  <2>2. places[n + 1] = l + 1
    BY <1>3, <1>6, <2>1 DEF Lie
  <2>3. CASE n = 1
    <3>1. l = 5
      BY <1>3, <1>7, <2>2, <2>3, SMTT(40)
    <3>2. more = <<>>
      <4>1. more = SubSeq(content, 6, 5)
        BY <1>3, <3>1 DEF From
      <4>2. 6 \in Nat \ {0} /\ 5 \in Int /\ 5 <= Len(content) /\ ~(6 <= 5)
        BY <1>3, <3>1
      <4> HIDE DEF more
      <4>3. Len(more) = 0
        BY <4>1, <4>2, PieceOf
      <4> QED
        BY <1>2, <4>3, EmptySeq
    <3>3. Rejoin(parts) = <<>>
      BY <1>1, <1>6, <1>7, <2>1, <2>3, RejoinIs
    <3> QED
      BY <3>2, <3>3
  <2>4. CASE n > 1
    <3> DEFINE e == EndOf(places, parts, content, BlankLine, n)
    <3>1. Rejoin(parts) = SubSeq(content, 6, e)
      <4>1. Len(parts) # 1
        <5>1. n # 1
          BY <2>4
        <5> QED
          BY <2>1, <5>1, Zenon
      <4>2. Rejoin(parts) = SubSeq(content, places[2], EndOf(places, parts, content, BlankLine, Len(parts)))
        BY <1>1, <1>6, <1>7, <4>1, RejoinIs
      <4> QED
        BY <1>7, <2>1, <4>2
    <3>2. ~Cut(content, BlankLine, places[n], places[n + 1], parts[n])
      <4> SUFFICES ASSUME Cut(content, BlankLine, places[n], places[n + 1], parts[n])
                   PROVE  EndsWith(more, BlankLine)
        BY <1>9
      <4>1. n \in 1 .. Len(parts) /\ n \in 2 .. Len(parts)
        BY <2>1, <2>4
      <4>2. PICK a \in Nat : a = places[n] /\ 6 <= a
        <5>1. places[n] \in 1 .. (Len(content) + 1)
          BY <1>1, <1>6, <4>1, PartsInOrder
        <5>2. \E g : Joins(g, parts, BlankLine)
          <6>1. parts \in Seq(Seq(PeerBytes))
            BY <1>6 DEF Lie
          <6>2. PICK f : \A k \in 1 .. Len(parts) :
                     f[k] = IF k = 1 THEN <<>> ELSE IF k = 2 THEN parts[2]
                            ELSE (f[k - 1] \o BlankLine) \o parts[k]
            BY <1>1, <6>1, JoiningExists, SMTT(40)
          <6> QED
            BY <2>1, <2>4, <6>2, SMTT(40) DEF Joins
        <5>3. places[2] <= places[n]
          BY <1>1, <1>6, <4>1, <5>2, JoinedParts
        <5> QED
          BY <1>3, <1>7, <5>1, <5>3
      <4>3. a <= l - 3 /\ IsAt(content, BlankLine, l - 3)
        <5>1. a <= (l + 1) - Len(BlankLine) /\ IsAt(content, BlankLine, (l + 1) - Len(BlankLine))
          BY <2>2, <4>2 DEF Cut
        <5>2. (l + 1) - Len(BlankLine) = l - 3
          BY <1>1
        <5> QED
          BY <5>1, <5>2
      <4>4. /\ Len(more) = l - 5 /\ \A k \in 1 .. l - 5 : more[k] = content[6 + k - 1]
        <5>1. 6 \in Nat \ {0} /\ l \in Int /\ l <= Len(content) /\ 6 <= l /\ l - 6 + 1 = l - 5
          BY <1>3, <4>2, <4>3
        <5>2. more = SubSeq(content, 6, l)
          BY <1>3 DEF From
        <5> HIDE DEF more
        <5>3. /\ Len(more) = IF 6 <= l THEN l - 6 + 1 ELSE 0
              /\ \A k \in 1 .. (l - 6 + 1) : more[k] = content[6 + k - 1]
          BY <5>1, <5>2, PieceOf
        <5> QED
          BY <5>1, <5>3
      <4> HIDE DEF more
      <4>5. /\ Len(more) >= Len(BlankLine) /\ Len(more) - Len(BlankLine) + 1 = l - 8 /\ l >= 9
        BY <1>1, <4>2, <4>3, <4>4
      <4>6. IsAt(more, BlankLine, l - 8)
        <5>1. ASSUME NEW k \in 1 .. 4 PROVE more[(l - 8) + k - 1] = BlankLine[k]
          <6>1. (l - 8) + k - 1 \in 1 .. l - 5 /\ 6 + ((l - 8) + k - 1) - 1 = (l - 3) + k - 1
            BY <4>5
          <6>2. content[(l - 3) + k - 1] = BlankLine[k]
            BY <1>1, <4>3 DEF IsAt
          <6> QED
            BY <4>4, <6>1, <6>2
        <5> QED
          BY <1>1, <5>1 DEF IsAt
      <4> QED
        BY <4>5, <4>6 DEF EndsWith
    <3>3. e = l
      BY <1>3, <3>2 DEF EndOf
    <3> QED
      BY <1>3, <3>1, <3>3 DEF From
  <2> QED
    BY <2>1, <2>3, <2>4
<1> QED
  BY <1>2, <1>8, <1>9 DEF parts

-----------------------------------------------------------------------------
(* While nothing has spoiled the framing *)

Unread == content \o network
Answered == Len(answers)
Current == stream[Answered + 1]

\* Between two requests nothing is left of the one before, and the next one
\* has been sent as a whole or not at all.
ReceivesHead ==
    /\ body = <<>> /\ request.length = 0 /\ request.encoding = ""
    /\ \/ released = Answered /\ Unread = <<>>
       \/ /\ released = Answered + 1
          /\ Begins(content, network, Opening(Answered + 1), Payload(Current))

InRequest == released = Answered + 1 /\ request.head = Answered + 1

ReceivesBody ==
    /\ InRequest /\ Current.framing \in {"none", "length"} /\ request.encoding = ""
    /\ request.length = Len(Current.body) /\ (Current.framing = "none" => Current.body = <<>>)
    /\ content = <<>> /\ body \o network = Current.body

ReceivesChunk ==
    /\ InRequest /\ Current.framing = "chunked" /\ body = <<>>
    /\ chunk_size = Len(Current.body) /\ chunk_size > 0
    /\ Begins(content, network, Current.body, CRLF \o LastChunk)

BehindChunk ==
    /\ InRequest /\ Current.framing = "chunked" /\ body = Current.body
    /\ Unread = LastChunk

\* The size of the chunk, the same chunk again after a timeout, or the end of
\* the chunks.
ReadsSize ==
    \/ /\ InRequest /\ Current.framing = "chunked" /\ body = <<>>
       /\ Begins(content, network, SizeLine(Len(Current.body)), Current.body \o (CRLF \o LastChunk))
       /\ Contains(content, CRLF)
    \/ ReceivesChunk /\ ~Contains(content, CRLF)
    \/ BehindChunk /\ Contains(content, CRLF)

Handles ==
    /\ InRequest
    /\ Current.framing = "none" =>
         Unread = <<>> /\ body = <<>> /\ request.length = 0 /\ request.encoding = ""
    /\ Current.method = "PUT" => request.body = Current.body

\* What has said nothing about a body leaves nothing behind.
Sends == Framed(request.head) \/ ReceivesHead

\* A header field of the request that is being read.
EndsInHead == released = Answered + 1 /\ Current.head \in {"blank", "short"}

InStep ==
    clean =>
      /\ pc = "receive" => ReceivesHead
      /\ pc = "body" => ReceivesBody
      /\ pc = "chunk" => ReadsSize
      /\ pc = "chunk_data" => ReceivesChunk
      /\ pc = "chunk_next" => BehindChunk
      /\ pc = "handle" => Handles
      /\ pc = "send" => Sends
      /\ pc = "crashed" => EndsInHead

FaithInv == TypeInv /\ InStep /\ Faithful

LEMMA CurrentIs ==
  ASSUME TypeInv, released = Answered + 1
  PROVE  /\ Answered + 1 \in 1 .. Len(stream) /\ Current \in Requests
         /\ Current.framing \in {"none", "length", "chunked", "coded"}
         /\ Current.framing = "none" => Current.body = <<>>
         /\ Current.body \in Seq(PeerBytes) /\ Payload(Current) \in Seq(PeerBytes)
         /\ LastChunk \in Seq(PeerBytes) /\ CRLF \o LastChunk \in Seq(PeerBytes)
         /\ Current.body \o (CRLF \o LastChunk) \in Seq(PeerBytes)
<1>1. /\ stream \in Seq(Requests) /\ released \in 0 .. Len(stream) /\ Len(stream) \in Nat
      /\ Answered \in Nat
  BY DEF TypeInv, Answered
<1>2. PICK i \in 1 .. Len(stream) : i = Answered + 1
  <2>1. Answered + 1 \in 1 .. Len(stream)
    BY <1>1
  <2> QED
    BY <2>1, Zenon
<1>3. PICK r \in Requests : r = Current
  <2>1. stream[i] \in Requests
    BY <1>1, ElementOfSeq
  <2> QED
    BY <1>2, <2>1, Zenon DEF Current
<1>4. /\ Payload(r) \in Seq(PeerBytes)
      /\ LastChunk \in Seq(PeerBytes) /\ CRLF \o LastChunk \in Seq(PeerBytes)
      /\ r.body \o (CRLF \o LastChunk) \in Seq(PeerBytes)
      /\ r.framing \in {"none", "length", "chunked", "coded"}
      /\ r.framing = "none" => r.body = <<>>
  BY <1>1, WireIs DEF PeerBytes
<1>5. r.body \in Seq(PeerBytes)
  BY <1>1, BodyIsBytes DEF PeerBytes
<1> QED
  BY <1>2, <1>3, <1>4, <1>5

LEMMA ReleaseStep == ASSUME TypeInv, InStep, Release PROVE InStep'
<1> SUFFICES ASSUME clean' PROVE InStep'
  BY DEF InStep
<1>1. /\ released < Len(stream) /\ released' = released + 1
      /\ network' = network \o Wire(released + 1, stream[released + 1])
      /\ clean /\ Len(answers) = released
      /\ UNCHANGED <<stream, pc, content, body, chunk_size, request_counter, request, answers>>
  BY DEF Release
<1>2. /\ released \in Nat /\ Len(stream) \in Nat /\ stream \in Seq(Requests)
      /\ content \in Seq(PeerBytes) /\ network \in Seq(PeerBytes)
  BY DEF TypeInv
<1>3. Answered = released /\ Answered' = Answered /\ Current' = Current
  BY <1>1 DEF Answered, Current
<1>4. released # Answered + 1
  BY <1>2, <1>3
<1>5. pc \notin {"body", "chunk", "chunk_data", "chunk_next", "handle", "crashed"}
  BY <1>1, <1>4
  DEF InStep, InRequest, ReceivesBody, ReadsSize, ReceivesChunk, BehindChunk, Handles, EndsInHead
<1>6. ReceivesHead => ReceivesHead'
  <2> SUFFICES ASSUME ReceivesHead PROVE ReceivesHead'
    OBVIOUS
  <2>1. body = <<>> /\ request.length = 0 /\ request.encoding = "" /\ Unread = <<>>
    BY <1>1, <1>4 DEF ReceivesHead
  <2>2. content = <<>> /\ network = <<>>
    BY <1>2, <2>1, NothingUnread DEF Unread
  <2>3. PICK i \in 1 .. Len(stream) : i = released + 1
    <3>1. released + 1 \in 1 .. Len(stream)
      BY <1>1, <1>2
    <3> QED
      BY <3>1, Zenon
  <2>4. stream[i] \in Requests
    BY <1>2, ElementOfSeq
  <2>5. Wire(i, stream[i]) = Opening(i) \o Payload(stream[i]) /\ Wire(i, stream[i]) \in Seq(PeerBytes)
    BY <1>2, <2>4, WireIs, WireIsBytes DEF PeerBytes
  <2>6. network' = Wire(i, stream[i]) /\ content' = <<>>
    <3>1. network' = <<>> \o Wire(i, stream[i])
      BY <1>1, <2>2, <2>3
    <3>2. <<>> \o Wire(i, stream[i]) = Wire(i, stream[i])
      BY <2>5, NothingBefore
    <3> QED
      BY <1>1, <2>2, <3>1, <3>2
  <2>7. content' \o network' = Opening(i) \o Payload(stream[i])
    <3>1. <<>> \o Wire(i, stream[i]) = Wire(i, stream[i])
      BY <2>5, NothingBefore
    <3> QED
      BY <2>5, <2>6, <3>1
  <2>8. Begins(content', network', Opening(i), Payload(stream[i]))
    BY <2>7 DEF Begins
  <2>9. i = Answered' + 1 /\ stream[i] = Current' /\ released' = Answered' + 1
    BY <1>1, <1>3, <2>3 DEF Current
  <2> QED
    BY <1>1, <2>1, <2>8, <2>9 DEF ReceivesHead
<1>7. pc = "send" => Sends'
  BY <1>1, <1>6 DEF InStep, Sends, Framed
<1> QED
  BY <1>1, <1>5, <1>6, <1>7 DEF InStep

\* What holds of the content when ParseHead or EmptyHead find a head in it.
LEMMA HeadInStep ==
  ASSUME TypeInv, InStep, clean, HeadReceived
  PROVE  /\ ReceivesHead /\ released = Answered + 1 /\ Answered + 1 \in 1 .. Len(stream)
         /\ SplitString(content, BlankLine)[1] = <<HeadOf(Answered + 1)>>
         /\ HeaderLines = << <<HeadOf(Answered + 1)>> >>
         /\ From(content, 6) \in Seq(PeerBytes) /\ From(content, 6) \o network = Payload(Current)
         /\ ~EndsWith(From(content, 6), BlankLine)
              => Rejoin(SplitString(content, BlankLine)) = From(content, 6)
<1>1. ReceivesHead /\ Contains(content, BlankLine)
  BY DEF InStep, HeadReceived
<1>2. content \in Seq(PeerBytes) /\ network \in Seq(PeerBytes) /\ Len(stream) \in Nat
  BY DEF TypeInv
<1>3. Unread # <<>>
  <2> SUFFICES ASSUME Unread = <<>> PROVE FALSE
    OBVIOUS
  <2>1. content = <<>>
    BY <1>2, NothingUnread DEF Unread
  <2>2. Len(content) = 0 /\ Len(BlankLine) = 4
    BY <2>1, LineEnds
  <2> QED
    BY <1>1, <2>2 DEF Contains
<1>4. /\ released = Answered + 1
      /\ Begins(content, network, Opening(Answered + 1), Payload(Current))
  BY <1>1, <1>3 DEF ReceivesHead
<1>5. Answered + 1 \in 1 .. Len(stream) /\ Payload(Current) \in Seq(PeerBytes)
  BY <1>4, CurrentIs
<1>6. PICK i \in 1 .. Len(stream), q \in Seq(PeerBytes) : i = Answered + 1 /\ q = Payload(Current)
  BY <1>5, Zenon
<1>7. Begins(content, network, Opening(i), q)
  BY <1>4, <1>6
<1>8. /\ SplitString(content, BlankLine)[1] = <<HeadOf(i)>>
      /\ HeaderLines = << <<HeadOf(i)>> >>
      /\ From(content, 6) \in Seq(PeerBytes) /\ From(content, 6) \o network = q
      /\ ~EndsWith(From(content, 6), BlankLine)
           => Rejoin(SplitString(content, BlankLine)) = From(content, 6)
  BY <1>1, <1>2, <1>7, HeadRead
<1> QED
  BY <1>1, <1>4, <1>5, <1>6, <1>8

LEMMA ParseHeadStep == ASSUME TypeInv, InStep, ParseHead, stream' = stream PROVE InStep'
<1> SUFFICES ASSUME clean' PROVE InStep'
  BY DEF InStep
<1> DEFINE i == Answered + 1
           more == From(content, 6)
           r == Current
<1>1. HeadReceived /\ clean /\ UNCHANGED <<released, network, answers>>
  BY DEF ParseHead, peerVars
<1>2. /\ ReceivesHead /\ released = i /\ i \in 1 .. Len(stream)
      /\ SplitString(content, BlankLine)[1] = <<HeadOf(i)>>
      /\ HeaderLines = << <<HeadOf(i)>> >>
      /\ more \in Seq(PeerBytes) /\ more \o network = Payload(r)
      /\ ~EndsWith(more, BlankLine) => Rejoin(SplitString(content, BlankLine)) = more
  BY <1>1, HeadInStep
<1>3. /\ r.framing \in {"none", "length", "chunked", "coded"} /\ Payload(r) \in Seq(PeerBytes)
      /\ r.framing = "none" => r.body = <<>>
  BY <1>2, CurrentIs
<1>4. i \in Nat /\ i # 0 /\ Answered' = Answered /\ Current' = Current /\ r = stream[i]
  <2>1. Len(stream) \in Nat
    BY DEF TypeInv
  <2>2. Answered' = Answered
    BY <1>1 DEF Answered
  <2> QED
    BY <1>2, <2>1, <2>2 DEF Current
<1> HIDE DEF more, r
<1>5. /\ HeaderLines[1] = <<HeadOf(i)>> /\ Len(<<HeadOf(i)>>) = 1
      /\ <<HeadOf(i)>>[1] = <<"head", i>> /\ <<"head", i>>[2] = i
  BY <1>2 DEF HeadOf
<1>6. From(content, Len(SplitString(content, BlankLine)[1]) + Len(BlankLine) + 1) = more
  <2>1. Len(SplitString(content, BlankLine)[1]) + Len(BlankLine) + 1 = 6
    <3>1. Len(BlankLine) = 4
      BY LineEnds
    <3>2. Len(SplitString(content, BlankLine)[1]) = 1
      BY <1>2, <1>5
    <3> QED
      BY <3>1, <3>2
  <2> QED
    BY <2>1 DEF more
<1>7. request' = SetHeaders(i)
  <2> HIDE DEF i
  <2> QED
    BY <1>5 DEF ParseHead
<1>8. /\ ~EndsWith(more, BlankLine) /\ (pc' = "chunk" => Contains(more, CRLF))
      /\ pc' = "body" => request'.encoding = ""
  BY <1>6 DEF ParseHead
<1>9. body \o Rejoin(SplitString(content, BlankLine)) = more
  <2>1. body = <<>> /\ Rejoin(SplitString(content, BlankLine)) = more
    BY <1>2, <1>8 DEF ReceivesHead
  <2> QED
    BY <1>2, <2>1, NothingBefore
<1>10. /\ request'.head = i
       /\ request'.length = IF r.framing = "length" THEN Len(r.body) ELSE 0
       /\ request'.encoding = IF r.framing \in {"chunked", "coded"} THEN r.framing ELSE ""
  <2>1. request \in HeldRequest
    BY DEF TypeInv
  <2>2. request.length = 0 /\ request.encoding = ""
    BY <1>2 DEF ReceivesHead
  <2> HIDE DEF i
  <2> QED
    BY <1>4, <1>7, <2>1, <2>2 DEF SetHeaders, HeldRequest
<1>11. HasBody(i) <=> r.method = "PUT"
  BY <1>4 DEF HasBody, NoHead
<1>12. IF r.method # "PUT" THEN pc' = "handle" /\ content' = <<>> /\ body' = more
       ELSE IF r.framing = "chunked" THEN pc' = "chunk" /\ content' = more /\ body' = <<>>
       ELSE pc' = "body" /\ content' = <<>> /\ body' = more
  <2>1. IF ~HasBody(request'.head) THEN pc' = "handle" /\ content' = <<>> /\ body' = more
        ELSE IF request'.encoding = "chunked" THEN pc' = "chunk" /\ content' = more /\ body' = <<>>
        ELSE pc' = "body" /\ content' = <<>> /\ body' = more
    BY <1>9 DEF ParseHead
  <2>2. (request'.encoding = "chunked") <=> (r.framing = "chunked")
    BY <1>10
  <2> QED
    BY <1>10, <1>11, <2>1, <2>2
<1>13. InRequest'
  BY <1>1, <1>2, <1>4, <1>10 DEF InRequest
<1>14. CASE r.method # "PUT"
  <2>1. r.framing = "none" => more = <<>> /\ network = <<>>
    <3> SUFFICES ASSUME r.framing = "none" PROVE more = <<>> /\ network = <<>>
      OBVIOUS
    <3>1. more \o network = <<>>
      BY <1>2, <3>1 DEF Payload
    <3>2. network \in Seq(PeerBytes)
      BY DEF TypeInv
    <3> QED
      BY <1>2, <3>1, <3>2, NothingUnread
  <2>2. r.framing = "none" => Unread' = <<>> /\ body' = <<>>
    BY <1>1, <1>12, <1>14, <2>1 DEF Unread
  <2>3. Handles'
    BY <1>4, <1>10, <1>13, <1>14, <2>2 DEF Handles, r
  <2> QED
    BY <1>12, <1>14, <2>3 DEF InStep
<1>15. CASE r.method = "PUT" /\ r.framing \in {"none", "length"}
  <2>1. more \o network = r.body
    BY <1>2, <1>3, <1>15 DEF Payload
  <2>2. Len(r.body) = IF r.framing = "length" THEN Len(r.body) ELSE 0
    <3>1. Len(<<>>) = 0
      OBVIOUS
    <3> QED
      BY <1>3, <1>15, <3>1
  <2>3. ReceivesBody'
    BY <1>1, <1>3, <1>4, <1>10, <1>12, <1>13, <1>15, <2>1, <2>2 DEF ReceivesBody, r
  <2> QED
    BY <1>12, <1>15, <2>3 DEF InStep
<1>16. CASE r.method = "PUT" /\ r.framing = "chunked"
  <2>1. more \o network = SizeLine(Len(r.body)) \o (r.body \o (CRLF \o LastChunk))
    BY <1>2, <1>16 DEF Payload
  <2>2. Begins(content', network', SizeLine(Len(Current'.body)), Current'.body \o (CRLF \o LastChunk))
    BY <1>1, <1>4, <1>12, <1>16, <2>1 DEF Begins, r
  <2>3. Contains(content', CRLF) /\ body' = <<>> /\ Current'.framing = "chunked"
    BY <1>4, <1>8, <1>12, <1>16 DEF r
  <2>4. ReadsSize'
    BY <1>13, <2>2, <2>3 DEF ReadsSize
  <2> QED
    BY <1>12, <1>16, <2>4 DEF InStep
<1>17. ~(r.method = "PUT" /\ r.framing = "coded")
  BY <1>8, <1>10, <1>12
<1> QED
  BY <1>3, <1>14, <1>15, <1>16, <1>17

LEMMA ParseSizeStep == ASSUME TypeInv, InStep, ParseSize, stream' = stream PROVE InStep'
<1> SUFFICES ASSUME clean' PROVE InStep'
  BY DEF InStep
<1> DEFINE hex == SubSeq(content, 1, Find(content, CRLF, 1) - 1)
<1>1. /\ pc = "chunk" /\ clean /\ Find(content, CRLF, 1) # NPos
      /\ UNCHANGED <<released, network, body, answers>>
      /\ \/ hex = <<>> /\ pc' = "crashed"
         \/ /\ content' = From(content, Find(content, CRLF, 1) + Len(CRLF))
            /\ chunk_size' \in IF Len(hex) = 1 /\ hex[1][1] = "size" THEN {hex[1][2]} ELSE GarbageSizes
            /\ IF chunk_size' = 0 THEN SetBody ELSE pc' = "chunk_data" /\ UNCHANGED request
  BY DEF ParseSize, peerVars
<1>2. /\ content \in Seq(PeerBytes) /\ network \in Seq(PeerBytes) /\ Len(stream) \in Nat
      /\ request \in HeldRequest
  BY DEF TypeInv
<1>3. Answered' = Answered /\ Current' = Current
  BY <1>1 DEF Answered, Current
<1>4. CRLF \in Seq(PeerBytes) /\ Len(CRLF) = 2
  BY <1>2, LineEnds DEF PeerBytes
<1>5. Contains(content, CRLF)
  BY <1>1, <1>2, <1>4, FindIsContains
<1>6. ReadsSize /\ InRequest
  BY <1>1 DEF InStep, ReadsSize, ReceivesChunk, BehindChunk
<1>7. /\ Current.body \in Seq(PeerBytes) /\ LastChunk \in Seq(PeerBytes) /\ CRLF \in Seq(PeerBytes)
      /\ Current.body \o (CRLF \o LastChunk) \in Seq(PeerBytes)
  BY <1>4, <1>6, CurrentIs DEF InRequest
<1>8. ASSUME NEW n \in Nat, NEW q \in Seq(PeerBytes), Begins(content, network, SizeLine(n), q)
      PROVE  /\ content' \o network' = q /\ chunk_size' = n
             /\ IF chunk_size' = 0 THEN SetBody ELSE pc' = "chunk_data" /\ UNCHANGED request
  <2>1. /\ Find(content, CRLF, 1) = 2 /\ SubSeq(content, 1, 1) = << <<"size", n>> >>
        /\ From(content, 4) \o network = q
    BY <1>2, <1>5, <1>8, SizeRead DEF PeerBytes
  <2>2. hex = << <<"size", n>> >>
    BY <2>1
  <2>3. hex # <<>> /\ Len(hex) = 1 /\ hex[1][1] = "size" /\ hex[1][2] = n
    <3> HIDE DEF hex
    <3> QED
      BY <2>2
  <2>4. Find(content, CRLF, 1) + Len(CRLF) = 4
    BY <1>4, <2>1
  <2> HIDE DEF hex
  <2> QED
    BY <1>1, <2>1, <2>3, <2>4
<1>9. SetBody => pc' = "handle" /\ request'.head = request.head /\ request'.body = body
  BY <1>2 DEF SetBody, HeldRequest
<1> HIDE DEF hex
<1>10. CASE /\ body = <<>> /\ Current.framing = "chunked"
            /\ Begins(content, network, SizeLine(Len(Current.body)), Current.body \o (CRLF \o LastChunk))
  <2>1. Len(Current.body) \in Nat
    BY <1>7
  <2>2. /\ content' \o network' = Current.body \o (CRLF \o LastChunk) /\ chunk_size' = Len(Current.body)
        /\ IF chunk_size' = 0 THEN SetBody ELSE pc' = "chunk_data" /\ UNCHANGED request
    BY <1>7, <1>8, <1>10, <2>1
  <2>3. CASE chunk_size' = 0
    <3>1. Current.body = <<>>
      BY <1>7, <2>2, <2>3, EmptySeq
    <3>2. Handles'
      BY <1>1, <1>3, <1>6, <1>9, <1>10, <2>2, <2>3, <3>1 DEF Handles, InRequest
    <3> QED
      BY <1>9, <2>2, <2>3, <3>2 DEF InStep
  <2>4. CASE chunk_size' # 0
    <3>1. chunk_size' > 0
      BY <2>1, <2>2, <2>4
    <3>2. Begins(content', network', Current'.body, CRLF \o LastChunk)
      BY <1>3, <2>2 DEF Begins
    <3>3. ReceivesChunk'
      BY <1>1, <1>3, <1>6, <1>10, <2>2, <2>4, <3>1, <3>2 DEF ReceivesChunk, InRequest
    <3> QED
      BY <2>2, <2>4, <3>3 DEF InStep
  <2> QED
    BY <2>3, <2>4
<1>11. CASE BehindChunk
  <2>1. Begins(content, network, SizeLine(0), CRLF)
    BY <1>11 DEF BehindChunk, Unread, Begins, LastChunk
  <2>2. 0 \in Nat
    OBVIOUS
  <2>3. chunk_size' = 0 /\ SetBody
    BY <1>7, <1>8, <2>1, <2>2
  <2>4. Handles'
    BY <1>1, <1>3, <1>6, <1>9, <1>11, <2>3 DEF Handles, InRequest, BehindChunk
  <2> QED
    BY <1>9, <2>3, <2>4 DEF InStep
<1> QED
  BY <1>5, <1>6, <1>10, <1>11 DEF ReadsSize

LEMMA EndChunkStep == ASSUME TypeInv, InStep, EndChunk, stream' = stream PROVE InStep'
<1> SUFFICES ASSUME clean' PROVE InStep'
  BY DEF InStep
<1>1. /\ pc = "chunk_data" /\ clean /\ Len(content) >= chunk_size + 2
      /\ body' = body \o SubSeq(content, 1, chunk_size)
      /\ content' = From(content, chunk_size + 3) /\ pc' = "chunk_next"
      /\ UNCHANGED <<released, network, request, answers>>
  BY DEF EndChunk, peerVars
<1>2. content \in Seq(PeerBytes) /\ network \in Seq(PeerBytes) /\ Len(stream) \in Nat
  BY DEF TypeInv
<1>3. Answered' = Answered /\ Current' = Current
  BY <1>1 DEF Answered, Current
<1>4. ReceivesChunk
  BY <1>1 DEF InStep
<1>5. PICK b \in Seq(PeerBytes) : b = Current.body
  <2>1. Current.body \in Seq(PeerBytes)
    BY <1>4, CurrentIs DEF ReceivesChunk, InRequest
  <2> QED
    BY <2>1, Zenon
<1>6. CRLF \in Seq(PeerBytes) /\ Len(CRLF) = 2
  BY <1>2, LineEnds DEF PeerBytes
<1>7. PICK z \in Seq(PeerBytes), q \in Seq(PeerBytes) : z = LastChunk /\ q = CRLF \o LastChunk
  <2>1. LastChunk \in Seq(PeerBytes) /\ CRLF \o LastChunk \in Seq(PeerBytes)
    BY <1>4, CurrentIs DEF ReceivesChunk, InRequest
  <2> QED
    BY <2>1, Zenon
<1>8. Begins(content, network, b, q) /\ chunk_size = Len(b) /\ body = <<>>
  BY <1>4, <1>5, <1>7 DEF ReceivesChunk
<1>9. PICK n \in Nat : n = Len(b) /\ n = chunk_size
  <2>1. Len(b) \in Nat
    BY <1>5
  <2> QED
    BY <1>8, <2>1, Zenon
<1>10. body' = b
  <2>1. Len(content) >= Len(b)
    BY <1>1, <1>2, <1>9
  <2>2. SubSeq(content, 1, Len(b)) = b
    BY <1>2, <1>8, <2>1, BehindPrefix
  <2>3. body' = <<>> \o b
    BY <1>1, <1>8, <2>2
  <2> QED
    BY <1>5, <2>3, NothingBefore
<1>11. content' \o network = LastChunk
  <2>1. PICK p \in Seq(PeerBytes) : p = b \o CRLF /\ Len(p) = Len(b) + Len(CRLF)
    <3>1. b \o CRLF \in Seq(PeerBytes) /\ Len(b \o CRLF) = Len(b) + Len(CRLF)
      BY <1>6, ConcatProperties
    <3> QED
      BY <3>1, Zenon
  <2>2. Len(p) = n + 2
    BY <1>6, <1>9, <2>1
  <2>3. Begins(content, network, p, z)
    <3>1. content \o network = b \o (CRLF \o z)
      BY <1>7, <1>8 DEF Begins
    <3>2. (b \o CRLF) \o z = b \o (CRLF \o z)
      <4>1. Assoc(b, CRLF, z)
        BY <1>6, Associative
      <4> QED
        BY <4>1, Zenon DEF Assoc
    <3> QED
      BY <2>1, <3>1, <3>2 DEF Begins
  <2>4. Len(content) >= Len(p) /\ Len(p) + 1 = chunk_size + 3
    BY <1>1, <1>9, <2>2
  <2>5. From(content, Len(p) + 1) \o network = z
    BY <1>2, <2>3, <2>4, BehindPrefix
  <2> QED
    BY <1>1, <1>7, <2>4, <2>5
<1>12. BehindChunk'
  BY <1>1, <1>3, <1>4, <1>5, <1>10, <1>11 DEF BehindChunk, ReceivesChunk, InRequest, Unread
<1> QED
  BY <1>1, <1>12 DEF InStep

LEMMA EndBodyStep == ASSUME TypeInv, InStep, EndBody, stream' = stream PROVE InStep'
<1> SUFFICES ASSUME clean' PROVE InStep'
  BY DEF InStep
<1>1. /\ pc = "body" /\ clean /\ ~BodyMissing /\ pc' = "handle"
      /\ request' = [request EXCEPT !.body = body]
      /\ UNCHANGED <<released, network, content, body, answers>>
  BY DEF EndBody, SetBody, peerVars
<1>2. /\ body \in Seq(PeerBytes) /\ network \in Seq(PeerBytes) /\ request \in HeldRequest
  BY DEF TypeInv
<1>3. Answered' = Answered /\ Current' = Current
  BY <1>1 DEF Answered, Current
<1>4. ReceivesBody
  BY <1>1 DEF InStep
<1>5. Len(Current.body) = Len(body) + Len(network)
  <2>1. body \o network = Current.body
    BY <1>4 DEF ReceivesBody
  <2> QED
    BY <1>2, <2>1, ConcatProperties
<1>6. Len(network) = 0
  <2>1. ~(Len(body) < Len(Current.body))
    BY <1>1, <1>4 DEF ReceivesBody, BodyMissing
  <2> QED
    BY <1>2, <1>5, <2>1
<1>7. body = Current.body
  <2>1. network = <<>>
    BY <1>2, <1>6, EmptySeq
  <2>2. body \o <<>> = body
    BY <1>2, NothingBefore
  <2> QED
    BY <1>4, <2>1, <2>2 DEF ReceivesBody
<1>8. /\ request'.head = request.head /\ request'.body = body
      /\ request'.length = request.length /\ request'.encoding = request.encoding
  BY <1>1, <1>2 DEF HeldRequest
<1>9. Current.framing = "none" => Unread' = <<>> /\ body' = <<>> /\ request'.length = 0
  <2>1. network = <<>> /\ content = <<>> /\ Len(<<>>) = 0
    BY <1>2, <1>4, <1>6, EmptySeq DEF ReceivesBody
  <2>2. <<>> \o <<>> = <<>>
    <3>1. <<>> \in Seq({})
      OBVIOUS
    <3> QED
      BY <3>1, NothingBefore
  <2> QED
    BY <1>1, <1>4, <1>7, <1>8, <2>1, <2>2 DEF ReceivesBody, Unread
<1>10. Handles'
  BY <1>1, <1>3, <1>4, <1>7, <1>8, <1>9 DEF Handles, ReceivesBody, InRequest
<1> QED
  BY <1>1, <1>10 DEF InStep

LEMMA ReceivesStep == ASSUME TypeInv, InStep, Receives, stream' = stream PROVE InStep'
<1> SUFFICES ASSUME clean' PROVE InStep'
  BY DEF InStep
<1>1. /\ content \in Seq(PeerBytes) /\ network \in Seq(PeerBytes) /\ body \in Seq(PeerBytes)
      /\ chunk_size \in Nat /\ request \in HeldRequest
  BY DEF TypeInv
<1>2. UNCHANGED <<released, pc, chunk_size, request, answers>> /\ clean
  BY DEF Receives, ReceiveHead, ReceiveBody, ReceiveChunk, ReceiveSize, peerVars
<1>3. Answered' = Answered /\ Current' = Current
  BY <1>2 DEF Answered, Current
<1>4. CASE ReceiveBody
  <2>1. /\ pc = "body" /\ content' = content
        /\ body' \in Appended(body, request.length - Len(content), network)
        /\ network' = Untaken(body, body', network)
    BY <1>4 DEF ReceiveBody, BodyMissing, AppendReceived, Taken
  <2>2. request.length - Len(content) \in Int
    <3>1. request.length \in Nat
      BY <1>1 DEF HeldRequest
    <3>2. Len(content) \in Nat
      BY <1>1
    <3> QED
      BY <3>1, <3>2
  <2>3. body' \o network' = body \o network
    <3>1. Begins(body', Untaken(body, body', network), body, network)
      BY <1>1, <2>1, <2>2, ReceivedIs
    <3> QED
      BY <2>1, <3>1 DEF Begins
  <2>4. ReceivesBody
    BY <1>2, <2>1 DEF InStep
  <2>5. ReceivesBody'
    BY <1>2, <1>3, <2>1, <2>3, <2>4 DEF ReceivesBody, InRequest
  <2> QED
    BY <1>2, <2>1, <2>5 DEF InStep
<1>5. CASE ReceiveHead \/ ReceiveChunk \/ ReceiveSize
  <2>1. PICK n \in Int :
          /\ content' \in Appended(content, n, network)
          /\ network' = Untaken(content, content', network) /\ body' = body
    <3>1. CASE ReceiveHead
      <4>1. 1024 \in Int
        OBVIOUS
      <4>2. content' \in Appended(content, 1024, network)
        BY <3>1 DEF ReceiveHead, AppendReceived
      <4>3. network' = Untaken(content, content', network) /\ body' = body
        BY <3>1 DEF ReceiveHead, Taken
      <4> QED
        BY <4>1, <4>2, <4>3
    <3>2. CASE ReceiveChunk
      <4>1. /\ content' \in Appended(content, chunk_size - Len(content) + 2, network)
            /\ chunk_size - Len(content) + 2 \in Int
        BY <1>1, <3>2 DEF ReceiveChunk, AppendReceived
      <4> QED
        BY <3>2, <4>1, Zenon DEF ReceiveChunk, Taken
    <3>3. CASE ReceiveSize
      <4>1. content' \in Appended(content, 1, network) /\ 1 \in Int
        BY <3>3 DEF ReceiveSize, AppendReceived
      <4> QED
        BY <3>3, <4>1, Zenon DEF ReceiveSize, Taken
    <3> QED
      BY <1>5, <3>1, <3>2, <3>3
  <2>2. content' \o network' = content \o network
    <3>1. Begins(content', Untaken(content, content', network), content, network)
      BY <1>1, <2>1, ReceivedIs
    <3> QED
      BY <2>1, <3>1 DEF Begins
  <2>3. \A p, q : Begins(content, network, p, q) => Begins(content', network', p, q)
    BY <2>2 DEF Begins
  <2>4. Unread' = Unread
    BY <2>2 DEF Unread
  <2>5. pc = "receive" => ReceivesHead'
    BY <1>2, <1>3, <2>1, <2>3, <2>4 DEF InStep, ReceivesHead
  <2>6. pc = "chunk_data" => ReceivesChunk'
    BY <1>2, <1>3, <2>1, <2>3 DEF InStep, ReceivesChunk, InRequest
  <2>7. pc = "chunk_next" => BehindChunk'
    BY <1>2, <1>3, <2>1, <2>4 DEF InStep, BehindChunk, InRequest
  <2>8. pc \in {"receive", "chunk_data", "chunk_next"}
    BY <1>5 DEF ReceiveHead, ReceiveChunk, ReceiveSize
  <2> QED
    BY <1>2, <2>5, <2>6, <2>7, <2>8 DEF InStep
<1> QED
  BY <1>4, <1>5 DEF Receives

LEMMA FailsStep == ASSUME TypeInv, InStep, Fails, stream' = stream PROVE InStep'
<1> SUFFICES ASSUME clean' PROVE InStep'
  BY DEF InStep
<1>1. UNCHANGED <<released, network, content, body, chunk_size, answers>> /\ clean
  BY DEF Fails, ReceiveHeadFails, ReceiveBodyFails, ReceiveChunkFails, ReceiveSizeFails, SetBody, peerVars
<1>2. Answered' = Answered /\ Current' = Current
  BY <1>1 DEF Answered, Current
<1>3. CASE ReceiveHeadFails \/ ReceiveBodyFails
  BY <1>3 DEF ReceiveHeadFails, ReceiveBodyFails, InStep
<1>4. CASE ReceiveChunkFails
  <2>1. pc = "chunk_data" /\ pc' = "chunk" /\ request' = request /\ ~Contains(content, CRLF)
    BY <1>4 DEF ReceiveChunkFails
  <2>2. ReceivesChunk
    BY <1>1, <2>1 DEF InStep
  <2>3. ReceivesChunk' /\ ~Contains(content', CRLF)
    BY <1>1, <1>2, <2>1, <2>2 DEF ReceivesChunk, InRequest, Begins
  <2> QED
    BY <2>1, <2>3 DEF InStep, ReadsSize
<1>5. CASE ReceiveSizeFails
  <2>1. pc = "chunk_next" /\ pc' = "handle" /\ request' = [request EXCEPT !.body = body]
    BY <1>5 DEF ReceiveSizeFails, SetBody
  <2>2. request'.head = request.head /\ request'.body = body
    BY <2>1 DEF TypeInv, HeldRequest
  <2>3. BehindChunk
    BY <1>1, <2>1 DEF InStep
  <2>4. Handles'
    BY <1>1, <1>2, <2>2, <2>3 DEF Handles, BehindChunk, InRequest
  <2> QED
    BY <2>1, <2>4 DEF InStep
<1> QED
  BY <1>3, <1>4, <1>5 DEF Fails

\* The steps that leave everything but the location alone.
LEMMA MovingStep ==
  ASSUME TypeInv, InStep, EmptyHead \/ InvalidHead \/ BadField \/ NoSize \/ NextChunk,
         stream' = stream
  PROVE  InStep'
<1> SUFFICES ASSUME clean' PROVE InStep'
  BY DEF InStep
<1>1. UNCHANGED <<released, network, content, body, chunk_size, request, answers>> /\ clean
  BY DEF EmptyHead, InvalidHead, BadField, NoSize, NextChunk, peerVars
<1>2. Answered' = Answered /\ Current' = Current
  BY <1>1 DEF Answered, Current
<1>3. CASE EmptyHead
  <2>1. HeadReceived /\ HeaderLines = <<>>
    BY <1>3 DEF EmptyHead
  <2>2. HeaderLines = << <<HeadOf(Answered + 1)>> >>
    BY <1>1, <2>1, HeadInStep
  <2> QED
    BY <2>1, <2>2
<1>4. CASE InvalidHead
  BY <1>4 DEF InvalidHead, InStep
<1>5. CASE NoSize
  <2>1. pc = "chunk" /\ pc' = "chunk_data" /\ ~Contains(content, CRLF)
    BY <1>5 DEF NoSize
  <2>2. ReceivesChunk
    BY <1>1, <2>1 DEF InStep, ReadsSize
  <2>3. ReceivesChunk'
    BY <1>1, <1>2, <2>2 DEF ReceivesChunk, InRequest, Begins
  <2> QED
    BY <2>1, <2>3 DEF InStep
<1>6. CASE NextChunk
  <2>1. pc = "chunk_next" /\ pc' = "chunk" /\ Contains(content, CRLF)
    BY <1>6 DEF NextChunk
  <2>2. BehindChunk
    BY <1>1, <2>1 DEF InStep
  <2>3. BehindChunk' /\ Contains(content', CRLF)
    BY <1>1, <1>2, <2>1, <2>2 DEF BehindChunk, InRequest, Unread
  <2> QED
    BY <2>1, <2>3 DEF InStep, ReadsSize
<1>7. CASE BadField
  <2> DEFINE line == HeaderLines[1]
             i == Answered + 1
  <2>1. HeadReceived /\ pc' = "crashed" /\ stream[line[Len(line)][2]].head \in {"blank", "short"}
    BY <1>7 DEF BadField
  <2>2. released = i /\ HeaderLines = << <<HeadOf(i)>> >>
    BY <1>1, <2>1, HeadInStep
  <2>3. line[Len(line)][2] = i
    <3> HIDE DEF i
    <3> QED
      BY <2>2 DEF HeadOf
  <2>4. EndsInHead'
    BY <1>1, <1>2, <2>1, <2>2, <2>3 DEF EndsInHead, Current
  <2> QED
    BY <2>1, <2>4 DEF InStep
<1> QED
  BY <1>3, <1>4, <1>5, <1>6, <1>7

LEMMA HandleStep ==
  ASSUME TypeInv, InStep, Faithful, Handle, stream' = stream PROVE InStep' /\ Faithful'
<1> DEFINE a == [head |-> request.head, body |-> request.body, clean |-> clean]
<1>1. /\ pc = "handle" /\ answers' = Append(answers, a) /\ pc' = "send" /\ clean' = clean
      /\ UNCHANGED <<released, network, content, body, request>>
  BY DEF Handle, peerVars
<1>2. answers \in Seq(Answer) /\ request \in HeldRequest /\ clean \in BOOLEAN
  BY DEF TypeInv
<1>3. a \in Answer /\ a.head = request.head /\ a.body = request.body /\ a.clean = clean
  BY <1>2 DEF HeldRequest, Answer
<1> HIDE DEF a
<1>4. /\ Answered' = Answered + 1 /\ Answered \in Nat
      /\ \A n \in 1 .. Answered : answers'[n] = answers[n]
      /\ answers'[Answered + 1] = a
  BY <1>1, <1>2, <1>3, AppendProperties DEF Answered
<1>5. clean => Handles
  BY <1>1 DEF InStep
<1>6. clean => request.head = Answered + 1 /\ (HasBody(Answered + 1) => request.body = stream[Answered + 1].body)
  BY <1>5 DEF Handles, InRequest, HasBody, Current
<1>7. Faithful'
  <2>1. SUFFICES ASSUME NEW n \in 1 .. Answered', answers'[n].clean
                 PROVE  answers'[n].head = n /\ (HasBody(n)' => answers'[n].body = stream'[n].body)
    BY DEF Faithful, Answered
  <2>2. HasBody(n)' <=> HasBody(n)
    BY DEF HasBody
  <2>3. CASE n \in 1 .. Answered
    <3>1. answers[n].clean
      BY <1>4, <2>1, <2>3
    <3>2. answers[n].head = n /\ (HasBody(n) => answers[n].body = stream[n].body)
      BY <2>3, <3>1 DEF Faithful, Answered
    <3> QED
      BY <1>4, <2>2, <2>3, <3>2
  <2>4. CASE n = Answered + 1
    <3>1. answers'[n] = a /\ clean
      BY <1>3, <1>4, <2>1, <2>4
    <3> QED
      BY <1>3, <1>6, <2>2, <2>4, <3>1
  <2> QED
    BY <1>4, <2>3, <2>4
<1>8. InStep'
  <2> SUFFICES ASSUME clean, ~Framed(request.head)' PROVE ReceivesHead'
    BY <1>1 DEF InStep, Sends
  <2>1. Handles /\ request.head = Answered + 1 /\ Answered + 1 # NoHead
    BY <1>4, <1>5, <1>6 DEF NoHead
  <2>2. Current.framing = "none"
    BY <1>1, <2>1 DEF Framed, Current
  <2>3. /\ released = Answered + 1 /\ Unread = <<>> /\ body = <<>>
        /\ request.length = 0 /\ request.encoding = ""
    BY <2>1, <2>2 DEF Handles, InRequest
  <2> QED
    BY <1>1, <1>4, <2>3 DEF ReceivesHead, Unread
<1> QED
  BY <1>7, <1>8

LEMMA SendStep == ASSUME TypeInv, InStep, Send, stream' = stream PROVE InStep'
<1> SUFFICES ASSUME clean' PROVE InStep'
  BY DEF InStep
<1>1. /\ pc = "send" /\ clean /\ ~Framed(request.head) /\ pc' \in {"receive", "done"}
      /\ UNCHANGED <<released, network, content, body, request, answers>>
  BY DEF Send, peerVars
<1>2. ReceivesHead
  BY <1>1 DEF InStep, Sends
<1>3. ReceivesHead'
  BY <1>1, <1>2 DEF ReceivesHead, Answered, Unread, Current, Begins
<1> QED
  BY <1>1, <1>3 DEF InStep

LEMMA FaithStep == FaithInv /\ [Next]_vars => FaithInv'
<1> SUFFICES ASSUME FaithInv, [Next]_vars PROVE FaithInv'
  OBVIOUS
<1>1. TypeInv /\ TypeInv' /\ InStep /\ Faithful
  BY StepTypes DEF FaithInv
<1>2. ASSUME stream' = stream, answers' = answers PROVE Faithful'
  BY <1>1, <1>2 DEF Faithful, HasBody
<1>3. CASE UNCHANGED vars
  <2>1. InStep'
    BY <1>1, <1>3
    DEF vars, InStep, ReceivesHead, ReceivesBody, ReadsSize, ReceivesChunk, BehindChunk, Handles,
        InRequest, Sends, Framed, EndsInHead, Unread, Answered, Current, Begins
  <2> QED
    BY <1>1, <1>2, <1>3, <2>1 DEF vars, FaithInv
<1>4. CASE Next
  <2>1. stream' = stream
    BY <1>4, SameStream
  <2>2. CASE Handle
    BY <1>1, <2>1, <2>2, HandleStep DEF FaithInv
  <2>3. CASE Release \/ Receives \/ Fails \/ EmptyHead \/ InvalidHead \/ BadField \/ NoSize
             \/ NextChunk \/ Send \/ ParseHead \/ EndBody \/ ParseSize \/ EndChunk
    <3>1. InStep'
      BY <1>1, <2>1, <2>3, ReleaseStep, ReceivesStep, FailsStep, MovingStep, ParseHeadStep,
         EndBodyStep, ParseSizeStep, EndChunkStep, SendStep
    <3>2. answers' = answers
      BY <2>3
      DEF Release, Receives, ReceiveHead, ReceiveBody, ReceiveChunk, ReceiveSize,
          Fails, ReceiveHeadFails, ReceiveBodyFails, ReceiveChunkFails, ReceiveSizeFails,
          EmptyHead, InvalidHead, BadField, NoSize, NextChunk, ParseHead, EndBody, ParseSize,
          EndChunk, Send
    <3> QED
      BY <1>1, <1>2, <2>1, <3>1, <3>2 DEF FaithInv
  <2> QED
    BY <1>4, <2>2, <2>3 DEF Next, Server, Computes, Answers
<1> QED
  BY <1>3, <1>4

LEMMA FaithAlways == SafeSpec => []FaithInv
<1>1. Init => FaithInv
  <2> SUFFICES ASSUME Init PROVE FaithInv
    OBVIOUS
  <2>1. TypeInv
    BY InitTypes
  <2>2. /\ released = 0 /\ network = <<>> /\ content = <<>> /\ body = <<>> /\ pc = "receive"
        /\ request.length = 0 /\ request.encoding = "" /\ answers = <<>>
    BY DEF Init
  <2>3. ReceivesHead
    <3>1. Len(answers) = 0
      BY <2>2
    <3>2. <<>> \o <<>> = <<>>
      <4>1. <<>> \in Seq({})
        OBVIOUS
      <4> QED
        BY <4>1, NothingBefore
    <3> QED
      BY <2>2, <3>1, <3>2 DEF ReceivesHead, Answered, Unread
  <2>4. Faithful
    <3>1. Len(answers) = 0
      BY <2>2
    <3> QED
      BY <3>1 DEF Faithful
  <2> QED
    BY <2>1, <2>2, <2>3, <2>4 DEF FaithInv, InStep
<1> QED
  BY <1>1, FaithStep, PTL DEF SafeSpec

\* However the network cuts the bytes of however many requests, of whatever
\* method, framing and size: the requests that handleRequest is called with are the
\* ones the peer sent, in that order, and each PUT or POST comes with its own body,
\* until the framing has been spoiled.
THEOREM RequestsAreFaithful == SafeSpec => []Faithful
<1>1. FaithInv => Faithful
  BY DEF FaithInv
<1> QED
  BY <1>1, FaithAlways, PTL

\* Until then no request, whatever its size and its segments, ends the server by
\* an exception, but for one whose own head has a field without a name or a value.
THEOREM NoCrash == SafeSpec => []NoCrashWhileClean
<1>1. ASSUME FaithInv, pc = "crashed", clean
      PROVE  Len(answers) < Len(stream) /\ stream[Len(answers) + 1].head \in {"blank", "short"}
  <2>1. EndsInHead /\ TypeInv
    BY <1>1 DEF FaithInv, InStep
  <2>2. Answered + 1 \in 1 .. Len(stream) /\ Answered \in Nat /\ Len(stream) \in Nat
    BY <2>1, CurrentIs DEF EndsInHead, TypeInv, Answered
  <2> QED
    BY <2>1, <2>2 DEF EndsInHead, Current, Answered
<1>2. FaithInv => NoCrashWhileClean
  BY <1>1 DEF NoCrashWhileClean
<1> QED
  BY <1>2, FaithAlways, PTL

-----------------------------------------------------------------------------
(* What the server waits for *)

\* Where everything that was sent has been received, a line end that follows
\* another byte is found.
LEMMA EndIsThere ==
  ASSUME NEW S, NEW c \in Seq(S), NEW x \in Seq(S), NEW d \in Seq(S), NEW q \in Seq(S),
         Begins(c, <<>>, x, q), Follows(x, d)
  PROVE  Contains(c, d)
<1>1. c = x \o q
  <2>1. c \o <<>> = c
    BY NothingBefore
  <2> QED
    BY <2>1 DEF Begins
<1>2. Together(c, x, q, S)
  BY <1>1, PutTogether
<1>3. PICK m \in Nat, l \in Nat, n \in Nat : m = Len(d) /\ l = Len(q) /\ n = Len(c)
  OBVIOUS
<1>4. Len(x) = m + 1 /\ n = (m + 1) + l /\ \A k \in 1 .. m : x[k + 1] = d[k]
  BY <1>2, <1>3 DEF Together, Follows
<1>5. \A k \in 1 .. m : c[k + 1] = d[k]
  <2> SUFFICES ASSUME NEW k \in 1 .. m PROVE c[k + 1] = d[k]
    OBVIOUS
  <2>1. k + 1 \in 1 .. Len(x) + Len(q) /\ k + 1 <= Len(x)
    BY <1>3, <1>4
  <2>2. c[k + 1] = x[k + 1]
    BY <1>2, <2>1 DEF Together
  <2> QED
    BY <1>4, <2>2
<1>6. 2 \in 1 .. (n + 1 - m) /\ \A k \in 1 .. m : 2 + k - 1 = k + 1
  BY <1>4
<1>7. IsAt(c, d, 2)
  BY <1>3, <1>5, <1>6 DEF IsAt
<1> QED
  BY <1>3, <1>6, <1>7 DEF Contains

\* A server that waits for more of a request has not got the whole of it.
LEMMA NothingMissing ==
  ASSUME TypeInv, InStep, clean, network = <<>>, Receiving
  PROVE  released = Answered
<1> SUFFICES ASSUME released # Answered PROVE FALSE
  OBVIOUS
<1>1. /\ content \in Seq(PeerBytes) /\ body \in Seq(PeerBytes) /\ chunk_size \in Nat
      /\ <<>> \in Seq(PeerBytes) /\ Len(stream) \in Nat
  BY DEF TypeInv
<1>2. /\ CRLF \in Seq(PeerBytes) /\ Len(CRLF) = 2 /\ CRLF[1] = <<"CR", 0>> /\ CRLF[2] = <<"LF", 0>>
      /\ BlankLine \in Seq(PeerBytes)
  BY <1>1, LineEnds DEF PeerBytes
<1>3. CASE pc = "receive"
  <2>1. /\ released = Answered + 1 /\ ~Contains(content, BlankLine)
        /\ Begins(content, <<>>, Opening(Answered + 1), Payload(Current))
    BY <1>3 DEF InStep, ReceivesHead, Receiving, BodyMissing
  <2>2. Answered + 1 \in 1 .. Len(stream) /\ Payload(Current) \in Seq(PeerBytes)
    BY <2>1, CurrentIs
  <2>3. Opening(Answered + 1) \in Seq(PeerBytes) /\ Follows(Opening(Answered + 1), BlankLine)
    <3>1. 1 .. Len(stream) \in SUBSET Nat
      BY <1>1
    <3> QED
      BY <2>2, <3>1, OpeningIs DEF Follows, PeerBytes
  <2> QED
    BY <1>1, <1>2, <2>1, <2>2, <2>3, EndIsThere
<1>4. CASE pc = "body"
  <2>1. body \o <<>> = Current.body /\ Len(body) < Len(Current.body)
    BY <1>4 DEF InStep, ReceivesBody, Receiving, BodyMissing
  <2>2. body \o <<>> = body /\ Len(body) \in Nat
    BY <1>1, NothingBefore
  <2> QED
    BY <2>1, <2>2
<1>5. CASE pc = "chunk_data"
  <2>1. /\ Len(content) < chunk_size + 2 /\ chunk_size = Len(Current.body) /\ released = Answered + 1
        /\ Begins(content, <<>>, Current.body, CRLF \o LastChunk)
    BY <1>5 DEF InStep, ReceivesChunk, InRequest, Receiving, BodyMissing
  <2>2. PICK b \in Seq(PeerBytes), e \in Seq(PeerBytes), z \in Seq(PeerBytes) :
          b = Current.body /\ z = LastChunk /\ e = CRLF \o z
    BY <2>1, CurrentIs
  <2>3. content = b \o e
    <3>1. content \o <<>> = b \o e
      BY <2>1, <2>2 DEF Begins
    <3>2. content \o <<>> = content
      BY <1>1, NothingBefore
    <3> QED
      BY <3>1, <3>2
  <2>4. Len(e) = Len(CRLF) + Len(z)
    BY <1>2, <2>2, ConcatProperties
  <2>5. Len(content) = Len(b) + Len(e)
    BY <2>3, ConcatProperties
  <2>6. PICK l \in Nat, m \in Nat, n \in Nat : l = Len(b) /\ m = Len(z) /\ n = Len(content)
    BY <1>1
  <2>7. n < l + 2
    BY <2>1, <2>2, <2>6
  <2>8. n = l + (2 + m)
    BY <1>2, <2>4, <2>5, <2>6
  <2> QED
    BY <2>7, <2>8
<1>6. CASE pc = "chunk_next"
  <2>1. ~Contains(content, CRLF) /\ content \o <<>> = LastChunk
    BY <1>6 DEF InStep, BehindChunk, Unread, Receiving, BodyMissing
  <2>2. Begins(content, <<>>, SizeLine(0), CRLF)
    BY <2>1 DEF Begins, LastChunk
  <2>3. SizeLine(0) \in Seq(PeerBytes) /\ Follows(SizeLine(0), CRLF)
    <3>1. /\ SizeLine(0) \in Seq(PeerBytes) /\ Len(SizeLine(0)) = 3
          /\ SizeLine(0) = << <<"size", 0>>, <<"CR", 0>>, <<"LF", 0>> >>
      BY SizeLineIs DEF PeerBytes
    <3>2. SizeLine(0)[1 + 1] = CRLF[1] /\ SizeLine(0)[2 + 1] = CRLF[2]
      BY <1>2, <3>1
    <3>3. \A k \in 1 .. Len(CRLF) : k = 1 \/ k = 2
      BY <1>2
    <3>4. \A k \in 1 .. Len(CRLF) : SizeLine(0)[k + 1] = CRLF[k]
      BY <3>2, <3>3
    <3>5. Len(SizeLine(0)) = Len(CRLF) + 1
      BY <1>2, <3>1
    <3>6. SizeLine(0)[1] # CRLF[1]
      BY <1>2, <3>1
    <3> QED
      BY <3>1, <3>4, <3>5, <3>6 DEF Follows
  <2> QED
    BY <1>1, <1>2, <2>1, <2>2, <2>3, EndIsThere
<1> QED
  BY <1>3, <1>4, <1>5, <1>6 DEF Receiving, BodyMissing

\* Wherever the network cuts a request, the server does not wait for more of it
\* when it has all of it.
THEOREM WaitsForThePeerOnly == SafeSpec => []NeverWaitsForNothing
<1>1. FaithInv => NeverWaitsForNothing
  BY NothingMissing DEF FaithInv, NeverWaitsForNothing, Answered
<1> QED
  BY <1>1, FaithAlways, PTL
=============================================================================
