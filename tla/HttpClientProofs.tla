--------------------------- MODULE HttpClientProofs ----------------------------
(***************************************************************************)
(* The HttpClient, proved: the types, and that a call returns the answer   *)
(* to its own request as long as nothing has spoiled the connection.       *)
(***************************************************************************)
EXTENDS HttpClient, HttpBytesProofs

-----------------------------------------------------------------------------
(* The types *)

\* The calls that have been answered.  A byte that says it is a head is the head
\* of one of their responses.
Answered == {n \in 1 .. calls : answers[n] \in Responses}
PeerBytes == BytesOf(Answered)

Hosts == {NoPeer} \cup {c.host : c \in Calls}
Encodings == {""} \cup {r.encoding : r \in Responses}
Part == [call : 1 .. calls, method : Methods, last : BOOLEAN]
Held == [head : Nat, length : Nat, transfer : {"", "chunked", "coded"}, encoding : Encodings,
         body : Seq(Bytes), inflated : Encodings]
Result == [ok : BOOLEAN, clean : BOOLEAN, call : Calls, peer : Hosts,
           answer : Responses \cup {NoAnswer}, cut : BOOLEAN, response : Held]

BeforeSent == {"resolve", "socket", "connect", "send", "write"}

TypeInv ==
    /\ calls \in 0 .. MaxCalls /\ call \in Calls /\ pc \in Locations
    /\ address \in 1 .. Addresses /\ peer \in Hosts
    /\ open \in BOOLEAN /\ cut \in BOOLEAN /\ clean \in BOOLEAN
    /\ open => peer # NoPeer
    /\ unsent \in 0 .. Capacity + 1 /\ chunk_size \in Nat
    /\ pc \in BeforeSent => unsent > 0
    /\ up \in Seq(Part) /\ owed \in Seq(Part) /\ Len(up) <= Capacity
    /\ network \in Seq(PeerBytes) /\ content \in Seq(PeerBytes) /\ body \in Seq(Bytes)
    /\ payload \in Held /\ payload.head \in 0 .. calls
    /\ answers \in Seq(Responses \cup {NoAnswer}) /\ Len(answers) = calls
    /\ results \in Seq(Result)
    /\ Len(results) = IF pc \in {"idle", "deleted", "thrown"} THEN calls ELSE calls - 1

LEMMA LocationsAre ==
  {"idle", "resolve", "socket", "connect", "send", "write", "receive", "body", "chunk", "chunk_data",
   "chunk_next", "crashed", "deleted", "thrown"} = Locations
BY DEF Locations

LEMMA PeerBytesAreBytes ==
  ASSUME NEW s \in Seq(PeerBytes)
  PROVE  s \in Seq(Bytes)
<1>1. PeerBytes \subseteq Bytes
  BY DEF PeerBytes, BytesOf
<1> QED
  BY <1>1, SeqMonotonic

\* More answers, more heads.
LEMMA MoreBytes ==
  ASSUME NEW A, NEW B, A \subseteq B, NEW s \in Seq(BytesOf(A))
  PROVE  s \in Seq(BytesOf(B))
<1>1. BytesOf(A) \subseteq BytesOf(B)
  BY DEF BytesOf
<1> QED
  BY <1>1, SeqMonotonic

LEMMA TypeInvIsTypeOK == TypeInv => TypeOK
<1> SUFFICES ASSUME TypeInv PROVE TypeOK
  OBVIOUS
<1>1. network \in Seq(Bytes) /\ content \in Seq(Bytes) /\ body \in Seq(Bytes) /\ payload.body \in Seq(Bytes)
  BY PeerBytesAreBytes DEF TypeInv, Held
<1>2. \A s \in {network, content, body, payload.body} : \A k \in 1 .. Len(s) : s[k] \in Bytes
  BY <1>1, ElementOfSeq
<1>3. \A n \in 1 .. calls : answers[n] \in Responses \cup {NoAnswer}
  <2>1. answers \in Seq(Responses \cup {NoAnswer}) /\ Len(answers) = calls
    BY DEF TypeInv
  <2> QED
    BY <2>1, ElementOfSeq
<1> QED
  BY <1>2, <1>3 DEF TypeInv, TypeOK, Hosts

LEMMA InitTypes == Init => TypeInv
<1> SUFFICES ASSUME Init PROVE TypeInv
  OBVIOUS
<1>1. MaxCalls \in Nat /\ Addresses \in Nat \ {0} /\ Capacity \in Nat \ {0} /\ Calls # {}
  BY ClientAssumption
<1>2. call \in Calls
  BY <1>1 DEF Init
<1>3. <<>> \in Seq(Part) /\ <<>> \in Seq(PeerBytes) /\ <<>> \in Seq(Bytes)
      /\ <<>> \in Seq(Responses \cup {NoAnswer}) /\ <<>> \in Seq(Result) /\ Len(<<>>) = 0
  BY EmptySeq
<1>4. payload \in Held /\ payload.head = 0
  BY <1>3 DEF Init, Held, Encodings
<1>5. /\ calls \in 0 .. MaxCalls /\ pc \in Locations /\ address \in 1 .. Addresses /\ peer \in Hosts
      /\ open \in BOOLEAN /\ cut \in BOOLEAN /\ clean \in BOOLEAN /\ (open => peer # NoPeer)
      /\ unsent \in 0 .. Capacity + 1 /\ chunk_size \in Nat /\ pc \notin BeforeSent
  <2>1. /\ calls = 0 /\ pc = "idle" /\ address = 1 /\ peer = NoPeer
        /\ open = FALSE /\ cut = FALSE /\ clean = TRUE /\ unsent = 0 /\ chunk_size = 0
    BY DEF Init
  <2>2. 0 \in 0 .. MaxCalls /\ 1 \in 1 .. Addresses /\ 0 \in 0 .. Capacity + 1 /\ 0 \in Nat
    BY <1>1
  <2>3. "idle" \in Locations /\ "idle" \notin BeforeSent /\ NoPeer \in Hosts
    BY DEF Locations, BeforeSent, Hosts
  <2> QED
    BY <2>1, <2>2, <2>3
<1>6. /\ up = <<>> /\ owed = <<>> /\ network = <<>> /\ content = <<>> /\ body = <<>>
      /\ answers = <<>> /\ results = <<>> /\ calls = 0 /\ pc = "idle"
  BY DEF Init
<1>7. Len(up) <= Capacity /\ Len(answers) = calls
      /\ Len(results) = IF pc \in {"idle", "deleted", "thrown"} THEN calls ELSE calls - 1
  BY <1>1, <1>3, <1>6
<1> QED
  BY <1>2, <1>3, <1>4, <1>5, <1>6, <1>7 DEF TypeInv

\* What a call returns is recorded.
LEMMA ReturnTypes ==
  ASSUME TypeInv, pc \notin {"idle", "deleted", "thrown"}, NEW ok \in BOOLEAN, NEW response \in Held,
         Return(ok, response)
  PROVE  /\ pc' = "idle" /\ results' \in Seq(Result) /\ Len(results') = calls
         /\ Len(results) = calls - 1 /\ calls \in 1 .. MaxCalls
         /\ \A n \in 1 .. Len(results) : results'[n] = results[n]
         /\ results'[calls] = [ok |-> ok, clean |-> clean, call |-> call, peer |-> peer,
                               answer |-> answers[calls], cut |-> cut, response |-> response]
<1> DEFINE x == [ok |-> ok, clean |-> clean, call |-> call, peer |-> peer,
                 answer |-> answers[calls], cut |-> cut, response |-> response]
<1>1. /\ results \in Seq(Result) /\ Len(results) = calls - 1 /\ Len(results) \in Nat
      /\ calls \in 0 .. MaxCalls /\ Len(answers) = calls /\ answers \in Seq(Responses \cup {NoAnswer})
      /\ MaxCalls \in Nat
  <2>1. MaxCalls \in Nat
    BY ClientAssumption
  <2>2. results \in Seq(Result) /\ Len(results) = calls - 1
    BY DEF TypeInv
  <2>3. Len(results) \in Nat
    BY <2>2, LenProperties
  <2> QED
    BY <2>1, <2>2, <2>3 DEF TypeInv
<1>2. calls \in 1 .. MaxCalls
  BY <1>1
<1>3. answers[calls] \in Responses \cup {NoAnswer}
  <2>1. calls \in 1 .. Len(answers)
    BY <1>1, <1>2
  <2> QED
    BY <1>1, <2>1, ElementOfSeq
<1>4. x \in Result
  BY <1>3 DEF Result, TypeInv
<1>5. results' = Append(results, x) /\ pc' = "idle"
  BY DEF Return
<1> HIDE DEF x
<1>6. /\ Append(results, x) \in Seq(Result) /\ Len(Append(results, x)) = Len(results) + 1
      /\ \A n \in 1 .. Len(results) : Append(results, x)[n] = results[n]
      /\ Append(results, x)[Len(results) + 1] = x
  BY <1>1, <1>4, AppendProperties
<1>7. Len(results) + 1 = calls
  BY <1>1, <1>2
<1>8. results'[calls] = x
  BY <1>5, <1>6, <1>7
<1> QED
  BY <1>1, <1>2, <1>5, <1>6, <1>7, <1>8 DEF x

-----------------------------------------------------------------------------
(* Steps keep the types *)

\* Steps that neither begin a call nor answer one change none of the sets.
LEMMA SameSets ==
  ASSUME calls' = calls, answers' = answers
  PROVE  PeerBytes' = PeerBytes /\ Part' = Part /\ Held' = Held /\ Result' = Result /\ Hosts' = Hosts
<1>1. Answered' = Answered
  BY DEF Answered
<1> QED
  BY <1>1 DEF PeerBytes, Part, Held, Result, Hosts, Encodings

LEMMA CallTypes == ASSUME TypeInv, NEW c \in Calls, Call(c) PROVE TypeInv'
<1>1. /\ pc = "idle" /\ calls < MaxCalls /\ calls' = calls + 1 /\ call' = c
      /\ pc' \in {"send", "resolve"} /\ unsent' = Size(c.method)
      /\ content' = <<>> /\ body' = <<>> /\ chunk_size' = 0
      /\ answers' = Append(answers, NoAnswer) /\ clean' \in BOOLEAN
      /\ UNCHANGED <<address, peer, open, up, owed, network, payload, cut, results>>
  BY DEF Call, linkVars, TypeInv
<1>2. /\ calls \in Nat /\ MaxCalls \in Nat /\ Capacity \in Nat \ {0} /\ c.method \in Methods
      /\ calls \in 0 .. MaxCalls
  <2>1. MaxCalls \in Nat /\ Capacity \in Nat \ {0} /\ c.method \in Methods
    BY ClientAssumption
  <2>2. calls \in 0 .. MaxCalls
    BY DEF TypeInv
  <2> QED
    BY <2>1, <2>2
<1>3. calls' \in 0 .. MaxCalls /\ calls' \in Nat
  BY <1>1, <1>2
<1>4. unsent' \in 0 .. Capacity + 1 /\ unsent' > 0
  <2>1. unsent' = 1 \/ unsent' = Capacity + 1
    BY <1>1 DEF Size
  <2> QED
    BY <1>2, <2>1
<1>5. /\ answers' \in Seq(Responses \cup {NoAnswer}) /\ Len(answers') = calls'
      /\ \A n \in 1 .. calls : answers'[n] = answers[n]
  <2>1. answers \in Seq(Responses \cup {NoAnswer}) /\ Len(answers) = calls /\ NoAnswer \in Responses \cup {NoAnswer}
    BY DEF TypeInv
  <2> HIDE DEF NoAnswer
  <2>2. /\ Append(answers, NoAnswer) \in Seq(Responses \cup {NoAnswer})
        /\ Len(Append(answers, NoAnswer)) = Len(answers) + 1
        /\ \A n \in 1 .. Len(answers) : Append(answers, NoAnswer)[n] = answers[n]
    BY <2>1, AppendProperties
  <2> QED
    BY <1>1, <2>1, <2>2
<1>6. Answered \subseteq Answered'
  <2> SUFFICES ASSUME NEW n \in Answered PROVE n \in Answered'
    OBVIOUS
  <2>1. n \in 1 .. calls /\ answers[n] \in Responses
    BY DEF Answered
  <2>2. n \in 1 .. calls' /\ answers'[n] = answers[n]
    BY <1>1, <1>2, <1>5, <2>1
  <2> QED
    BY <2>1, <2>2 DEF Answered
<1>7. network' \in Seq(PeerBytes')
  <2>1. network' = network /\ network \in Seq(BytesOf(Answered))
    BY <1>1 DEF TypeInv, PeerBytes
  <2>2. network \in Seq(BytesOf(Answered'))
    BY <1>6, <2>1, MoreBytes
  <2> QED
    BY <2>1, <2>2 DEF PeerBytes
<1>8. up' \in Seq(Part') /\ owed' \in Seq(Part') /\ Len(up') <= Capacity
  <2>1. up \in Seq(Part) /\ owed \in Seq(Part) /\ Len(up) <= Capacity
    BY DEF TypeInv
  <2>2. Part \subseteq Part'
    <3>1. 1 .. calls \subseteq 1 .. calls'
      BY <1>1, <1>2
    <3> QED
      BY <3>1 DEF Part
  <2>3. up \in Seq(Part') /\ owed \in Seq(Part')
    BY <2>1, <2>2, SeqMonotonic
  <2> QED
    BY <1>1, <2>1, <2>3
<1>9. payload' \in Held' /\ payload'.head \in 0 .. calls'
  <2>1. payload \in Held /\ payload.head \in 0 .. calls /\ Held' = Held
    BY DEF TypeInv, Held, Encodings
  <2>2. 0 .. calls \subseteq 0 .. calls'
    BY <1>1, <1>2
  <2> QED
    BY <1>1, <2>1, <2>2
<1>10. /\ results' \in Seq(Result')
       /\ Len(results') = IF pc' \in {"idle", "deleted", "thrown"} THEN calls' ELSE calls' - 1
  <2>1. results \in Seq(Result) /\ Len(results) = calls /\ Result' = Result
    BY <1>1 DEF TypeInv, Result, Held, Encodings, Hosts
  <2>2. calls' - 1 = calls
    BY <1>1, <1>2
  <2> QED
    BY <1>1, <2>1, <2>2
<1>11. content' \in Seq(PeerBytes') /\ body' \in Seq(Bytes)
  BY <1>1, EmptySeq
<1>12. pc' \in Locations
  BY <1>1 DEF Locations
<1>13. /\ address' \in 1 .. Addresses /\ peer' \in Hosts' /\ open' \in BOOLEAN /\ cut' \in BOOLEAN
       /\ (open' => peer' # NoPeer)
  BY <1>1 DEF TypeInv, Hosts
<1>14. chunk_size' \in Nat
  BY <1>1
<1> QED
  BY <1>1, <1>3, <1>4, <1>5, <1>7, <1>8, <1>9, <1>10, <1>11, <1>12, <1>13, <1>14 DEF TypeInv

LEMMA CallThrowsTypes == ASSUME TypeInv, NEW c \in Calls, CallThrows(c) PROVE TypeInv'
<1>1. /\ pc = "idle" /\ pc' = "thrown"
      /\ UNCHANGED <<calls, call, address, peer, open, up, owed, network, unsent, content, body,
                     chunk_size, payload, answers, cut, results, clean>>
  BY DEF CallThrows, linkVars, parseVars
<1>2. PeerBytes' = PeerBytes /\ Part' = Part /\ Held' = Held /\ Result' = Result /\ Hosts' = Hosts
  BY <1>1, SameSets
<1>3. "thrown" \in Locations /\ "thrown" \notin BeforeSent
  BY DEF Locations, BeforeSent
<1> QED
  BY <1>1, <1>2, <1>3 DEF TypeInv

-----------------------------------------------------------------------------
(* What a response consists of *)

\* The bytes of bodies, sizes and line ends.
Plain == BytesOf({})

LastChunk == SizeLine(0) \o CRLF
Chunk(b) == SizeLine(1) \o <<b>> \o CRLF

\* What the server sends from the p-th byte of a chunked body s on.
IsToCome(f, s) ==
    \A p \in 1 .. Len(s) + 1 :
      f[p] = IF p = Len(s) + 1 THEN LastChunk ELSE Chunk(s[p]) \o f[p + 1]
ToCome(s) == CHOOSE f : IsToCome(f, s)

LEMMA LineEndsArePlain ==
  /\ CRLF \in Seq(Plain) /\ Len(CRLF) = 2 /\ BlankLine \in Seq(Plain)
  /\ SizeLine(0) \in Seq(Plain) /\ SizeLine(1) \in Seq(Plain)
  /\ Len(SizeLine(0)) = 3 /\ Len(SizeLine(1)) = 3
  /\ LastChunk \in Seq(Plain) /\ Len(LastChunk) = 5
<1>1. CRLF \in Seq(Plain) /\ Len(CRLF) = 2 /\ BlankLine \in Seq(Plain)
  BY LineEnds DEF Plain
<1>2. SizeLine(0) \in Seq(Plain) /\ Len(SizeLine(0)) = 3
  <2>1. 0 \in Nat
    OBVIOUS
  <2> QED
    BY <2>1, SizeLineIs DEF Plain
<1>3. SizeLine(1) \in Seq(Plain) /\ Len(SizeLine(1)) = 3
  <2>1. 1 \in Nat
    OBVIOUS
  <2> QED
    BY <2>1, SizeLineIs DEF Plain
<1>4. Together(SizeLine(0) \o CRLF, SizeLine(0), CRLF, Plain)
  BY <1>1, <1>2, PutTogether
<1>5. LastChunk \in Seq(Plain) /\ Len(LastChunk) = Len(SizeLine(0)) + Len(CRLF)
  BY <1>4, Zenon DEF Together, LastChunk
<1>6. Len(LastChunk) = 5
  <2>1. PICK l \in Nat, m \in Nat : l = Len(SizeLine(0)) /\ m = Len(CRLF) /\ l = 3 /\ m = 2
    <3>1. 3 \in Nat /\ 2 \in Nat
      OBVIOUS
    <3> QED
      BY <1>1, <1>2, <3>1, Zenon
  <2>2. Len(LastChunk) = l + m
    BY <1>5, <2>1, Zenon
  <2> QED
    BY <2>1, <2>2
<1> QED
  BY <1>1, <1>2, <1>3, <1>5, <1>6

LEMMA ChunkIsPlain ==
  ASSUME NEW b \in Plain
  PROVE  Chunk(b) \in Seq(Plain) /\ <<b>> \in Seq(Plain) /\ SizeLine(1) \o <<b>> \in Seq(Plain)
<1>1. <<b>> \in Seq(Plain) /\ SizeLine(1) \in Seq(Plain) /\ CRLF \in Seq(Plain)
  BY LineEndsArePlain
<1>2. SizeLine(1) \o <<b>> \in Seq(Plain)
  BY <1>1, ConcatProperties
<1>3. (SizeLine(1) \o <<b>>) \o CRLF \in Seq(Plain)
  BY <1>1, <1>2, ConcatProperties
<1> QED
  BY <1>1, <1>2, <1>3 DEF Chunk

LEMMA ToComeExists ==
  ASSUME NEW S, NEW s \in Seq(S)
  PROVE  IsToCome(ToCome(s), s)
<1> DEFINE last == Len(s) + 1
           next == [p \in 1 .. last |-> IF p = last THEN 0 ELSE p + 1]
           base == [p \in 1 .. last |-> LastChunk]
           part == [p \in 1 .. last |-> Chunk(s[p])]
<1>1. last \in Nat /\ \A p \in 1 .. last : next[p] # 0 => next[p] \in (p + 1) .. last
  OBVIOUS
<1>2. PICK f : GoesOn(f, last, next, base, part)
  <2> HIDE DEF next, base, part, last
  <2> QED
    BY <1>1, ThereIsOneTowardsTheEnd
<1>3. IsToCome(f, s)
  <2> SUFFICES ASSUME NEW p \in 1 .. last
               PROVE  f[p] = IF p = last THEN LastChunk ELSE Chunk(s[p]) \o f[p + 1]
    BY DEF IsToCome
  <2>1. f[p] = IF next[p] = 0 THEN base[p] ELSE part[p] \o f[next[p]]
    <3> HIDE DEF next, base, part, last
    <3> QED
      BY <1>2 DEF GoesOn
  <2>2. base[p] = LastChunk /\ part[p] = Chunk(s[p]) /\ p # 0 /\ p + 1 # 0
    BY <1>1
  <2>3. next[p] = IF p = last THEN 0 ELSE p + 1
    OBVIOUS
  <2> HIDE DEF next, base, part, last
  <2> QED
    BY <2>1, <2>2, <2>3
<1> QED
  BY <1>3 DEF ToCome

\* What is still to come at one byte of the body.
LEMMA ToComeIs ==
  ASSUME NEW s \in Seq(Plain), NEW p \in 1 .. Len(s) + 1
  PROVE  /\ ToCome(s)[p] \in Seq(Plain)
         /\ p = Len(s) + 1 => ToCome(s)[p] = LastChunk
         /\ p # Len(s) + 1 => /\ s[p] \in Plain /\ p + 1 \in 1 .. Len(s) + 1
                              /\ ToCome(s)[p + 1] \in Seq(Plain)
                              /\ ToCome(s)[p] = Chunk(s[p]) \o ToCome(s)[p + 1]
<1> DEFINE last == Len(s) + 1
           f == ToCome(s)
           T == {q \in Nat : q \in 1 .. last => f[q] \in Seq(Plain)}
<1>1. Len(s) \in Nat /\ last \in Nat
  OBVIOUS
<1>2. IsToCome(f, s)
  BY ToComeExists
<1> HIDE DEF f
<1>3. \A q \in 1 .. last : f[q] = IF q = last THEN LastChunk ELSE Chunk(s[q]) \o f[q + 1]
  BY <1>2 DEF IsToCome
<1>4. \A q \in 1 .. Len(s) : s[q] \in Plain
  BY ElementOfSeq
<1>5. \A q \in Nat : q > last => q \in T
  BY <1>1
<1>6. ASSUME NEW q \in Nat, q + 1 \in T PROVE q \in T
  <2> SUFFICES ASSUME q \in 1 .. last PROVE f[q] \in Seq(Plain)
    OBVIOUS
  <2>1. CASE q = last
    BY <1>3, <2>1, LineEndsArePlain
  <2>2. CASE q # last
    <3>1. q \in 1 .. Len(s) /\ q + 1 \in 1 .. last
      BY <1>1, <2>2
    <3>2. s[q] \in Plain /\ f[q + 1] \in Seq(Plain)
      BY <1>4, <1>6, <3>1
    <3>3. Chunk(s[q]) \in Seq(Plain)
      BY <3>2, ChunkIsPlain
    <3>4. Chunk(s[q]) \o f[q + 1] \in Seq(Plain)
      BY <3>2, <3>3, ConcatProperties
    <3> QED
      BY <1>3, <2>2, <3>4
  <2> QED
    BY <2>1, <2>2
<1>7. T = Nat
  <2>1. T \in SUBSET Nat /\ 1 \in Nat \ {0}
    OBVIOUS
  <2> HIDE DEF T, last
  <2> QED
    BY <1>1, <1>5, <1>6, <2>1, FromTheEnd
<1>8. \A q \in 1 .. last : f[q] \in Seq(Plain)
  BY <1>1, <1>7
<1>9. f[p] \in Seq(Plain) /\ (p = last => f[p] = LastChunk)
  BY <1>3, <1>8
<1>10. ASSUME p # last
       PROVE  /\ s[p] \in Plain /\ p + 1 \in 1 .. last /\ f[p + 1] \in Seq(Plain)
              /\ f[p] = Chunk(s[p]) \o f[p + 1]
  <2>1. p \in 1 .. Len(s) /\ p + 1 \in 1 .. last
    BY <1>1, <1>10
  <2> QED
    BY <1>3, <1>4, <1>8, <1>10, <2>1
<1> QED
  BY <1>9, <1>10 DEF f

\* All the chunks that the server puts together are what is to come at first.
SendsChunks(f, s) ==
    f = [k \in 0 .. Len(s) |-> IF k = 0 THEN <<>> ELSE f[k - 1] \o Chunk(s[k])]

LEMMA ChunksAreSent ==
  ASSUME NEW s \in Seq(Plain), NEW f, SendsChunks(f, s)
  PROVE  f[Len(s)] \in Seq(Plain) /\ f[Len(s)] \o LastChunk = ToCome(s)[1]
<1> DEFINE n == Len(s)
           T == {k \in 0 .. n : f[k] \in Seq(Plain) /\ f[k] \o ToCome(s)[k + 1] = ToCome(s)[1]}
<1>1. n \in Nat /\ 0 \in Int /\ n \in Int
  OBVIOUS
<1>2. \A k \in 0 .. n : f[k] = IF k = 0 THEN <<>> ELSE f[k - 1] \o Chunk(s[k])
  BY DEF SendsChunks
<1>3. 0 \in T
  <2>1. 0 \in 0 .. n /\ 0 + 1 = 1 /\ 1 \in 1 .. Len(s) + 1
    BY <1>1
  <2>2. ToCome(s)[1] \in Seq(Plain)
    BY <2>1, ToComeIs
  <2>3. f[0] = <<>> /\ <<>> \in Seq(Plain) /\ <<>> \o ToCome(s)[1] = ToCome(s)[1]
    BY <1>2, <2>1, <2>2, NothingBefore, EmptySeq
  <2> QED
    BY <2>1, <2>3
<1>4. ASSUME NEW k \in 0 .. (n - 1), k \in T PROVE k + 1 \in T
  <2>1. /\ k + 1 \in 0 .. n /\ k + 1 # 0 /\ (k + 1) - 1 = k /\ k + 1 \in 1 .. Len(s) + 1
        /\ k + 1 # Len(s) + 1
    BY <1>1
  <2>2. /\ s[k + 1] \in Plain /\ ToCome(s)[(k + 1) + 1] \in Seq(Plain)
        /\ ToCome(s)[k + 1] = Chunk(s[k + 1]) \o ToCome(s)[(k + 1) + 1]
    BY <2>1, ToComeIs
  <2>3. PICK a \in Seq(Plain), b \in Seq(Plain), c \in Seq(Plain) :
          a = f[k] /\ b = Chunk(s[k + 1]) /\ c = ToCome(s)[(k + 1) + 1]
    <3>1. f[k] \in Seq(Plain) /\ Chunk(s[k + 1]) \in Seq(Plain)
      BY <1>4, <2>2, ChunkIsPlain
    <3> QED
      BY <2>2, <3>1, Zenon
  <2>4. f[k + 1] = a \o b
    BY <1>2, <2>1, <2>3
  <2>5. a \o (b \o c) = ToCome(s)[1]
    BY <1>4, <2>2, <2>3
  <2>6. (a \o b) \o c = a \o (b \o c)
    <3>1. Assoc(a, b, c)
      BY Associative
    <3> QED
      BY <3>1, Zenon DEF Assoc
  <2>7. a \o b \in Seq(Plain)
    BY ConcatProperties
  <2>8. f[k + 1] \in Seq(Plain) /\ f[k + 1] \o ToCome(s)[(k + 1) + 1] = ToCome(s)[1]
    BY <2>3, <2>4, <2>5, <2>6, <2>7, Zenon
  <2> QED
    BY <2>1, <2>8
<1>5. n \in T
  <2> HIDE DEF T, n
  <2>1. \A k \in 0 .. n : k \in T
    BY <1>1, <1>3, <1>4, FromTheStart
  <2> QED
    BY <1>1, <2>1
<1>6. ToCome(s)[n + 1] = LastChunk
  <2>1. n + 1 \in 1 .. Len(s) + 1
    BY <1>1
  <2> QED
    BY <2>1, ToComeIs
<1> QED
  BY <1>5, <1>6

\* What the server sends behind the blank line.
Payload(method, r) ==
    IF method = "HEAD" THEN <<>>
    ELSE IF r.framing \in {"chunked", "coded"} THEN ToCome(r.body)[1] ELSE r.body

LEMMA BodyIsPlain ==
  ASSUME NEW r \in Responses
  PROVE  /\ r.body \in Seq(Plain) /\ Len(r.body) \in Nat /\ r.framing \in Framings
         /\ r.framing = "none" => r.body = <<>> /\ Len(r.body) = 0
         /\ r # NoAnswer
<1>1. /\ r.body \in Seq(Bytes) /\ \A k \in 1 .. Len(r.body) : r.body[k][1] # "head"
      /\ r.framing \in Framings /\ (r.framing = "none" => r.body = <<>>)
  BY ClientAssumption
<1>2. PICK b \in Seq(Bytes) : b = r.body
  BY <1>1, Zenon
<1>3. \A k \in 1 .. Len(b) : b[k] \in Plain
  BY <1>1, <1>2, ElementOfSeq DEF Plain, BytesOf
<1>4. b \in Seq(Plain)
  BY <1>3
<1>5. Len(b) \in Nat /\ Len(<<>>) = 0
  BY <1>2
<1>6. r # NoAnswer
  <2>1. NoAnswer.framing = "no answer"
    BY DEF NoAnswer
  <2>2. "no answer" \notin Framings
    BY DEF Framings
  <2> QED
    BY <1>1, <2>1, <2>2
<1> QED
  BY <1>1, <1>2, <1>4, <1>5, <1>6

LEMMA WireIs ==
  ASSUME NEW n, NEW method \in Methods, NEW r \in Responses
  PROVE  /\ Wire(n, method, r) = Opening(n) \o Payload(method, r)
         /\ Payload(method, r) \in Seq(Plain)
<1> DEFINE s == r.body
           Is(f) == f = [k \in 0 .. Len(s) |->
                           IF k = 0 THEN <<>> ELSE f[k - 1] \o (SizeLine(1) \o <<s[k]>> \o CRLF)]
           sent == (CHOOSE f : Is(f))[Len(s)]
<1>1. s \in Seq(Plain) /\ Len(s) \in Nat /\ r.framing \in Framings /\ (r.framing = "none" => s = <<>>)
  BY BodyIsPlain
<1>2. Wire(n, method, r) =
        Opening(n) \o
        (IF method = "HEAD" THEN <<>>
         ELSE CASE r.framing = "none"               -> <<>>
                [] r.framing \in {"length", "close"} -> s
                [] r.framing \in {"chunked", "coded"} -> (sent \o SizeLine(0)) \o CRLF)
  BY DEF Wire, Opening
<1>3. sent \in Seq(Plain) /\ sent \o LastChunk = ToCome(s)[1]
  <2> DEFINE part == [k \in 0 .. Len(s) |-> Chunk(s[k])]
  <2>1. PICK f : Accumulates(f, 0, Len(s), <<>>, part)
    <3>1. 0 \in Int /\ Len(s) \in Int
      BY <1>1
    <3> HIDE DEF part, s
    <3> QED
      BY <3>1, ThereIsOneFromTheStart
  <2>2. SendsChunks(f, s)
    <3>1. f = [k \in 0 .. Len(s) |-> IF k = 0 THEN <<>> ELSE f[k - 1] \o part[k]]
      BY <2>1, Zenon DEF Accumulates
    <3>2. \A k \in 0 .. Len(s) : part[k] = Chunk(s[k])
      OBVIOUS
    <3> HIDE DEF part, s
    <3>3. [k \in 0 .. Len(s) |-> IF k = 0 THEN <<>> ELSE f[k - 1] \o part[k]]
            = [k \in 0 .. Len(s) |-> IF k = 0 THEN <<>> ELSE f[k - 1] \o Chunk(s[k])]
      BY <3>2
    <3> QED
      BY <3>1, <3>3, Zenon DEF SendsChunks
  <2>3. \A g : Is(g) <=> SendsChunks(g, s)
    BY Zenon DEF SendsChunks, Chunk
  <2>4. SendsChunks(CHOOSE g : Is(g), s)
    <3> HIDE DEF Is
    <3> QED
      BY <2>2, <2>3, Zenon
  <2> HIDE DEF Is, s
  <2> QED
    BY <1>1, <2>4, ChunksAreSent DEF sent
<1>4. (sent \o SizeLine(0)) \o CRLF = ToCome(s)[1]
  <2>1. SizeLine(0) \in Seq(Plain) /\ CRLF \in Seq(Plain)
    BY LineEndsArePlain
  <2> HIDE DEF sent
  <2>2. Assoc(sent, SizeLine(0), CRLF)
    BY <1>3, <2>1, Associative
  <2> QED
    BY <1>3, <2>2, Zenon DEF Assoc, LastChunk
<1>5. ToCome(s)[1] \in Seq(Plain)
  <2>1. 1 \in 1 .. Len(s) + 1
    BY <1>1
  <2> HIDE DEF s
  <2> QED
    BY <1>1, <2>1, ToComeIs
<1> HIDE DEF sent, s
<1>6. CASE method = "HEAD"
  BY <1>2, <1>6, EmptySeq DEF Payload
<1>7. CASE method # "HEAD" /\ r.framing \in {"chunked", "coded"}
  BY <1>2, <1>4, <1>5, <1>7 DEF Payload, s
<1>8. CASE method # "HEAD" /\ r.framing \in {"none", "length", "close"}
  BY <1>1, <1>2, <1>8 DEF Payload, s
<1> QED
  BY <1>1, <1>6, <1>7, <1>8 DEF Framings

LEMMA RespondTypes == ASSUME TypeInv, NEW r \in Responses, ServerResponds(r) PROVE TypeInv'
<1> DEFINE q == Head(owed)
<1>1. /\ open /\ owed # <<>>
      /\ network' = network \o Wire(q.call, q.method, r)
      /\ answers' = [answers EXCEPT ![q.call] = r]
      /\ open' = (r.framing # "close")
      /\ owed' = IF open' THEN Tail(owed) ELSE <<>>
      /\ up' = IF open' THEN up ELSE <<>>
      /\ UNCHANGED <<calls, call, pc, address, peer, unsent, content, body, chunk_size, payload,
                     results, clean, cut>>
  BY DEF ServerResponds, clientVars
<1>2. /\ up \in Seq(Part) /\ owed \in Seq(Part) /\ Len(up) <= Capacity /\ Capacity \in Nat
      /\ answers \in Seq(Responses \cup {NoAnswer}) /\ Len(answers) = calls /\ calls \in Nat
      /\ network \in Seq(PeerBytes) /\ content \in Seq(PeerBytes)
  <2>1. Capacity \in Nat
    BY ClientAssumption
  <2>2. Len(answers) \in Nat
    BY LenProperties DEF TypeInv
  <2> QED
    BY <2>1, <2>2 DEF TypeInv
<1>3. q \in Part /\ Tail(owed) \in Seq(Part)
  BY <1>1, <1>2, HeadTailProperties
<1> HIDE DEF q
<1>4. q.call \in 1 .. calls /\ q.method \in Methods
  BY <1>3 DEF Part
<1>5. /\ answers' \in Seq(Responses \cup {NoAnswer}) /\ Len(answers') = calls /\ answers'[q.call] = r
      /\ \A n \in 1 .. calls : answers'[n] = answers[n] \/ answers'[n] = r
  <2>1. q.call \in 1 .. Len(answers) /\ r \in Responses \cup {NoAnswer}
    BY <1>2, <1>4
  <2> HIDE DEF NoAnswer
  <2> QED
    BY <1>1, <1>2, <2>1, ExceptSeq
<1>6. Answered \subseteq Answered' /\ q.call \in Answered'
  <2>1. ASSUME NEW n \in Answered PROVE n \in Answered'
    <3>1. n \in 1 .. calls /\ answers[n] \in Responses
      BY <2>1 DEF Answered
    <3>2. answers'[n] \in Responses
      BY <1>5, <3>1
    <3> QED
      BY <1>1, <3>1, <3>2 DEF Answered
  <2>2. q.call \in Answered'
    BY <1>1, <1>4, <1>5 DEF Answered
  <2> QED
    BY <2>1, <2>2
<1>7. network' \in Seq(PeerBytes') /\ content' \in Seq(PeerBytes')
  <2> DEFINE A == Answered'
  <2>1. network \in Seq(BytesOf(A)) /\ content \in Seq(BytesOf(A))
    BY <1>2, <1>6, MoreBytes DEF PeerBytes
  <2>2. Opening(q.call) \in Seq(BytesOf(A))
    <3>1. A \in SUBSET Nat
      BY DEF Answered
    <3> HIDE DEF A
    <3>2. q.call \in A
      BY <1>6 DEF A
    <3> QED
      BY <3>1, <3>2, OpeningIs
  <2>3. Wire(q.call, q.method, r) = Opening(q.call) \o Payload(q.method, r) /\ Payload(q.method, r) \in Seq(Plain)
    BY <1>4, WireIs
  <2>4. Payload(q.method, r) \in Seq(BytesOf(A))
    <3>1. {} \subseteq A
      OBVIOUS
    <3> HIDE DEF A
    <3> QED
      BY <2>3, <3>1, MoreBytes DEF Plain
  <2> HIDE DEF A
  <2>5. Wire(q.call, q.method, r) \in Seq(BytesOf(A))
    BY <2>2, <2>3, <2>4, ConcatProperties
  <2>6. network \o Wire(q.call, q.method, r) \in Seq(BytesOf(A))
    BY <2>1, <2>5, ConcatProperties
  <2> QED
    BY <1>1, <2>1, <2>6 DEF PeerBytes, A
<1>8. up' \in Seq(Part') /\ owed' \in Seq(Part') /\ Len(up') <= Capacity
  <2>1. Part' = Part
    BY <1>1 DEF Part
  <2>2. <<>> \in Seq(Part) /\ Len(<<>>) <= Capacity
    BY <1>2
  <2> QED
    BY <1>1, <1>2, <1>3, <2>1, <2>2
<1>9. Held' = Held /\ Result' = Result /\ Hosts' = Hosts
  BY DEF Held, Result, Hosts, Encodings
<1>10. open' \in BOOLEAN /\ peer # NoPeer
  BY <1>1 DEF TypeInv
<1> QED
  BY <1>1, <1>5, <1>7, <1>8, <1>9, <1>10 DEF TypeInv

\* The steps of the server that only take something away.
LEMMA ServerTypes == ASSUME TypeInv, ServerReads \/ ServerCloses PROVE TypeInv'
<1>1. UNCHANGED <<calls, call, pc, address, peer, unsent, content, body, chunk_size, payload,
                  results, clean, answers>>
  BY DEF ServerReads, ServerCloses, clientVars
<1>2. PeerBytes' = PeerBytes /\ Part' = Part /\ Held' = Held /\ Result' = Result /\ Hosts' = Hosts
  BY <1>1, SameSets
<1>3. /\ up \in Seq(Part) /\ owed \in Seq(Part) /\ Len(up) <= Capacity /\ Capacity \in Nat
      /\ network \in Seq(PeerBytes)
  <2>1. Capacity \in Nat
    BY ClientAssumption
  <2> QED
    BY <2>1 DEF TypeInv
<1>4. /\ up' \in Seq(Part) /\ owed' \in Seq(Part) /\ Len(up') <= Capacity /\ network' \in Seq(PeerBytes)
      /\ open' \in BOOLEAN /\ (open' => open) /\ cut' \in BOOLEAN
  <2>1. CASE ServerReads
    <3>1. /\ open /\ up # <<>> /\ up' = Tail(up)
          /\ owed' = IF Head(up).last THEN Append(owed, Head(up)) ELSE owed
          /\ UNCHANGED <<open, network, cut>>
      BY <2>1 DEF ServerReads
    <3>2. Head(up) \in Part /\ Tail(up) \in Seq(Part) /\ Len(Tail(up)) <= Capacity
      <4>1. Head(up) \in Part /\ Tail(up) \in Seq(Part) /\ Len(Tail(up)) = Len(up) - 1
        BY <1>3, <3>1, HeadTailProperties
      <4> QED
        BY <1>3, <4>1
    <3>3. Append(owed, Head(up)) \in Seq(Part)
      BY <1>3, <3>2, AppendProperties
    <3> QED
      BY <1>3, <3>1, <3>2, <3>3 DEF TypeInv
  <2>2. CASE ServerCloses
    <3>1. /\ open' = FALSE /\ up' = <<>> /\ owed' = <<>> /\ cut' = (cut \/ network' # network)
      BY <2>2 DEF ServerCloses
    <3>2. PICK k \in 0 .. Len(network) : network' = SubSeq(network, 1, k)
      BY <2>2 DEF ServerCloses
    <3>3. network' \in Seq(PeerBytes)
      <4>1. 1 \in Nat \ {0} /\ k \in Int /\ k <= Len(network)
        BY <1>3
      <4> QED
        BY <1>3, <3>2, <4>1, PieceOf
    <3>4. <<>> \in Seq(Part) /\ Len(<<>>) <= Capacity
      BY <1>3
    <3> QED
      BY <3>1, <3>3, <3>4 DEF TypeInv
  <2> QED
    BY <2>1, <2>2
<1> QED
  BY <1>1, <1>2, <1>4 DEF TypeInv

\* What ParseHead finds is the number of a call that has been answered.
LEMMA HeadsAreOfAnswers ==
  ASSUME TypeInv, HeadReceived, StartsWithHead
  PROVE  FirstLine[Len(FirstLine)][2] \in Answered
<1> DEFINE parts == SplitString(content, BlankLine)
           lines == SplitString(parts[1], CRLF)
<1>1. content \in Seq(PeerBytes)
  BY DEF TypeInv
<1>2. /\ BlankLine \in Seq(PeerBytes) /\ CRLF \in Seq(PeerBytes)
      /\ Len(BlankLine) = 4 /\ Len(BlankLine) > 0 /\ Len(CRLF) > 0
  BY LineEnds DEF PeerBytes
<1>3. content # <<>>
  <2>1. Contains(content, BlankLine)
    BY DEF HeadReceived
  <2>2. content = <<>> => Len(content) = 0
    OBVIOUS
  <2> QED
    BY <1>2, <2>1, <2>2 DEF Contains
<1>4. parts \in Seq(Seq(PeerBytes)) /\ parts # <<>>
  BY <1>1, <1>2, <1>3, PartsAreStrings
<1> HIDE DEF parts
<1>5. parts[1] \in Seq(PeerBytes)
  <2>1. 1 \in 1 .. Len(parts)
    BY <1>4
  <2> QED
    BY <1>4, <2>1, ElementOfSeq
<1>6. lines \in Seq(Seq(PeerBytes))
  BY <1>2, <1>5, PartsAreStrings
<1>7. FirstLine = IF lines = <<>> THEN <<>> ELSE lines[1]
  BY DEF FirstLine, parts
<1> HIDE DEF lines
<1>8. FirstLine # <<>> /\ FirstLine[Len(FirstLine)][1] = "head"
  BY DEF StartsWithHead
<1>9. FirstLine \in Seq(PeerBytes)
  <2>1. lines # <<>> => 1 \in 1 .. Len(lines)
    BY <1>6
  <2> QED
    BY <1>6, <1>7, <1>8, <2>1, ElementOfSeq
<1>10. FirstLine[Len(FirstLine)] \in PeerBytes
  <2>1. Len(FirstLine) \in 1 .. Len(FirstLine)
    BY <1>8, <1>9
  <2> QED
    BY <1>9, <2>1, ElementOfSeq
<1> QED
  BY <1>8, <1>10 DEF PeerBytes, BytesOf

LEMMA HeadersOfResponse ==
  ASSUME TypeInv, NEW n \in Answered
  PROVE  /\ answers[n] \in Responses /\ n \in 1 .. calls
         /\ SetHeaders(n) \in Held /\ SetHeaders(n).head = n
         /\ SetHeaders(n).length = IF answers[n].framing = "length" THEN Len(answers[n].body)
                                   ELSE payload.length
         /\ SetHeaders(n).transfer = IF answers[n].framing \in {"chunked", "coded"}
                                     THEN answers[n].framing ELSE payload.transfer
         /\ SetHeaders(n).encoding = IF answers[n].encoding # "" THEN answers[n].encoding
                                     ELSE payload.encoding
<1>1. answers[n] \in Responses /\ n \in 1 .. calls
  BY DEF Answered
<1>2. PICK r \in Responses : r = answers[n]
  BY <1>1
<1>3. Len(r.body) \in Nat
  BY BodyIsPlain
<1>4. payload \in Held /\ n \in Nat /\ r.encoding \in Encodings
  <2>1. calls \in 0 .. MaxCalls /\ MaxCalls \in Nat
    BY ClientAssumption DEF TypeInv
  <2>2. n \in Nat
    BY <1>1, <2>1
  <2> QED
    BY <2>2 DEF TypeInv, Encodings
<1>5. SetHeaders(n) = [payload EXCEPT
           !.head = n,
           !.length = IF r.framing = "length" THEN Len(r.body) ELSE @,
           !.transfer = IF r.framing \in {"chunked", "coded"} THEN r.framing ELSE @,
           !.encoding = IF r.encoding # "" THEN r.encoding ELSE @]
  BY <1>2 DEF SetHeaders
<1>6. SetHeaders(n) \in Held
  BY <1>3, <1>4, <1>5 DEF Held
<1>7. /\ SetHeaders(n).head = n
      /\ SetHeaders(n).length = IF r.framing = "length" THEN Len(r.body) ELSE payload.length
      /\ SetHeaders(n).transfer = IF r.framing \in {"chunked", "coded"} THEN r.framing ELSE payload.transfer
      /\ SetHeaders(n).encoding = IF r.encoding # "" THEN r.encoding ELSE payload.encoding
  BY <1>4, <1>5 DEF Held
<1> QED
  BY <1>1, <1>2, <1>6, <1>7

\* What SetBody makes of the payload.
LEMMA BodyIsSet ==
  ASSUME TypeInv, NEW p, p = [payload EXCEPT !.body = body, !.inflated = payload.encoding]
  PROVE  /\ p \in Held /\ p.head = payload.head /\ p.body = body /\ p.inflated = payload.encoding
<1>1. payload \in Held /\ body \in Seq(Bytes)
  BY DEF TypeInv
<1> QED
  BY <1>1 DEF Held

LEMMA ReceiveTypes ==
  ASSUME NEW S, NEW T, S \subseteq T, NEW s \in Seq(T), NEW net \in Seq(S), NEW n \in Int,
         NEW longer \in Appended(s, n, net)
  PROVE  longer \in Seq(T) /\ Untaken(s, longer, net) \in Seq(S)
<1>1. net \in Seq(T)
  BY SeqMonotonic
<1>2. longer \in Seq(T) /\ Len(longer) > Len(s)
  BY <1>1, ReceivedIs
<1>3. Len(longer) - Len(s) + 1 \in Nat \ {0} /\ Len(net) \in Int /\ Len(net) <= Len(net)
  BY <1>2
<1>4. SubSeq(net, Len(longer) - Len(s) + 1, Len(net)) \in Seq(S)
  BY <1>3, PieceOf
<1> QED
  BY <1>2, <1>4 DEF Untaken, From

\* Where a step of the client that is not the beginning of a call may lead.
StepTypes ==
    /\ pc' \in Locations /\ address' \in 1 .. Addresses /\ peer' \in Hosts
    /\ open' \in BOOLEAN /\ clean' \in BOOLEAN /\ (open' => peer' # NoPeer)
    /\ unsent' \in 0 .. Capacity + 1 /\ chunk_size' \in Nat
    /\ pc' \in BeforeSent => unsent' > 0
    /\ up' \in Seq(Part) /\ owed' \in Seq(Part) /\ Len(up') <= Capacity
    /\ network' \in Seq(PeerBytes) /\ content' \in Seq(PeerBytes) /\ body' \in Seq(Bytes)
    /\ payload' \in Held /\ payload'.head \in 0 .. calls
    /\ results' \in Seq(Result)
    /\ Len(results') = IF pc' \in {"idle", "deleted", "thrown"} THEN calls ELSE calls - 1

LEMMA StepTypesAreTypes ==
  ASSUME TypeInv, UNCHANGED <<calls, call, answers, cut>>, StepTypes
  PROVE  TypeInv'
<1>1. PeerBytes' = PeerBytes /\ Part' = Part /\ Held' = Held /\ Result' = Result /\ Hosts' = Hosts
  BY SameSets
<1> QED
  BY <1>1 DEF TypeInv, StepTypes

LEMMA StartTypes ==
  ASSUME TypeInv, Delete \/ Socket \/ Starts
  PROVE  StepTypes /\ UNCHANGED <<calls, call, answers, cut>>
<1>1. CASE Delete
  <2>1. /\ pc = "idle" /\ pc' = "deleted" /\ open' = FALSE /\ up' = <<>> /\ owed' = <<>> /\ network' = <<>>
        /\ UNCHANGED <<calls, call, address, peer, unsent, content, body, chunk_size, payload, answers,
                       cut, results, clean>>
    BY <1>1 DEF Delete, parseVars
  <2>2. <<>> \in Seq(Part) /\ <<>> \in Seq(PeerBytes) /\ Len(<<>>) <= Capacity
    <3>1. Capacity \in Nat
      BY ClientAssumption
    <3> QED
      BY <3>1
  <2>3. "deleted" \in Locations /\ "deleted" \notin BeforeSent
    BY DEF Locations, BeforeSent
  <2> QED
    BY <2>1, <2>2, <2>3 DEF TypeInv, StepTypes
<1>2. CASE Resolve
  <2>1. 1 \in 1 .. Addresses
    BY ClientAssumption
  <2> QED
    BY <1>2, <2>1 DEF Resolve, TypeInv, StepTypes, Locations, BeforeSent, linkVars, parseVars
<1>3. CASE Socket
  BY <1>3 DEF Socket, TypeInv, StepTypes, Locations, BeforeSent, linkVars, parseVars
<1>4. CASE Connect
  <2>1. call.host # NoPeer /\ call.host \in Hosts
    BY ClientAssumption DEF TypeInv, Hosts
  <2> QED
    BY <1>4, <2>1 DEF Connect, TypeInv, StepTypes, Locations, BeforeSent, linkVars, parseVars
<1>5. CASE ResolveFails
  <2>1. /\ pc \notin {"idle", "deleted", "thrown"} /\ Return(FALSE, payload) /\ FALSE \in BOOLEAN /\ payload \in Held
    BY <1>5 DEF ResolveFails, TypeInv
  <2>2. pc' = "idle" /\ results' \in Seq(Result) /\ Len(results') = calls
    BY <2>1, ReturnTypes
  <2>3. "idle" \in Locations /\ "idle" \notin BeforeSent
    BY DEF Locations, BeforeSent
  <2> QED
    BY <1>5, <2>2, <2>3 DEF ResolveFails, TypeInv, StepTypes, linkVars, parseVars
<1>6. CASE ConnectFails
  <2>1. CASE address < Addresses
    <3>1. /\ pc = "connect" /\ pc' = "socket" /\ address' = address + 1
          /\ UNCHANGED <<calls, call, peer, open, up, owed, network, unsent, content, body, chunk_size,
                         payload, answers, cut, results, clean>>
      BY <1>6, <2>1 DEF ConnectFails, linkVars, parseVars
    <3>2. address' \in 1 .. Addresses
      <4>1. Addresses \in Nat /\ address \in 1 .. Addresses
        BY ClientAssumption DEF TypeInv
      <4> QED
        BY <2>1, <3>1, <4>1
    <3> QED
      BY <3>1, <3>2 DEF TypeInv, StepTypes, Locations, BeforeSent
  <2>2. CASE ~(address < Addresses)
    <3>1. /\ pc \notin {"idle", "deleted", "thrown"} /\ Return(FALSE, payload) /\ FALSE \in BOOLEAN /\ payload \in Held
      BY <1>6, <2>2 DEF ConnectFails, TypeInv
    <3>2. pc' = "idle" /\ results' \in Seq(Result) /\ Len(results') = calls
      BY <3>1, ReturnTypes
    <3>3. "idle" \in Locations /\ "idle" \notin BeforeSent
      BY DEF Locations, BeforeSent
    <3> QED
      BY <1>6, <2>2, <3>2, <3>3 DEF ConnectFails, TypeInv, StepTypes, linkVars, parseVars
  <2> QED
    BY <2>1, <2>2
<1> QED
  BY <1>1, <1>2, <1>3, <1>4, <1>5, <1>6 DEF Starts

LEMMA SendTypes ==
  ASSUME TypeInv, Sends
  PROVE  StepTypes /\ UNCHANGED <<calls, call, answers, cut>>
<1>1. CASE SendNotConnected \/ SendReady \/ SendTimesOut \/ WriteToNobody
  <2>1. /\ pc \in {"send", "write"} /\ pc' \in {"receive", "write"} /\ UNCHANGED <<unsent, up>>
        /\ UNCHANGED <<calls, call, address, peer, open, owed, network, content, body, chunk_size,
                       payload, answers, cut, results, clean>>
    BY <1>1 DEF SendNotConnected, SendReady, SendTimesOut, WriteToNobody, SendGoesOn, parseVars
  <2>2. unsent > 0 /\ pc' \in Locations /\ pc' \notin {"idle", "deleted", "thrown"} /\ pc \notin {"idle", "deleted", "thrown"}
    BY <2>1 DEF TypeInv, BeforeSent, Locations
  <2> QED
    BY <2>1, <2>2 DEF TypeInv, StepTypes
<1>2. CASE Write
  <2> DEFINE q == [call |-> calls, method |-> call.method, last |-> unsent = 1]
  <2>1. /\ pc = "write" /\ open /\ Len(up) < Capacity /\ unsent' = unsent - 1
        /\ up' = Append(up, q)
        /\ pc' = IF unsent' = 0 THEN "receive" ELSE "write"
        /\ UNCHANGED <<calls, call, address, peer, open, owed, network, content, body, chunk_size,
                       payload, answers, cut, results, clean>>
    BY <1>2 DEF Write, SendGoesOn, parseVars
  <2>2. /\ unsent \in 0 .. Capacity + 1 /\ unsent > 0 /\ Capacity \in Nat /\ up \in Seq(Part)
        /\ calls \in Nat /\ Len(results) = calls - 1 /\ Len(results) \in Nat
    <3>1. Capacity \in Nat
      BY ClientAssumption
    <3>2. results \in Seq(Result) /\ Len(results) = calls - 1 /\ answers \in Seq(Responses \cup {NoAnswer})
          /\ Len(answers) = calls
      BY <2>1 DEF TypeInv
    <3>3. Len(results) \in Nat /\ calls \in Nat
      BY <3>2, LenProperties
    <3> QED
      BY <2>1, <3>1, <3>2, <3>3 DEF TypeInv, BeforeSent
  <2>3. q \in Part
    <3>1. calls \in 1 .. calls /\ call.method \in Methods
      BY <2>2, ClientAssumption DEF TypeInv
    <3> QED
      BY <3>1 DEF Part
  <2> HIDE DEF q
  <2>4. up' \in Seq(Part) /\ Len(up') <= Capacity
    <3>1. Append(up, q) \in Seq(Part) /\ Len(Append(up, q)) = Len(up) + 1
      BY <2>2, <2>3, AppendProperties
    <3> QED
      BY <2>1, <2>2, <3>1
  <2>5. unsent' \in 0 .. Capacity + 1 /\ (unsent' # 0 => unsent' > 0)
    BY <2>1, <2>2
  <2>6. pc' \in Locations /\ (pc' \in BeforeSent => unsent' # 0) /\ pc' \notin {"idle", "deleted", "thrown"}
    BY <2>1 DEF Locations, BeforeSent
  <2> QED
    BY <2>1, <2>4, <2>5, <2>6 DEF TypeInv, StepTypes
<1> QED
  BY <1>1, <1>2 DEF Sends

LEMMA ReceivingTypes ==
  ASSUME TypeInv, Receives
  PROVE  StepTypes /\ UNCHANGED <<calls, call, answers, cut>>
<1>1. /\ network \in Seq(PeerBytes) /\ content \in Seq(PeerBytes) /\ body \in Seq(Bytes)
      /\ Len(content) \in Int /\ chunk_size \in Int /\ payload.length \in Int
  <2>1. network \in Seq(PeerBytes) /\ content \in Seq(PeerBytes) /\ body \in Seq(Bytes) /\ chunk_size \in Nat
    BY DEF TypeInv
  <2>2. payload.length \in Nat
    BY DEF TypeInv, Held
  <2>3. Len(content) \in Nat
    BY <2>1, LenProperties
  <2> QED
    BY <2>1, <2>2, <2>3
<1>2. ASSUME NEW n \in Int, ContentReceived(n)
      PROVE  content' \in Seq(PeerBytes) /\ network' \in Seq(PeerBytes)
  <2>1. content' \in Appended(content, n, network) /\ network' = Untaken(content, content', network)
    BY <1>2 DEF ContentReceived
  <2> QED
    BY <1>1, <2>1, ReceivedIs
<1>3. CASE ReceiveHead \/ ReceiveChunk \/ ReceiveSize
  <2>1. \E n \in Int : ContentReceived(n)
    <3>1. chunk_size - Len(content) + 2 \in Int /\ 1 \in Int
      BY <1>1
    <3> QED
      BY <1>3, <3>1 DEF ReceiveHead, ReceiveChunk, ReceiveSize
  <2>2. PICK n \in Int : ContentReceived(n)
    BY <2>1
  <2>3. content' \in Seq(PeerBytes) /\ network' \in Seq(PeerBytes)
    BY <1>2, <2>2
  <2> QED
    BY <2>2, <2>3 DEF ContentReceived, TypeInv, StepTypes
<1>4. CASE ReceiveBody
  <2>1. /\ body' \in Appended(body, payload.length - Len(content), network)
        /\ network' = Untaken(body, body', network)
        /\ UNCHANGED <<calls, call, pc, address, peer, open, unsent, up, owed,
                       content, chunk_size, payload, answers, cut, results, clean>>
    BY <1>4 DEF ReceiveBody
  <2>2. body' \in Seq(Bytes) /\ network' \in Seq(PeerBytes)
    <3>1. PeerBytes \subseteq Bytes /\ payload.length - Len(content) \in Int
      BY <1>1 DEF PeerBytes, BytesOf
    <3> QED
      BY <1>1, <2>1, <3>1, ReceiveTypes
  <2> QED
    BY <2>1, <2>2 DEF TypeInv, StepTypes
<1> QED
  BY <1>3, <1>4 DEF Receives

LEMMA FailTypes ==
  ASSUME TypeInv, Fails \/ NoHead \/ BadField \/ NoSize \/ NextChunk
  PROVE  StepTypes /\ UNCHANGED <<calls, call, answers, cut>>
<1>1. "idle" \in Locations /\ "idle" \notin BeforeSent /\ payload \in Held
  BY DEF Locations, BeforeSent, TypeInv
<1>2. ASSUME pc \notin {"idle", "deleted", "thrown"}, Return(FALSE, payload)
      PROVE  pc' = "idle" /\ results' \in Seq(Result) /\ Len(results') = calls
  <2>1. FALSE \in BOOLEAN
    OBVIOUS
  <2> QED
    BY <1>1, <1>2, <2>1, ReturnTypes
<1>3. ASSUME pc \notin {"idle", "deleted", "thrown"}, pc' \in {"chunk_data", "chunk", "crashed"}
      PROVE  pc' \in Locations /\ pc' \notin BeforeSent /\ pc' \notin {"idle", "deleted", "thrown"}
  BY <1>3 DEF Locations, BeforeSent
<1>4. CASE NotConnected
  <2>1. /\ pc \notin {"idle", "deleted", "thrown"}
        /\ Return(FALSE, payload) \/ (pc' = "crashed" /\ UNCHANGED results)
        /\ UNCHANGED <<calls, call, address, peer, open, up, owed, network, unsent, content, body,
                       chunk_size, payload, answers, cut, clean>>
    BY <1>4 DEF NotConnected, linkVars, parseVars
  <2>2. CASE Return(FALSE, payload)
    BY <1>1, <1>2, <2>1, <2>2 DEF TypeInv, StepTypes
  <2>3. CASE pc' = "crashed" /\ UNCHANGED results
    BY <1>3, <2>1, <2>3 DEF TypeInv, StepTypes
  <2> QED
    BY <2>1, <2>2, <2>3
<1>5. CASE ReceiveFails
  <2>1. /\ pc \notin {"idle", "deleted", "thrown"} /\ Return(FALSE, payload) /\ clean' = FALSE
        /\ UNCHANGED <<calls, call, address, peer, open, up, owed, network, unsent, content, body,
                       chunk_size, payload, answers, cut>>
    BY <1>5 DEF ReceiveFails, NothingToRead, Receiving, linkVars, parseVars
  <2> QED
    BY <1>1, <1>2, <2>1 DEF TypeInv, StepTypes
<1>6. CASE NoHead \/ BadField \/ NoSize \/ NextChunk
  <2>1. /\ pc \notin {"idle", "deleted", "thrown"} /\ pc' \in {"chunk_data", "chunk", "crashed"}
        /\ UNCHANGED <<calls, call, address, peer, open, up, owed, network, unsent, content, body,
                       chunk_size, payload, answers, cut, results, clean>>
    BY <1>6 DEF NoHead, BadField, HeadReceived, NoSize, NextChunk, linkVars, parseVars
  <2> QED
    BY <1>3, <2>1 DEF TypeInv, StepTypes
<1> QED
  BY <1>4, <1>5, <1>6 DEF Fails

LEMMA ParseHeadTypes ==
  ASSUME TypeInv, ParseHead
  PROVE  StepTypes /\ UNCHANGED <<calls, call, answers, cut>>
<1> DEFINE n == FirstLine[Len(FirstLine)][2]
<1>1. n \in Answered
  BY HeadsAreOfAnswers DEF ParseHead
<1>2. /\ pc = "receive" /\ payload' = SetHeaders(n) /\ content' = <<>>
      /\ \/ Return(TRUE, payload')
         \/ pc' \in {"chunk", "body"} /\ UNCHANGED results
      /\ clean' \in BOOLEAN
      /\ UNCHANGED <<calls, call, address, peer, open, up, owed, network, unsent, body, chunk_size,
                     answers, cut>>
  BY DEF ParseHead, HeadReceived, linkVars, TypeInv
<1> HIDE DEF n
<1>3. payload' \in Held /\ payload'.head \in 0 .. calls
  <2>1. SetHeaders(n) \in Held /\ SetHeaders(n).head = n /\ n \in 1 .. calls
    BY <1>1, HeadersOfResponse
  <2>2. 1 .. calls \subseteq 0 .. calls
    OBVIOUS
  <2> QED
    BY <1>2, <2>1, <2>2
<1>4. content' \in Seq(PeerBytes)
  BY <1>2, EmptySeq
<1>5. CASE Return(TRUE, payload')
  <2>1. pc' = "idle" /\ results' \in Seq(Result) /\ Len(results') = calls
    <3>1. pc \notin {"idle", "deleted", "thrown"} /\ TRUE \in BOOLEAN
      BY <1>2
    <3> QED
      BY <1>3, <1>5, <3>1, ReturnTypes
  <2>2. "idle" \in Locations /\ "idle" \notin BeforeSent
    BY DEF Locations, BeforeSent
  <2> QED
    BY <1>2, <1>3, <1>4, <2>1, <2>2 DEF TypeInv, StepTypes
<1>6. CASE pc' \in {"chunk", "body"} /\ UNCHANGED results
  <2>1. pc' \in Locations /\ pc' \notin BeforeSent /\ pc' \notin {"idle", "deleted", "thrown"} /\ pc \notin {"idle", "deleted", "thrown"}
    BY <1>2, <1>6 DEF Locations, BeforeSent
  <2> QED
    BY <1>2, <1>3, <1>4, <1>6, <2>1 DEF TypeInv, StepTypes
<1> QED
  BY <1>2, <1>5, <1>6

\* SetBody at the end of a body.
LEMMA SetBodyTypes ==
  ASSUME TypeInv, pc \notin {"idle", "deleted", "thrown"}, SetBody(body)
  PROVE  /\ payload' \in Held /\ payload'.head = payload.head
         /\ payload'.body = body /\ payload'.inflated = payload.encoding
         /\ pc' = "idle" /\ results' \in Seq(Result) /\ Len(results') = calls
         /\ Len(results) = calls - 1 /\ calls \in 1 .. MaxCalls
         /\ \A n \in 1 .. Len(results) : results'[n] = results[n]
         /\ results'[calls] = [ok |-> TRUE, clean |-> clean, call |-> call, peer |-> peer,
                               answer |-> answers[calls], cut |-> cut, response |-> payload']
<1>1. payload' = [payload EXCEPT !.body = body, !.inflated = payload.encoding] /\ Return(TRUE, payload')
  BY DEF SetBody
<1>2. /\ payload' \in Held /\ payload'.head = payload.head
      /\ payload'.body = body /\ payload'.inflated = payload.encoding
  BY <1>1, BodyIsSet
<1>3. TRUE \in BOOLEAN
  OBVIOUS
<1> QED
  BY <1>1, <1>2, <1>3, ReturnTypes

LEMMA ParseBodyTypes ==
  ASSUME TypeInv, EndBody \/ ParseSize \/ EndChunk
  PROVE  StepTypes /\ UNCHANGED <<calls, call, answers, cut>>
<1>1. /\ content \in Seq(PeerBytes) /\ body \in Seq(Bytes) /\ chunk_size \in Nat
      /\ content \in Seq(Bytes) /\ payload.head \in 0 .. calls
  <2>1. content \in Seq(PeerBytes)
    BY DEF TypeInv
  <2> QED
    BY <2>1, PeerBytesAreBytes DEF TypeInv
<1>2. /\ "idle" \in Locations /\ "idle" \notin BeforeSent
      /\ {"chunk_data", "chunk_next", "crashed"} \subseteq Locations
      /\ \A l \in {"chunk_data", "chunk_next", "crashed"} : l \notin BeforeSent /\ l \notin {"idle", "deleted", "thrown"}
  BY DEF Locations, BeforeSent
<1>3. CASE EndBody
  <2>1. /\ pc \notin {"idle", "deleted", "thrown"} /\ SetBody(body)
        /\ UNCHANGED <<calls, call, address, peer, open, up, owed, network, unsent, content, body,
                       chunk_size, answers, cut, clean>>
    BY <1>3 DEF EndBody, linkVars, parseVars
  <2>2. /\ payload' \in Held /\ payload'.head = payload.head
        /\ pc' = "idle" /\ results' \in Seq(Result) /\ Len(results') = calls
    BY <2>1, SetBodyTypes
  <2> QED
    BY <1>1, <1>2, <2>1, <2>2 DEF TypeInv, StepTypes
<1>4. CASE EndChunk
  <2>1. /\ pc = "chunk_data" /\ ~(Len(content) < chunk_size + 2)
        /\ body' = body \o SubSeq(content, 1, chunk_size)
        /\ content' = IF chunk_size > 0 THEN From(content, chunk_size + 3) ELSE content
        /\ pc' = "chunk_next"
        /\ UNCHANGED <<calls, call, address, peer, open, up, owed, network, unsent, chunk_size, payload,
                       answers, cut, results, clean>>
    BY <1>4 DEF EndChunk, Receiving, linkVars
  <2>2. body' \in Seq(Bytes)
    <3>1. 1 \in Nat \ {0} /\ chunk_size \in Int /\ chunk_size <= Len(content)
      BY <1>1, <2>1
    <3>2. SubSeq(content, 1, chunk_size) \in Seq(Bytes)
      BY <1>1, <3>1, PieceOf
    <3> QED
      BY <1>1, <2>1, <3>2, ConcatProperties
  <2>3. content' \in Seq(PeerBytes)
    <3>1. chunk_size + 3 \in Nat \ {0} /\ Len(content) \in Int /\ Len(content) <= Len(content)
      BY <1>1
    <3>2. From(content, chunk_size + 3) \in Seq(PeerBytes)
      BY <1>1, <3>1, PieceOf DEF From
    <3> QED
      BY <1>1, <2>1, <3>2
  <2>4. pc' \in Locations /\ pc' \notin BeforeSent /\ pc' \notin {"idle", "deleted", "thrown"} /\ pc \notin {"idle", "deleted", "thrown"}
    BY <1>2, <2>1
  <2> QED
    BY <2>1, <2>2, <2>3, <2>4 DEF TypeInv, StepTypes
<1>5. CASE ParseSize
  <2> DEFINE pos == Find(content, CRLF, 1)
             hex == SubSeq(content, 1, pos - 1)
  <2>1. /\ pc = "chunk" /\ pos # NPos
        /\ UNCHANGED <<calls, call, address, peer, open, up, owed, network, unsent, body, answers, cut>>
        /\ IF hex = <<>>
           THEN pc' = "crashed" /\ UNCHANGED <<content, chunk_size, payload, results, clean>>
           ELSE /\ content' = From(content, pos + Len(CRLF))
                /\ chunk_size' \in IF Len(hex) = 1 /\ hex[1][1] = "size" THEN {hex[1][2]} ELSE GarbageSizes
                /\ IF chunk_size' = 0
                   THEN SetBody(body) /\ clean' = FALSE
                   ELSE pc' = "chunk_data" /\ UNCHANGED <<payload, results, clean>>
    BY <1>5 DEF ParseSize, linkVars
  <2>2. CRLF \in Seq(PeerBytes) /\ Len(CRLF) = 2
    BY LineEnds DEF PeerBytes
  <2>3. pos \in 1 .. (Len(content) - 1)
    <3>1. Len(content) + 1 - Len(CRLF) = Len(content) - 1 /\ 1 \in Nat \ {0}
      BY <1>1, <2>2
    <3>2. pos = NPos \/ pos \in 1 .. (Len(content) + 1 - Len(CRLF))
      BY <1>1, <2>2, <3>1, FindIs
    <3> HIDE DEF pos
    <3> QED
      BY <2>1, <3>1, <3>2
  <2>4. CASE hex = <<>>
    <3>1. pc' = "crashed" /\ UNCHANGED <<content, chunk_size, payload, results, clean>>
      BY <2>1, <2>4
    <3> HIDE DEF hex, pos
    <3>2. pc' \in Locations /\ pc' \notin BeforeSent /\ pc' \notin {"idle", "deleted", "thrown"} /\ pc \notin {"idle", "deleted", "thrown"}
      BY <1>2, <2>1, <3>1
    <3> QED
      BY <2>1, <3>1, <3>2 DEF TypeInv, StepTypes
  <2>5. CASE hex # <<>>
    <3>1. content' \in Seq(PeerBytes)
      <4>1. pos + Len(CRLF) \in Nat \ {0} /\ Len(content) \in Int /\ Len(content) <= Len(content)
        BY <1>1, <2>2, <2>3
      <4>2. content' = From(content, pos + Len(CRLF))
        BY <2>1, <2>5
      <4> HIDE DEF pos, hex
      <4> QED
        BY <1>1, <4>1, <4>2, PieceOf DEF From
    <3>2. chunk_size' \in Nat
      <4>1. GarbageSizes \subseteq Nat
        BY ClientAssumption
      <4>2. hex \in Seq(PeerBytes)
        <5>1. 1 \in Nat \ {0} /\ pos - 1 \in Int /\ pos - 1 <= Len(content)
          BY <1>1, <2>3
        <5> HIDE DEF pos
        <5> QED
          BY <1>1, <5>1, PieceOf
      <4>3. chunk_size' \in IF Len(hex) = 1 /\ hex[1][1] = "size" THEN {hex[1][2]} ELSE GarbageSizes
        BY <2>1, <2>5
      <4> HIDE DEF hex
      <4>4. hex[1] \in PeerBytes
        <5>1. 1 \in 1 .. Len(hex)
          BY <2>5, <4>2
        <5> QED
          BY <4>2, <5>1, ElementOfSeq
      <4>5. hex[1][2] \in Nat
        BY <4>4 DEF PeerBytes, BytesOf, Bytes
      <4> QED
        BY <4>1, <4>3, <4>5
    <3>3. IF chunk_size' = 0
          THEN SetBody(body) /\ clean' = FALSE
          ELSE pc' = "chunk_data" /\ UNCHANGED <<payload, results, clean>>
      BY <2>1, <2>5
    <3> HIDE DEF hex, pos
    <3>4. CASE chunk_size' = 0
      <4>1. /\ payload' \in Held /\ payload'.head = payload.head
            /\ pc' = "idle" /\ results' \in Seq(Result) /\ Len(results') = calls
        <5>1. pc \notin {"idle", "deleted", "thrown"} /\ SetBody(body)
          BY <2>1, <3>3, <3>4
        <5> QED
          BY <5>1, SetBodyTypes
      <4>2. clean' = FALSE
        BY <3>3, <3>4
      <4> QED
        BY <1>1, <1>2, <2>1, <3>1, <3>2, <4>1, <4>2 DEF TypeInv, StepTypes
    <3>5. CASE chunk_size' # 0
      <4>1. pc' = "chunk_data" /\ UNCHANGED <<payload, results, clean>>
        BY <3>3, <3>5
      <4>2. pc' \in Locations /\ pc' \notin BeforeSent /\ pc' \notin {"idle", "deleted", "thrown"} /\ pc \notin {"idle", "deleted", "thrown"}
        BY <1>2, <2>1, <4>1
      <4> QED
        BY <2>1, <3>1, <3>2, <4>1, <4>2 DEF TypeInv, StepTypes
    <3> QED
      BY <3>4, <3>5
  <2> QED
    BY <2>4, <2>5
<1> QED
  BY <1>3, <1>4, <1>5

LEMMA StepKeepsTypes == TypeInv /\ [Next]_vars => TypeInv'
<1> SUFFICES ASSUME TypeInv, [Next]_vars PROVE TypeInv'
  OBVIOUS
<1>1. CASE UNCHANGED vars
  <2>1. UNCHANGED <<calls, answers>>
    BY <1>1 DEF vars
  <2>2. PeerBytes' = PeerBytes /\ Part' = Part /\ Held' = Held /\ Result' = Result /\ Hosts' = Hosts
    BY <2>1, SameSets
  <2> QED
    BY <1>1, <2>2 DEF TypeInv, vars
<1>2. ASSUME NEW c \in Calls, Call(c) \/ CallThrows(c) PROVE TypeInv'
  BY <1>2, CallTypes, CallThrowsTypes
<1>3. CASE Delete \/ Socket \/ Starts
  BY <1>3, StartTypes, StepTypesAreTypes
<1>4. CASE Sends
  BY <1>4, SendTypes, StepTypesAreTypes
<1>5. CASE Receives
  BY <1>5, ReceivingTypes, StepTypesAreTypes
<1>6. CASE Fails \/ NoHead \/ BadField \/ NoSize \/ NextChunk
  BY <1>6, FailTypes, StepTypesAreTypes
<1>7. CASE ParseHead
  BY <1>7, ParseHeadTypes, StepTypesAreTypes
<1>8. CASE EndBody \/ ParseSize \/ EndChunk
  BY <1>8, ParseBodyTypes, StepTypesAreTypes
<1>9. CASE ServerReads \/ ServerCloses
  BY <1>9, ServerTypes
<1>10. ASSUME NEW r \in Responses, ServerResponds(r) PROVE TypeInv'
  BY <1>10, RespondTypes
<1> QED
  BY <1>1, <1>2, <1>3, <1>4, <1>5, <1>6, <1>7, <1>8, <1>9, <1>10
  DEF Next, Program, Runs, Parses, Server

\* The types of TypeOK, with which every byte that says it is a head is the head
\* of a response of the server to a call of this object.
THEOREM ClientTypes == SafeSpec => []TypeInv
<1>1. TypeInv /\ [Next]_vars => TypeInv'
  BY StepKeepsTypes
<1> QED
  BY InitTypes, <1>1, PTL DEF SafeSpec

\* start() stays within the list of addresses, every call returns exactly once,
\* and what has been received, in whatever pieces, consists of bytes of the server.
THEOREM ClientTypesOK == SafeSpec => []TypeOK
BY ClientTypes, TypeInvIsTypeOK, PTL

-----------------------------------------------------------------------------
(* What arrives of what the server has sent *)

\* What has been received in c and what is on its way are p and then q, but for
\* an end that has been lost, if bytes of the server have been lost.
Arrives(c, net, p, q, lossy) ==
    \E lost \in Seq(Bytes) : (lost # <<>> => lossy) /\ Begins(c, net \o lost, p, q)

LEMMA ArrivesRegrouped ==
  ASSUME NEW c, NEW net, NEW p, NEW q, NEW p1, NEW q1, NEW lossy,
         Arrives(c, net, p, q, lossy), p \o q = p1 \o q1
  PROVE  Arrives(c, net, p1, q1, lossy)
BY Zenon DEF Arrives, Begins

\* Receiving changes nothing about it, wherever the bytes are cut.
LEMMA ArrivesReceived ==
  ASSUME NEW s \in Seq(Bytes), NEW net \in Seq(Bytes), NEW n \in Int,
         NEW longer \in Appended(s, n, net), NEW p, NEW q, NEW lossy,
         Arrives(s, net, p, q, lossy)
  PROVE  Arrives(longer, Untaken(s, longer, net), p, q, lossy)
<1>1. PICK lost \in Seq(Bytes) : (lost # <<>> => lossy) /\ Begins(s, net \o lost, p, q)
  BY DEF Arrives
<1>2. PICK l \in Seq(Bytes), u \in Seq(Bytes) :
        l = longer /\ u = Untaken(s, longer, net) /\ Begins(l, u, s, net)
  <2>1. /\ longer \in Seq(Bytes) /\ Untaken(s, longer, net) \in Seq(Bytes)
        /\ Begins(longer, Untaken(s, longer, net), s, net)
    BY ReceivedIs
  <2> QED
    BY <2>1, Zenon
<1>3. (l \o u) \o lost = l \o (u \o lost)
  <2>1. Assoc(l, u, lost)
    BY Associative
  <2> QED
    BY <2>1, Zenon DEF Assoc
<1>4. (s \o net) \o lost = s \o (net \o lost)
  <2>1. Assoc(s, net, lost)
    BY Associative
  <2> QED
    BY <2>1, Zenon DEF Assoc
<1>5. Begins(l, u \o lost, p, q)
  BY <1>1, <1>2, <1>3, <1>4, Zenon DEF Begins
<1> QED
  BY <1>1, <1>2, <1>5, Zenon DEF Arrives

\* If the end of what is on its way is lost, this is known.
LEMMA ArrivesCut ==
  ASSUME NEW c, NEW net \in Seq(Bytes), NEW k \in 0 .. Len(net), NEW p, NEW q, NEW lossy \in BOOLEAN,
         Arrives(c, net, p, q, lossy)
  PROVE  Arrives(c, SubSeq(net, 1, k), p, q, lossy \/ SubSeq(net, 1, k) # net)
<1>1. PICK lost \in Seq(Bytes) : (lost # <<>> => lossy) /\ Begins(c, net \o lost, p, q)
  BY DEF Arrives
<1>2. /\ 1 \in Nat \ {0} /\ k \in Int /\ k + 1 \in Nat \ {0} /\ Len(net) \in Int /\ 1 <= k + 1
      /\ k <= Len(net) /\ Len(net) <= Len(net)
  OBVIOUS
<1>3. PICK a \in Seq(Bytes), b \in Seq(Bytes) :
        a = SubSeq(net, 1, k) /\ b = SubSeq(net, k + 1, Len(net))
  <2>1. SubSeq(net, 1, k) \in Seq(Bytes) /\ SubSeq(net, k + 1, Len(net)) \in Seq(Bytes)
    BY <1>2, PieceOf
  <2> QED
    BY <2>1, Zenon
<1>4. a \o b = net
  <2>1. Meets(net, 1, k, Len(net))
    BY <1>2, PiecesMeet
  <2>2. SubSeq(net, 1, Len(net)) = net
    BY SubSeqFull
  <2> QED
    BY <1>3, <2>1, <2>2, Zenon DEF Meets
<1>5. (a \o b) \o lost = a \o (b \o lost)
  <2>1. Assoc(a, b, lost)
    BY Associative
  <2> QED
    BY <2>1, Zenon DEF Assoc
<1>6. b \o lost \in Seq(Bytes)
  BY ConcatProperties
<1>7. ASSUME a = net, lost = <<>> PROVE b \o lost = <<>>
  <2>1. Len(a) = k
    <3>1. Len(SubSeq(net, 1, k)) = IF 1 <= k THEN k - 1 + 1 ELSE 0
      BY <1>2, PieceOf
    <3> QED
      BY <1>3, <3>1
  <2>2. Len(b) = 0
    <3>1. Len(SubSeq(net, k + 1, Len(net))) = IF k + 1 <= Len(net) THEN Len(net) - (k + 1) + 1 ELSE 0
      BY <1>2, PieceOf
    <3>2. k = Len(net)
      BY <1>7, <2>1
    <3> QED
      BY <1>3, <3>1, <3>2
  <2>3. b = <<>>
    BY <2>2, EmptySeq
  <2> QED
    BY <1>7, <2>3, NothingBefore
<1>8. b \o lost # <<>> => (lossy \/ a # net)
  BY <1>1, <1>7
<1>9. Begins(c, a \o (b \o lost), p, q)
  BY <1>1, <1>4, <1>5, Zenon DEF Begins
<1>10. Arrives(c, a, p, q, lossy \/ a # net)
  BY <1>6, <1>8, <1>9, Zenon DEF Arrives
<1> QED
  BY <1>3, <1>10, Zenon

\* Behind a beginning that has been received follows the rest.
LEMMA ArrivesBehind ==
  ASSUME NEW c \in Seq(Bytes), NEW net \in Seq(Bytes), NEW p \in Seq(Bytes), NEW q \in Seq(Bytes), NEW lossy,
         Arrives(c, net, p, q, lossy), Len(c) >= Len(p)
  PROVE  /\ SubSeq(c, 1, Len(p)) = p
         /\ From(c, Len(p) + 1) \in Seq(Bytes)
         /\ Arrives(From(c, Len(p) + 1), net, <<>>, q, lossy)
<1>1. PICK lost \in Seq(Bytes) : (lost # <<>> => lossy) /\ Begins(c, net \o lost, p, q)
  BY DEF Arrives
<1>2. PICK w \in Seq(Bytes) : w = net \o lost
  <2>1. net \o lost \in Seq(Bytes)
    BY ConcatProperties
  <2> QED
    BY <2>1, Zenon
<1>3. Begins(c, w, p, q)
  BY <1>1, <1>2, Zenon
<1>4. SubSeq(c, 1, Len(p)) = p
  BY <1>3, BehindPrefix
<1>5. From(c, Len(p) + 1) \in Seq(Bytes)
  BY <1>3, BehindPrefix
<1>6. From(c, Len(p) + 1) \o w = q
  BY <1>3, BehindPrefix
<1>7. <<>> \o q = q
  BY NothingBefore
<1>8. Arrives(From(c, Len(p) + 1), net, <<>>, q, lossy)
  BY <1>1, <1>2, <1>6, <1>7, Zenon DEF Arrives, Begins
<1> QED
  BY <1>4, <1>5, <1>8

\* If nothing is on its way and nothing has been lost, all has been received.
LEMMA ArrivesAll ==
  ASSUME NEW c \in Seq(Bytes), NEW p \in Seq(Bytes), NEW q \in Seq(Bytes), NEW lossy, ~lossy,
         Arrives(c, <<>>, p, q, lossy)
  PROVE  Together(c, p, q, Bytes)
<1>1. Begins(c, <<>> \o <<>>, p, q)
  BY Zenon DEF Arrives
<1>2. <<>> \o <<>> = <<>> /\ c \o <<>> = c
  BY NothingBefore, EmptySeq
<1>3. c = p \o q
  BY <1>1, <1>2, Zenon DEF Begins
<1>4. Together(p \o q, p, q, Bytes)
  BY PutTogether
<1> QED
  BY <1>3, <1>4, Zenon

\* Nothing more than what was sent arrives.
LEMMA ArrivesOnly ==
  ASSUME NEW c \in Seq(Bytes), NEW net \in Seq(Bytes), NEW p \in Seq(Bytes), NEW lossy,
         Arrives(c, net, p, <<>>, lossy), Len(c) >= Len(p)
  PROVE  c = p /\ net = <<>>
<1>1. /\ SubSeq(c, 1, Len(p)) = p
      /\ From(c, Len(p) + 1) \in Seq(Bytes)
      /\ Arrives(From(c, Len(p) + 1), net, <<>>, <<>>, lossy)
  <2>1. <<>> \in Seq(Bytes)
    BY EmptySeq
  <2>2. SubSeq(c, 1, Len(p)) = p
    BY <2>1, ArrivesBehind
  <2>3. From(c, Len(p) + 1) \in Seq(Bytes)
    BY <2>1, ArrivesBehind
  <2>4. Arrives(From(c, Len(p) + 1), net, <<>>, <<>>, lossy)
    BY <2>1, ArrivesBehind
  <2> QED
    BY <2>2, <2>3, <2>4
<1>2. PICK r \in Seq(Bytes) : r = From(c, Len(p) + 1)
  BY <1>1, Zenon
<1>3. PICK lost \in Seq(Bytes) : Begins(r, net \o lost, <<>>, <<>>)
  BY <1>1, <1>2, Zenon DEF Arrives
<1>4. PICK w \in Seq(Bytes) : w = net \o lost
  <2>1. net \o lost \in Seq(Bytes)
    BY ConcatProperties
  <2> QED
    BY <2>1, Zenon
<1>5. r \o w = <<>>
  <2>1. <<>> \o <<>> = <<>>
    BY NothingBefore, EmptySeq
  <2> QED
    BY <1>3, <1>4, <2>1, Zenon DEF Begins
<1>6. r = <<>> /\ w = <<>>
  BY <1>5, NothingUnread
<1>7. net = <<>>
  BY <1>4, <1>6, NothingUnread
<1>8. Len(c) = Len(p)
  <2>1. Len(p) + 1 \in Nat \ {0} /\ Len(c) \in Int /\ Len(c) <= Len(c) /\ Len(p) \in Nat /\ Len(c) \in Nat
    OBVIOUS
  <2>2. Len(SubSeq(c, Len(p) + 1, Len(c))) = IF Len(p) + 1 <= Len(c) THEN Len(c) - (Len(p) + 1) + 1 ELSE 0
    BY <2>1, PieceOf
  <2>3. Len(SubSeq(c, Len(p) + 1, Len(c))) = 0
    <3>1. SubSeq(c, Len(p) + 1, Len(c)) = <<>>
      BY <1>2, <1>6, Zenon DEF From
    <3>2. Len(<<>>) = 0
      OBVIOUS
    <3> QED
      BY <3>1, <3>2, Zenon
  <2> QED
    BY <2>1, <2>2, <2>3
<1>9. c = p
  BY <1>1, <1>8, SubSeqFull
<1> QED
  BY <1>7, <1>9

\* The delimiter is found as soon as it has been received.
LEMMA ArrivesWhole ==
  ASSUME NEW c \in Seq(Bytes), NEW net \in Seq(Bytes), NEW x \in Seq(Bytes), NEW q \in Seq(Bytes), NEW lossy,
         NEW d \in Seq(Bytes), Follows(x, d),
         Arrives(c, net, x, q, lossy), Len(c) >= Len(x)
  PROVE  Contains(c, d)
<1>1. PICK lost \in Seq(Bytes) : Begins(c, net \o lost, x, q)
  BY DEF Arrives
<1>2. PICK w \in Seq(Bytes) : w = net \o lost
  <2>1. net \o lost \in Seq(Bytes)
    BY ConcatProperties
  <2> QED
    BY <2>1, Zenon
<1>3. Begins(c, w, x, q)
  BY <1>1, <1>2, Zenon
<1>4. \A k \in 1 .. Len(x) : c[k] = x[k]
  BY <1>3, BehindPrefix
<1>5. Len(x) = Len(d) + 1 /\ \A k \in 1 .. Len(d) : x[k + 1] = d[k]
  BY DEF Follows
<1>6. Len(c) \in Nat /\ Len(d) \in Nat
  OBVIOUS
<1>7. IsAt(c, d, 2)
  <2> SUFFICES ASSUME NEW k \in 1 .. Len(d) PROVE c[2 + k - 1] = d[k]
    BY DEF IsAt
  <2>1. k + 1 \in 1 .. Len(x) /\ 2 + k - 1 = k + 1
    BY <1>5, <1>6
  <2> QED
    BY <1>4, <1>5, <2>1
<1>8. 2 \in 1 .. (Len(c) + 1 - Len(d))
  BY <1>5, <1>6
<1> QED
  BY <1>7, <1>8 DEF Contains


-----------------------------------------------------------------------------
(* Where a call is, as long as nothing has spoiled the connection *)

Given == answers[calls]
Mine(q) == q.call = calls /\ q.method = call.method

\* Nothing is on its way, in either direction.
Quiet == network = <<>> /\ up = <<>> /\ owed = <<>>

Unasked == content = <<>> /\ body = <<>> /\ chunk_size = 0 /\ Given = NoAnswer

\* Only parts of the request of this call are on their way or with the server,
\* which has sent nothing.
Asked ==
    /\ Unasked /\ network = <<>>
    /\ \A i \in 1 .. Len(up) : Mine(up[i]) /\ (up[i].last => i = Len(up))
    /\ \A i \in 1 .. Len(owed) : Mine(owed[i])
    /\ owed # <<>> => up = <<>> /\ Len(owed) = 1

Unfinished == owed = <<>> /\ \A i \in 1 .. Len(up) : ~up[i].last

Replied == Given \in Responses /\ up = <<>> /\ owed = <<>>
HasHead == payload.head = calls /\ payload.encoding = Given.encoding /\ call.method # "HEAD"

\* The bytes that have been received and the bytes on their way are the response
\* to this call, from where the call has got to.
HeadComes ==
    /\ Replied /\ body = <<>> /\ chunk_size = 0 /\ Len(content) <= 5
    /\ Arrives(content, network, Opening(calls), Payload(call.method, Given), cut)
BodyComes ==
    /\ Replied /\ HasHead /\ payload.transfer = "" /\ payload.length = Len(Given.body)
    /\ Arrives(body, network, Given.body, <<>>, cut)

\* The size of the p-th chunk comes next, or the data of this chunk.
InChunks(p) ==
    /\ Replied /\ HasHead
    /\ p \in 1 .. Len(Given.body) + 1 /\ body = SubSeq(Given.body, 1, p - 1)
SizeComes(p) ==
    InChunks(p) /\ Arrives(content, network, <<>>, ToCome(Given.body)[p], cut)
DataComes(p) ==
    /\ InChunks(p) /\ p # Len(Given.body) + 1 /\ chunk_size = 1
    /\ Arrives(content, network, <<Given.body[p]>> \o CRLF, ToCome(Given.body)[p + 1], cut)

\* The response to this call has a head that ends the program.
Fatal == Replied /\ Given.head \in {"blank", "short"}

InStep ==
    clean =>
    /\ pc \in {"idle", "deleted", "thrown"} => Quiet
    /\ pc \in {"resolve", "socket", "connect"} => Quiet /\ Unasked /\ peer = NoPeer
    /\ pc \notin {"idle", "deleted", "thrown", "resolve", "socket", "connect"} => peer = call.host
    /\ pc = "send" => Quiet /\ Unasked
    /\ pc = "write" => Asked /\ Unfinished
    /\ pc = "receive" => Asked \/ HeadComes
    /\ pc = "body" => BodyComes
    /\ pc = "chunk" => \E p : SizeComes(p) /\ (chunk_size = 0 \/ Contains(content, CRLF))
    /\ pc = "chunk_data" => \E p : (SizeComes(p) /\ chunk_size = 0) \/ DataComes(p)
    /\ pc = "chunk_next" => \E p : SizeComes(p)
    /\ pc = "crashed" => Fatal

\* What OwnResponse says of one result.
Right(n, result) ==
    LET r == result.answer
    IN  result.clean =>
        IF result.ok
        THEN /\ result.peer = result.call.host /\ result.response.head = n
             /\ r # NoAnswer
             /\ result.call.method # "HEAD" =>
                  /\ result.response.body = r.body
                  /\ result.response.inflated = r.encoding
        ELSE result.peer = NoPeer \/ r = NoAnswer \/ result.cut

LEMMA AllRight == OwnResponse <=> \A n \in 1 .. Len(results) : Right(n, results[n])
BY DEF OwnResponse, Right

LEMMA InCall ==
  ASSUME TypeInv, pc \notin {"idle", "deleted", "thrown"}
  PROVE  /\ calls \in Nat /\ calls \in 1 .. Len(answers) /\ Len(answers) = calls
         /\ Given \in Responses \cup {NoAnswer}
         /\ network \in Seq(Bytes) /\ content \in Seq(Bytes) /\ body \in Seq(Bytes)
         /\ call.method \in Methods /\ call.host # NoPeer
<1>1. /\ results \in Seq(Result) /\ Len(results) = calls - 1 /\ calls \in 0 .. MaxCalls
      /\ answers \in Seq(Responses \cup {NoAnswer}) /\ Len(answers) = calls
      /\ network \in Seq(PeerBytes) /\ content \in Seq(PeerBytes) /\ body \in Seq(Bytes) /\ call \in Calls
  BY DEF TypeInv
<1>2. MaxCalls \in Nat /\ Len(results) \in Nat
  BY <1>1, ClientAssumption, LenProperties
<1>3. calls \in Nat /\ calls \in 1 .. Len(answers)
  BY <1>1, <1>2
<1>4. Given \in Responses \cup {NoAnswer}
  BY <1>1, <1>3, ElementOfSeq DEF Given
<1>5. network \in Seq(Bytes) /\ content \in Seq(Bytes)
  BY <1>1, PeerBytesAreBytes
<1>6. call.method \in Methods /\ call.host # NoPeer
  BY <1>1, ClientAssumption
<1> QED
  BY <1>1, <1>3, <1>4, <1>5, <1>6

\* A step that returns nothing keeps what has been returned right ...
LEMMA SameResults == ASSUME OwnResponse, results' = results PROVE OwnResponse'
BY DEF OwnResponse

\* ... and so does one that returns something right.
LEMMA OneMoreResult ==
  ASSUME OwnResponse, NEW n \in Nat, Len(results) = n - 1, Len(results') = n,
         \A i \in 1 .. Len(results) : results'[i] = results[i], Right(n, results'[n])
  PROVE  OwnResponse'
<1>1. \A i \in 1 .. Len(results) : Right(i, results[i])
  BY AllRight
<1>2. ASSUME NEW i \in 1 .. Len(results') PROVE Right(i, results'[i])
  <2>1. i \in 1 .. Len(results) \/ i = n
    OBVIOUS
  <2> QED
    BY <1>1, <2>1
<1> QED
  BY <1>2 DEF OwnResponse, Right


-----------------------------------------------------------------------------
(* What receiving leads to *)

LEMMA AllHeads == BytesOf(Nat) = Bytes
BY DEF BytesOf, Bytes

LEMMA NotMuchMore ==
  ASSUME NEW s \in Seq(Bytes), NEW net \in Seq(Bytes), NEW n \in Nat, NEW longer \in Appended(s, n, net)
  PROVE  Len(longer) <= Len(s) + n /\ net # <<>>
<1>1. PICK k \in 1 .. Min({n, Len(net)}) : longer = s \o SubSeq(net, 1, k)
  BY DEF Appended
<1>2. Min({n, Len(net)}) <= n /\ Min({n, Len(net)}) <= Len(net) /\ Min({n, Len(net)}) \in Nat
  <2> DEFINE T == {n, Len(net)}
  <2>1. T \in SUBSET Nat /\ T # {}
    OBVIOUS
  <2>2. n \in T /\ Len(net) \in T
    OBVIOUS
  <2> HIDE DEF T
  <2>3. Min(T) \in T /\ Min(T) <= n /\ Min(T) <= Len(net)
    BY <2>1, <2>2, SmallestOf
  <2>4. Min(T) \in Nat
    BY <2>1, <2>3
  <2> QED
    BY <2>3, <2>4 DEF T
<1>3. k \in Nat /\ 1 <= k /\ k <= n /\ k <= Len(net)
  BY <1>1, <1>2
<1>4. SubSeq(net, 1, k) \in Seq(Bytes) /\ Len(SubSeq(net, 1, k)) = k
  <2>1. 1 \in Nat \ {0} /\ k \in Int /\ k - 1 + 1 = k
    BY <1>3
  <2> QED
    BY <1>3, <2>1, PieceOf
<1>5. Len(s \o SubSeq(net, 1, k)) = Len(s) + k
  BY <1>4, ConcatProperties
<1> QED
  BY <1>1, <1>3, <1>5

LEMMA OpeningFollows ==
  ASSUME NEW n \in Nat
  PROVE  Opening(n) \in Seq(Bytes) /\ Len(Opening(n)) = 5 /\ Follows(Opening(n), BlankLine)
<1>1. Nat \in SUBSET Nat
  OBVIOUS
<1>2. /\ Opening(n) \in Seq(BytesOf(Nat)) /\ Len(Opening(n)) = Len(BlankLine) + 1
      /\ Opening(n)[1] # BlankLine[1]
      /\ \A k \in 1 .. Len(BlankLine) : Opening(n)[k + 1] = BlankLine[k]
  BY <1>1, OpeningIs
<1>3. Len(BlankLine) = 4
  BY LineEnds
<1>4. Follows(Opening(n), BlankLine)
  BY <1>2 DEF Follows
<1> QED
  BY <1>2, <1>3, <1>4, AllHeads

\* All of the head is there: it is the only line, and behind it comes the rest.
LEMMA HeadHasArrived ==
  ASSUME NEW n \in Nat, NEW c \in Seq(Bytes), NEW net \in Seq(Bytes), NEW q \in Seq(Bytes), NEW lossy,
         Arrives(c, net, Opening(n), q, lossy), Contains(c, BlankLine), Len(c) <= 5
  PROVE  /\ SplitString(SplitString(c, BlankLine)[1], CRLF) = << <<HeadOf(n)>> >>
         /\ Arrives(<<>>, net, <<>>, q, lossy)
<1>1. PICK lost \in Seq(Bytes) : (lost # <<>> => lossy) /\ Begins(c, net \o lost, Opening(n), q)
  BY DEF Arrives
<1>2. PICK w \in Seq(Bytes) : w = net \o lost
  <2>1. net \o lost \in Seq(Bytes)
    BY ConcatProperties
  <2> QED
    BY <2>1, Zenon
<1>3. Begins(c, w, Opening(n), q)
  BY <1>1, <1>2, Zenon
<1>4. /\ c \in Seq(BytesOf(Nat)) /\ w \in Seq(BytesOf(Nat)) /\ q \in Seq(BytesOf(Nat))
      /\ Nat \in SUBSET Nat
  BY AllHeads
<1>5. /\ Len(c) >= 5 /\ From(c, 6) \in Seq(BytesOf(Nat)) /\ From(c, 6) \o w = q
      /\ SplitString(c, BlankLine)[1] = <<HeadOf(n)>>
      /\ SplitString(<<HeadOf(n)>>, CRLF) = << <<HeadOf(n)>> >>
  BY <1>3, <1>4, HeadIsFirst
<1>6. From(c, 6) = <<>>
  <2>0. Len(c) >= 5
    BY <1>5, Zenon
  <2>1. Len(c) = 5 /\ 6 \in Nat \ {0} /\ Len(c) \in Int /\ Len(c) <= Len(c)
    <3>1. PICK l \in Nat : l = Len(c)
      BY LenProperties, Zenon
    <3>2. l >= 5 /\ l <= 5
      BY <2>0, <3>1, Zenon
    <3>3. l = 5 /\ 6 \in Nat \ {0} /\ l \in Int /\ l <= l
      BY <3>2
    <3> QED
      BY <3>1, <3>3, Zenon
  <2>2. SubSeq(c, 6, Len(c)) \in Seq(Bytes) /\ Len(SubSeq(c, 6, Len(c))) = IF 6 <= Len(c) THEN Len(c) - 6 + 1 ELSE 0
    BY <2>1, PieceOf
  <2>3. Len(SubSeq(c, 6, Len(c))) = 0
    BY <2>1, <2>2
  <2>4. SubSeq(c, 6, Len(c)) = <<>>
    BY <2>2, <2>3, EmptySeq
  <2> QED
    BY <2>4, Zenon DEF From
<1>7. <<>> \o w = q
  BY <1>5, <1>6, Zenon
<1>8. <<>> \o q = q
  BY NothingBefore
<1>9. Arrives(<<>>, net, <<>>, q, lossy)
  BY <1>1, <1>2, <1>7, <1>8, Zenon DEF Arrives, Begins
<1> QED
  BY <1>5, <1>9, Zenon

LEMMA SizeFollows ==
  ASSUME NEW n \in Nat
  PROVE  SizeLine(n) \in Seq(Bytes) /\ Len(SizeLine(n)) = 3 /\ Follows(SizeLine(n), CRLF)
<1>1. /\ SizeLine(n) \in Seq(BytesOf(Nat)) /\ Len(SizeLine(n)) = 3
      /\ SizeLine(n) = << <<"size", n>>, <<"CR", 0>>, <<"LF", 0>> >>
  BY SizeLineIs
<1>2. Len(CRLF) = 2 /\ CRLF[1] = <<"CR", 0>> /\ CRLF[2] = <<"LF", 0>>
  BY LineEnds
<1>3. SizeLine(n)[1] # CRLF[1] /\ SizeLine(n)[2] = CRLF[1] /\ SizeLine(n)[3] = CRLF[2]
  BY <1>1, <1>2
<1>4. \A k \in 1 .. Len(CRLF) : SizeLine(n)[k + 1] = CRLF[k]
  <2> SUFFICES ASSUME NEW k \in 1 .. Len(CRLF) PROVE SizeLine(n)[k + 1] = CRLF[k]
    OBVIOUS
  <2>1. k = 1 \/ k = 2
    BY <1>2
  <2>2. 1 + 1 = 2 /\ 2 + 1 = 3
    OBVIOUS
  <2> QED
    BY <1>3, <2>1, <2>2
<1>5. Len(SizeLine(n)) = Len(CRLF) + 1
  BY <1>1, <1>2
<1> QED
  BY <1>1, <1>3, <1>4, <1>5, AllHeads DEF Follows

\* What is to come of a chunked body begins with a size, which is zero when the
\* whole body has come.
Sized(x, n, q) == x = SizeLine(n) \o q

LEMMA PlainIsBytes ==
  ASSUME NEW s \in Seq(Plain)
  PROVE  s \in Seq(Bytes)
<1>1. Plain \subseteq Bytes
  BY DEF Plain, BytesOf
<1> QED
  BY <1>1, SeqMonotonic

LEMMA NextSize ==
  ASSUME NEW s \in Seq(Plain), NEW p \in 1 .. Len(s) + 1
  PROVE  /\ ToCome(s)[p] \in Seq(Bytes)
         /\ p = Len(s) + 1 => Sized(ToCome(s)[p], 0, CRLF)
         /\ p # Len(s) + 1 =>
              /\ s[p] \in Bytes /\ p + 1 \in 1 .. Len(s) + 1
              /\ ToCome(s)[p + 1] \in Seq(Bytes) /\ <<s[p]>> \o CRLF \in Seq(Bytes)
              /\ Sized(ToCome(s)[p], 1, (<<s[p]>> \o CRLF) \o ToCome(s)[p + 1])
<1>1. ToCome(s)[p] \in Seq(Bytes)
  BY ToComeIs, PlainIsBytes
<1>2. ASSUME p = Len(s) + 1 PROVE Sized(ToCome(s)[p], 0, CRLF)
  <2>1. ToCome(s)[p] = LastChunk
    BY <1>2, ToComeIs
  <2> QED
    BY <2>1, Zenon DEF Sized, LastChunk
<1>3. ASSUME p # Len(s) + 1
      PROVE  /\ s[p] \in Bytes /\ p + 1 \in 1 .. Len(s) + 1
             /\ ToCome(s)[p + 1] \in Seq(Bytes) /\ <<s[p]>> \o CRLF \in Seq(Bytes)
             /\ Sized(ToCome(s)[p], 1, (<<s[p]>> \o CRLF) \o ToCome(s)[p + 1])
  <2>1. /\ s[p] \in Plain /\ p + 1 \in 1 .. Len(s) + 1 /\ ToCome(s)[p + 1] \in Seq(Plain)
        /\ ToCome(s)[p] = Chunk(s[p]) \o ToCome(s)[p + 1]
    BY <1>3, ToComeIs
  <2>2. PICK z \in Seq(Plain), b \in Seq(Plain), e \in Seq(Plain), t \in Seq(Plain) :
          z = SizeLine(1) /\ b = <<s[p]>> /\ e = CRLF /\ t = ToCome(s)[p + 1]
    <3>1. SizeLine(1) \in Seq(Plain) /\ <<s[p]>> \in Seq(Plain) /\ CRLF \in Seq(Plain)
      BY <2>1, LineEndsArePlain
    <3> QED
      BY <2>1, <3>1, Zenon
  <2>3. b \o e \in Seq(Plain)
    BY ConcatProperties
  <2>4. (z \o b) \o e = z \o (b \o e)
    <3>1. Assoc(z, b, e)
      BY Associative
    <3> QED
      BY <3>1, Zenon DEF Assoc
  <2>5. (z \o (b \o e)) \o t = z \o ((b \o e) \o t)
    <3>1. Assoc(z, b \o e, t)
      BY <2>3, Associative
    <3> QED
      BY <3>1, Zenon DEF Assoc
  <2>6. Sized(ToCome(s)[p], 1, (<<s[p]>> \o CRLF) \o ToCome(s)[p + 1])
    BY <2>1, <2>2, <2>4, <2>5, Zenon DEF Sized, Chunk
  <2>7. ToCome(s)[p + 1] \in Seq(Bytes) /\ <<s[p]>> \o CRLF \in Seq(Bytes)
    BY <2>1, <2>2, <2>3, PlainIsBytes
  <2>8. s[p] \in Bytes
    BY <2>1 DEF Plain, BytesOf
  <2> QED
    BY <2>1, <2>6, <2>7, <2>8
<1> QED
  BY <1>1, <1>2, <1>3


LEMMA SizeIsNext ==
  ASSUME NEW n \in Nat, NEW c \in Seq(Bytes), NEW net \in Seq(Bytes), NEW x, NEW q \in Seq(Bytes), NEW lossy,
         Arrives(c, net, <<>>, x, lossy), Sized(x, n, q)
  PROVE  Arrives(c, net, SizeLine(n), q, lossy)
<1>1. SizeLine(n) \o q \in Seq(Bytes)
  BY SizeFollows, ConcatProperties
<1>2. <<>> \o (SizeLine(n) \o q) = SizeLine(n) \o q
  BY <1>1, NothingBefore
<1>3. <<>> \o x = SizeLine(n) \o q
  BY <1>2, Zenon DEF Sized
<1> QED
  BY <1>3, ArrivesRegrouped

\* The size has arrived, and what is behind it is next.
LEMMA SizeHasArrived ==
  ASSUME NEW n \in Nat, NEW c \in Seq(Bytes), NEW net \in Seq(Bytes), NEW x, NEW q \in Seq(Bytes), NEW lossy,
         Arrives(c, net, <<>>, x, lossy), Sized(x, n, q), Contains(c, CRLF)
  PROVE  /\ Find(c, CRLF, 1) = 2 /\ SubSeq(c, 1, 1) = << <<"size", n>> >>
         /\ From(c, 4) \in Seq(Bytes) /\ Arrives(From(c, 4), net, <<>>, q, lossy)
<1>1. Arrives(c, net, SizeLine(n), q, lossy)
  BY SizeIsNext
<1>2. PICK lost \in Seq(Bytes) : (lost # <<>> => lossy) /\ Begins(c, net \o lost, SizeLine(n), q)
  BY <1>1, Zenon DEF Arrives
<1>3. PICK w \in Seq(Bytes) : w = net \o lost
  <2>1. net \o lost \in Seq(Bytes)
    BY ConcatProperties
  <2> QED
    BY <2>1, Zenon
<1>4. Begins(c, w, SizeLine(n), q)
  BY <1>2, <1>3, Zenon
<1>5. c \in Seq(BytesOf(Nat)) /\ w \in Seq(BytesOf(Nat)) /\ q \in Seq(BytesOf(Nat))
  BY AllHeads
<1>6. /\ Find(c, CRLF, 1) = 2 /\ SubSeq(c, 1, 1) = << <<"size", n>> >>
      /\ From(c, 4) \in Seq(BytesOf(Nat)) /\ From(c, 4) \o w = q
  BY <1>4, <1>5, SizeRead
<1>7. <<>> \o q = q
  BY NothingBefore
<1>8. Arrives(From(c, 4), net, <<>>, q, lossy)
  BY <1>2, <1>3, <1>6, <1>7, Zenon DEF Arrives, Begins
<1>9. From(c, 4) \in Seq(Bytes)
  BY <1>6, AllHeads, Zenon
<1> QED
  BY <1>6, <1>8, <1>9, Zenon

LEMMA SizeArrives ==
  ASSUME NEW n \in Nat, NEW c \in Seq(Bytes), NEW net \in Seq(Bytes), NEW x, NEW q \in Seq(Bytes), NEW lossy,
         Arrives(c, net, <<>>, x, lossy), Sized(x, n, q), Len(c) >= 3
  PROVE  Contains(c, CRLF)
<1>1. Arrives(c, net, SizeLine(n), q, lossy)
  BY SizeIsNext
<1>2. SizeLine(n) \in Seq(Bytes) /\ Follows(SizeLine(n), CRLF) /\ Len(c) >= Len(SizeLine(n))
  BY SizeFollows
<1>3. CRLF \in Seq(Bytes)
  BY LineEnds, AllHeads
<1> QED
  BY <1>1, <1>2, <1>3, ArrivesWhole

\* If nothing is on its way and nothing has been lost, the size has arrived.
LEMMA SizeIsThere ==
  ASSUME NEW n \in Nat, NEW c \in Seq(Bytes), NEW x, NEW q \in Seq(Bytes), NEW lossy, ~lossy,
         Arrives(c, <<>>, <<>>, x, lossy), Sized(x, n, q)
  PROVE  Contains(c, CRLF) /\ Len(c) >= 3
<1>1. <<>> \in Seq(Bytes)
  BY EmptySeq
<1>2. Arrives(c, <<>>, SizeLine(n), q, lossy)
  BY <1>1, SizeIsNext
<1>3. SizeLine(n) \in Seq(Bytes) /\ Len(SizeLine(n)) = 3
  BY SizeFollows
<1>4. Together(c, SizeLine(n), q, Bytes)
  BY <1>2, <1>3, ArrivesAll
<1>5. Len(c) = Len(SizeLine(n)) + Len(q) /\ Len(q) \in Nat
  BY <1>4, Zenon, LenProperties DEF Together
<1>6. Len(c) >= 3
  BY <1>3, <1>5
<1> QED
  BY <1>1, <1>6, SizeArrives

\* The byte of a chunk with its line end.
LEMMA DataIs ==
  ASSUME NEW b \in Bytes
  PROVE  /\ <<b>> \o CRLF \in Seq(Bytes) /\ Len(<<b>> \o CRLF) = 3 /\ (<<b>> \o CRLF)[1] = b
<1>1. CRLF \in Seq(Bytes) /\ Len(CRLF) = 2
  BY LineEnds, AllHeads
<1>2. Ahead(<<b>> \o CRLF, b, CRLF, Bytes)
  BY <1>1, OneAhead
<1>3. <<b>> \o CRLF \in Seq(Bytes) /\ Len(<<b>> \o CRLF) = Len(CRLF) + 1 /\ (<<b>> \o CRLF)[1] = b
  BY <1>2, Zenon DEF Ahead
<1>4. Len(CRLF) + 1 = 3
  BY <1>1
<1> QED
  BY <1>3, <1>4, Zenon

LEMMA Singleton ==
  ASSUME NEW S, NEW b \in S, NEW v \in Seq(S), Len(v) = 1, v[1] = b
  PROVE  v = <<b>>
<1>1. PICK u \in Seq(S) : u = <<b>> /\ Len(u) = 1 /\ u[1] = b
  <2>1. <<b>> \in Seq(S) /\ Len(<<b>>) = 1 /\ <<b>>[1] = b
    OBVIOUS
  <2> QED
    BY <2>1, Zenon
<1>2. \A i \in 1 .. 1 : v[i] = u[i]
  BY <1>1
<1>3. v = u
  BY <1>1, <1>2, SeqEqual
<1> QED
  BY <1>1, <1>3, Zenon

LEMMA DataHasArrived ==
  ASSUME NEW b \in Bytes, NEW c \in Seq(Bytes), NEW net \in Seq(Bytes), NEW q \in Seq(Bytes), NEW lossy,
         Arrives(c, net, <<b>> \o CRLF, q, lossy), Len(c) >= 3
  PROVE  /\ SubSeq(c, 1, 1) = <<b>>
         /\ From(c, 4) \in Seq(Bytes) /\ Arrives(From(c, 4), net, <<>>, q, lossy)
<1>1. PICK p \in Seq(Bytes) : p = <<b>> \o CRLF /\ Len(p) = 3 /\ p[1] = b
  BY DataIs, Zenon
<1>2. Arrives(c, net, p, q, lossy) /\ Len(c) >= Len(p)
  BY <1>1, Zenon
<1>3. /\ SubSeq(c, 1, Len(p)) = p
      /\ From(c, Len(p) + 1) \in Seq(Bytes)
      /\ Arrives(From(c, Len(p) + 1), net, <<>>, q, lossy)
  BY <1>2, ArrivesBehind
<1>4. Len(p) + 1 = 4
  BY <1>1
<1>5. SubSeq(c, 1, 3) = p
  BY <1>1, <1>3, Zenon
<1>6. c[1] = b
  <2>1. 1 \in Nat \ {0} /\ 3 \in Int /\ 3 <= Len(c) /\ 1 \in 1 .. (3 - 1 + 1) /\ 1 + 1 - 1 = 1
    OBVIOUS
  <2>2. SubSeq(c, 1, 3)[1] = c[1 + 1 - 1]
    BY <2>1, PieceOf
  <2> QED
    BY <1>1, <1>5, <2>1, <2>2, Zenon
<1>7. SubSeq(c, 1, 1) = <<b>>
  <2>1. 1 \in Nat \ {0} /\ 1 \in Int /\ 1 <= Len(c) /\ 1 \in 1 .. (1 - 1 + 1) /\ 1 + 1 - 1 = 1
    OBVIOUS
  <2>2. SubSeq(c, 1, 1) \in Seq(Bytes) /\ Len(SubSeq(c, 1, 1)) = 1 /\ SubSeq(c, 1, 1)[1] = c[1]
    BY <2>1, PieceOf
  <2>3. PICK v \in Seq(Bytes) : v = SubSeq(c, 1, 1) /\ Len(v) = 1 /\ v[1] = b
    BY <1>6, <2>2, Zenon
  <2>4. v = <<b>>
    BY <2>3, Singleton
  <2> QED
    BY <2>3, <2>4, Zenon
<1> QED
  BY <1>3, <1>4, <1>7, Zenon

LEMMA DataIsThere ==
  ASSUME NEW b \in Bytes, NEW c \in Seq(Bytes), NEW q \in Seq(Bytes), NEW lossy, ~lossy,
         Arrives(c, <<>>, <<b>> \o CRLF, q, lossy)
  PROVE  Len(c) >= 3
<1>1. PICK p \in Seq(Bytes) : p = <<b>> \o CRLF /\ Len(p) = 3
  BY DataIs, Zenon
<1>2. Arrives(c, <<>>, p, q, lossy)
  BY <1>1, Zenon
<1>3. Together(c, p, q, Bytes)
  BY <1>2, ArrivesAll
<1>4. Len(c) = Len(p) + Len(q) /\ Len(q) \in Nat
  BY <1>3, Zenon, LenProperties DEF Together
<1> QED
  BY <1>1, <1>4

LEMMA OneMoreByte ==
  ASSUME NEW S, NEW s \in Seq(S), NEW p \in 1 .. Len(s)
  PROVE  SubSeq(s, 1, p - 1) \o <<s[p]>> = SubSeq(s, 1, (p + 1) - 1)
<1>1. /\ 1 \in Nat \ {0} /\ p \in Nat \ {0} /\ p - 1 \in Int /\ p \in Int /\ 1 <= (p - 1) + 1
      /\ p - 1 <= p /\ p <= Len(s) /\ (p - 1) + 1 = p /\ (p + 1) - 1 = p
  OBVIOUS
<1>2. Meets(s, 1, p - 1, p)
  BY <1>1, PiecesMeet
<1>3. SubSeq(s, 1, p - 1) \o SubSeq(s, (p - 1) + 1, p) = SubSeq(s, 1, p)
  BY <1>2, Zenon DEF Meets
<1>4. SubSeq(s, p, p) = <<s[p]>>
  <2>1. SubSeq(s, p, p) \in Seq(S) /\ Len(SubSeq(s, p, p)) = 1 /\ SubSeq(s, p, p)[1] = s[p]
    <3>1. p - p + 1 = 1 /\ 1 \in 1 .. (p - p + 1) /\ p + 1 - 1 = p /\ p <= p
      BY <1>1
    <3> QED
      BY <1>1, <3>1, PieceOf
  <2>2. p \in 1 .. Len(s)
    OBVIOUS
  <2>3. s[p] \in S
    BY <2>2, ElementOfSeq
  <2> QED
    BY <2>1, <2>3, Singleton
<1> QED
  BY <1>1, <1>3, <1>4, Zenon


-----------------------------------------------------------------------------
(* Steps keep the connection in step *)

LEMMA RightReturn ==
  ASSUME TypeInv, OwnResponse, pc \notin {"idle", "deleted", "thrown"}, NEW ok \in BOOLEAN, NEW response \in Held,
         Return(ok, response),
         clean => IF ok
                  THEN /\ peer = call.host /\ response.head = calls /\ Given # NoAnswer
                       /\ call.method # "HEAD" => /\ response.body = Given.body
                                                  /\ response.inflated = Given.encoding
                  ELSE peer = NoPeer \/ Given = NoAnswer \/ cut
  PROVE  OwnResponse' /\ pc' = "idle"
<1>1. /\ pc' = "idle" /\ Len(results') = calls /\ Len(results) = calls - 1 /\ calls \in Nat
      /\ \A n \in 1 .. Len(results) : results'[n] = results[n]
      /\ results'[calls] = [ok |-> ok, clean |-> clean, call |-> call, peer |-> peer,
                            answer |-> answers[calls], cut |-> cut, response |-> response]
  BY ReturnTypes, InCall
<1>2. Right(calls, results'[calls])
  BY <1>1 DEF Right, Given
<1> QED
  BY <1>1, <1>2, OneMoreResult

LEMMA IdleSteps ==
  ASSUME TypeInv, InStep, OwnResponse, Delete \/ Socket \/ Resolve \/ Connect
  PROVE  InStep' /\ OwnResponse'
<1>1. UNCHANGED <<calls, call, content, body, chunk_size, answers, results, clean>>
  BY DEF Delete, Socket, Resolve, Connect, linkVars, parseVars
<1>2. OwnResponse'
  BY <1>1, SameResults
<1>3. Unasked' = Unasked
  BY <1>1 DEF Unasked, Given
<1>4. CASE Delete
  <2>1. pc' = "deleted" /\ Quiet'
    BY <1>4 DEF Delete, Quiet
  <2> QED
    BY <1>2, <2>1 DEF InStep
<1>5. CASE Socket \/ Resolve
  <2>1. pc \in {"resolve", "socket"} /\ pc' \in {"socket", "connect"} /\ UNCHANGED <<peer, network, up, owed>>
    BY <1>5 DEF Socket, Resolve, linkVars
  <2>2. Quiet' = Quiet
    BY <2>1 DEF Quiet
  <2> QED
    BY <1>1, <1>2, <1>3, <2>1, <2>2 DEF InStep
<1>6. CASE Connect
  <2>1. pc = "connect" /\ pc' = "send" /\ peer' = call.host /\ UNCHANGED <<network, up, owed>>
    BY <1>6 DEF Connect
  <2>2. Quiet' = Quiet
    BY <2>1 DEF Quiet
  <2> QED
    BY <1>1, <1>2, <1>3, <2>1, <2>2 DEF InStep
<1> QED
  BY <1>4, <1>5, <1>6

LEMMA CallThrowsSteps ==
  ASSUME InStep, OwnResponse, NEW c \in Calls, CallThrows(c)
  PROVE  InStep' /\ OwnResponse'
<1>1. /\ pc = "idle" /\ pc' = "thrown"
      /\ UNCHANGED <<up, owed, network, results, clean>>
  BY DEF CallThrows, linkVars
<1>2. Quiet' = Quiet
  BY <1>1 DEF Quiet
<1>3. ASSUME clean PROVE Quiet
  BY <1>1, <1>3 DEF InStep
<1>4. clean' => Quiet'
  BY <1>1, <1>2, <1>3
<1>5. InStep'
  BY <1>1, <1>4 DEF InStep
<1> QED
  BY <1>1, <1>5, SameResults

LEMMA CallSteps ==
  ASSUME TypeInv, InStep, OwnResponse, NEW c \in Calls, Call(c)
  PROVE  InStep' /\ OwnResponse'
<1>1. /\ pc = "idle" /\ calls' = calls + 1 /\ call' = c
      /\ pc' = IF peer # NoPeer \/ c.host = NoHost THEN "send" ELSE "resolve"
      /\ content' = <<>> /\ body' = <<>> /\ chunk_size' = 0
      /\ answers' = Append(answers, NoAnswer)
      /\ clean' = (clean /\ IF peer = NoPeer THEN c.host # NoHost ELSE c.host = peer)
      /\ UNCHANGED <<peer, network, up, owed, results>>
  BY DEF Call, linkVars
<1>2. OwnResponse'
  BY <1>1, SameResults
<1>3. Quiet' = Quiet
  BY <1>1 DEF Quiet
<1>4. Unasked'
  <2>1. answers \in Seq(Responses \cup {NoAnswer}) /\ Len(answers) = calls /\ NoAnswer \in Responses \cup {NoAnswer}
    BY DEF TypeInv
  <2> HIDE DEF NoAnswer
  <2>2. Append(answers, NoAnswer)[Len(answers) + 1] = NoAnswer
    BY <2>1, AppendProperties
  <2>3. Given' = NoAnswer
    BY <1>1, <2>1, <2>2 DEF Given
  <2> QED
    BY <1>1, <2>3 DEF Unasked
<1> QED
  BY <1>1, <1>2, <1>3, <1>4 DEF InStep

\* A call that gets no connection.
LEMMA StartFailSteps ==
  ASSUME TypeInv, InStep, OwnResponse, ResolveFails \/ ConnectFails
  PROVE  InStep' /\ OwnResponse'
<1>1. /\ pc \in {"resolve", "connect"}
      /\ UNCHANGED <<calls, call, peer, up, owed, network, content, body, chunk_size, answers, clean>>
      /\ \/ Return(FALSE, payload)
         \/ pc' = "socket" /\ UNCHANGED results
  BY DEF ResolveFails, ConnectFails, linkVars, parseVars
<1>2. Quiet' = Quiet /\ Unasked' = Unasked
  BY <1>1 DEF Quiet, Unasked, Given
<1>3. CASE Return(FALSE, payload)
  <2>1. payload \in Held /\ FALSE \in BOOLEAN /\ pc \notin {"idle", "deleted", "thrown"}
    BY <1>1 DEF TypeInv
  <2>2. clean => peer = NoPeer
    BY <1>1 DEF InStep
  <2>3. OwnResponse' /\ pc' = "idle"
    BY <1>3, <2>1, <2>2, RightReturn
  <2> QED
    BY <1>1, <1>2, <2>3 DEF InStep
<1>4. CASE pc' = "socket" /\ UNCHANGED results
  <2>1. OwnResponse'
    BY <1>4, SameResults
  <2> QED
    BY <1>1, <1>2, <1>4, <2>1 DEF InStep
<1> QED
  BY <1>1, <1>3, <1>4

LEMMA NothingAsked ==
  ASSUME TypeInv, pc \notin {"idle", "deleted", "thrown"}, Quiet, Unasked
  PROVE  Asked /\ Unfinished
<1>1. up = <<>> /\ owed = <<>> /\ network = <<>>
  BY DEF Quiet
<1>2. \A i \in 1 .. Len(<<>>) : FALSE
  OBVIOUS
<1> QED
  BY <1>1, <1>2 DEF Asked, Unfinished

LEMMA SendSteps ==
  ASSUME TypeInv, InStep, OwnResponse, Sends
  PROVE  InStep' /\ OwnResponse'
<1>1. /\ pc \in {"send", "write"} /\ pc' \in {"write", "receive"}
      /\ UNCHANGED <<calls, call, peer, open, owed, network, content, body, chunk_size,
                     payload, answers, cut, results, clean>>
  BY DEF Sends, SendNotConnected, SendReady, SendTimesOut, Write, WriteToNobody, SendGoesOn, parseVars
<1>2. OwnResponse'
  BY <1>1, SameResults
<1>3. ASSUME clean PROVE Asked /\ Unfinished /\ peer = call.host
  <2>1. CASE pc = "send"
    <3>1. Quiet /\ Unasked /\ peer = call.host
      BY <1>3, <2>1 DEF InStep
    <3> QED
      BY <2>1, <3>1, NothingAsked
  <2>2. CASE pc = "write"
    BY <1>3, <2>2 DEF InStep
  <2> QED
    BY <1>1, <2>1, <2>2
<1>4. CASE up' = up
  <2>1. Asked' = Asked /\ Unfinished' = Unfinished
    BY <1>1, <1>4 DEF Asked, Unasked, Unfinished, Mine, Given
  <2> QED
    BY <1>1, <1>2, <1>3, <2>1 DEF InStep
<1>5. CASE Write
  <2> DEFINE q == [call |-> calls, method |-> call.method, last |-> unsent = 1]
  <2>1. /\ unsent' = unsent - 1 /\ up' = Append(up, q)
        /\ pc' = IF unsent' = 0 THEN "receive" ELSE "write"
    BY <1>5 DEF Write
  <2>2. up \in Seq(Part) /\ unsent \in Int
    <3>1. Capacity \in Nat
      BY ClientAssumption
    <3> QED
      BY <3>1 DEF TypeInv
  <2>3. q.call = calls /\ q.method = call.method /\ (q.last <=> unsent = 1)
    OBVIOUS
  <2>4. q \in Part
    <3>1. calls \in 1 .. calls /\ call.method \in Methods
      BY <1>1, InCall
    <3> QED
      BY <3>1 DEF Part
  <2> HIDE DEF q
  <2>5. /\ Len(up') = Len(up) + 1 /\ up'[Len(up) + 1] = q /\ Len(up) \in Nat
        /\ \A i \in 1 .. Len(up) : up'[i] = up[i]
    BY <2>1, <2>2, <2>4, AppendProperties
  <2>6. ASSUME clean
        PROVE  Asked' /\ (pc' = "write" => Unfinished')
    <3>1. Unasked /\ network = <<>> /\ owed = <<>> /\ \A i \in 1 .. Len(up) : Mine(up[i]) /\ ~up[i].last
      BY <1>3, <2>6 DEF Asked, Unfinished
    <3>2. Unasked' /\ network' = <<>> /\ owed' = <<>>
      BY <1>1, <3>1 DEF Unasked, Given
    <3>3. \A i \in 1 .. Len(up') : /\ up'[i].call = calls /\ up'[i].method = call.method
                                   /\ up'[i].last => i = Len(up') /\ unsent = 1
      <4> SUFFICES ASSUME NEW i \in 1 .. Len(up')
                   PROVE  up'[i].call = calls /\ up'[i].method = call.method /\ (up'[i].last => i = Len(up') /\ unsent = 1)
        OBVIOUS
      <4>1. i \in 1 .. Len(up) \/ i = Len(up) + 1
        BY <2>5
      <4>2. CASE i \in 1 .. Len(up)
        BY <2>5, <3>1, <4>2 DEF Mine
      <4>3. CASE i = Len(up) + 1
        BY <2>3, <2>5, <4>3 DEF Mine
      <4> QED
        BY <4>1, <4>2, <4>3
    <3>4. \A i \in 1 .. Len(up') : up'[i].call = calls' /\ up'[i].method = call'.method
      BY <1>1, <3>3, Zenon
    <3>5. pc' = "write" => unsent # 1
      BY <2>1, <2>2
    <3>7. Asked'
      <4>1. \A i \in 1 .. Len(owed') : FALSE
        BY <3>2
      <4> QED
        BY <4>1, <3>2, <3>3, <3>4, Zenon DEF Asked, Mine
    <3> QED
      BY <3>2, <3>3, <3>5, <3>7, Zenon DEF Unfinished
  <2> QED
    BY <1>1, <1>2, <1>3, <2>6 DEF InStep
<1> QED
  BY <1>4, <1>5 DEF Sends, SendNotConnected, SendReady, SendTimesOut, WriteToNobody


\* Where the call is in the response does not change if only content, network,
\* body and chunk_size do.
LEMMA SameAnswer ==
  ASSUME UNCHANGED <<calls, call, answers, payload, up, owed>>
  PROVE  Replied' = Replied /\ HasHead' = HasHead /\ Given' = Given
BY DEF Replied, HasHead, Given

LEMMA SameChunks ==
  ASSUME UNCHANGED <<calls, call, answers, payload, up, owed, body>>, NEW p
  PROVE  InChunks(p)' = InChunks(p) /\ Given' = Given
BY DEF InChunks, Replied, HasHead, Given

LEMMA HeadIsShort ==
  ASSUME TypeInv, pc = "receive", HeadComes, ~Contains(content, BlankLine)
  PROVE  Len(content) < 5
<1>1. calls \in Nat /\ content \in Seq(Bytes) /\ network \in Seq(Bytes) /\ call.method \in Methods
  BY InCall
<1>2. Arrives(content, network, Opening(calls), Payload(call.method, Given), cut) /\ Given \in Responses
  BY DEF HeadComes, Replied
<1>3. Payload(call.method, Given) \in Seq(Bytes)
  BY <1>1, <1>2, WireIs, PlainIsBytes
<1>4. Opening(calls) \in Seq(Bytes) /\ Len(Opening(calls)) = 5 /\ Follows(Opening(calls), BlankLine)
  BY <1>1, OpeningFollows
<1>5. BlankLine \in Seq(Bytes)
  BY LineEnds, AllHeads
<1>6. ASSUME Len(content) >= Len(Opening(calls)) PROVE FALSE
  BY <1>1, <1>2, <1>3, <1>4, <1>5, <1>6, ArrivesWhole
<1>7. Len(content) \in Nat
  BY <1>1, LenProperties
<1>8. ~(Len(content) >= 5)
  BY <1>4, <1>6, Zenon
<1> QED
  BY <1>7, <1>8

LEMMA ReceiveSteps ==
  ASSUME TypeInv, InStep, OwnResponse, Receives
  PROVE  InStep' /\ OwnResponse'
<1>1. /\ pc \in {"receive", "body", "chunk_data", "chunk_next"}
      /\ UNCHANGED <<calls, call, pc, peer, up, owed, chunk_size, payload, answers, cut, results, clean>>
  BY DEF Receives, ReceiveHead, ReceiveBody, ReceiveChunk, ReceiveSize, Receiving, ContentReceived
<1>2. OwnResponse'
  BY <1>1, SameResults
<1>3. /\ network \in Seq(Bytes) /\ content \in Seq(Bytes) /\ body \in Seq(Bytes)
  BY <1>1, InCall
<1>4. Replied' = Replied /\ HasHead' = HasHead /\ Given' = Given
  BY <1>1, SameAnswer
<1>5. CASE ReceiveHead
  <2>1. /\ pc = "receive" /\ ~Contains(content, BlankLine)
        /\ content' \in Appended(content, 1, network) /\ network' = Untaken(content, content', network)
        /\ body' = body
    BY <1>5 DEF ReceiveHead, Receiving, ContentReceived
  <2>2. Len(content') <= Len(content) + 1 /\ network # <<>>
    <3>1. 1 \in Nat
      OBVIOUS
    <3> QED
      BY <1>3, <2>1, <3>1, NotMuchMore
  <2>3. ASSUME clean PROVE HeadComes'
    <3>1. HeadComes
      BY <2>1, <2>2, <2>3 DEF InStep, Asked
    <3>2. Arrives(content, network, Opening(calls), Payload(call.method, Given), cut)
      BY <3>1 DEF HeadComes
    <3>3. Arrives(content', Untaken(content, content', network), Opening(calls), Payload(call.method, Given), cut)
      <4>1. 1 \in Int
        OBVIOUS
      <4> QED
        BY <1>3, <2>1, <3>2, <4>1, ArrivesReceived
    <3>4. Len(content') <= 5
      <4>1. Len(content) < 5
        BY <2>1, <3>1, HeadIsShort
      <4>2. content' \in Seq(Bytes)
        <5>1. 1 \in Int
          OBVIOUS
        <5> QED
          BY <1>3, <2>1, <5>1, ReceivedIs
      <4>3. Len(content) \in Nat /\ Len(content') \in Nat
        BY <1>3, <4>2, LenProperties
      <4> QED
        BY <2>2, <4>1, <4>3
    <3>5. Arrives(content', network', Opening(calls'), Payload(call'.method, Given'), cut')
      BY <1>1, <1>4, <2>1, <3>3, Zenon
    <3>6. Replied /\ body = <<>> /\ chunk_size = 0
      BY <3>1 DEF HeadComes
    <3> QED
      BY <1>1, <1>4, <2>1, <3>4, <3>5, <3>6 DEF HeadComes
  <2> QED
    BY <1>1, <1>2, <2>1, <2>3 DEF InStep
<1>6. CASE ReceiveBody
  <2>1. /\ pc = "body"
        /\ body' \in Appended(body, payload.length - Len(content), network)
        /\ network' = Untaken(body, body', network)
    BY <1>6 DEF ReceiveBody
  <2>2. payload.length - Len(content) \in Int
    <3>1. payload.length \in Nat /\ Len(content) \in Nat
      BY <1>3, LenProperties DEF TypeInv, Held
    <3> QED
      BY <3>1
  <2>3. ASSUME clean PROVE BodyComes'
    <3>1. BodyComes
      BY <2>1, <2>3 DEF InStep
    <3>2. Arrives(body, network, Given.body, <<>>, cut)
      BY <3>1 DEF BodyComes
    <3>3. Arrives(body', Untaken(body, body', network), Given.body, <<>>, cut)
      BY <1>3, <2>1, <2>2, <3>2, ArrivesReceived
    <3>4. Arrives(body', network', Given'.body, <<>>, cut')
      BY <1>1, <1>4, <2>1, <3>3, Zenon
    <3> QED
      BY <1>1, <1>4, <3>1, <3>4 DEF BodyComes
  <2> QED
    BY <1>1, <1>2, <2>1, <2>3 DEF InStep
<1>7. CASE ReceiveChunk \/ ReceiveSize
  <2>1. PICK n \in Int : /\ content' \in Appended(content, n, network)
                         /\ network' = Untaken(content, content', network) /\ body' = body
    <3>1. chunk_size - Len(content) + 2 \in Int /\ 1 \in Int
      <4>1. chunk_size \in Nat /\ Len(content) \in Nat
        BY <1>3, LenProperties DEF TypeInv
      <4> QED
        BY <4>1
    <3> QED
      BY <1>7, <3>1 DEF ReceiveChunk, ReceiveSize, ContentReceived
  <2>2. ASSUME NEW p, SizeComes(p) PROVE SizeComes(p)'
    <3>1. InChunks(p)' /\ Given' = Given
      BY <1>1, <2>1, <2>2, SameChunks DEF SizeComes
    <3>2. Arrives(content, network, <<>>, ToCome(Given.body)[p], cut)
      BY <2>2 DEF SizeComes
    <3>3. Arrives(content', Untaken(content, content', network), <<>>, ToCome(Given.body)[p], cut)
      BY <1>3, <2>1, <3>2, ArrivesReceived
    <3>4. Arrives(content', network', <<>>, ToCome(Given'.body)[p], cut')
      BY <1>1, <2>1, <3>1, <3>3, Zenon
    <3> QED
      BY <3>1, <3>4 DEF SizeComes
  <2>3. ASSUME NEW p, DataComes(p) PROVE DataComes(p)'
    <3>1. InChunks(p)' /\ Given' = Given
      BY <1>1, <2>1, <2>3, SameChunks DEF DataComes
    <3>2. Arrives(content, network, <<Given.body[p]>> \o CRLF, ToCome(Given.body)[p + 1], cut)
      BY <2>3 DEF DataComes
    <3>3. Arrives(content', Untaken(content, content', network), <<Given.body[p]>> \o CRLF,
                  ToCome(Given.body)[p + 1], cut)
      BY <1>3, <2>1, <3>2, ArrivesReceived
    <3>4. Arrives(content', network', <<Given'.body[p]>> \o CRLF, ToCome(Given'.body)[p + 1], cut')
      BY <1>1, <2>1, <3>1, <3>3, Zenon
    <3>5. p # Len(Given'.body) + 1 /\ chunk_size' = 1
      BY <1>1, <2>3, <3>1 DEF DataComes
    <3> QED
      BY <3>1, <3>4, <3>5 DEF DataComes
  <2>4. CASE pc = "chunk_data"
    <3>1. ASSUME clean PROVE \E p : (SizeComes(p)' /\ chunk_size' = 0) \/ DataComes(p)'
      <4>1. PICK p : (SizeComes(p) /\ chunk_size = 0) \/ DataComes(p)
        BY <2>4, <3>1 DEF InStep
      <4> QED
        BY <1>1, <2>2, <2>3, <4>1
    <3> QED
      BY <1>1, <1>2, <2>4, <3>1 DEF InStep
  <2>5. CASE pc = "chunk_next"
    <3>1. ASSUME clean PROVE \E p : SizeComes(p)'
      BY <2>2, <2>5, <3>1 DEF InStep
    <3> QED
      BY <1>1, <1>2, <2>5, <3>1 DEF InStep
  <2> QED
    BY <1>7, <2>4, <2>5 DEF ReceiveChunk, ReceiveSize
<1> QED
  BY <1>5, <1>6, <1>7 DEF Receives


\* As long as nothing is lost and nothing has spoiled the connection, the end of
\* a response arrives, and the call does not wait for more.
LEMMA NothingMissing ==
  ASSUME TypeInv, InStep, clean, NothingToRead
  PROVE  Given = NoAnswer \/ cut
<1> SUFFICES ASSUME ~cut PROVE Given = NoAnswer
  OBVIOUS
<1>1. /\ Receiving /\ network = <<>>
      /\ pc \in {"receive", "body", "chunk_data", "chunk_next"}
  BY DEF NothingToRead, Receiving
<1>2. /\ calls \in Nat /\ content \in Seq(Bytes) /\ body \in Seq(Bytes) /\ network \in Seq(Bytes)
      /\ call.method \in Methods /\ <<>> \in Seq(Bytes)
  BY <1>1, InCall, EmptySeq
<1>3. ASSUME NEW p, SizeComes(p)
      PROVE  Contains(content, CRLF) /\ Len(content) >= 3
  <2>1. /\ Given \in Responses /\ p \in 1 .. Len(Given.body) + 1
        /\ Arrives(content, <<>>, <<>>, ToCome(Given.body)[p], cut)
    BY <1>1, <1>3 DEF SizeComes, InChunks, Replied
  <2>2. Given.body \in Seq(Plain)
    BY <2>1, BodyIsPlain
  <2>3. CASE p = Len(Given.body) + 1
    <3>1. Sized(ToCome(Given.body)[p], 0, CRLF) /\ CRLF \in Seq(Bytes) /\ 0 \in Nat
      BY <2>1, <2>2, <2>3, NextSize, LineEnds, AllHeads
    <3> QED
      BY <1>2, <2>1, <3>1, SizeIsThere
  <2>4. CASE p # Len(Given.body) + 1
    <3>1. PICK q \in Seq(Bytes) : Sized(ToCome(Given.body)[p], 1, q)
      <4>1. /\ ToCome(Given.body)[p + 1] \in Seq(Bytes) /\ <<Given.body[p]>> \o CRLF \in Seq(Bytes)
            /\ Sized(ToCome(Given.body)[p], 1, (<<Given.body[p]>> \o CRLF) \o ToCome(Given.body)[p + 1])
        BY <2>1, <2>2, <2>4, NextSize
      <4>2. (<<Given.body[p]>> \o CRLF) \o ToCome(Given.body)[p + 1] \in Seq(Bytes)
        BY <4>1, ConcatProperties
      <4> QED
        BY <4>1, <4>2, Zenon
    <3>2. 1 \in Nat
      OBVIOUS
    <3> QED
      BY <1>2, <2>1, <3>1, <3>2, SizeIsThere
  <2> QED
    BY <2>3, <2>4
<1>4. CASE pc = "receive"
  <2>1. ~Contains(content, BlankLine)
    BY <1>1, <1>4 DEF Receiving
  <2>2. ASSUME HeadComes PROVE FALSE
    <3>1. Len(content) < 5
      BY <1>4, <2>1, <2>2, HeadIsShort
    <3>2. Given \in Responses /\ Arrives(content, <<>>, Opening(calls), Payload(call.method, Given), cut)
      BY <1>1, <2>2 DEF HeadComes, Replied
    <3>3. Payload(call.method, Given) \in Seq(Bytes)
      BY <1>2, <3>2, WireIs, PlainIsBytes
    <3>4. Opening(calls) \in Seq(Bytes) /\ Len(Opening(calls)) = 5
      BY <1>2, OpeningFollows
    <3>5. Together(content, Opening(calls), Payload(call.method, Given), Bytes)
      BY <1>2, <3>2, <3>3, <3>4, ArrivesAll
    <3>6. /\ Len(content) = Len(Opening(calls)) + Len(Payload(call.method, Given))
          /\ Len(Payload(call.method, Given)) \in Nat
      BY <3>3, <3>5, Zenon, LenProperties DEF Together
    <3> QED
      BY <3>1, <3>4, <3>6
  <2>3. Asked \/ HeadComes
    BY <1>4 DEF InStep
  <2> QED
    BY <2>2, <2>3 DEF Asked, Unasked
<1>5. CASE pc = "body"
  <2>1. BodyComes /\ payload.transfer = "" /\ Len(body) < payload.length
    BY <1>1, <1>5 DEF InStep, Receiving
  <2>2. /\ Given \in Responses /\ payload.length = Len(Given.body)
        /\ Arrives(body, <<>>, Given.body, <<>>, cut)
    BY <1>1, <2>1 DEF BodyComes, Replied
  <2>3. Given.body \in Seq(Bytes)
    BY <2>2, BodyIsPlain, PlainIsBytes
  <2>4. PICK g \in Seq(Bytes), e \in Seq(Bytes) : g = Given.body /\ e = <<>>
    BY <1>2, <2>3, Zenon
  <2>5. Arrives(body, <<>>, g, e, cut)
    BY <2>2, <2>4, Zenon
  <2>6. Together(body, g, e, Bytes)
    BY <1>2, <2>5, ArrivesAll
  <2>7. Len(body) = Len(g) + Len(e)
    BY <2>6, Zenon DEF Together
  <2>8. Len(e) = 0 /\ Len(g) \in Nat
    BY <2>4
  <2>9. Len(body) < Len(g)
    BY <2>1, <2>2, <2>4, Zenon
  <2> QED
    BY <2>7, <2>8, <2>9
<1>6. CASE pc = "chunk_data"
  <2>1. Len(content) < chunk_size + 2
    BY <1>1, <1>6 DEF Receiving
  <2>2. PICK p : (SizeComes(p) /\ chunk_size = 0) \/ DataComes(p)
    BY <1>6 DEF InStep
  <2>3. Len(content) \in Nat
    BY <1>2, LenProperties
  <2>4. CASE SizeComes(p) /\ chunk_size = 0
    <3>1. Len(content) >= 3
      BY <1>3, <2>4
    <3> QED
      BY <2>1, <2>3, <2>4, <3>1
  <2>5. CASE DataComes(p)
    <3>1. /\ Given \in Responses /\ p \in 1 .. Len(Given.body) + 1 /\ p # Len(Given.body) + 1 /\ chunk_size = 1
          /\ Arrives(content, <<>>, <<Given.body[p]>> \o CRLF, ToCome(Given.body)[p + 1], cut)
      BY <1>1, <2>5 DEF DataComes, InChunks, Replied
    <3>2. Given.body[p] \in Bytes /\ ToCome(Given.body)[p + 1] \in Seq(Bytes)
      <4>1. Given.body \in Seq(Plain)
        BY <3>1, BodyIsPlain
      <4> QED
        BY <3>1, <4>1, NextSize
    <3>3. Len(content) >= 3
      BY <1>2, <3>1, <3>2, DataIsThere
    <3> QED
      BY <2>1, <2>3, <3>1, <3>3
  <2> QED
    BY <2>2, <2>4, <2>5
<1>7. CASE pc = "chunk_next"
  <2>1. PICK p : SizeComes(p)
    BY <1>7 DEF InStep
  <2>2. Contains(content, CRLF)
    BY <1>3, <2>1
  <2> QED
    BY <1>1, <1>7, <2>2 DEF Receiving
<1> QED
  BY <1>1, <1>4, <1>5, <1>6, <1>7

LEMMA FailSteps ==
  ASSUME TypeInv, InStep, OwnResponse, Fails
  PROVE  InStep' /\ OwnResponse'
<1>1. payload \in Held /\ FALSE \in BOOLEAN
  BY DEF TypeInv
<1>2. CASE NotConnected
  <2>1. /\ pc = "receive" /\ peer = NoPeer /\ clean' = clean
        /\ Return(FALSE, payload) \/ UNCHANGED results
    BY <1>2 DEF NotConnected
  <2>2. ~clean
    <3>1. call.host # NoPeer
      BY <2>1, InCall
    <3> QED
      BY <2>1, <3>1 DEF InStep
  <2>3. OwnResponse'
    <3>1. CASE Return(FALSE, payload)
      <4>1. pc \notin {"idle", "deleted", "thrown"}
        BY <2>1
      <4> QED
        BY <1>1, <2>2, <3>1, <4>1, RightReturn
    <3> QED
      BY <2>1, <3>1, SameResults
  <2> QED
    BY <2>1, <2>2, <2>3 DEF InStep
<1>3. CASE ReceiveFails
  <2>1. NothingToRead /\ Return(FALSE, payload) /\ clean' = FALSE /\ pc \notin {"idle", "deleted", "thrown"}
    BY <1>3 DEF ReceiveFails, NothingToRead, Receiving
  <2>2. clean => Given = NoAnswer \/ cut
    BY <2>1, NothingMissing
  <2>3. OwnResponse'
    BY <1>1, <2>1, <2>2, RightReturn
  <2> QED
    BY <2>1, <2>3 DEF InStep
<1> QED
  BY <1>2, <1>3 DEF Fails


\* The head that has been received is the one of this call, and behind it comes
\* what else the server has sent.
LEMMA HeadFound ==
  ASSUME TypeInv, InStep, clean, HeadReceived
  PROVE  /\ FirstLine = <<HeadOf(calls)>> /\ HeadComes
         /\ Arrives(<<>>, network, <<>>, Payload(call.method, Given), cut)
<1>1. pc = "receive" /\ Contains(content, BlankLine)
  BY DEF HeadReceived
<1>2. calls \in Nat /\ content \in Seq(Bytes) /\ network \in Seq(Bytes) /\ call.method \in Methods
  BY <1>1, InCall
<1>3. HeadComes
  <2>1. content # <<>>
    <3>1. Len(BlankLine) = 4 /\ Len(<<>>) = 0
      BY LineEnds
    <3>2. \A k \in 1 .. (0 + 1 - 4) : FALSE
      OBVIOUS
    <3>3. content = <<>> => FALSE
      BY <1>1, <3>1, <3>2 DEF Contains
    <3> QED
      BY <3>3
  <2> QED
    BY <1>1, <2>1 DEF InStep, Asked, Unasked
<1>4. /\ Given \in Responses /\ Len(content) <= 5
      /\ Arrives(content, network, Opening(calls), Payload(call.method, Given), cut)
  BY <1>3 DEF HeadComes, Replied
<1>5. Payload(call.method, Given) \in Seq(Bytes)
  BY <1>2, <1>4, WireIs, PlainIsBytes
<1>6. /\ SplitString(SplitString(content, BlankLine)[1], CRLF) = << <<HeadOf(calls)>> >>
      /\ Arrives(<<>>, network, <<>>, Payload(call.method, Given), cut)
  BY <1>1, <1>2, <1>4, <1>5, HeadHasArrived
<1>7. FirstLine = <<HeadOf(calls)>>
  <2>1. FirstLine = LET lines == << <<HeadOf(calls)>> >>
                    IN  IF lines = <<>> THEN <<>> ELSE lines[1]
    BY <1>6, Zenon DEF FirstLine
  <2> QED
    BY <2>1
<1> QED
  BY <1>3, <1>6, <1>7

LEMMA HeadStarts ==
  ASSUME FirstLine = <<HeadOf(calls)>>
  PROVE  StartsWithHead /\ FirstLine[Len(FirstLine)][2] = calls
<1>1. FirstLine # <<>> /\ Len(FirstLine) = 1 /\ FirstLine[1] = HeadOf(calls)
  OBVIOUS
<1>2. HeadOf(calls)[1] = "head" /\ HeadOf(calls)[2] = calls
  BY DEF HeadOf
<1> QED
  BY <1>1, <1>2 DEF StartsWithHead

LEMMA NoHeadSteps ==
  ASSUME TypeInv, InStep, OwnResponse, NoHead
  PROVE  InStep' /\ OwnResponse'
<1>1. HeadReceived /\ ~StartsWithHead /\ UNCHANGED <<results, clean>>
  BY DEF NoHead
<1>2. ~clean
  BY <1>1, HeadFound, HeadStarts
<1> QED
  BY <1>1, <1>2, SameResults DEF InStep

\* It is the head of the response to this call.
LEMMA BadFieldSteps ==
  ASSUME TypeInv, InStep, OwnResponse, BadField
  PROVE  InStep' /\ OwnResponse'
<1>1. /\ HeadReceived /\ pc = "receive" /\ pc' = "crashed"
      /\ answers[FirstLine[Len(FirstLine)][2]].head \in {"blank", "short"}
      /\ UNCHANGED <<calls, call, peer, up, owed, answers, results, clean>>
  BY DEF BadField, HeadReceived, linkVars
<1>2. ASSUME clean PROVE Fatal' /\ peer' = call'.host
  <2>1. FirstLine[Len(FirstLine)][2] = calls /\ HeadComes
    BY <1>1, <1>2, HeadFound, HeadStarts
  <2>2. Replied /\ Given.head \in {"blank", "short"}
    BY <1>1, <2>1 DEF HeadComes, Given
  <2>3. Replied' /\ Given' = Given
    BY <1>1, <2>2 DEF Replied, Given
  <2>4. peer = call.host
    BY <1>1, <1>2 DEF InStep
  <2> QED
    BY <1>1, <2>2, <2>3, <2>4 DEF Fatal
<1> QED
  BY <1>1, <1>2, SameResults DEF InStep

\* What the fields of this response say, with those of no other response in
\* between, is how it is framed.
LEMMA OwnFraming ==
  ASSUME NEW p, NEW r \in Responses, NEW method, method # "HEAD", OwnFields(p, r), p.transfer \in {"", "chunked", "coded"}
  PROVE  /\ p.encoding = r.encoding
         /\ p.transfer = "chunked" => Payload(method, r) = ToCome(r.body)[1]
         /\ p.transfer # "chunked" => /\ p.transfer = "" /\ p.length = Len(r.body)
                                      /\ Payload(method, r) = r.body
<1>1. /\ r.framing \in Framings /\ (r.framing = "none" => Len(r.body) = 0)
  BY BodyIsPlain
<1>2. /\ p.transfer # "coded" /\ (p.transfer = "chunked" => r.framing = "chunked")
      /\ p.transfer = "" => IF r.framing = "length" THEN p.length = Len(r.body)
                            ELSE r.framing = "none" /\ p.length = 0
      /\ p.encoding = r.encoding
  BY DEF OwnFields
<1>3. CASE p.transfer = "chunked"
  BY <1>2, <1>3 DEF Payload
<1>4. CASE p.transfer = ""
  <2>1. r.framing \in {"length", "none"} /\ p.length = Len(r.body)
    BY <1>1, <1>2, <1>4
  <2> QED
    BY <1>2, <1>4, <2>1 DEF Payload
<1> QED
  BY <1>2, <1>3, <1>4

LEMMA ParseHeadSteps ==
  ASSUME TypeInv, InStep, OwnResponse, ParseHead
  PROVE  InStep' /\ OwnResponse'
<1> DEFINE n == FirstLine[Len(FirstLine)][2]
<1>1. /\ HeadReceived /\ StartsWithHead /\ pc = "receive"
      /\ payload' = SetHeaders(n) /\ content' = <<>>
      /\ IF call.method = "HEAD"
         THEN Return(TRUE, payload')
         ELSE /\ pc' = IF payload'.transfer = "chunked" THEN "chunk" ELSE "body"
              /\ UNCHANGED results
      /\ clean' = (clean /\ answers[n].head = "whole" /\ OwnFields(payload', answers[n]))
      /\ UNCHANGED <<calls, call, peer, up, owed, network, body, chunk_size, answers, cut>>
  BY DEF ParseHead, HeadReceived, linkVars
<1>2. payload' \in Held
  <2>1. n \in Answered
    BY <1>1, HeadsAreOfAnswers
  <2> HIDE DEF n
  <2> QED
    BY <1>1, <2>1, HeadersOfResponse
<1>3. ASSUME clean
      PROVE  /\ n = calls /\ HeadComes /\ peer = call.host
             /\ Arrives(<<>>, network, <<>>, Payload(call.method, Given), cut)
  BY <1>1, <1>3, HeadFound, HeadStarts DEF InStep
<1>4. network \in Seq(Bytes) /\ call.method \in Methods
  BY <1>1, InCall
<1>5. ASSUME clean
      PROVE  /\ Given \in Responses /\ Given # NoAnswer /\ payload'.head = calls
             /\ up = <<>> /\ owed = <<>> /\ body = <<>> /\ chunk_size = 0
  <2>1. Given \in Responses /\ up = <<>> /\ owed = <<>> /\ body = <<>> /\ chunk_size = 0
    BY <1>3, <1>5 DEF HeadComes, Replied
  <2>2. Given # NoAnswer
    BY <2>1, BodyIsPlain
  <2>3. calls \in Answered
    <3>1. calls \in 1 .. calls
      BY <1>1, InCall
    <3> QED
      BY <2>1, <3>1 DEF Answered, Given
  <2>4. payload'.head = calls
    BY <1>1, <1>3, <1>5, <2>3, HeadersOfResponse
  <2> QED
    BY <2>1, <2>2, <2>4
<1>6. ASSUME clean' PROVE clean /\ OwnFields(payload', Given)
  BY <1>1, <1>3, <1>6 DEF Given
<1>7. Given' = Given /\ (clean => Replied')
  BY <1>1, <1>5 DEF Given, Replied
<1> HIDE DEF n
<1>8. CASE call.method = "HEAD"
  <2>1. Return(TRUE, payload') /\ pc \notin {"idle", "deleted", "thrown"} /\ TRUE \in BOOLEAN
    BY <1>1, <1>8
  <2>2. OwnResponse' /\ pc' = "idle"
    BY <1>2, <1>3, <1>5, <1>8, <2>1, RightReturn
  <2>3. ASSUME clean PROVE Quiet'
    <3>1. Payload(call.method, Given) = <<>>
      BY <1>8 DEF Payload
    <3>2. PICK e \in Seq(Bytes) : e = <<>>
      BY EmptySeq, Zenon
    <3>3. Arrives(e, network, e, <<>>, cut)
      BY <1>3, <2>3, <3>1, <3>2, Zenon
    <3>4. Len(e) >= Len(e)
      OBVIOUS
    <3>5. network = <<>>
      BY <1>4, <3>3, <3>4, ArrivesOnly
    <3> QED
      BY <1>1, <1>5, <2>3, <3>5 DEF Quiet
  <2> QED
    BY <1>6, <2>2, <2>3 DEF InStep
<1>9. CASE call.method # "HEAD"
  <2>1. OwnResponse'
    BY <1>1, <1>9, SameResults
  <2>2. pc' = IF payload'.transfer = "chunked" THEN "chunk" ELSE "body"
    BY <1>1, <1>9
  <2>3. payload'.transfer \in {"", "chunked", "coded"}
    BY <1>2 DEF Held
  <2>4. ASSUME clean'
        PROVE  /\ payload'.encoding = Given.encoding
               /\ payload'.transfer = "chunked" => Payload(call.method, Given) = ToCome(Given.body)[1]
               /\ payload'.transfer # "chunked" => /\ payload'.transfer = "" /\ payload'.length = Len(Given.body)
                                                   /\ Payload(call.method, Given) = Given.body
    BY <1>5, <1>6, <1>9, <2>3, <2>4, OwnFraming
  <2>5. ASSUME clean' PROVE Replied' /\ HasHead' /\ peer' = call'.host
    BY <1>1, <1>3, <1>5, <1>6, <1>7, <1>9, <2>4, <2>5 DEF HasHead
  <2>6. CASE payload'.transfer = "chunked"
    <3>1. ASSUME clean' PROVE SizeComes(1)' /\ chunk_size' = 0
      <4>1. Arrives(<<>>, network, <<>>, ToCome(Given.body)[1], cut)
        BY <1>3, <1>6, <2>4, <2>6, <3>1, Zenon
      <4>2. Arrives(content', network', <<>>, ToCome(Given'.body)[1], cut')
        BY <1>1, <1>7, <4>1, Zenon
      <4>3. 1 \in 1 .. Len(Given'.body) + 1 /\ body' = SubSeq(Given'.body, 1, 1 - 1)
        <5>1. PICK b \in Seq(Plain) : b = Given'.body
          BY <1>5, <1>6, <1>7, <3>1, BodyIsPlain, Zenon
        <5>2. 1 \in 1 .. Len(b) + 1 /\ SubSeq(b, 1, 1 - 1) = <<>>
          OBVIOUS
        <5> QED
          BY <1>1, <1>5, <1>6, <3>1, <5>1, <5>2
      <4>4. InChunks(1)'
        BY <2>5, <3>1, <4>3 DEF InChunks
      <4> QED
        BY <1>1, <1>5, <1>6, <3>1, <4>2, <4>4 DEF SizeComes
    <3> QED
      BY <2>1, <2>2, <2>5, <2>6, <3>1 DEF InStep
  <2>7. CASE payload'.transfer # "chunked"
    <3>1. ASSUME clean' PROVE BodyComes'
      <4>1. PICK b \in Seq(Bytes), e \in Seq(Bytes) : b = Given.body /\ e = <<>>
        <5>1. Given.body \in Seq(Bytes) /\ <<>> \in Seq(Bytes)
          BY <1>5, <1>6, <3>1, BodyIsPlain, PlainIsBytes, EmptySeq
        <5> QED
          BY <5>1, Zenon
      <4>2. Arrives(e, network, e, b, cut)
        BY <1>3, <1>6, <2>4, <2>7, <3>1, <4>1, Zenon
      <4>3. e \o b = b \o e
        BY <4>1, NothingBefore, Zenon
      <4>4. Arrives(e, network, b, e, cut)
        BY <4>2, <4>3, ArrivesRegrouped
      <4>5. Arrives(body', network', Given'.body, <<>>, cut')
        BY <1>1, <1>5, <1>6, <1>7, <3>1, <4>1, <4>4, Zenon
      <4>6. payload'.transfer = "" /\ payload'.length = Len(Given'.body)
        BY <1>7, <2>4, <2>7, <3>1
      <4> QED
        BY <2>5, <3>1, <4>5, <4>6 DEF BodyComes
    <3> QED
      BY <2>1, <2>2, <2>5, <2>7, <3>1 DEF InStep
  <2> QED
    BY <2>6, <2>7
<1> QED
  BY <1>8, <1>9


LEMMA EndBodySteps ==
  ASSUME TypeInv, InStep, OwnResponse, EndBody
  PROVE  InStep' /\ OwnResponse'
<1>1. /\ pc = "body" /\ ~Receiving /\ pc \notin {"idle", "deleted", "thrown"} /\ SetBody(body)
      /\ UNCHANGED <<up, owed, network, clean>>
  BY DEF EndBody, linkVars
<1>2. Return(TRUE, payload') /\ TRUE \in BOOLEAN
  BY <1>1 DEF SetBody
<1>3. /\ payload' \in Held /\ payload'.head = payload.head
      /\ payload'.body = body /\ payload'.inflated = payload.encoding
  BY <1>1, SetBodyTypes
<1>4. body \in Seq(Bytes) /\ network \in Seq(Bytes)
  BY <1>1, InCall
<1>5. ASSUME clean
      PROVE  /\ peer = call.host /\ Replied /\ HasHead /\ Given # NoAnswer
             /\ body = Given.body /\ network = <<>>
  <2>1. BodyComes /\ peer = call.host
    BY <1>1, <1>5 DEF InStep
  <2>2. /\ Replied /\ HasHead /\ payload.transfer = "" /\ payload.length = Len(Given.body)
        /\ Given \in Responses /\ Arrives(body, network, Given.body, <<>>, cut)
    BY <2>1 DEF BodyComes, Replied
  <2>3. PICK b \in Seq(Bytes) : b = Given.body
    BY <2>2, BodyIsPlain, PlainIsBytes, Zenon
  <2>4. ~(Len(body) < Len(b))
    BY <1>1, <2>2, <2>3 DEF Receiving
  <2>5. Arrives(body, network, b, <<>>, cut)
    BY <2>2, <2>3, Zenon
  <2>6. Len(body) >= Len(b)
    <3>1. Len(body) \in Nat /\ Len(b) \in Nat
      BY <1>4, LenProperties
    <3> QED
      BY <2>4, <3>1
  <2>7. body = b /\ network = <<>>
    BY <1>4, <2>5, <2>6, ArrivesOnly
  <2>8. Given # NoAnswer
    BY <2>2, BodyIsPlain
  <2> QED
    BY <2>1, <2>2, <2>3, <2>7, <2>8
<1>6. OwnResponse' /\ pc' = "idle"
  <2>1. clean => /\ peer = call.host /\ payload'.head = calls /\ Given # NoAnswer
                 /\ payload'.body = Given.body /\ payload'.inflated = Given.encoding
    BY <1>3, <1>5 DEF HasHead
  <2> QED
    BY <1>1, <1>2, <1>3, <2>1, RightReturn
<1>7. clean => Quiet'
  BY <1>1, <1>5 DEF Quiet, Replied
<1> QED
  BY <1>1, <1>6, <1>7 DEF InStep

\* What is known where a chunked response has got to.
LEMMA ChunkFacts ==
  ASSUME NEW p, InChunks(p)
  PROVE  /\ Replied /\ HasHead /\ Given \in Responses /\ Given # NoAnswer /\ Given.body \in Seq(Plain)
         /\ p \in 1 .. Len(Given.body) + 1 /\ body = SubSeq(Given.body, 1, p - 1)
         /\ p = Len(Given.body) + 1 => body = Given.body
<1>1. /\ Replied /\ HasHead /\ Given \in Responses
      /\ p \in 1 .. Len(Given.body) + 1 /\ body = SubSeq(Given.body, 1, p - 1)
  BY DEF InChunks, Replied
<1>2. Given # NoAnswer /\ Given.body \in Seq(Plain)
  BY <1>1, BodyIsPlain
<1>3. ASSUME p = Len(Given.body) + 1 PROVE body = Given.body
  <2>1. PICK b \in Seq(Plain) : b = Given.body
    BY <1>2, Zenon
  <2>2. p - 1 = Len(b)
    BY <1>3, <2>1
  <2>3. SubSeq(b, 1, Len(b)) = b
    BY SubSeqFull
  <2> QED
    BY <1>1, <2>1, <2>2, <2>3
<1> QED
  BY <1>1, <1>2, <1>3

\* The number in front of the p-th chunk, once its line end has been received.
LEMMA SizeFound ==
  ASSUME TypeInv, pc = "chunk", NEW p, SizeComes(p), Contains(content, CRLF)
  PROVE  /\ Find(content, CRLF, 1) = 2
         /\ SubSeq(content, 1, 1) = << <<"size", IF p = Len(Given.body) + 1 THEN 0 ELSE 1>> >>
         /\ p # Len(Given.body) + 1 =>
              Arrives(From(content, 4), network, <<Given.body[p]>> \o CRLF, ToCome(Given.body)[p + 1], cut)
<1>1. InChunks(p) /\ Arrives(content, network, <<>>, ToCome(Given.body)[p], cut)
  BY DEF SizeComes
<1>2. PICK b \in Seq(Plain) : b = Given.body /\ p \in 1 .. Len(b) + 1
  BY <1>1, ChunkFacts, Zenon
<1>3. content \in Seq(Bytes) /\ network \in Seq(Bytes)
  BY InCall
<1>4. Arrives(content, network, <<>>, ToCome(b)[p], cut)
  BY <1>1, <1>2, Zenon
<1>5. CASE p = Len(b) + 1
  <2>1. Sized(ToCome(b)[p], 0, CRLF) /\ CRLF \in Seq(Bytes) /\ 0 \in Nat
    BY <1>2, <1>5, NextSize, LineEnds, AllHeads
  <2>2. Find(content, CRLF, 1) = 2 /\ SubSeq(content, 1, 1) = << <<"size", 0>> >>
    BY <1>3, <1>4, <2>1, SizeHasArrived
  <2> QED
    BY <1>2, <1>5, <2>2, Zenon
<1>6. CASE p # Len(b) + 1
  <2>1. PICK d \in Seq(Bytes), t \in Seq(Bytes) :
          d = <<b[p]>> \o CRLF /\ t = ToCome(b)[p + 1] /\ Sized(ToCome(b)[p], 1, d \o t)
    <3>1. /\ ToCome(b)[p + 1] \in Seq(Bytes) /\ <<b[p]>> \o CRLF \in Seq(Bytes)
          /\ Sized(ToCome(b)[p], 1, (<<b[p]>> \o CRLF) \o ToCome(b)[p + 1])
      BY <1>2, <1>6, NextSize
    <3> QED
      BY <3>1, Zenon
  <2>2. PICK q \in Seq(Bytes) : q = d \o t
    <3>1. d \o t \in Seq(Bytes)
      BY ConcatProperties
    <3> QED
      BY <3>1, Zenon
  <2>3. Sized(ToCome(b)[p], 1, q) /\ 1 \in Nat
    BY <2>1, <2>2, Zenon
  <2>4. /\ Find(content, CRLF, 1) = 2 /\ SubSeq(content, 1, 1) = << <<"size", 1>> >>
        /\ From(content, 4) \in Seq(Bytes) /\ Arrives(From(content, 4), network, <<>>, q, cut)
    BY <1>3, <1>4, <2>3, SizeHasArrived
  <2>5. <<>> \o q = d \o t
    BY <2>2, NothingBefore, Zenon
  <2>6. Arrives(From(content, 4), network, d, t, cut)
    BY <2>4, <2>5, ArrivesRegrouped
  <2> QED
    BY <1>2, <1>6, <2>1, <2>4, <2>6, Zenon
<1> QED
  BY <1>5, <1>6

LEMMA ParseSizeSteps ==
  ASSUME TypeInv, InStep, OwnResponse, ParseSize
  PROVE  InStep' /\ OwnResponse'
<1> DEFINE pos == Find(content, CRLF, 1)
           hex == SubSeq(content, 1, pos - 1)
<1>1. /\ pc = "chunk" /\ pc \notin {"idle", "deleted", "thrown"} /\ pos # NPos
      /\ UNCHANGED <<calls, call, peer, up, owed, network, body, answers, cut>>
      /\ IF hex = <<>>
         THEN pc' = "crashed" /\ UNCHANGED <<content, chunk_size, payload, results, clean>>
         ELSE /\ content' = From(content, pos + Len(CRLF))
              /\ chunk_size' \in IF Len(hex) = 1 /\ hex[1][1] = "size" THEN {hex[1][2]} ELSE GarbageSizes
              /\ IF chunk_size' = 0
                 THEN SetBody(body) /\ clean' = FALSE
                 ELSE pc' = "chunk_data" /\ UNCHANGED <<payload, results, clean>>
  BY DEF ParseSize, linkVars
<1>2. Contains(content, CRLF)
  <2>1. content \in Seq(PeerBytes) /\ CRLF \in Seq(PeerBytes)
    BY LineEnds DEF TypeInv, PeerBytes
  <2> QED
    BY <1>1, <2>1, FindIsContains
<1>3. ASSUME clean, NEW p, SizeComes(p)
      PROVE  /\ hex = << <<"size", IF p = Len(Given.body) + 1 THEN 0 ELSE 1>> >>
             /\ pos + Len(CRLF) = 4
  <2>1. pos = 2 /\ SubSeq(content, 1, 1) = << <<"size", IF p = Len(Given.body) + 1 THEN 0 ELSE 1>> >>
    BY <1>1, <1>2, <1>3, SizeFound
  <2>2. Len(CRLF) = 2 /\ 2 + 2 = 4 /\ 2 - 1 = 1
    BY LineEnds
  <2> HIDE DEF pos
  <2> QED
    BY <2>1, <2>2
<1> HIDE DEF hex, pos
<1>4. ASSUME clean, NEW p, SizeComes(p)
      PROVE  hex # <<>> /\ chunk_size' = IF p = Len(Given.body) + 1 THEN 0 ELSE 1
  <2>1. PICK n : n = IF p = Len(Given.body) + 1 THEN 0 ELSE 1
    OBVIOUS
  <2>2. hex = << <<"size", n>> >>
    BY <1>3, <1>4, <2>1, Zenon
  <2>3. hex # <<>> /\ Len(hex) = 1 /\ hex[1][1] = "size" /\ hex[1][2] = n
    BY <2>2
  <2>4. chunk_size' \in IF Len(hex) = 1 /\ hex[1][1] = "size" THEN {hex[1][2]} ELSE GarbageSizes
    BY <1>1, <2>3
  <2>5. chunk_size' = n
    BY <2>3, <2>4, Zenon
  <2> QED
    BY <2>1, <2>3, <2>5, Zenon
<1>5. CASE hex = <<>>
  <2>1. UNCHANGED <<results, clean>>
    BY <1>1, <1>5
  <2>2. ~clean
    BY <1>1, <1>4, <1>5 DEF InStep
  <2> QED
    BY <2>1, <2>2, SameResults DEF InStep
<1>6. CASE hex # <<>> /\ chunk_size' = 0
  <2>1. SetBody(body) /\ clean' = FALSE
    BY <1>1, <1>6
  <2>2. /\ payload' \in Held /\ payload'.head = payload.head
        /\ payload'.body = body /\ payload'.inflated = payload.encoding
    BY <1>1, <2>1, SetBodyTypes
  <2>3. Return(TRUE, payload') /\ TRUE \in BOOLEAN
    BY <2>1 DEF SetBody
  <2>4. ASSUME clean
        PROVE  /\ peer = call.host /\ payload'.head = calls /\ Given # NoAnswer
               /\ payload'.body = Given.body /\ payload'.inflated = Given.encoding
    <3>1. PICK p : SizeComes(p)
      BY <1>1, <2>4 DEF InStep
    <3>2. p = Len(Given.body) + 1
      BY <1>4, <1>6, <2>4, <3>1
    <3>3. HasHead /\ Given # NoAnswer /\ body = Given.body
      BY <3>1, <3>2, ChunkFacts DEF SizeComes
    <3>4. peer = call.host
      BY <1>1, <2>4 DEF InStep
    <3> QED
      BY <2>2, <3>3, <3>4 DEF HasHead
  <2>5. OwnResponse'
    BY <1>1, <2>2, <2>3, <2>4, RightReturn
  <2> QED
    BY <2>1, <2>5 DEF InStep
<1>7. CASE hex # <<>> /\ chunk_size' # 0
  <2>1. /\ content' = From(content, pos + Len(CRLF)) /\ pc' = "chunk_data"
        /\ UNCHANGED <<payload, results, clean>>
    BY <1>1, <1>7
  <2>2. OwnResponse'
    BY <2>1, SameResults
  <2>3. ASSUME clean PROVE peer' = call'.host /\ \E p : DataComes(p)'
    <3>1. PICK p : SizeComes(p)
      BY <1>1, <2>3 DEF InStep
    <3>2. p # Len(Given.body) + 1 /\ chunk_size' = 1
      BY <1>4, <1>7, <2>3, <3>1
    <3>3. Arrives(From(content, 4), network, <<Given.body[p]>> \o CRLF, ToCome(Given.body)[p + 1], cut)
      BY <1>1, <1>2, <3>1, <3>2, SizeFound
    <3>4. content' = From(content, 4)
      BY <1>3, <2>1, <2>3, <3>1
    <3>5. InChunks(p)' /\ Given' = Given
      BY <1>1, <2>1, <3>1, SameChunks DEF SizeComes
    <3>6. Arrives(content', network', <<Given'.body[p]>> \o CRLF, ToCome(Given'.body)[p + 1], cut')
      BY <1>1, <3>3, <3>4, <3>5, Zenon
    <3>7. DataComes(p)'
      BY <3>2, <3>5, <3>6 DEF DataComes
    <3>8. peer' = call'.host
      BY <1>1, <2>3 DEF InStep
    <3> QED
      BY <3>7, <3>8
  <2> QED
    BY <2>1, <2>2, <2>3 DEF InStep
<1> QED
  BY <1>5, <1>6, <1>7

LEMMA ChunkSteps ==
  ASSUME TypeInv, InStep, OwnResponse, NoSize \/ EndChunk \/ NextChunk
  PROVE  InStep' /\ OwnResponse'
<1>1. /\ pc \in {"chunk", "chunk_data", "chunk_next"}
      /\ UNCHANGED <<calls, call, peer, up, owed, network, chunk_size, payload, answers, cut, results, clean>>
  BY DEF NoSize, EndChunk, NextChunk, linkVars, parseVars
<1>2. OwnResponse'
  BY <1>1, SameResults
<1>3. clean => peer' = call'.host
  BY <1>1 DEF InStep
<1>4. content \in Seq(Bytes) /\ network \in Seq(Bytes) /\ body \in Seq(Bytes)
  BY <1>1, InCall
<1>5. ASSUME NEW p, SizeComes(p), body' = body, content' = content PROVE SizeComes(p)'
  <2>1. InChunks(p)' /\ Given' = Given
    BY <1>1, <1>5, SameChunks DEF SizeComes
  <2>2. Arrives(content, network, <<>>, ToCome(Given.body)[p], cut)
    BY <1>5 DEF SizeComes
  <2>3. Arrives(content', network', <<>>, ToCome(Given'.body)[p], cut')
    BY <1>1, <1>5, <2>1, <2>2, Zenon
  <2> QED
    BY <2>1, <2>3 DEF SizeComes
<1>6. CASE NoSize
  <2>1. /\ pc = "chunk" /\ ~Contains(content, CRLF) /\ pc' = "chunk_data" /\ body' = body /\ content' = content
    BY <1>6 DEF NoSize, parseVars
  <2>2. clean => \E p : SizeComes(p)' /\ chunk_size' = 0
    BY <1>1, <1>5, <2>1 DEF InStep
  <2> QED
    BY <1>1, <1>2, <1>3, <2>1, <2>2 DEF InStep
<1>7. CASE NextChunk
  <2>1. /\ pc = "chunk_next" /\ Contains(content, CRLF) /\ pc' = "chunk" /\ body' = body /\ content' = content
    BY <1>7 DEF NextChunk, Receiving, parseVars
  <2>2. clean => \E p : SizeComes(p)' /\ Contains(content', CRLF)
    BY <1>1, <1>5, <2>1 DEF InStep
  <2> QED
    BY <1>1, <1>2, <1>3, <2>1, <2>2 DEF InStep
<1>8. CASE EndChunk
  <2>1. /\ pc = "chunk_data" /\ ~(Len(content) < chunk_size + 2) /\ pc' = "chunk_next"
        /\ body' = body \o SubSeq(content, 1, chunk_size)
        /\ content' = IF chunk_size > 0 THEN From(content, chunk_size + 3) ELSE content
    BY <1>8 DEF EndChunk, Receiving
  <2>2. ASSUME NEW p, SizeComes(p), chunk_size = 0 PROVE SizeComes(p)'
    <3>1. content' = content
      BY <2>1, <2>2
    <3>2. body' = body
      <4>1. SubSeq(content, 1, 0) = <<>> /\ body \o <<>> = body
        BY <1>4, NothingBefore
      <4> QED
        BY <2>1, <2>2, <4>1, Zenon
    <3> QED
      BY <1>5, <2>2, <3>1, <3>2
  <2>3. ASSUME NEW p, DataComes(p) PROVE SizeComes(p + 1)'
    <3>1. /\ InChunks(p) /\ p # Len(Given.body) + 1 /\ chunk_size = 1
          /\ Arrives(content, network, <<Given.body[p]>> \o CRLF, ToCome(Given.body)[p + 1], cut)
      BY <2>3 DEF DataComes
    <3>2. PICK b \in Seq(Plain) :
            b = Given.body /\ p \in 1 .. Len(b) + 1 /\ p # Len(b) + 1 /\ body = SubSeq(b, 1, p - 1)
      BY <3>1, ChunkFacts, Zenon
    <3>3. /\ b[p] \in Bytes /\ p + 1 \in 1 .. Len(b) + 1 /\ ToCome(b)[p + 1] \in Seq(Bytes)
      BY <3>2, NextSize
    <3>4. Len(content) >= 3
      <4>1. Len(content) \in Nat
        BY <1>4, LenProperties
      <4> QED
        BY <2>1, <3>1, <4>1
    <3>5. /\ SubSeq(content, 1, 1) = <<b[p]>>
          /\ Arrives(From(content, 4), network, <<>>, ToCome(b)[p + 1], cut)
      <4>1. Arrives(content, network, <<b[p]>> \o CRLF, ToCome(b)[p + 1], cut)
        BY <3>1, <3>2, Zenon
      <4> QED
        BY <1>4, <3>3, <3>4, <4>1, DataHasArrived
    <3>6. body' = SubSeq(b, 1, (p + 1) - 1)
      <4>1. p \in 1 .. Len(b)
        BY <3>2
      <4>2. SubSeq(b, 1, p - 1) \o <<b[p]>> = SubSeq(b, 1, (p + 1) - 1)
        BY <4>1, OneMoreByte
      <4> QED
        BY <2>1, <3>1, <3>2, <3>5, <4>2, Zenon
    <3>7. content' = From(content, 4)
      <4>1. 1 + 3 = 4 /\ 1 > 0
        OBVIOUS
      <4> QED
        BY <2>1, <3>1, <4>1
    <3>8. Replied' = Replied /\ HasHead' = HasHead /\ Given' = Given
      BY <1>1, SameAnswer
    <3>9. InChunks(p + 1)'
      <4>1. Replied /\ HasHead
        BY <3>1 DEF InChunks
      <4>2. p + 1 \in 1 .. Len(Given'.body) + 1 /\ body' = SubSeq(Given'.body, 1, (p + 1) - 1)
        BY <3>2, <3>3, <3>6, <3>8, Zenon
      <4> QED
        BY <3>8, <4>1, <4>2, Zenon DEF InChunks
    <3>10. Arrives(content', network', <<>>, ToCome(Given'.body)[p + 1], cut')
      BY <1>1, <3>2, <3>5, <3>7, <3>8, Zenon
    <3> QED
      BY <3>9, <3>10, Zenon DEF SizeComes
  <2>4. clean => \E p : SizeComes(p)'
    BY <2>1, <2>2, <2>3 DEF InStep
  <2> QED
    BY <1>1, <1>2, <1>3, <2>1, <2>4 DEF InStep
<1> QED
  BY <1>6, <1>7, <1>8


\* The server reads a part of the request.
LEMMA ServerReadSteps ==
  ASSUME TypeInv, InStep, OwnResponse, ServerReads
  PROVE  InStep' /\ OwnResponse'
<1>1. /\ up # <<>> /\ up' = Tail(up)
      /\ owed' = IF Head(up).last THEN Append(owed, Head(up)) ELSE owed
      /\ UNCHANGED <<calls, call, pc, address, peer, unsent, content, body, chunk_size, payload,
                     results, clean, network, answers, cut>>
  BY DEF ServerReads, clientVars
<1>2. OwnResponse'
  BY <1>1, SameResults
<1>3. ASSUME clean
      PROVE  /\ Asked /\ pc \in {"write", "receive"} /\ (pc = "write" => Unfinished)
             /\ peer = call.host
  <2>1. ~Quiet /\ ~Replied
    BY <1>1 DEF Quiet, Replied
  <2>2. pc \in Locations
    BY DEF TypeInv
  <2>3. ~HeadComes /\ ~BodyComes /\ ~Fatal /\ \A p : ~SizeComes(p) /\ ~DataComes(p)
    BY <2>1 DEF HeadComes, BodyComes, Fatal, SizeComes, DataComes, InChunks
  <2> QED
    BY <1>3, <2>1, <2>2, <2>3 DEF InStep, Locations
<1>4. /\ up \in Seq(Part) /\ owed \in Seq(Part) /\ Head(up) = up[1]
      /\ Len(up) \in Nat /\ Len(up) >= 1
      /\ Len(up') = Len(up) - 1 /\ \A i \in 1 .. Len(up') : up'[i] = up[i + 1] /\ i + 1 \in 1 .. Len(up)
  <2>1. up \in Seq(Part) /\ owed \in Seq(Part) /\ up # <<>>
    BY <1>1 DEF TypeInv
  <2>2. /\ Head(up) = up[1] /\ Len(Tail(up)) = Len(up) - 1 /\ Len(up) \in Nat /\ Len(up) >= 1
        /\ \A i \in 1 .. Len(Tail(up)) : Tail(up)[i] = up[i + 1]
    BY <2>1
  <2>3. \A i \in 1 .. (Len(up) - 1) : i + 1 \in 1 .. Len(up)
    BY <2>2
  <2> QED
    BY <1>1, <2>1, <2>2, <2>3
<1>5. ASSUME clean PROVE Asked' /\ (pc = "write" => Unfinished')
  <2>1. /\ Unasked /\ network = <<>> /\ owed = <<>>
        /\ \A i \in 1 .. Len(up) : Mine(up[i])
        /\ \A i \in 1 .. Len(up) : up[i].last => i = Len(up)
    BY <1>1, <1>3, <1>5 DEF Asked
  <2>2. Unasked' /\ network' = <<>>
    BY <1>1, <2>1 DEF Unasked, Given
  <2>3. \A i \in 1 .. Len(up') : up'[i].call = calls /\ up'[i].method = call.method
    BY <1>4, <2>1 DEF Mine
  <2>4. \A i \in 1 .. Len(up') : up'[i].last => i = Len(up')
    <3> SUFFICES ASSUME NEW i \in 1 .. Len(up'), up'[i].last PROVE i = Len(up')
      OBVIOUS
    <3>1. up'[i] = up[i + 1] /\ i + 1 \in 1 .. Len(up)
      BY <1>4
    <3>2. up[i + 1].last
      BY <3>1, Zenon
    <3>3. i + 1 = Len(up)
      BY <2>1, <3>1, <3>2
    <3> QED
      BY <1>4, <3>3
  <2>5. 1 \in 1 .. Len(up)
    BY <1>4
  <2>6. CASE Head(up).last
    <3>1. up[1].last
      BY <1>4, <2>6, Zenon
    <3>2. 1 = Len(up)
      BY <2>1, <2>5, <3>1
    <3>3. up' = <<>>
      <4>1. up' \in Seq(Part)
        BY <1>1, <1>4, HeadTailProperties
      <4> QED
        BY <1>4, <3>2, <4>1, EmptySeq
    <3>4. PICK h \in Part : h = Head(up)
      BY <1>1, <1>4, HeadTailProperties, Zenon
    <3>5. owed' = Append(owed, h) /\ h.call = calls /\ h.method = call.method
      BY <1>1, <1>4, <2>1, <2>5, <2>6, <3>4 DEF Mine
    <3>6. Len(owed') = 1 /\ owed'[1] = h
      BY <2>1, <3>4, <3>5
    <3>7. \A i \in 1 .. Len(owed') : owed'[i].call = calls /\ owed'[i].method = call.method
      BY <3>5, <3>6
    <3>8. Asked'
      BY <1>1, <2>2, <2>3, <2>4, <3>3, <3>6, <3>7, Zenon DEF Asked, Mine
    <3>9. pc # "write"
      BY <1>3, <1>5, <2>5, <3>1 DEF Unfinished
    <3> QED
      BY <3>8, <3>9
  <2>7. CASE ~Head(up).last
    <3>1. owed' = <<>>
      BY <1>1, <2>1, <2>7
    <3>2. \A i \in 1 .. Len(owed') : FALSE
      BY <3>1
    <3>3. Asked'
      BY <1>1, <2>2, <2>3, <2>4, <3>1, <3>2, Zenon DEF Asked, Mine
    <3>4. ASSUME pc = "write" PROVE Unfinished'
      <4>1. \A i \in 1 .. Len(up) : ~up[i].last
        BY <1>3, <1>5, <3>4 DEF Unfinished
      <4>2. \A i \in 1 .. Len(up') : ~up'[i].last
        BY <1>4, <4>1, Zenon
      <4> QED
        BY <3>1, <4>2 DEF Unfinished
    <3> QED
      BY <3>3, <3>4
  <2> QED
    BY <2>6, <2>7
<1> QED
  BY <1>1, <1>2, <1>3, <1>5 DEF InStep

\* The server answers the request it has read.
LEMMA ServerResponseSteps ==
  ASSUME TypeInv, InStep, OwnResponse, NEW r \in Responses, ServerResponds(r)
  PROVE  InStep' /\ OwnResponse'
<1> DEFINE q == Head(owed)
<1>1. /\ owed # <<>>
      /\ network' = network \o Wire(q.call, q.method, r)
      /\ answers' = [answers EXCEPT ![q.call] = r]
      /\ owed' = IF open' THEN Tail(owed) ELSE <<>>
      /\ up' = IF open' THEN up ELSE <<>>
      /\ UNCHANGED <<calls, call, pc, peer, content, body, chunk_size, payload, results, clean, cut>>
  BY DEF ServerResponds, clientVars
<1>2. OwnResponse'
  BY <1>1, SameResults
<1>3. ASSUME clean PROVE Asked /\ pc = "receive" /\ peer = call.host
  <2>1. ~Quiet /\ ~Replied /\ ~Unfinished
    BY <1>1 DEF Quiet, Replied, Unfinished
  <2>2. pc \in Locations
    BY DEF TypeInv
  <2>3. ~HeadComes /\ ~BodyComes /\ ~Fatal /\ \A p : ~SizeComes(p) /\ ~DataComes(p)
    BY <2>1 DEF HeadComes, BodyComes, Fatal, SizeComes, DataComes, InChunks
  <2> QED
    BY <1>3, <2>1, <2>2, <2>3 DEF InStep, Locations
<1>4. ASSUME clean PROVE HeadComes'
  <2>1. /\ calls \in Nat /\ calls \in 1 .. Len(answers) /\ call.method \in Methods
        /\ answers \in Seq(Responses \cup {NoAnswer}) /\ owed \in Seq(Part)
    BY <1>3, <1>4, InCall DEF TypeInv
  <2>2. /\ content = <<>> /\ body = <<>> /\ chunk_size = 0 /\ network = <<>>
        /\ up = <<>> /\ Len(owed) = 1 /\ \A i \in 1 .. Len(owed) : Mine(owed[i])
    BY <1>1, <1>3, <1>4 DEF Asked, Unasked
  <2>3. q.call = calls /\ q.method = call.method /\ Tail(owed) = <<>>
    <3>1. owed \in Seq(Part) /\ owed # <<>> /\ Len(owed) = 1
      BY <1>1, <2>1, <2>2
    <3>2. Head(owed) = owed[1] /\ 1 \in 1 .. Len(owed)
      BY <3>1
    <3>3. Tail(owed) = <<>>
      <4>1. Tail(owed) \in Seq(Part) /\ Len(Tail(owed)) = 0
        BY <3>1
      <4> QED
        BY <4>1, EmptySeq
    <3> QED
      BY <2>2, <3>2, <3>3 DEF Mine
  <2> HIDE DEF q
  <2>4. Given' = r
    <3>1. answers' = [answers EXCEPT ![calls] = r]
      BY <1>1, <2>3
    <3>2. r \in Responses \cup {NoAnswer}
      OBVIOUS
    <3> HIDE DEF NoAnswer
    <3>3. answers'[calls] = r
      BY <2>1, <3>1, <3>2, ExceptSeq
    <3> QED
      BY <1>1, <3>3 DEF Given
  <2>5. Replied'
    BY <1>1, <2>2, <2>3, <2>4 DEF Replied
  <2>6. PICK o \in Seq(Bytes), z \in Seq(Bytes), e \in Seq(Bytes) :
          /\ o = Opening(calls) /\ z = Payload(call.method, r) /\ e = <<>>
          /\ Wire(calls, call.method, r) = o \o z
    <3>1. Opening(calls) \in Seq(Bytes)
      BY <2>1, OpeningFollows
    <3>2. Wire(calls, call.method, r) = Opening(calls) \o Payload(call.method, r) /\ Payload(call.method, r) \in Seq(Bytes)
      BY <2>1, WireIs, PlainIsBytes
    <3>3. <<>> \in Seq(Bytes)
      BY EmptySeq
    <3> QED
      BY <3>1, <3>2, <3>3, Zenon
  <2>7. PICK w \in Seq(Bytes) : w = o \o z
    <3>1. o \o z \in Seq(Bytes)
      BY ConcatProperties
    <3> QED
      BY <3>1, Zenon
  <2>8. <<>> \o w = w /\ w \o <<>> = w
    BY NothingBefore
  <2>9. network' = w
    BY <1>1, <2>2, <2>3, <2>6, <2>7, <2>8, Zenon
  <2>10. Arrives(<<>>, w, o, z, cut)
    <3>1. Begins(<<>>, w \o e, o, z)
      BY <2>6, <2>7, <2>8, Zenon DEF Begins
    <3> QED
      BY <2>6, <3>1, Zenon DEF Arrives
  <2>11. Arrives(content', network', Opening(calls'), Payload(call'.method, Given'), cut')
    BY <1>1, <2>2, <2>4, <2>6, <2>9, <2>10, Zenon
  <2>12. body' = <<>> /\ chunk_size' = 0 /\ Len(content') <= 5
    BY <1>1, <2>2
  <2> QED
    BY <2>5, <2>11, <2>12 DEF HeadComes
<1> QED
  BY <1>1, <1>2, <1>3, <1>4 DEF InStep

\* The server closes the connection; the end of what is on its way may be lost.
LEMMA ServerCloseSteps ==
  ASSUME TypeInv, InStep, OwnResponse, ServerCloses
  PROVE  InStep' /\ OwnResponse'
<1>1. /\ up' = <<>> /\ owed' = <<>> /\ cut' = (cut \/ network' # network)
      /\ UNCHANGED <<calls, call, pc, peer, content, body, chunk_size, payload, results, clean, answers>>
  BY DEF ServerCloses, clientVars
<1>2. PICK k \in 0 .. Len(network) : network' = SubSeq(network, 1, k)
  BY DEF ServerCloses
<1>3. OwnResponse'
  BY <1>1, SameResults
<1>4. network \in Seq(Bytes) /\ cut \in BOOLEAN
  <2>1. network \in Seq(PeerBytes) /\ cut \in BOOLEAN
    BY DEF TypeInv
  <2> QED
    BY <2>1, PeerBytesAreBytes
<1>5. ASSUME network = <<>> PROVE network' = <<>>
  <2>1. Len(network) = 0
    BY <1>5
  <2>2. k = 0
    BY <1>2, <2>1
  <2>3. SubSeq(network, 1, 0) = <<>>
    BY <1>4
  <2> QED
    BY <1>2, <2>2, <2>3
<1>6. ASSUME NEW c, NEW p, NEW z, Arrives(c, network, p, z, cut)
      PROVE  Arrives(c, network', p, z, cut')
  <2>1. Arrives(c, SubSeq(network, 1, k), p, z, cut \/ SubSeq(network, 1, k) # network)
    BY <1>4, <1>6, ArrivesCut
  <2> QED
    BY <1>1, <1>2, <2>1, Zenon
<1>7. Given' = Given /\ Unasked' = Unasked /\ (Quiet => Quiet') /\ (Replied => Replied') /\ HasHead' = HasHead
      /\ (Fatal => Fatal')
  BY <1>1, <1>5 DEF Given, Unasked, Quiet, Replied, HasHead, Fatal
<1>8. Asked => Asked' /\ Unfinished'
  <2>1. \A i \in 1 .. Len(up') : FALSE
    BY <1>1
  <2>2. \A i \in 1 .. Len(owed') : FALSE
    BY <1>1
  <2> QED
    BY <1>1, <1>5, <1>7, <2>1, <2>2, Zenon DEF Asked, Unfinished
<1>9. ASSUME HeadComes PROVE HeadComes'
  <2>1. /\ Replied /\ body = <<>> /\ chunk_size = 0 /\ Len(content) <= 5
        /\ Arrives(content, network, Opening(calls), Payload(call.method, Given), cut)
    BY <1>9 DEF HeadComes
  <2>2. Arrives(content, network', Opening(calls), Payload(call.method, Given), cut')
    BY <1>6, <2>1
  <2>3. Arrives(content', network', Opening(calls'), Payload(call'.method, Given'), cut')
    BY <1>1, <1>7, <2>2, Zenon
  <2> QED
    BY <1>1, <1>7, <2>1, <2>3 DEF HeadComes
<1>10. ASSUME BodyComes PROVE BodyComes'
  <2>1. /\ Replied /\ HasHead /\ payload.transfer = "" /\ payload.length = Len(Given.body)
        /\ Arrives(body, network, Given.body, <<>>, cut)
    BY <1>10 DEF BodyComes
  <2>2. Arrives(body, network', Given.body, <<>>, cut')
    BY <1>6, <2>1
  <2>3. Arrives(body', network', Given'.body, <<>>, cut')
    BY <1>1, <1>7, <2>2, Zenon
  <2> QED
    BY <1>1, <1>7, <2>1, <2>3 DEF BodyComes
<1>11. ASSUME NEW p, InChunks(p) PROVE InChunks(p)'
  BY <1>1, <1>7, <1>11 DEF InChunks
<1>12. ASSUME NEW p, SizeComes(p) PROVE SizeComes(p)'
  <2>1. InChunks(p)' /\ Arrives(content, network', <<>>, ToCome(Given.body)[p], cut')
    BY <1>6, <1>11, <1>12 DEF SizeComes
  <2>2. Arrives(content', network', <<>>, ToCome(Given'.body)[p], cut')
    BY <1>1, <1>7, <2>1, Zenon
  <2> QED
    BY <2>1, <2>2 DEF SizeComes
<1>13. ASSUME NEW p, DataComes(p) PROVE DataComes(p)'
  <2>1. /\ InChunks(p)' /\ p # Len(Given.body) + 1 /\ chunk_size = 1
        /\ Arrives(content, network', <<Given.body[p]>> \o CRLF, ToCome(Given.body)[p + 1], cut')
    BY <1>6, <1>11, <1>13 DEF DataComes
  <2>2. Arrives(content', network', <<Given'.body[p]>> \o CRLF, ToCome(Given'.body)[p + 1], cut')
    BY <1>1, <1>7, <2>1, Zenon
  <2>3. p # Len(Given'.body) + 1 /\ chunk_size' = 1
    BY <1>1, <1>7, <2>1
  <2> QED
    BY <2>1, <2>2, <2>3 DEF DataComes
<1> QED
  BY <1>1, <1>3, <1>7, <1>8, <1>9, <1>10, <1>12, <1>13 DEF InStep


LEMMA StartsInStep == Init => InStep /\ OwnResponse
<1> SUFFICES ASSUME Init PROVE InStep /\ OwnResponse
  OBVIOUS
<1>1. pc = "idle" /\ network = <<>> /\ up = <<>> /\ owed = <<>> /\ results = <<>>
  BY DEF Init
<1>2. Quiet
  BY <1>1 DEF Quiet
<1>3. \A n \in 1 .. Len(results) : FALSE
  BY <1>1
<1> QED
  BY <1>1, <1>2, <1>3 DEF InStep, OwnResponse

LEMMA StaysInStep == TypeInv /\ InStep /\ OwnResponse /\ [Next]_vars => InStep' /\ OwnResponse'
<1> SUFFICES ASSUME TypeInv, InStep, OwnResponse, [Next]_vars PROVE InStep' /\ OwnResponse'
  OBVIOUS
<1>1. CASE UNCHANGED vars
  <2>1. InStep'
    <3>1. UNCHANGED <<calls, call, pc, peer, up, owed, network, content, body, chunk_size, payload, answers,
                      cut, clean>>
      BY <1>1 DEF vars
    <3>2. Quiet' = Quiet /\ Unasked' = Unasked /\ Asked' = Asked /\ Unfinished' = Unfinished /\ Given' = Given
      BY <3>1 DEF Quiet, Unasked, Asked, Unfinished, Mine, Given
    <3>3. Replied' = Replied /\ HasHead' = HasHead /\ Fatal' = Fatal
      BY <3>1, SameAnswer DEF Fatal
    <3>4. HeadComes' = HeadComes /\ BodyComes' = BodyComes
      BY <3>1, <3>2, <3>3 DEF HeadComes, BodyComes
    <3>5. \A p : SizeComes(p)' = SizeComes(p) /\ DataComes(p)' = DataComes(p)
      BY <3>1, <3>2, <3>3 DEF SizeComes, DataComes, InChunks
    <3> QED
      BY <3>1, <3>2, <3>3, <3>4, <3>5 DEF InStep
  <2>2. OwnResponse'
    BY <1>1, SameResults DEF vars
  <2> QED
    BY <2>1, <2>2
<1>2. ASSUME NEW c \in Calls, Call(c) \/ CallThrows(c) PROVE InStep' /\ OwnResponse'
  BY <1>2, CallSteps, CallThrowsSteps
<1>3. CASE Delete \/ Socket \/ Resolve \/ Connect
  BY <1>3, IdleSteps
<1>4. CASE ResolveFails \/ ConnectFails
  BY <1>4, StartFailSteps
<1>5. CASE Sends
  BY <1>5, SendSteps
<1>6. CASE Receives
  BY <1>6, ReceiveSteps
<1>7. CASE Fails
  BY <1>7, FailSteps
<1>8. CASE NoHead \/ BadField
  BY <1>8, NoHeadSteps, BadFieldSteps
<1>9. CASE ParseHead
  BY <1>9, ParseHeadSteps
<1>10. CASE EndBody
  BY <1>10, EndBodySteps
<1>11. CASE ParseSize
  BY <1>11, ParseSizeSteps
<1>12. CASE NoSize \/ EndChunk \/ NextChunk
  BY <1>12, ChunkSteps
<1>13. CASE ServerReads
  BY <1>13, ServerReadSteps
<1>14. ASSUME NEW r \in Responses, ServerResponds(r) PROVE InStep' /\ OwnResponse'
  BY <1>14, ServerResponseSteps
<1>15. CASE ServerCloses
  BY <1>15, ServerCloseSteps
<1> QED
  BY <1>1, <1>2, <1>3, <1>4, <1>5, <1>6, <1>7, <1>8, <1>9, <1>10, <1>11, <1>12, <1>13, <1>14, <1>15
  DEF Next, Program, Starts, Runs, Parses, Server

LEMMA AlwaysInStep == SafeSpec => [](TypeInv /\ InStep /\ OwnResponse)
<1>1. TypeInv /\ InStep /\ OwnResponse /\ [Next]_vars => (TypeInv /\ InStep /\ OwnResponse)'
  BY StepKeepsTypes, StaysInStep
<1>2. Init => TypeInv /\ InStep /\ OwnResponse
  BY InitTypes, StartsInStep
<1> QED
  BY <1>1, <1>2, PTL DEF SafeSpec

\* However many calls, responses, bodies and hosts there are, however the bytes
\* of the server are cut, and wherever it closes the connection: until something
\* spoils the connection, a call that returns true has the response to its own
\* request with its whole body, and one that returns false has got none.
THEOREM ResponsesAreOwn == SafeSpec => []OwnResponse
BY AlwaysInStep, PTL

\* What the client has received and what is on its way is always the rest of the
\* response to the last call, as far as this call has not taken it: between two
\* calls there is nothing that the next call could take for its own response.
THEOREM NothingLeftOver == SafeSpec => [](clean /\ pc = "idle" => Quiet)
<1>1. InStep => (clean /\ pc = "idle" => Quiet)
  BY DEF InStep
<1> QED
  BY <1>1, AlwaysInStep, PTL

\* While nothing has spoiled the connection, a vector of parsed lines that is too
\* short, trim of nothing, or the descriptor of a connection that does not exist
\* end the program only by a head that the server really sent in answer to this
\* call, with a field that is blank or without a reason: never by a head that the
\* client has put together of other bytes, by a chunk without a size, or without a
\* connection.
THEOREM NoCrashInStep ==
  SafeSpec => [](pc = "crashed" /\ clean => answers[calls].head \in {"blank", "short"})
<1>1. InStep => (pc = "crashed" /\ clean => answers[calls].head \in {"blank", "short"})
  BY DEF InStep, Fatal, Given
<1> QED
  BY <1>1, AlwaysInStep, PTL
=============================================================================
