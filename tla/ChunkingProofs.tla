---------------------------- MODULE ChunkingProofs ----------------------------
(***************************************************************************)
(* What the gzip pair of functions feeds to zlib, and that all four loops  *)
(* end, for every size of the array and every content.                     *)
(***************************************************************************)
EXTENDS Chunking, TLAPS

\* What zlib has got and what lies in str_chunk, as far as pos.  While a
\* piece waits to be fed it reaches from fed to pos.
IInv ==
    /\ TypeOK
    /\ pc \in {"init", "failed"} => fed = 0
    /\ pc = "init" => pos = 0 /\ flush = "Z_NO_FLUSH"
    /\ pc = "cut" => fed = pos
    /\ pc = "feed" => first = fed + 1 /\ fed + length = pos
    /\ pc = "feed" => length <= CHUNK
    /\ flush = "Z_FINISH" => pos = size
    /\ pc = "feed" /\ length = 0 => pos = size /\ flush = "Z_FINISH"
    /\ pc = "done" => fed = size /\ flush = "Z_FINISH"

LEMMA InitIInv == Init => IInv
  BY ChunkAssumption DEF Init, IInv, TypeOK, Spoilt

LEMMA NextIInv ==
    ASSUME Format = "gzip", IInv, [Next]_vars
    PROVE  IInv'
<1> USE ChunkAssumption DEF IInv, TypeOK, Spoilt
<1>0. CASE ZlibInit
  BY <1>0 DEF ZlibInit
<1>1. CASE CutChunk
  BY <1>1 DEF CutChunk, SubstrLength
<1>2. CASE CutRest
  BY <1>2 DEF CutRest
<1>3. CASE Feed
  BY <1>3 DEF Feed
<1>4. CASE UNCHANGED vars
  BY <1>4 DEF vars
<1> QED
  BY <1>0, <1>1, <1>2, <1>3, <1>4 DEF Next, Finished

\* The invariant of the gzip pair.
LEMMA GzipIInv == Format = "gzip" /\ Spec => []IInv
<1>1. ASSUME Format = "gzip" PROVE Spec => []IInv
  <2>1. Init => IInv
    BY InitIInv
  <2>2. IInv /\ [Next]_vars => IInv'
    BY <1>1, NextIInv
  <2> QED
    BY <2>1, <2>2, PTL DEF Spec
<1> QED
  BY <1>1

\* The gzip pair keeps pos inside the content.
THEOREM GzipTypeCorrect == Format = "gzip" /\ Spec => []TypeOK
<1>1. IInv => TypeOK
  BY DEF IInv
<1> QED
  BY <1>1, GzipIInv, PTL

\* The gzip pair never copies more than CHUNK bytes into in[CHUNK].
THEOREM GzipChunkFits == Format = "gzip" /\ Spec => []ChunkFits
<1>1. IInv => ChunkFits
  BY DEF IInv, ChunkFits
<1> QED
  BY <1>1, GzipIInv, PTL

\* The gzip pair feeds zlib the content, each byte once and in order, and
\* asks it to finish exactly at the end.
THEOREM GzipFedTheContent == Format = "gzip" /\ Spec => []FedTheContent
<1>1. IInv => FedTheContent
  BY ChunkAssumption DEF IInv, TypeOK, FedTheContent, Spoilt
<1> QED
  BY <1>1, GzipIInv, PTL
-----------------------------------------------------------------------------
(* All four functions: how often the loop goes round *)

\* What of the invariant holds for either way of cutting: pos stays inside the
\* content, and only the last piece is empty.
Inside ==
    /\ size \in Nat /\ pos \in 0 .. size /\ length \in Nat
    /\ pc \in {"init", "cut", "feed", "done", "failed"}

LEMMA InitInside == Init => Inside
  BY ChunkAssumption DEF Init, Inside

LEMMA NextInside ==
    ASSUME Inside, [Next]_vars
    PROVE  Inside'
<1> USE ChunkAssumption DEF Inside
<1>1. CASE ZlibInit
  BY <1>1 DEF ZlibInit
<1>2. CASE CutChunk
  BY <1>2 DEF CutChunk, SubstrLength
<1>3. CASE CutRest
  BY <1>3 DEF CutRest
<1>4. CASE Feed
  BY <1>4 DEF Feed
<1>5. CASE UNCHANGED vars
  BY <1>5 DEF vars
<1> QED
  BY <1>1, <1>2, <1>3, <1>4, <1>5 DEF Next, Finished

\* Every step of the loop brings its end nearer, in the zlib pair as in the gzip
\* pair, for every size of the array and every content: the number of rounds is
\* bounded.
THEOREM LoopsAreBounded == Spec => NearerTheEnd
<1>1. Inside /\ [Next]_vars => [Distance' \in 0 .. Distance - 1]_vars
  <2> SUFFICES ASSUME Inside, Next, ~UNCHANGED vars
               PROVE  Distance' \in 0 .. Distance - 1
    BY DEF vars
  <2> USE ChunkAssumption DEF Inside, Distance
  <2>1. CASE ZlibInit
    BY <2>1 DEF ZlibInit
  <2>2. CASE CutChunk
    BY <2>2 DEF CutChunk, SubstrLength
  <2>3. CASE CutRest
    <3>1. /\ Distance = 3 * (size - pos) + 2
          /\ Distance' = (IF size - pos = 0 THEN 1 ELSE 3)
      BY <2>3 DEF CutRest
    <3>2. size - pos \in Nat
      OBVIOUS
    <3> HIDE DEF Distance
    <3> QED
      BY <3>1, <3>2
  <2>4. CASE Feed
    BY <2>4 DEF Feed
  <2> QED
    BY <2>1, <2>2, <2>3, <2>4 DEF Next, Finished
<1> QED
  BY <1>1, InitInside, NextInside, PTL DEF Spec, NearerTheEnd
=============================================================================
