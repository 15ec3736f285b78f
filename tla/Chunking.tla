------------------------------- MODULE Chunking -------------------------------
(***************************************************************************)
(* The loop of the four functions of libCompression.cpp, which copies the  *)
(* content piece by piece into the array in[CHUNK] and passes it to zlib.  *)
(* The loop is the same in all four but for the way a piece is cut:        *)
(* zlib_deflate and zlib_inflate do it in one way, zlib_gzip_deflate and   *)
(* zlib_gzip_inflate in another.                                           *)
(*                                                                         *)
(* zlib itself is external: the inner loop calls it until it leaves room   *)
(* in its output, so it has consumed the piece.  The content is the        *)
(* interval 1 .. size; what the pieces contain does not matter, but where  *)
(* they lie does.                                                          *)
(***************************************************************************)
EXTENDS Integers

CONSTANTS CHUNK,     \* the size of the array
          Format,    \* which pair of functions it is: "zlib" or "gzip"
          MaxSize    \* the contents that are looked at

ASSUME ChunkAssumption ==
    CHUNK \in Nat /\ CHUNK > 1 /\ Format \in {"zlib", "gzip"} /\ MaxSize \in Nat

VARIABLES size,      \* content.size()
          pos,
          first,     \* str_chunk is content[first .. first + length - 1]
          length,
          flush,     \* what the two deflate functions ask zlib for
          pc,        \* "init" zlib, "cut" a piece, "feed" it, "done", "failed"
          fed        \* history: so many first bytes of the content has zlib
                     \* got, each once and in order; or Spoilt

vars == <<size, pos, first, length, flush, pc, fed>>

\* zlib got a piece that does not begin where the last one ended.
Spoilt == MaxSize + 1

Init ==
    /\ size \in 0 .. MaxSize
    /\ pos = 0 /\ first = 1 /\ length = 0 /\ flush = "Z_NO_FLUSH"
    /\ pc = "init" /\ fed = 0

\* deflateInit or inflateInit; where it fails the result is an empty string.
ZlibInit ==
    /\ pc = "init"
    /\ pc' \in {"cut", "failed"}
    /\ UNCHANGED <<size, pos, first, length, flush, fed>>

\* The length of substr(pos, n): what there is of it.
SubstrLength(n) == IF n <= size - pos THEN n ELSE size - pos

\* Mutant: pos moves a whole CHUNK although the piece is one byte shorter.
CutChunkSkips ==
    /\ pc = "cut" /\ size - pos > CHUNK
    /\ first' = pos + 1
    /\ length' = SubstrLength(CHUNK - 1)
    /\ pos' = pos + CHUNK
    /\ flush' = "Z_NO_FLUSH"
    /\ pc' = "feed"
    /\ UNCHANGED <<size, fed>>

\* Mutant: substr gets the end of the piece instead of its length.
CutChunkToEnd ==
    /\ pc = "cut" /\ size - pos > CHUNK
    /\ first' = pos + 1
    /\ length' = SubstrLength(pos + CHUNK - 1)
    /\ pos' = pos + CHUNK - 1
    /\ flush' = "Z_NO_FLUSH"
    /\ pc' = "feed"
    /\ UNCHANGED <<size, fed>>

\* Mutant: a whole piece is cut although less than that is left.
CutChunkTooLate ==
    /\ pc = "cut" /\ size - pos > 0
    /\ first' = pos + 1
    /\ length' = SubstrLength(CHUNK - 1)
    /\ pos' = pos + CHUNK - 1
    /\ flush' = "Z_NO_FLUSH"
    /\ pc' = "feed"
    /\ UNCHANGED <<size, fed>>

\* More than CHUNK bytes are left.
CutChunk ==
    /\ pc = "cut" /\ size - pos > CHUNK
    /\ first' = pos + 1
    /\ length' = SubstrLength(IF Format = "gzip" THEN CHUNK - 1 ELSE pos + CHUNK)
    /\ pos' = pos + (IF Format = "gzip" THEN CHUNK - 1 ELSE CHUNK)
    /\ flush' = "Z_NO_FLUSH"
    /\ pc' = "feed"
    /\ UNCHANGED <<size, fed>>

\* Mutant: the last piece does not move pos.
CutRestStays ==
    /\ pc = "cut" /\ size - pos <= CHUNK
    /\ first' = pos + 1
    /\ length' = size - pos
    /\ flush' = "Z_FINISH"
    /\ pc' = "feed"
    /\ UNCHANGED <<size, pos, fed>>

\* The rest, which is nothing in the last round.
CutRest ==
    /\ pc = "cut" /\ size - pos <= CHUNK
    /\ first' = pos + 1
    /\ length' = size - pos
    /\ pos' = size
    /\ flush' = "Z_FINISH"
    /\ pc' = "feed"
    /\ UNCHANGED <<size, fed>>

\* memcpy, the inner loop, and the condition of the outer one.
Feed ==
    /\ pc = "feed"
    /\ fed' = IF first = fed + 1 THEN fed + length ELSE Spoilt
    /\ pc' = IF length = 0 THEN "done" ELSE "cut"
    /\ UNCHANGED <<size, pos, first, length, flush>>

Finished == pc \in {"done", "failed"} /\ UNCHANGED vars

Next == ZlibInit \/ CutChunk \/ CutRest \/ Feed \/ Finished

Spec == Init /\ [][Next]_vars

(***************************************************************************)
(* Properties                                                              *)
(***************************************************************************)
\* The types: pos stays inside the content, so that content.size() - pos,
\* which is unsigned, does not wrap around.
TypeOK ==
    /\ size \in 0 .. MaxSize
    /\ pos \in 0 .. size
    /\ first \in 1 .. size + 1
    /\ length \in 0 .. size
    /\ flush \in {"Z_NO_FLUSH", "Z_FINISH"}
    /\ pc \in {"init", "cut", "feed", "done", "failed"}
    /\ fed \in 0 .. Spoilt

\* A piece that memcpy copies fits into in[CHUNK] (line 42 and its three
\* likes): substr is given a length, not an end.
ChunkFits == pc = "feed" => length <= CHUNK

\* What is compressed or expanded is the string that was given ("Applying
\* deflate to string", line 3): at the end zlib has got every byte of it
\* once, in order, and before the end nothing else; and it was asked for
\* Z_FINISH with the last of them, not earlier.
FedTheContent ==
    /\ fed # Spoilt
    /\ flush = "Z_FINISH" => pos = size
    /\ pc = "done" => fed = size /\ flush = "Z_FINISH"

\* How far the loop is from its end: three for each byte that is left, and what
\* is still to be done in this round.
Distance ==
    3 * (size - pos) +
        CASE pc = "init" -> 3
          [] pc = "cut" -> 2
          [] pc = "feed" -> (IF length = 0 THEN 1 ELSE 3)
          [] OTHER -> 0

\* No round leaves the loop where it was: every step, also the one that finds a
\* piece of length 0 or the content used up, brings the end nearer.  None of them
\* waits for anybody, so the loop comes to its end, for every content.
NearerTheEnd == [][Distance' \in 0 .. Distance - 1]_vars
=============================================================================
