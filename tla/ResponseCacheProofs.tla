------------------------- MODULE ResponseCacheProofs -------------------------
(***************************************************************************)
(* Proofs about ResponseCache, for any number of workers and keys.         *)
(***************************************************************************)
EXTENDS ResponseCache, TLAPS

-----------------------------------------------------------------------------
(* The inductive invariant. *)

\* The lock is held where the code says it is: readers between find and unlock,
\* a writer in add_cache or in the cleaner's second test, never both.
LockInv ==
    /\ readers = {w \in Workers : pc[w] = "find"}
    /\ \A w \in Workers : pc[w] = "add" <=> writer = w
    /\ writer = Cleaner <=> cleaner = "retest"
    /\ writer # NoThread => readers = {}

\* What a worker is about to cache, and under which key.
AddInv ==
    /\ \A w \in Workers : pc[w] \in {"wrlock", "add"} =>
         response[w] \in Entries /\ response[w].response # "not found"
    /\ \A w \in Workers : pc[w] \in {"handler", "wrlock", "add"} => key[w] \in Routed
    /\ NotFoundIsNeverCached

\* Garbage comes from an entry that changed while it was copied ...
CopyInv ==
    /\ GarbageOnlyIfDisturbed
    /\ \A w \in Workers : Garbage \in possible[w] => disturbed[w] /\ pc[w] = "copy"

\* ... for an entry that has neither expired nor been replaced since it was found
\* is still there, and there is nothing else to be read.
Fresh(k) == k \in Present /\ cache[k].valid

FreshInv ==
    \A w \in Workers : pc[w] = "copy" /\ ~disturbed[w] =>
      Fresh(key[w]) /\ possible[w] = {cache[key[w]].response}

CacheInv == TypeOK /\ LockInv /\ IteratorValid /\ AddInv /\ CopyInv /\ FreshInv

LEMMA CacheInvInit == Init => CacheInv
<1> SUFFICES ASSUME Init
             PROVE  CacheInv
  OBVIOUS
<1>1. Present = {} /\ cache \in [Present -> Entries]
  BY DEF Init, Present
<1>2. TypeOK
  BY <1>1, CacheAssumption DEF Init, TypeOK, WorkerLocations, CleanerLocations
<1>3. LockInv /\ IteratorValid
  BY CacheAssumption DEF Init, LockInv, IteratorValid
<1>4. AddInv
  BY <1>1 DEF Init, AddInv, NotFoundIsNeverCached
<1>5. CopyInv
  BY CacheAssumption DEF Init, CopyInv, GarbageOnlyIfDisturbed
<1>6. FreshInv
  BY DEF Init, FreshInv
<1> QED
  BY <1>2, <1>3, <1>4, <1>5, <1>6 DEF CacheInv
-----------------------------------------------------------------------------
(* Steps of a worker. *)

\* A worker that leaves handleRequest.
LEMMA FinishType ==
  ASSUME TypeOK, NEW w \in Workers, NEW r \in Responses \cup {Garbage}, Finish(w, r)
  PROVE  /\ pc' \in [Workers -> WorkerLocations]
         /\ key' \in [Workers -> Keys \cup {NoKey}]
         /\ \A v \in Workers : pc'[v] = "idle" <=> key'[v] = NoKey
         /\ answer' \in [Workers -> Responses \cup {Garbage, NoAnswer}]
         /\ \A v \in Workers : pc'[v] \in {"wrlock", "add"} => pc[v] = pc'[v] /\ v # w
  BY DEF Finish, Goto, TypeOK, WorkerLocations

\* An entry that changes while it is copied.
LEMMA MayReadType ==
  ASSUME TypeOK, NEW k \in Keys, NEW more \in SUBSET (Responses \cup {Garbage}),
         MayRead(k, more)
  PROVE  possible' \in [Workers -> SUBSET (Responses \cup {Garbage})]
  BY DEF MayRead, TypeOK, Copying

LEMMA DisturbType ==
  ASSUME TypeOK, NEW k \in Keys, Disturb(k)
  PROVE  disturbed' \in [Workers -> BOOLEAN]
  BY DEF Disturb, TypeOK, Copying

\* Types.
LEMMA WorkerKeepsType ==
  ASSUME CacheInv, NEW w \in Workers, Step(w) \/ HandlerReturn(w)
  PROVE  TypeOK'
<1> USE CacheAssumption DEF CacheInv, TypeOK, WorkerLocations, Present, Entries, LockInv, AddInv
<1>1. CASE RdLock(w)
  BY <1>1 DEF RdLock, Goto
<1>2. CASE Hit(w)
  <2>1. cache[key[w]] \in Entries
    BY <1>2 DEF Hit
  <2>2. {cache[key[w]].response} \in SUBSET (Responses \cup {Garbage})
    BY <2>1
  <2>3. possible' \in [Workers -> SUBSET (Responses \cup {Garbage})]
    BY <1>2, <2>2 DEF Hit
  <2> QED
    BY <1>2, <2>3 DEF Hit, Goto, RdUnlock
<1>3. CASE CopyEntry(w)
  <2>1. PICK r \in possible[w] : Finish(w, r)
    BY <1>3 DEF CopyEntry
  <2>2. r \in Responses \cup {Garbage}
    BY <2>1
  <2>3. possible' \in [Workers -> SUBSET (Responses \cup {Garbage})]
    BY <1>3 DEF CopyEntry
  <2> QED
    BY <1>3, <2>1, <2>2, <2>3, FinishType DEF CopyEntry
<1>4. CASE Miss(w)
  BY <1>4 DEF Miss, Goto, RdUnlock
<1>5. CASE NotFound(w)
  <2>1. "not found" \in Responses
    BY DEF Responses
  <2> QED
    BY <1>5, <2>1, FinishType DEF NotFound, RdUnlock
<1>6. CASE AddLock(w)
  BY <1>6 DEF AddLock, Goto
<1>7. CASE AddCache(w)
  <2>1. response[w] \in Entries /\ response[w].response \in Responses
    BY <1>7 DEF AddCache
  <2>2. key[w] \in Keys
    BY <1>7 DEF AddCache
  <2>3. Present' = Present \cup {key[w]} /\ cache' \in [Present' -> Entries]
    BY <1>7, <2>1, <2>2 DEF AddCache
  <2>4. /\ possible' \in [Workers -> SUBSET (Responses \cup {Garbage})]
        /\ disturbed' \in [Workers -> BOOLEAN]
    <3>1. {response[w].response, Garbage} \in SUBSET (Responses \cup {Garbage})
      BY <2>1
    <3>2. MayRead(key[w], {response[w].response, Garbage}) /\ Disturb(key[w])
      BY <1>7 DEF AddCache
    <3> QED
      BY <2>2, <3>1, <3>2, DisturbType, MayReadType
  <2>5. Finish(w, response[w].response)
    BY <1>7 DEF AddCache
  <2>6. response' \in [Workers -> Entries \cup {NoAnswer}]
        /\ \A v \in Workers \ {w} : response'[v] = response[v]
    BY <1>7 DEF AddCache
  <2>7. writer' = NoThread /\ UNCHANGED <<readers, cleaner, it>>
    BY <1>7 DEF AddCache
  <2>8. Present' \subseteq Keys /\ cache' \in [Present' -> Entries]
    BY <2>2, <2>3
  <2>9. /\ pc' \in [Workers -> WorkerLocations]
        /\ key' \in [Workers -> Keys \cup {NoKey}]
        /\ \A v \in Workers : pc'[v] = "idle" <=> key'[v] = NoKey
        /\ answer' \in [Workers -> Responses \cup {Garbage, NoAnswer}]
        /\ \A v \in Workers : pc'[v] \in {"wrlock", "add"} => pc[v] = pc'[v] /\ v # w
    BY <2>1, <2>5, FinishType
  <2> QED
    BY <2>4, <2>6, <2>7, <2>8, <2>9 DEF TypeOK
<1>8. CASE Uncached(w)
  BY <1>8, FinishType DEF Uncached
<1>9. CASE ToBeCached(w)
  <2>1. PICK e \in Entries : response' = [response EXCEPT ![w] = e]
    BY <1>9 DEF ToBeCached, Cached, Uninitialised, Responses
  <2>2. e # NoAnswer
    BY <2>1
  <2> QED
    BY <1>9, <2>1, <2>2 DEF ToBeCached, Goto
<1> QED
  BY <1>1, <1>2, <1>3, <1>4, <1>5, <1>6, <1>7, <1>8, <1>9 DEF Step, HandlerReturn

\* The lock.
LEMMA WorkerKeepsLock ==
  ASSUME CacheInv, NEW w \in Workers, Step(w) \/ HandlerReturn(w)
  PROVE  LockInv'
<1> USE CacheAssumption DEF CacheInv, TypeOK, WorkerLocations, LockInv
<1>1. CASE RdLock(w)
  BY <1>1 DEF RdLock, Goto
<1>2. CASE Hit(w)
  BY <1>2 DEF Hit, Goto, RdUnlock
<1>3. CASE CopyEntry(w)
  BY <1>3 DEF CopyEntry, Finish, Goto
<1>4. CASE Miss(w)
  BY <1>4 DEF Miss, Goto, RdUnlock
<1>5. CASE NotFound(w)
  BY <1>5 DEF NotFound, Goto, Finish, RdUnlock
<1>6. CASE AddLock(w)
  BY <1>6 DEF AddLock, Goto
<1>7. CASE AddCache(w)
  BY <1>7 DEF AddCache, Goto, Finish
<1>8. CASE Uncached(w)
  BY <1>8 DEF Uncached, Finish, Goto
<1>9. CASE ToBeCached(w)
  BY <1>9 DEF ToBeCached, Goto, Cached, Uninitialised
<1> QED
  BY <1>1, <1>2, <1>3, <1>4, <1>5, <1>6, <1>7, <1>8, <1>9 DEF Step, HandlerReturn

\* The cleaner's iterator.
LEMMA WorkerKeepsIterator ==
  ASSUME CacheInv, NEW w \in Workers, Step(w) \/ HandlerReturn(w)
  PROVE  IteratorValid'
<1> USE CacheAssumption DEF CacheInv, IteratorValid, Present
<1>1. CASE RdLock(w)
  BY <1>1 DEF RdLock, Goto
<1>2. CASE Hit(w)
  BY <1>2 DEF Hit, Goto, RdUnlock
<1>3. CASE CopyEntry(w)
  BY <1>3 DEF CopyEntry, Finish, Goto
<1>4. CASE Miss(w)
  BY <1>4 DEF Miss, Goto, RdUnlock
<1>5. CASE NotFound(w)
  BY <1>5 DEF NotFound, Goto, Finish, RdUnlock
<1>6. CASE AddLock(w)
  BY <1>6 DEF AddLock, Goto
<1>7. CASE AddCache(w)
  BY <1>7 DEF AddCache, Goto, Finish
<1>8. CASE Uncached(w)
  BY <1>8 DEF Uncached, Finish, Goto
<1>9. CASE ToBeCached(w)
  BY <1>9 DEF ToBeCached, Goto, Cached, Uninitialised
<1> QED
  BY <1>1, <1>2, <1>3, <1>4, <1>5, <1>6, <1>7, <1>8, <1>9 DEF Step, HandlerReturn

\* What is cached.
LEMMA WorkerKeepsAdd ==
  ASSUME CacheInv, NEW w \in Workers, Step(w) \/ HandlerReturn(w)
  PROVE  AddInv'
<1> USE CacheAssumption DEF CacheInv, TypeOK, WorkerLocations, AddInv, NotFoundIsNeverCached, Present, Entries
<1>1. CASE RdLock(w)
  BY <1>1 DEF RdLock, Goto
<1>2. CASE Hit(w)
  BY <1>2 DEF Hit, Goto, RdUnlock
<1>3. CASE CopyEntry(w)
  <2>1. /\ pc' = [pc EXCEPT ![w] = "idle"] /\ key' = [key EXCEPT ![w] = NoKey]
        /\ UNCHANGED <<cache, response>>
    BY <1>3 DEF CopyEntry, Finish, Goto
  <2> QED
    BY <2>1
<1>4. CASE Miss(w)
  BY <1>4 DEF Miss, Goto, RdUnlock
<1>5. CASE NotFound(w)
  BY <1>5 DEF NotFound, Goto, Finish, RdUnlock
<1>6. CASE AddLock(w)
  BY <1>6 DEF AddLock, Goto
<1>7. CASE AddCache(w)
  BY <1>7 DEF AddCache, Goto, Finish
<1>8. CASE Uncached(w)
  <2>1. /\ pc' = [pc EXCEPT ![w] = "idle"] /\ key' = [key EXCEPT ![w] = NoKey]
        /\ UNCHANGED <<cache, response>>
    BY <1>8 DEF Uncached, Finish, Goto
  <2> QED
    BY <2>1
<1>9. CASE ToBeCached(w)
  <2>1. PICK e \in Entries : /\ response' = [response EXCEPT ![w] = e]
                            /\ e.response # "not found"
    <3>1. Cached("handler") \in Entries /\ Cached("handler").response # "not found"
      BY DEF Cached, Responses
    <3>2. \A e \in Uninitialised("internal error") :
             e \in Entries /\ e.response # "not found"
      BY DEF Uninitialised, Responses
    <3> QED
      BY <1>9, <3>1, <3>2 DEF ToBeCached
  <2>2. pc' = [pc EXCEPT ![w] = "wrlock"] /\ pc[w] = "handler" /\ UNCHANGED <<cache, key>>
    BY <1>9 DEF ToBeCached, Goto
  <2>3. AddInv!1'
    BY <2>1, <2>2
  <2>4. AddInv!2'
    BY <2>2
  <2>5. NotFoundIsNeverCached'
    BY <2>2
  <2> QED
    BY <2>3, <2>4, <2>5
<1> QED
  BY <1>1, <1>2, <1>3, <1>4, <1>5, <1>6, <1>7, <1>8, <1>9 DEF Step, HandlerReturn

\* What is copied.
LEMMA WorkerKeepsCopy ==
  ASSUME CacheInv, NEW w \in Workers, Step(w) \/ HandlerReturn(w)
  PROVE  CopyInv'
<1> USE CacheAssumption DEF CacheInv, TypeOK, WorkerLocations, CopyInv, GarbageOnlyIfDisturbed, Present, Entries
<1>1. CASE RdLock(w)
  BY <1>1 DEF RdLock, Goto
<1>2. CASE Hit(w)
  BY <1>2 DEF Hit, Goto, RdUnlock
<1>3. CASE CopyEntry(w)
  BY <1>3 DEF CopyEntry, Finish, Goto
<1>4. CASE Miss(w)
  BY <1>4 DEF Miss, Goto, RdUnlock
<1>5. CASE NotFound(w)
  <2>1. "not found" # Garbage
    BY DEF Responses
  <2> QED
    BY <1>5, <2>1 DEF NotFound, Goto, Finish
<1>6. CASE AddLock(w)
  BY <1>6 DEF AddLock, Goto
<1>7. CASE AddCache(w)
  <2>1. response[w].response \in Responses
    BY <1>7 DEF AddCache, AddInv
  <2>2. \A v \in Workers : answer'[v] = Garbage => answer[v] = Garbage
    BY <1>7, <2>1 DEF AddCache, Finish
  <2>3. \A v \in Workers : disturbed[v] => disturbed'[v]
    BY <1>7 DEF AddCache, Disturb
  <2>4. ASSUME NEW v \in Workers, Garbage \in possible'[v]
        PROVE  disturbed'[v] /\ pc'[v] = "copy"
    <3>1. pc[w] = "add" /\ pc' = [pc EXCEPT ![w] = "idle"]
      BY <1>7 DEF AddCache, Finish, Goto
    <3>2. Garbage \in possible[v] \/ v \in Copying(key[w])
      BY <1>7, <2>4 DEF AddCache, MayRead
    <3>3. CASE Garbage \in possible[v]
      BY <2>3, <3>1, <3>3
    <3>4. CASE v \in Copying(key[w])
      <4>1. pc[v] = "copy"
        BY <3>4 DEF Copying
      <4>2. disturbed'[v]
        BY <1>7, <3>4 DEF AddCache, Disturb
      <4> QED
        BY <3>1, <4>1, <4>2
    <3> QED
      BY <3>2, <3>3, <3>4
  <2> QED
    BY <2>2, <2>3, <2>4
<1>8. CASE Uncached(w)
  BY <1>8 DEF Uncached, Finish, Goto
<1>9. CASE ToBeCached(w)
  BY <1>9 DEF ToBeCached, Goto, Cached, Uninitialised
<1> QED
  BY <1>1, <1>2, <1>3, <1>4, <1>5, <1>6, <1>7, <1>8, <1>9 DEF Step, HandlerReturn

\* What is found.
LEMMA WorkerKeepsFresh ==
  ASSUME CacheInv, NEW w \in Workers, Step(w) \/ HandlerReturn(w)
  PROVE  FreshInv'
<1> USE CacheAssumption DEF CacheInv, TypeOK, WorkerLocations, FreshInv, Fresh, Present
<1>1. CASE RdLock(w)
  BY <1>1 DEF RdLock, Goto
<1>2. CASE Hit(w)
  BY <1>2 DEF Hit, Goto, RdUnlock
<1>3. CASE CopyEntry(w)
  BY <1>3 DEF CopyEntry, Finish, Goto
<1>4. CASE Miss(w)
  BY <1>4 DEF Miss, Goto, RdUnlock
<1>5. CASE NotFound(w)
  BY <1>5 DEF NotFound, Goto, Finish, RdUnlock
<1>6. CASE AddLock(w)
  BY <1>6 DEF AddLock, Goto
<1>7. CASE AddCache(w)
  <2> SUFFICES ASSUME NEW v \in Workers, pc'[v] = "copy", ~disturbed'[v]
               PROVE  /\ Fresh(key[v])' /\ key'[v] = key[v]
                      /\ possible'[v] = {cache'[key[v]].response}
    BY DEF FreshInv
  <2>1. v # w /\ pc[v] = "copy" /\ key'[v] = key[v]
    BY <1>7 DEF AddCache, Goto, Finish
  <2>2. ~disturbed[v] /\ v \notin Copying(key[w]) /\ possible'[v] = possible[v]
    BY <1>7 DEF AddCache, Disturb, MayRead
  <2>3. key[v] # key[w]
    BY <2>1, <2>2 DEF Copying
  <2>4. Fresh(key[v]) /\ possible[v] = {cache[key[v]].response}
    BY <2>1, <2>2
  <2>5. key[v] \in Present' /\ cache'[key[v]] = cache[key[v]]
    BY <1>7, <2>3, <2>4 DEF AddCache
  <2> QED
    BY <2>1, <2>2, <2>4, <2>5
<1>8. CASE Uncached(w)
  BY <1>8 DEF Uncached, Finish, Goto
<1>9. CASE ToBeCached(w)
  BY <1>9 DEF ToBeCached, Goto
<1> QED
  BY <1>1, <1>2, <1>3, <1>4, <1>5, <1>6, <1>7, <1>8, <1>9 DEF Step, HandlerReturn

-----------------------------------------------------------------------------
(* Requests, the cleaner, and time. *)

\* A worker that enters handleRequest forgets the answer to its last request.
LEMMA RequestKeepsInv ==
  ASSUME CacheInv, NEW w \in Workers, NEW k \in Keys, Request(w, k)
  PROVE  CacheInv'
<1> USE CacheAssumption DEF CacheInv, Request, Goto
<1>1. TypeOK'
  BY DEF TypeOK, WorkerLocations, Present
<1>2. LockInv'
  BY DEF LockInv, TypeOK, WorkerLocations
<1>3. IteratorValid'
  BY DEF IteratorValid, Present
<1>4. AddInv'
  BY DEF AddInv, NotFoundIsNeverCached, Present, TypeOK, WorkerLocations
<1>5. CopyInv'
  BY DEF CopyInv, GarbageOnlyIfDisturbed, TypeOK, WorkerLocations
<1>6. FreshInv'
  BY DEF FreshInv, Fresh, Present, TypeOK, WorkerLocations
<1> QED
  BY <1>1, <1>2, <1>3, <1>4, <1>5, <1>6

\* The steps of the cleaner other than the removal of an entry.
LEMMA CleanerKeepsInv ==
  ASSUME CacheInv,
         CleanerBegin \/ CleanerEnd \/ CleanerTest \/ CleanerLock \/ CleanerSpare
  PROVE  CacheInv'
<1> USE CacheAssumption DEF CacheInv, CleanerBegin, CleanerEnd, CleanerTest,
        CleanerLock, CleanerSpare, CleanerGoto, Present
<1>1. TypeOK'
  BY DEF TypeOK, CleanerLocations
<1>2. LockInv'
  BY DEF LockInv, TypeOK
<1>3. IteratorValid'
  BY DEF IteratorValid
<1>4. AddInv'
  BY DEF AddInv, NotFoundIsNeverCached
<1>5. CopyInv'
  BY DEF CopyInv, GarbageOnlyIfDisturbed
<1>6. FreshInv'
  BY DEF FreshInv, Fresh
<1> QED
  BY <1>1, <1>2, <1>3, <1>4, <1>5, <1>6

\* The cleaner's second test: an entry that may be copied undisturbed is valid,
\* and is not the one that is removed.
LEMMA EraseKeepsInv ==
  ASSUME CacheInv, CleanerErase
  PROVE  CacheInv'
<1> USE CacheAssumption DEF CacheInv, CleanerErase, CleanerGoto
<1>1. it \in Keys
  BY DEF IteratorValid, TypeOK
<1>2. /\ Present' = Present \ {it}
      /\ \A k \in Present' : cache'[k] = cache[k]
      /\ cache' \in [Present' -> Entries]
  BY DEF Restrict, Present, TypeOK
<1>3. TypeOK'
  <2>1. possible' \in [Workers -> SUBSET (Responses \cup {Garbage})]
    BY <1>1, MayReadType
  <2> QED
    BY <1>2, <2>1 DEF TypeOK, CleanerLocations
<1>4. LockInv'
  BY DEF LockInv, TypeOK
<1>5. IteratorValid'
  BY DEF IteratorValid
<1>6. AddInv'
  BY <1>2 DEF AddInv, NotFoundIsNeverCached
<1>7. CopyInv'
  <2>1. ASSUME NEW v \in Workers, Garbage \in possible'[v]
        PROVE  disturbed[v] /\ pc[v] = "copy"
    <3>1. CASE v \in Copying(it)
      BY <3>1 DEF Copying, FreshInv, Fresh
    <3>2. CASE v \notin Copying(it)
      BY <2>1, <3>2 DEF MayRead, CopyInv
    <3> QED
      BY <3>1, <3>2
  <2> QED
    BY <2>1 DEF CopyInv, GarbageOnlyIfDisturbed
<1>8. FreshInv'
  <2>1. ASSUME NEW v \in Workers, pc[v] = "copy", ~disturbed[v]
        PROVE  /\ key[v] \in Present' /\ cache'[key[v]] = cache[key[v]]
               /\ possible'[v] = possible[v]
    BY <1>2, <2>1 DEF FreshInv, Fresh, MayRead, Copying, TypeOK
  <2> QED
    BY <2>1 DEF FreshInv, Fresh
<1> QED
  BY <1>3, <1>4, <1>5, <1>6, <1>7, <1>8

LEMMA ExpireKeepsInv ==
  ASSUME CacheInv, NEW k \in Keys, Expire(k)
  PROVE  CacheInv'
<1> USE CacheAssumption DEF CacheInv, Expire
<1>1. /\ Present' = Present
      /\ \A j \in Present : cache'[j].response = cache[j].response
      /\ cache' \in [Present' -> Entries]
  <2>1. cache[k] \in Entries /\ [cache[k] EXCEPT !.valid = FALSE] \in Entries
    <3>1. cache[k] \in Entries
      BY DEF TypeOK
    <3> QED
      BY <3>1 DEF Entries
  <2>2. PICK e \in Entries : /\ cache' = [cache EXCEPT ![k] = e]
                            /\ e.response = cache[k].response
    BY <2>1 DEF Entries
  <2>3. cache \in [Present -> Entries] /\ k \in Present
    BY DEF TypeOK
  <2>4. cache' \in [Present -> Entries]
    BY <2>2, <2>3
  <2>5. Present' = Present
    BY <2>4 DEF Present
  <2> QED
    BY <2>2, <2>3, <2>4, <2>5
<1>2. TypeOK'
  <2>1. disturbed' \in [Workers -> BOOLEAN]
    BY DisturbType
  <2> QED
    BY <1>1, <2>1 DEF TypeOK
<1>3. LockInv'
  BY DEF LockInv
<1>4. IteratorValid'
  BY <1>1 DEF IteratorValid
<1>5. AddInv'
  BY <1>1 DEF AddInv, NotFoundIsNeverCached
<1>6. CopyInv'
  BY DEF CopyInv, GarbageOnlyIfDisturbed, Disturb
<1>7. FreshInv'
  <2>1. \A j \in Present \ {k} : cache'[j] = cache[j]
    BY DEF TypeOK, Present
  <2> QED
    BY <1>1, <2>1 DEF FreshInv, Fresh, Disturb, Copying
<1> QED
  BY <1>2, <1>3, <1>4, <1>5, <1>6, <1>7

-----------------------------------------------------------------------------
(* The theorems. *)

LEMMA CacheInvHolds == SafeSpec => []CacheInv
<1>1. CacheInv /\ [Next]_vars => CacheInv'
  <2> SUFFICES ASSUME CacheInv, [Next]_vars
               PROVE  CacheInv'
    OBVIOUS
  <2>1. CASE NewRequest
    BY <2>1, RequestKeepsInv DEF NewRequest
  <2>2. CASE \E w \in Workers : Step(w) \/ HandlerReturn(w)
    BY <2>2, WorkerKeepsType, WorkerKeepsLock, WorkerKeepsIterator,
       WorkerKeepsAdd, WorkerKeepsCopy, WorkerKeepsFresh DEF CacheInv
  <2>3. CASE CleanerStep
    BY <2>3, CleanerKeepsInv, EraseKeepsInv DEF CleanerStep
  <2>4. CASE \E k \in Keys : Expire(k)
    BY <2>4, ExpireKeepsInv
  <2>5. CASE UNCHANGED vars
    BY <2>5 DEF vars, CacheInv, TypeOK, Present, LockInv, IteratorValid, AddInv,
                NotFoundIsNeverCached, CopyInv, GarbageOnlyIfDisturbed,
                FreshInv, Fresh
  <2> QED
    BY <2>1, <2>2, <2>3, <2>4, <2>5 DEF Next
<1> QED
  BY <1>1, CacheInvInit, PTL DEF SafeSpec

\* The type invariant of the cache and of the threads that use it.
THEOREM CacheTypeCorrect == SafeSpec => []TypeOK
  BY CacheInvHolds, PTL DEF CacheInv

\* The cleaner's unlocked accesses are to entries that exist.
THEOREM IteratorNeverDangles == SafeSpec => []IteratorValid
  BY CacheInvHolds, PTL DEF CacheInv

\* Only a response whose entry expired or was replaced while it was copied can
\* be garbage.
THEOREM GarbageIsExplained == SafeSpec => []GarbageOnlyIfDisturbed
  BY CacheInvHolds, PTL DEF CacheInv, CopyInv

\* A "not found" of the server itself is never served from the cache.
THEOREM NotFoundIsRecomputed == SafeSpec => []NotFoundIsNeverCached
  BY CacheInvHolds, PTL DEF CacheInv, AddInv

\* The lock is held by readers or by a writer, and by nobody who waits for it or
\* is out of handleRequest's critical sections.
THEOREM LockHoldersDoNotWait == SafeSpec => []NobodyWaitsWithTheLock
<1>1. CacheInv => NobodyWaitsWithTheLock
  BY DEF CacheInv, TypeOK, LockInv, NobodyWaitsWithTheLock
<1> QED
  BY <1>1, CacheInvHolds, PTL

\* The steps that do not touch the cache.
LEMMA CacheUntouched ==
  ASSUME \/ NewRequest
         \/ \E w \in Workers : Step(w) /\ ~AddCache(w)
         \/ \E w \in Workers : HandlerReturn(w)
         \/ CleanerStep /\ ~CleanerErase
         \/ UNCHANGED vars
  PROVE  cache' = cache
<1>1. CASE NewRequest
  BY <1>1 DEF NewRequest, Request
<1>2. CASE \E w \in Workers : Step(w) /\ ~AddCache(w)
  BY <1>2 DEF Step, RdLock, Hit, CopyEntry, Miss, NotFound, AddLock
<1>3. CASE \E w \in Workers : HandlerReturn(w)
  BY <1>3 DEF HandlerReturn, Uncached, ToBeCached
<1>4. CASE CleanerStep /\ ~CleanerErase
  BY <1>4 DEF CleanerStep, CleanerBegin, CleanerEnd, CleanerTest, CleanerLock,
              CleanerSpare
<1>5. CASE UNCHANGED vars
  BY <1>5 DEF vars
<1> QED
  BY <1>1, <1>2, <1>3, <1>4, <1>5

\* The cleaner's second test, under the lock, protects what was cached between
\* the two.
THEOREM CleanerErasesOnlyExpired == SafeSpec => EraseOnlyExpired
<1>1. CacheInv /\ [Next]_vars
        => [\A k \in Present : cache[k].valid => k \in Present']_vars
  <2> SUFFICES ASSUME CacheInv, Next, NEW k \in Present, cache[k].valid
               PROVE  k \in Present'
    BY DEF vars, Present
  <2>1. CASE \E w \in Workers : AddCache(w)
    BY <2>1 DEF AddCache, Present
  <2>2. CASE CleanerErase
    <3>1. k # it
      BY <2>2 DEF CleanerErase
    <3> QED
      BY <2>2, <3>1 DEF CleanerErase, Restrict, Present
  <2>3. CASE \E j \in Keys : Expire(j)
    BY <2>3 DEF Expire, Present, CacheInv, TypeOK
  <2> QED
    BY <2>1, <2>2, <2>3, CacheUntouched DEF Next, Present
<1> QED
  BY <1>1, CacheInvHolds, PTL DEF SafeSpec, EraseOnlyExpired

\* The lock keeps what a worker has found in place until the worker releases it.
THEOREM FoundEntryIsStable == SafeSpec => StableUnderLock
<1>1. CacheInv /\ [Next]_vars
        => [\A w \in Workers : w \in readers /\ w \in readers' =>
              /\ Present' = Present
              /\ \A k \in Present : cache'[k].response = cache[k].response]_vars
  <2> SUFFICES ASSUME CacheInv, Next, readers # {}
               PROVE  /\ Present' = Present
                      /\ \A k \in Present : cache'[k].response = cache[k].response
    BY DEF vars, Present
  <2>1. writer = NoThread
    BY DEF CacheInv, LockInv
  <2>2. ~CleanerErase /\ ~\E w \in Workers : AddCache(w)
    BY <2>1, CacheAssumption DEF CacheInv, LockInv, CleanerErase, AddCache
  <2>3. CASE \E j \in Keys : Expire(j)
    <3>1. PICK j \in Present : /\ cache[j] \in Entries
                              /\ cache' = [cache EXCEPT ![j] = [cache[j] EXCEPT !.valid = FALSE]]
      BY <2>3 DEF Expire, CacheInv, TypeOK
    <3>2. [cache[j] EXCEPT !.valid = FALSE].response = cache[j].response
      BY <3>1 DEF Entries
    <3> QED
      BY <3>1, <3>2 DEF Present, CacheInv, TypeOK
  <2> QED
    BY <2>2, <2>3, CacheUntouched DEF Next, Present
<1> QED
  BY <1>1, CacheInvHolds, PTL DEF SafeSpec, StableUnderLock

\* Only CopyEntry ends a copy.
LEMMA CopyEnds ==
  ASSUME CacheInv, Next, NEW w \in Workers, pc[w] = "copy", pc'[w] = "idle"
  PROVE  CopyEntry(w)
<1> USE DEF CacheInv, TypeOK
<1>1. CASE NewRequest
  BY <1>1 DEF NewRequest, Request, Goto
<1>2. CASE \E v \in Workers : Step(v) \/ HandlerReturn(v)
  <2>1. PICK v \in Workers : Step(v) \/ HandlerReturn(v)
    BY <1>2
  <2>2. v = w
    BY <2>1 DEF Step, HandlerReturn, RdLock, Hit, CopyEntry, Miss, NotFound,
                AddLock, AddCache, Uncached, ToBeCached, Finish, Goto
  <2> QED
    BY <2>1, <2>2 DEF Step, HandlerReturn, RdLock, Hit, Miss, NotFound,
                      AddLock, AddCache, Uncached, ToBeCached
<1>3. CASE CleanerStep
  BY <1>3 DEF CleanerStep, CleanerBegin, CleanerEnd, CleanerTest, CleanerLock,
              CleanerErase, CleanerSpare, CleanerGoto
<1>4. CASE \E k \in Keys : Expire(k)
  BY <1>4 DEF Expire
<1> QED
  BY <1>1, <1>2, <1>3, <1>4 DEF Next

\* A copy without the lock that nothing has disturbed gives what a copy under
\* the lock would have given.
THEOREM UndisturbedCopyIsExact == SafeSpec => UndisturbedCopyIsCurrent
<1>1. CacheInv /\ [Next]_vars
        => [\A w \in Workers :
              pc[w] = "copy" /\ pc'[w] = "idle" /\ ~disturbed[w] =>
                /\ key[w] \in Present /\ cache[key[w]].valid
                /\ answer'[w] = cache[key[w]].response]_vars
  <2> SUFFICES ASSUME CacheInv, Next, NEW w \in Workers,
                      pc[w] = "copy", pc'[w] = "idle", ~disturbed[w]
               PROVE  /\ Fresh(key[w])
                      /\ answer'[w] = cache[key[w]].response
    BY DEF vars, Fresh
  <2>1. Fresh(key[w]) /\ possible[w] = {cache[key[w]].response}
    BY DEF CacheInv, FreshInv
  <2>2. PICK r \in possible[w] : Finish(w, r)
    BY CopyEnds DEF CopyEntry
  <2> QED
    BY <2>1, <2>2 DEF CacheInv, TypeOK, Finish
<1> QED
  BY <1>1, CacheInvHolds, PTL DEF SafeSpec, UndisturbedCopyIsCurrent
=============================================================================
