---------------------------- MODULE ResponseCache ----------------------------
(***************************************************************************)
(* The response cache of libHerd.cpp: the unordered_map                    *)
(* RequestHandler::cache and the read-write lock cache_lock, used by the   *)
(* worker threads (handleRequest, add_cache) and the cleaner thread.       *)
(*                                                                         *)
(* Two accesses are made without the lock and decide the granularity:      *)
(* handleRequest copies the entry it found after it has released the lock, *)
(* and the cleaner evaluates begin() and is_valid() before it takes it.    *)
(* What is done while the lock is held in write mode is one action, for    *)
(* the unlocked accesses see it as before or as after (a copy that         *)
(* overlaps it: see "possible").                                           *)
(*                                                                         *)
(* An entry is abstracted to what the threads tell apart: the code of the  *)
(* response, and whether expires > get_time().  Time passes in Expire.     *)
(***************************************************************************)
EXTENDS Naturals, FiniteSets, Functions

CONSTANTS Workers,    \* the worker threads
          Cleaner,    \* the thread of RequestHandler::cleanerThread
          NoThread,   \* nobody holds cache_lock in write mode
          Keys,       \* the values of compute_hash
          Routed,     \* those of them for which some handler's pattern matches
          NoKey,      \* "no request", and the end() iterator of the cleaner
          NoAnswer,   \* handleRequest has not returned
          Garbage     \* what a copy of freed or half-written memory gives

Responses == {"handler", "not found", "internal error"}

\* An entry: the response, whether it is still valid, and whether its time to
\* live is so long that it never ends.
Entries == [response : Responses, valid : BOOLEAN, lasting : BOOLEAN]

ASSUME CacheAssumption ==
    /\ NoThread \notin Workers \cup {Cleaner}
    /\ Cleaner \notin Workers
    /\ Routed \subseteq Keys
    /\ NoKey \notin Keys
    /\ NoAnswer \notin Responses \cup Entries
    /\ Garbage \notin Responses
    /\ NoAnswer # Garbage

VARIABLES cache,     \* from the keys present to their entries
          readers,   \* the workers that hold cache_lock in read mode
          writer,    \* the thread that holds it in write mode
          pc,        \* where each worker is in handleRequest
          key,       \* cache_key
          response,  \* the response a worker is about to put in the cache
          possible,  \* the values the copy of the entry found may yield
          disturbed, \* history: the entry found has expired or was replaced
                     \* since the lock was released
          answer,    \* what the last call of handleRequest returned
          cleaner,   \* where the cleaner is
          it         \* its iterator

vars == <<cache, readers, writer, pc, key, response, possible, disturbed,
          answer, cleaner, it>>

Present == DOMAIN cache

\* The results of a handler that returns and asks for the response to be
\* cached (the time to live is finite and not over), and of one that throws:
\* "result" is then read without having been written.
Cached(r) == [response |-> r, valid |-> TRUE, lasting |-> FALSE]
Uninitialised(r) == [response : {r}, valid : BOOLEAN, lasting : BOOLEAN]

Init ==
    /\ cache = [k \in {} |-> Cached("handler")]
    /\ readers = {} /\ writer = NoThread
    /\ pc = [w \in Workers |-> "idle"]
    /\ key = [w \in Workers |-> NoKey]
    /\ response = [w \in Workers |-> NoAnswer]
    /\ possible = [w \in Workers |-> {}]
    /\ disturbed = [w \in Workers |-> FALSE]
    /\ answer = [w \in Workers |-> NoAnswer]
    /\ cleaner = "sleep" /\ it = NoKey

\* The workers that copy the entry of k without holding the lock.
Copying(k) == {w \in Workers : pc[w] = "copy" /\ key[w] = k}

\* The entry of k is written or freed under their eyes: besides what they could
\* have read, they may read any value of "more".
MayRead(k, more) ==
    possible' = [w \in Workers |->
                   IF w \in Copying(k) THEN possible[w] \cup more ELSE possible[w]]

Disturb(k) == disturbed' = [w \in Workers |-> disturbed[w] \/ w \in Copying(k)]

-----------------------------------------------------------------------------
(* The workers: handleRequest *)

Goto(w, loc) == pc' = [pc EXCEPT ![w] = loc]

Finish(w, r) ==
    /\ Goto(w, "idle")
    /\ key' = [key EXCEPT ![w] = NoKey]
    /\ answer' = [answer EXCEPT ![w] = r]

\* handleClient calls handleRequest.
Request(w, k) ==
    /\ pc[w] = "idle"
    /\ Goto(w, "rdlock")
    /\ key' = [key EXCEPT ![w] = k]
    /\ answer' = [answer EXCEPT ![w] = NoAnswer]
    /\ disturbed' = [disturbed EXCEPT ![w] = FALSE]
    /\ UNCHANGED <<cache, readers, writer, response, possible, cleaner, it>>

RdLock(w) ==
    /\ pc[w] = "rdlock" /\ writer = NoThread
    /\ readers' = readers \cup {w}
    /\ Goto(w, "find")
    /\ UNCHANGED <<cache, writer, key, response, possible, disturbed, answer,
                   cleaner, it>>

RdUnlock(w) == readers' = readers \ {w}

\* Mutant: the unlock before the return is forgotten.
HitWithoutUnlock(w) ==
    /\ pc[w] = "find"
    /\ key[w] \in Present /\ cache[key[w]].valid
    /\ Goto(w, "copy")
    /\ possible' = [possible EXCEPT ![w] = {cache[key[w]].response}]
    /\ UNCHANGED <<cache, readers, writer, key, response, disturbed, answer,
                   cleaner, it>>

\* Mutant: an entry is used whether its time is over or not.
HitExpired(w) ==
    /\ pc[w] = "find"
    /\ key[w] \in Present
    /\ RdUnlock(w)
    /\ Goto(w, "copy")
    /\ possible' = [possible EXCEPT ![w] = {cache[key[w]].response}]
    /\ UNCHANGED <<cache, writer, key, response, disturbed, answer, cleaner, it>>

\* The entry found is valid: the lock is released, the entry is copied later.
Hit(w) ==
    /\ pc[w] = "find"
    /\ key[w] \in Present /\ cache[key[w]].valid
    /\ RdUnlock(w)
    /\ Goto(w, "copy")
    /\ possible' = [possible EXCEPT ![w] = {cache[key[w]].response}]
    /\ UNCHANGED <<cache, writer, key, response, disturbed, answer, cleaner, it>>

CopyEntry(w) ==
    /\ pc[w] = "copy"
    /\ \E r \in possible[w] : Finish(w, r)
    /\ possible' = [possible EXCEPT ![w] = {}]
    /\ UNCHANGED <<cache, readers, writer, response, disturbed, cleaner, it>>

\* Mutant: a response is cached although no handler was called.
MissWithoutHandler(w) ==
    /\ pc[w] = "find"
    /\ key[w] \in Present => ~cache[key[w]].valid
    /\ key[w] \in Routed
    /\ RdUnlock(w)
    /\ Goto(w, "wrlock")
    /\ UNCHANGED <<cache, writer, key, response, possible, disturbed, answer,
                   cleaner, it>>

\* No valid entry, and a handler's pattern matches the path ...
Miss(w) ==
    /\ pc[w] = "find"
    /\ key[w] \in Present => ~cache[key[w]].valid
    /\ key[w] \in Routed
    /\ RdUnlock(w)
    /\ Goto(w, "handler")
    /\ UNCHANGED <<cache, writer, key, response, possible, disturbed, answer,
                   cleaner, it>>

\* ... or none does.
NotFound(w) ==
    /\ pc[w] = "find"
    /\ key[w] \in Present => ~cache[key[w]].valid
    /\ key[w] \notin Routed
    /\ RdUnlock(w)
    /\ Finish(w, "not found")
    /\ UNCHANGED <<cache, writer, response, possible, disturbed, cleaner, it>>

\* The handler is done and its response is not to be cached: it refused the
\* request (result.ok), did not ask for it (result.cached), or threw and the
\* uninitialised result says either.
Uncached(w) ==
    /\ pc[w] = "handler"
    /\ \E r \in Responses : Finish(w, r)
    /\ UNCHANGED <<cache, readers, writer, response, possible, disturbed,
                   cleaner, it>>

\* The handler is done and add_cache is called.
ToBeCached(w) ==
    /\ pc[w] = "handler"
    /\ \E e \in {Cached("handler")} \cup Uninitialised("internal error") :
         response' = [response EXCEPT ![w] = e]
    /\ Goto(w, "wrlock")
    /\ UNCHANGED <<cache, readers, writer, key, possible, disturbed, answer,
                   cleaner, it>>

\* Mutant: add_cache takes the lock in read mode.
AddLockShared(w) ==
    /\ pc[w] = "wrlock" /\ writer = NoThread
    /\ writer' = w
    /\ Goto(w, "add")
    /\ UNCHANGED <<cache, readers, key, response, possible, disturbed, answer,
                   cleaner, it>>

AddLock(w) ==
    /\ pc[w] = "wrlock" /\ writer = NoThread /\ readers = {}
    /\ writer' = w
    /\ Goto(w, "add")
    /\ UNCHANGED <<cache, readers, key, response, possible, disturbed, answer,
                   cleaner, it>>

\* add_cache: the entry is created or replaced, and the lock is released.
AddCache(w) ==
    /\ pc[w] = "add"
    /\ cache' = [k \in Present \cup {key[w]} |->
                   IF k = key[w] THEN response[w] ELSE cache[k]]
    /\ writer' = NoThread
    /\ Finish(w, response[w].response)
    /\ response' = [response EXCEPT ![w] = NoAnswer]
    /\ MayRead(key[w], {response[w].response, Garbage})
    /\ Disturb(key[w])
    /\ UNCHANGED <<readers, cleaner, it>>

HandlerReturn(w) == Uncached(w) \/ ToBeCached(w)

Step(w) ==
    \/ RdLock(w) \/ Hit(w) \/ CopyEntry(w) \/ Miss(w) \/ NotFound(w)
    \/ AddLock(w) \/ AddCache(w)

-----------------------------------------------------------------------------
(* The cleaner: cleanerThread *)

CleanerGoto(loc) ==
    /\ cleaner' = loc
    /\ UNCHANGED <<pc, key, response, answer>>

\* it = cache.begin(), after five seconds or after an entry was looked at under
\* the lock.  Which entry is first depends on the hash table.
CleanerBegin ==
    /\ cleaner \in {"sleep", "begin"} /\ Present # {}
    /\ it' \in Present
    /\ CleanerGoto("test")
    /\ UNCHANGED <<cache, readers, writer, possible, disturbed>>

CleanerEnd ==
    /\ cleaner = "begin" /\ Present = {}
    /\ it' = NoKey
    /\ CleanerGoto("sleep")
    /\ UNCHANGED <<cache, readers, writer, possible, disturbed>>

\* is_valid() without the lock.  While the entry is valid the loop spins here:
\* "it" is not advanced.
CleanerTest ==
    /\ cleaner = "test"
    /\ ~cache[it].valid
    /\ CleanerGoto("wrlock")
    /\ UNCHANGED <<cache, readers, writer, possible, disturbed, it>>

CleanerLock ==
    /\ cleaner = "wrlock" /\ writer = NoThread /\ readers = {}
    /\ writer' = Cleaner
    /\ CleanerGoto("retest")
    /\ UNCHANGED <<cache, readers, possible, disturbed, it>>

\* Mutant: there is no second test.
CleanerEraseUntested ==
    /\ cleaner = "retest"
    /\ cache' = Restrict(cache, Present \ {it})
    /\ MayRead(it, {Garbage})
    /\ writer' = NoThread
    /\ CleanerGoto("begin")
    /\ UNCHANGED <<readers, disturbed, it>>

\* Mutant: the loop goes on with the iterator of the erased entry.
CleanerEraseInPlace ==
    /\ cleaner = "retest"
    /\ ~cache[it].valid
    /\ cache' = Restrict(cache, Present \ {it})
    /\ MayRead(it, {Garbage})
    /\ writer' = NoThread
    /\ CleanerGoto("test")
    /\ UNCHANGED <<readers, disturbed, it>>

\* is_valid() again, with the lock.
CleanerErase ==
    /\ cleaner = "retest"
    /\ ~cache[it].valid
    /\ cache' = Restrict(cache, Present \ {it})
    /\ MayRead(it, {Garbage})
    /\ writer' = NoThread
    /\ CleanerGoto("begin")
    /\ UNCHANGED <<readers, disturbed, it>>

\* Mutant: the lock is released only after an erase.
CleanerSpareLocked ==
    /\ cleaner = "retest"
    /\ cache[it].valid
    /\ CleanerGoto("begin")
    /\ UNCHANGED <<cache, readers, writer, possible, disturbed, it>>

\* The entry was replaced between the two tests.
CleanerSpare ==
    /\ cleaner = "retest"
    /\ cache[it].valid
    /\ writer' = NoThread
    /\ CleanerGoto("begin")
    /\ UNCHANGED <<cache, readers, possible, disturbed, it>>

CleanerStep ==
    \/ CleanerBegin \/ CleanerEnd \/ CleanerTest \/ CleanerLock
    \/ CleanerErase \/ CleanerSpare

-----------------------------------------------------------------------------
\* The time to live of an entry ends.
Expire(k) ==
    /\ k \in Present /\ cache[k].valid /\ ~cache[k].lasting
    /\ cache' = [cache EXCEPT ![k].valid = FALSE]
    /\ Disturb(k)
    /\ UNCHANGED <<readers, writer, pc, key, response, possible, answer, cleaner,
                   it>>

NewRequest == \E w \in Workers, k \in Keys : Request(w, k)

Next ==
    \/ NewRequest
    \/ \E w \in Workers : Step(w) \/ HandlerReturn(w)
    \/ CleanerStep
    \/ \E k \in Keys : Expire(k)

SafeSpec == Init /\ [][Next]_vars

\* Threads that can run do run, and time passes.  Nothing obliges a client to
\* send a request, or a handler to return.
Spec ==
    /\ SafeSpec
    /\ \A w \in Workers : WF_vars(Step(w))
    /\ WF_vars(CleanerStep)
    /\ \A k \in Keys : WF_vars(Expire(k))

-----------------------------------------------------------------------------
(* Properties *)

WorkerLocations == {"idle", "rdlock", "find", "copy", "handler", "wrlock", "add"}

CleanerLocations == {"sleep", "begin", "test", "wrlock", "retest"}

\* Types: a worker has a key exactly while it is inside handleRequest.
TypeOK ==
    /\ Present \subseteq Keys /\ cache \in [Present -> Entries]
    /\ readers \subseteq Workers
    /\ writer \in Workers \cup {Cleaner, NoThread}
    /\ pc \in [Workers -> WorkerLocations]
    /\ key \in [Workers -> Keys \cup {NoKey}]
    /\ \A w \in Workers : pc[w] = "idle" <=> key[w] = NoKey
    /\ response \in [Workers -> Entries \cup {NoAnswer}]
    /\ \A w \in Workers : pc[w] \in {"wrlock", "add"} => response[w] # NoAnswer
    /\ possible \in [Workers -> SUBSET (Responses \cup {Garbage})]
    /\ disturbed \in [Workers -> BOOLEAN]
    /\ answer \in [Workers -> Responses \cup {Garbage, NoAnswer}]
    /\ cleaner \in CleanerLocations
    /\ it \in Keys \cup {NoKey}

\* The cleaner dereferences its iterator without the lock, and still never
\* after the entry is gone: no other thread erases, and it takes a new iterator
\* after it has erased.
IteratorValid == cleaner \in {"test", "wrlock", "retest"} => it \in Present

\* Although the cleaner picks its victim without the lock, an entry that is
\* still valid is never removed: a response cached between the two tests stays.
EraseOnlyExpired == [][\A k \in Present : cache[k].valid => k \in Present']_vars

\* What a worker found stays what it is until the worker releases the lock:
\* between find and unlock nobody changes an entry, but for the time.
StableUnderLock ==
    [][\A w \in Workers : w \in readers /\ w \in readers' =>
         /\ Present' = Present
         /\ \A k \in Present : cache'[k].response = cache[k].response]_vars

\* handleRequest copies the entry after it has released the lock, so the copy
\* may be garbage; but only if in that moment the entry's time ended, or another
\* worker, which had missed the same key, replaced it.
GarbageOnlyIfDisturbed ==
    \A w \in Workers : answer[w] = Garbage => disturbed[w]

\* A copy made without the lock that nothing has disturbed is as good as one made
\* under it: the entry is still there and still valid, and the client is given
\* what it holds at that moment.
UndisturbedCopyIsCurrent ==
    [][\A w \in Workers :
         pc[w] = "copy" /\ pc'[w] = "idle" /\ ~disturbed[w] =>
           /\ key[w] \in Present /\ cache[key[w]].valid
           /\ answer'[w] = cache[key[w]].response]_vars

\* cache_lock is never in two minds, and whoever waits for it, runs a handler
\* (which may take for ever) or is back from handleRequest does not hold it: no
\* thread waits for itself, and a handler holds up nobody.
NobodyWaitsWithTheLock ==
    /\ writer # NoThread => readers = {}
    /\ \A w \in Workers : w \in readers \/ w = writer => pc[w] \in {"find", "add"}
    /\ writer = Cleaner => cleaner = "retest"

\* "Not found" is not cached, whether no handler matched or the handler refused
\* the request: the answer can change with the next request.
NotFoundIsNeverCached ==
    \A k \in Present : k \in Routed /\ cache[k].response # "not found"

\* Once no more requests come in, each one that did gets its answer, unless it
\* is held up inside a handler, which holds up nobody else.  (While requests
\* come in, glibc's lock prefers readers, and add_cache can starve.)
AnsweredOnceQuiet ==
    <>[][~NewRequest]_vars
        => <>[](\A w \in Workers : pc[w] \in {"idle", "handler"})

\* And the cache drains, unless a handler threw and the uninitialised time to
\* live of its response was for ever: the cleaner then never gets past it, and
\* what else has expired stays as well.
DrainsOnceQuiet ==
    <>[][~NewRequest]_vars =>
        <>[](Present = {} \/ \E k \in Present : cache[k].lasting)
=============================================================================
