# Saiga in TLA+

Specifications of Saiga, a small multi-threaded HTTP server in C++ with an HTTP
client, a connector to backend processes and a Python backend. The modules are
translations of the code; each definition that stands for code is listed in
`PROJECT.json` ("map") with the lines it stands for. TLC checks small instances,
TLAPS proves the theorems for every value of the constants.

## 1. The system

| Component | State | Operations | Interaction |
|---|---|---|---|
| Client queue (`libHerd.cpp:7-40`) | `client_queue`, `queue_mutex`, `queue_cond` | `queue_add`, `queue_get` | the acceptor pushes accepted sockets, 128 workers pop them |
| Threads of the server (`libHerd.cpp:409-563`, `main` of `saiga-server.cpp`) | `running`, `RequestHandler::running`, `master_socket`, `handler_threads`, `global_connection_count` | `init`, `start`, `run`, `stop` | main creates workers, acceptor and cleaner; shared flags and counter without a lock |
| Response cache (`libHerd.cpp:43-141`, `311-404`) | `cache`, `cache_lock` | `handleRequest`, `add_cache`, `cleanerThread` | workers look up and insert, the cleaner erases |
| Session of a client (`libHerd.cpp:144-309`) | `content`, `body`, `request`, `request_counter` | `handleClient` | bytes from `Connection::receive`, requests to `handleRequest`, answers to `Connection::send` |
| Connection (`libConnection.cpp`) | `fd`, `connected`, `timeout`, `own_sock` | `start`, `send`, `receive`, `disconnect` | sockets of the system |
| HTTP messages, URIs (`libHttpMessage.cpp`) | header map, body; host, port, path | setters, `serialize`, `parse` | used by client and server |
| HTTP client (`libHttpClient.cpp`, `saiga-client.cpp`) | `conn`, `payload` | `do_get`, `do_head`, `do_put`, `receive_message` | `Connection`, the codecs |
| Connector (`libSaigaConnector.cpp`, `handler_connector`) | `conn`, `connected` | `start`, `process` | a Unix socket to the backend, one call per request |
| Python backend (`Connector/`) | `counter`, one thread per message | `get_message`, `send_message`, `default_page` | answers the connector |
| Codecs (`libCompression.cpp`, `libBase64.cpp`, `libUtils.cpp`) | none | pure functions | used by client and server |
| Multiplexer (`libSelect.cpp`), SSL (`libSSLConnection.cpp`), `libHtml.py` | | | unfinished, not built, text only |

What is hard in it:

* **Concurrency**: the queue signals only on the change from empty to non-empty;
  the cache is read after its lock was released and by the cleaner without it; the
  connection counter has no lock; `stop()` meets threads that sleep.
* **Ordering and framing**: TCP cuts requests anywhere, and `handleClient` splits
  and rejoins what it got, does not reset its request between two of them, and
  reads chunks with a loop of its own.
* **Failure**: timeouts inside each of the receive loops, exceptions of types that
  nobody catches, a handler that throws and leaves `result` uninitialised.
* **Boundaries**: contents around multiples of the zlib buffer, the last group in
  base64, the 16 requests of a connection.

What makes each component correct:

* Client queue: each accepted socket is handed to one worker, in order; none is
  stranded while workers sleep.
* Threads: `stop()` returns; nothing is queued after the listening socket was
  closed; until then every connection is served, if handlers return; the counter counts.
* Cache: no valid entry is erased, no error 404 is kept, the unlocked iterator stays
  valid, a copy is damaged only if the entry was disturbed; requests are answered.
* Session: what `handleRequest` sees is what the peer sent, however it was cut;
  the server does not wait for what it has; the connection ends where it should.
* Connection and connector: descriptors are closed once, by their owner; a call ends;
  both sides agree on the framing.
* HTTP client: a call that succeeds has its own whole response, from the host it named; every call ends.
* Codecs: the whole content, once, in order; what was encoded is decoded; what one side writes the other reads.

`PROJECT.json` ("hazards") lists each danger at the line where it bites, with the
properties that are about it.

## 2. Modules

| Module | Models | Kind |
|---|---|---|
| `FifoDispatch` | what the client queue promises | abstract specification |
| `ClientQueue` | `queue_add`, `queue_get`, the loop of `workerThread` | detailed; refines `FifoDispatch` |
| `ThreadHerd` | `ThreadHerd`, `main`, `global_connection_count`; extends `ClientQueue` | composition |
| `ResponseCache` | `handleRequest`, `add_cache`, `cleanerThread` | detailed |
| `Connector` | `SaigaConnector`, `handler_connector`, the Python backend, the server's descriptors | detailed, two processes |
| `LibUtils` | `split_string` and the parts of `std::string` used | operators |
| `HttpBytes` | the bytes of HTTP messages, and what `receive` takes of them | operators, of both ends |
| `HandleClient` | `handleClient`, `Connection::receive` as it sees it | detailed, byte level |
| `HttpClient` | `HttpClient` and its `Connection`, used several times | detailed, byte level |
| `Chunking` | the loop of the four functions of `libCompression.cpp` | detailed |
| `Base64` | `libBase64.cpp` against RFC 4880 | operators |
| `Uri` | `URI::parse` | operators |
| `Fields` | names and values on the wire of the connector and as header fields, written and read | operators |
| `Codecs` | `Base64`, `Uri` and `Fields` on inputs that grow | inputs and properties |
| `ThreadHerdProofs` (with the client queue), `ResponseCacheProofs`, `ChunkingProofs`, `ConnectorProofs`, `HandleClientProofs`, `HttpClientProofs`, `CodecsProofs` | theorems | proofs |
| `HttpBytesProofs` | what `find` and `split_string` return, and what a piece of a message says | lemmas, for both ends |
| `MCClientQueue`, `MCThreadHerd`, `MCResponseCache`, `MCHandleClient`, `MCHttpClient`, `MCCodecs`, `MCConnector` | values of the constants | model checking |

Definitions that begin with the comment "Mutant:" are not part of a specification.
Each is a definition of the module with a plausible mistake; put in the place of the
original it makes TLC find the property that `PROJECT.json` ("mutants") names violated.

### Granularity and correspondence

*`ClientQueue`*. Everything done under `queue_mutex` is one action, since all accesses
to the queue are; `pthread_cond_wait` splits `queue_get` into falling asleep
(`WaitForClient`), waking (`Signal` of a `QueueAdd`, or `SpuriousWake`) and getting the
mutex back (`QueueGet` from "woken"). A signal wakes at most one sleeper; POSIX's
"at least one" is covered by spurious wake-ups. Sockets are distinct values:
a number that the system reuses after `close` counts as a new one.

*`ThreadHerd`*. One action per step of the main thread that another thread can see,
of the acceptor, and of a worker; `++` and `--` of the counter are a load and a store.
`Fail` is an exception of `init` or `start`, which `main` catches and returns.
When `main` returns the process is gone and no thread takes another step.

*`ResponseCache`*. A worker is at "rdlock", "find" (holding the lock), "copy" (after the
unlock), "handler", "wrlock", "add". Reads of an entry that overlap an erase or a
replacement are undefined behaviour: `possible` holds what the copy can yield, the old
response, the new one, or `Garbage`. An entry is its response code and whether its time is
over (`Expire`), or will never be. A `result` that was not written is any value. The
handler itself is abstract: it may return either way, throw or never return.
The value of a response (its body, its encoding) is not modelled.

*`HandleClient`*. A byte is a byte wherever the code counts or searches; the request line
with the header lines is one byte, "head", and so is the number of a chunk, for the
code does not look at them before a line or blank line is complete. The peer is external: it
sends requests, at any time, and the network delivers them in pieces of any
size. A request has a method that handles a body ("PUT", which stands for POST as well) or does not ("GET", all others); a body of no kind, with a
length, in chunks, or with a `Transfer-Encoding` that is not exactly `chunked` ("coded"), whose body is not received; and a head. A head may be "whole",
"bare" (no header line: `InvalidHead`), "blank" (a field has no name or no value but white space: `trim` throws) or "short" (a line without a value: a vector is
read beyond its end, and the process ends or goes on). A failure of `receive` (timeout or end) can happen whenever it is called. `trim` of
an empty string and element 0 of an empty vector end the process ("crashed", in `BadField`, `ParseSize`, `EmptyHead`). `handleRequest` and the `send` of
its answer are a step each, `Handle` and `Send`, for each can take for ever.

*`HttpClient`*. The other end, with bytes as in `HandleClient`. `Call` is the beginning of `do_get`, `do_head` or `do_put` up to the
tests of `Connection::start`; then there is an action for each system call that can fail or wait, and one for each step of `receive_message` between two
of them. The server is external: it reads, answers in order, with a length, in chunks, with neither, with another
`Transfer-Encoding` or until it closes, and may close at any moment and lose what was on its way. What fails for the client is
`getaddrinfo`, `connect` (for each address), `send` (no connection, timeout, closed) and `receive`, in which a timeout and the end of the
connection are the same step; both only happen when there is nothing to read. A `socket` that fails has no action, for `start` then tries the same
address again. A request has more parts than the system buffers if it is a PUT, and `write` waits for the room, without a timeout. Without a connection
`receive` first uses a descriptor that was never written, which may end the program ("crashed"), as may a head without a first line, a
size line that is empty, and a head of the server that is "blank" or "short" (`BadField`; here a response line without a reason counts as well). A URL that is not one makes
`URI` throw before anything has happened, and `saiga-client` does not catch it around `do_put`: the program ends ("thrown", in `CallThrows`). `payload` is one object for all responses: its header fields are those that any of them had. `results` records what each call
returned and what the server had answered. The program that calls is any: `saiga-client` makes one call, and the class lets its
object be used again. Left out: descriptors of failed `connect`s, which are not closed; the constructor that takes a
`Connection`, which no program uses; `authentication`, which changes only the content of a request.

*`Codecs`*. Functions of strings, which are sequences of octets here (of ASCII in `Uri` and `Fields`). `Base64`, `Uri` and `Fields` hold the translations, and `Codecs` lets
a text, a URL or a map grow up to a bound and states what the functions make of it. A C++ exception is a value, `Invalid` or `Thrown`.

*`Connector`*. Two processes, either of which may end at any time (`ServerExit`, `BackendExit`) and be
started again. `file` is the table of descriptors of the server: a new descriptor has the lowest free number, and a number
says what it stands for now, not what it stood for when a worker got it. A link is a Unix socket: bytes `up` and `down`
in pieces of any size, and two ends that are open or closed. A length takes `LenSize` bytes and a pair of key
and value one; the framing of the pairs inside a message is in `Fields`; the values are left out (a "status" that is there is "ok").
`Refuse` is a failed `start`: the destructor of a `Connection` that never had a socket closes
an uninitialised number, which is any number or none. If somebody counted on it, `undefined` is
true and the workers' steps end until the server process is started again: what threads do on each other's sockets is not modelled.
The read of a Python socket that is closed has no action, since the loops around it change nothing. `Begin` and
`Reply` stand for the worker around the handler, one request for each connection of a client; `HandleClient` has the details. `Reply` contains the `send` to the HTTP
client; it may never come, and `CallStep` are the other steps of a worker.

*`Chunking`*. The content is an interval of positions; a piece is where it lies. The
constant `Format` chooses between the two ways of cutting. zlib is external.

## 3. Runs

| Run | Bounds | Shows |
|---|---|---|
| `queue` | 3 workers, 4 sockets | no lost wake-up, each socket once, refinement of `FifoDispatch` with fairness |
| `herd` | 2 workers, 3 sockets | types, also of the queue; `stop()` returns, the queue only drains after it, until then connections are served and what is queued has a worker |
| `global_count` | 2 workers, 3 sockets | **violation**: an update of `global_connection_count` is lost |
| `cache` | 3 workers, 3 keys (2 with a handler), symmetric | the safety of the unlocked accesses, what a copy without the lock is worth, who holds the lock |
| `cache_quiet` | 2 workers, 3 keys | requests are answered and the cache drains |
| `client` | any 2 requests of 14 kinds, any 3 of the 6 usual ones, limit 1 | framing, closing, what ends the server, and return of `handleClient` |
| `connector` | 2 workers, 2 calls, 4 numbers, 1 exit of either process beside the crashes | ownership of descriptors, own and whole answers, what blocks the backend, who waits for whom, that calls end |
| `chunking_gzip` | array of 4, contents of 0 to 40 | the gzip functions: what zlib is fed, and that each step brings the end nearer |
| `chunking_zlib` | the same | **violation**: pieces overlap beyond twice the array |
| `http_client` | 2 calls of 6 kinds, 8 responses, 2 addresses, room for 2 parts of requests | own and whole responses; each call ends, and by what |
| `codecs` | texts up to 5 of 8 octets; URLs up to 9 of 3 octets; maps of up to 2 of 4 names and 42 values | base64 encoder and decoder, `parse`, pairs and header fields |
| `base64_alphabet` | texts up to 2 of 8 octets | **violation**: the table swaps K and L |

Why the bounds are enough: three workers let one sleep, one be woken and one come back at
the same time, and four sockets let the queue hold several meanwhile. In the cache, the
races are between a reader, a writer of the same key and the cleaner, with
another key in the map for the iterator to go to. Three requests reach a connection that was kept
alive twice, and one that is closed by the limit (`Limit` is 15 in the code, 1 here);
bodies of nothing, one byte, two bytes, a line end and a blank line meet each branch of the parser,
each cut everywhere. The requests that the server reads wrongly or not at all (a body of a method that has none, an encoding that is not `chunked`, each bad head) are tried alone, and before
and behind each other request; what they leave behind for a third is of no other kind. In `connector` two calls are under way at once, or one after the other in a worker or across the
restart of a process; either process may end at any point, and the server crash as well. The numbers suffice for both unless one was lost, and `socket` can also fail for other reasons. The answers are a
complete one and one with a header field; an answer without a status gives a 404 that is not the backend's, of which `OwnAnswer` says nothing. A length is one byte (`LenSize` is 8 in the code), so that the run cuts
the contents of the messages but not their lengths; the theorems hold for every `LenSize`.
`GarbageSizes` are the values an unwritten variable is given. In `http_client` the second call meets whatever the first one left behind, in the object (`payload`, `connected`) and on
the way (a late response, the end of a chunked one, a server that has closed); a third would meet nothing of another
kind. Two addresses are one to fail and one to go on with, and a PUT is longer by one than the system buffers. URLs of letters, colons and slashes
up to 9 octets have room for two separators, or for one with a host, a port and a path. The values of `codecs` are all strings up to 3 of a letter, a colon and a blank,
a line end, and one with a length of more than one octet. Octets of the
`codecs` run have each bit pattern at the seams of the 6-bit groups.

The three violations are recorded under "findings" in `PROJECT.json`, with the line of the
repository that says otherwise.

### Fairness

* Workers, acceptor and main thread are scheduled (weak fairness of their steps), and get a
  mutex that is free again and again. Nobody has to connect, press the key, or wake a
  sleeper without a signal.
* `handleClient` need not return: a peer can keep it. Where a property needs that it does,
  this is its hypothesis (`HandlersReturn => ...`, `Handlers => ...`);
  `NoStrandedClient` and `QueuedHasWorker` say what holds without.
* `ResponseCache`: weak fairness for workers and cleaner. A handler need not return. glibc's
  `pthread_rwlock_t` prefers readers, so a waiting writer may starve while requests come
  in; weak fairness says no more, and the liveness properties speak of the time when no
  more do (`<>[][~NewRequest]_vars => ...`). A clock that goes back (`get_time` is not
  monotonic) is not modelled.
* `HandleClient`: `receive` ends after 15 seconds at most (`Connection` has this timeout), and the
  peer has finitely many bytes; between its calls there is computation. There is no fairness for `Handle`, since a handler need not return, nor for `Send`: `write` on
  the blocking socket waits for a peer that does not read.
* `HttpClient`: `getaddrinfo`, `connect`, `select` and `receive` come back after a while (15 seconds for the last two), and the steps between are
  computation (`CallsRun`). Nobody says that `socket` ever succeeds, that the server reads, answers or closes, or that the program calls again.
* `Connector`: the threads of both processes are scheduled (weak fairness), a worker except in `Reply`. No one has to start a backend,
  to send a request, or to read an answer. That the backend's handlers return is a hypothesis of `CallReturns`.
* `CHECK_DEADLOCK FALSE` stands where the system stops: a process that has ended, a connection that is
  closed, the inputs of `Base64` and `Codecs` at their longest, a client that is not called again.

### What the properties say about the code as it is

Several properties hold with an exception that the code makes necessary, and the
exception is the interesting part: `Faithful` and the two beside it only speak of a session until it is
no longer `clean` (after a request with a body, pipelining, a blank line at the end of a segment, a
chunk size that comes late, a `Transfer-Encoding` of a PUT that is not exactly `chunked`, a header line read beyond its end, or a pause of 15 seconds in a chunk behind a line end, what follows is not what the
peer sent, and of the PUT with the other encoding there is only what came with its head; the pause came to light in the proof of `Faithful`); `NoCrashWhileClean` excepts a request whose own head has a field that is blank or
not there, which ends the server at any time; `ReturnsUnlessInChunk`
excepts the chunk loop, which never gives up, the handler, and the write of an answer that the peer does not read; `UndisturbedCopyIsCurrent` excepts the window of
the copy after the unlock, outside of which the copy is as good as one under the lock (and is never garbage: `GarbageOnlyIfDisturbed`, a theorem); `DrainsOnceQuiet` the entry that never expires;
`OneOwner` a refused call that closes a number in use; `CallReturns` and `StuckOnlyAfterExit` a backend whose
only accepting thread spins on the message of a server that is gone, after which each later call waits until the backend is restarted;
`OwnResponse` an object that is no longer `clean`: after a failed call, for another host, after a chunked response (whose blank line is still in the socket), and where header fields of an
earlier response decide on the length or the encoding of a later one; `CallEnds` a
`socket` that keeps failing, a `write` the server does not read from, a URL that is not one, the crash of an object that is not clean, and the crash by a response whose own head has a blank field or lacks a value or
the reason, which an object that is clean meets as well;
`UriParts` a separator at the end of a URL, which is lost, and a port without a slash after it, which stays in the host; `FieldsArrive` names and values that a header line does not keep (`Kept`):
a value that is empty or all blanks throws an exception that nobody catches, a colon at the end is lost. The pairs of the connector arrive whatever is in them.
No property denies the crash of the server by a header field in an answer of the backend (`RespondCrashes`), or that the answer to a request whose handler threw is one of any code and may be cached: that is what the code does.
`CallReturns` is about the call of the backend and ends where its worker has something to send to the HTTP client ("reply").

## 4. Proofs

| Theorem | Statement | Argument |
|---|---|---|
| `QueueTypeCorrect`, `NoLostWakeUp`, `ExactlyOnce` | `QueueTypeOK`, `NoStrandedClient`, `OneWorkerPerClient` | below |
| `ImplementsFifoDispatch` | `QueueSafeSpec => Fifo!SafeSpec` | `QueueAdd` is `Accept`, `TakeClient` is `Dispatch`, all else stutters |
| `UsesClientQueue` | `SafeSpec => QueueSafeSpec` of `ThreadHerd` | each action of the server is one of the queue or leaves it alone, so the theorems above hold in the server |
| `HerdTypeCorrect`, `QueueOnlyDrainsAfterStop`, `ServesUntilStopped` | `TypeOK`, `NothingQueuedAfterStop`, `QueuedHasWorker` of `herd` | below |
| `CacheTypeCorrect`, `IteratorNeverDangles`, `GarbageIsExplained`, `NotFoundIsRecomputed`, `LockHoldersDoNotWait` | the invariants of `cache`, `GarbageOnlyIfDisturbed`, `NotFoundIsNeverCached` | below |
| `CleanerErasesOnlyExpired`, `FoundEntryIsStable`, `UndisturbedCopyIsExact` | the action properties of `cache` | from the same invariant |
| `ConnectorTypeCorrect`, `DescriptorsHaveOneOwner` | `TypeOK`, `OneOwner` of `connector` | below |
| `AnswersAreOwn`, `BackendStuckAfterExit` | `OwnAnswer`, `StuckOnlyAfterExit` of `connector` | below |
| `EveryWaitHasAnEnd` | `NobodyIsForgotten` of `connector` | below |
| `SessionTypesOK`, `SessionEnds` | `TypeOK`, `NothingAfterClose` of `client` | below |
| `RequestsAreFaithful`, `NoCrash` | `Faithful`, `NoCrashWhileClean` of `client` | below |
| `WaitsForThePeerOnly` | `NeverWaitsForNothing` of `client` | from the invariant of `Faithful` |
| `ClientTypesOK`, `ResponsesAreOwn` | `TypeOK`, `OwnResponse` of `http_client` | below |
| `NothingLeftOver`, `NoCrashInStep` | between calls nothing is in the connection; while `clean` the program ends only by the head of the response to this call | from the same invariant |
| `EncodeIsRadix64`, `DecodeGivesBack`; `EncodesRadix64Always`, `RoundTripAlways` | `EncodesRadix64`, `RoundTrip` of `codecs`, for texts of any length | below |
| `UriPartsAlways` | `UriParts` of `codecs`, for URLs of any length | below |
| `FieldsArriveAlways` | `FieldsArrive` of `codecs`, for maps of any size | below |
| `GzipTypeCorrect`, `GzipChunkFits`, `GzipFedTheContent` | the invariants of `chunking_gzip` | below |
| `LoopsAreBounded` | `NearerTheEnd` of `chunking_gzip`, for either `Format` | below |

Assumptions are the named ASSUMEs of the modules: model values that differ from each other, at
least one worker, an array of more than one byte, requests and responses whose body is a string of bytes without the first line of
another message (the peer of `HandleClient` would otherwise have to be told apart from one that sends that message), names and values
of a map that together are shorter than three octets can say (`encode_int` writes eight; the model has the lower three). The sets
of workers, sockets, keys and requests may be infinite.

* *Queue.* `NoStrandedClient` is not inductive: nothing in it prevents the last awake worker from
  falling asleep. What does is that it sleeps only when the queue is empty, and that the push into the empty queue
  wakes somebody; while one is awake it looks at the queue before it sleeps. "A worker is awake
  or the queue is empty" is preserved by each action for this reason. `ExactlyOnce` needs that
  what was handed out and what is queued have no element in common, and a worker's socket is in
  the former.
* *Herd.* After `JoinAcceptor` the acceptor has exited for good, and only the acceptor pushes. The invariant ties
  the place of the main thread to the acceptor's. `QueuedHasWorker` is put together from the two modules: `NoStrandedClient` finds a worker that is awake,
  and `ServingInv` says that it exists and has not left, because only the acceptor fills the queue, which is created when all the workers are.
* *Cache.* The lock excludes: a writer means no readers, and "find" means being a reader. The
  iterator stays valid because only the cleaner erases, and it starts anew afterwards.
  For the garbage: an erase is under the lock and after a second test, so a worker at "copy" whose entry is
  erased was disturbed by its expiry; a replacement disturbs it directly.
  The inductive invariant says of each worker at "copy" which values `possible` may hold:
  as long as nothing has disturbed it, only the response that the entry, still there and still valid, holds (`FreshInv`); a step that changes the
  entry disturbs the workers that copy it. `UndisturbedCopyIsExact` reads this off at the step that ends the copy.
* *Connector.* If each number stands for its worker's own connection and no two workers are on the same call, then no two
  workers have the same number (`Separate`); so what one closes is not what another one has. That calls
  differ needs that they are numbered upwards (`Numbered`).
* *Connector, bytes.* `OwnAnswer` is about what has been read; the invariant (`BytesInv`) has to say where the rest is. What has been
  read of a message, what is on its way and what is missing are together the message (`Requests` for the calls' messages, `Replies` for the
  answers); what is missing is with the worker that sends or with the thread that answers, and otherwise lost with a process that has ended.
  A reader that has all it counts on therefore has the message. `StuckOnlyAfterExit` follows: as
  long as no server process has ended, what `get_message` is short of is on its way or with a worker that is still there.
* *Connector, waiting.* For `NobodyIsForgotten` the invariant (`EndsInv`) adds that each end of a link that is open has somebody who knows of it: the server's
  end a worker that is at it, the backend's end a place in the backlog, in `get_message` or in a thread. A worker that waits therefore is known to the backend.
  When `get_message` waits and is not stuck there is a worker at the other end, and since something of the message is missing (`WaitsForMore`) and none of it is on the way, that worker
  has it and is still in `send`. So there is no circle of waiting, which is the safety half of `CallReturns`.
* *Session.* The types need that a "head" byte is the head of one of the peer's requests (`TypeInv`). `NothingAfterClose` holds even if the framing is
  lost: "connection" of `request` is what the head parsed last says, and only a head that asks for more lets `handleClient` go on
  (`LastWord`, `GoesOnWhileWanted`). For `Faithful` the inductive invariant is `InStep`: while `clean`, what has been received and not used, with what is in
  the network, is exactly what is unread of the current request at the place `pc` (the whole request before its head is parsed; what is missing of the body;
  the chunk, its line end and the last chunk), and nothing if the peer waits. So a session in step that has used up what has arrived, and receives, has answered all that was sent (`NothingMissing`, `EndIsThere`: each
  place where `handleClient` receives is short of something). In the handler the request in hand is the current one (`Handles`); while it is answered, it had a body, which
  spoils the framing, or has left nothing behind (`Sends`). At a crash the head of the current request is one that ends the server (`EndsInHead`), and this is `NoCrash`. `ParseHead` is the hard step. That the parts of `split_string` rejoin
  to what lies behind the blank line needs `HttpBytesProofs`: each part lies between two places where
  the separator is found, and the parts with the separators in between are the string (`PartsLie`, `JoinedParts`).
* *Client.* `OwnResponse` is about calls that have returned; the invariant (`InStep` of `HttpClientProofs`) says of a call under way where its response
  is, as long as the object is `clean`: before the server has answered there are only parts of this call's request; afterwards what has been received and not
  used, what is on its way and what was lost are together the rest of the response from the place `pc` (`Arrives`), and something was lost only if `cut`. Bytes
  arrive one by one until the blank line is there, so no byte behind the head is thrown away with it, as `handleClient` would do. What is left of a
  chunked body (`ToCome`) always begins with a size that tells whether it ended. A call that waits for more although
  nothing was lost contradicts the invariant (`NothingMissing`), and what a call leaves behind when it returns true is nothing (`NothingLeftOver`), except after chunks.
  A crash in step is one with the whole response there and a head that does it (`Fatal`), from which `NoCrashInStep` follows.
* *Base64.* The function by which `base64_encode` recurs is unfolded once and for all: such a function exists because
  the positions go up to an end, and only one does (`FromTheEnd`, `OneSolution`; well-founded induction on sets of positions). So the k-th symbol
  of an encoded string is a closed expression (`EncodedSymbol`), and the rest is arithmetic on the four parts of a group.
* *URL.* `SplitString` is followed from cut to cut: the first part ends at the first separator, and the parts behind it, with the
  separators in between, are a piece of the URL (`UrlIsCut`). It ends with the URL, or before a separator that ends the URL. The rest is cut at the first
  slash and the last colon before it (`RestIsCut`, `AuthorityIsCut`), and pieces that meet are put together again (`UrlIsPutTogether`).
* *Pairs and fields.* What `serialize` writes are strings one behind the other, each at its place (`ConcatIsLaid`). After k rounds the loop that reads
  them is at the place of the k-th pair and has the k pairs before it (`After`, `RoundLeadsOn`); it makes as many rounds as there can be pairs
  (`RoundsSuffice`). A header line is its text and then a line end, which is nowhere before it, for names and values that
  are `Kept` (`LineEndsOnce`); so `split_string` returns the texts (`LinesAreSplit`), and of each text the name and the value (`LineIsParsed`).
  The invariant under it (`FieldsOK`) is that no name is in the map twice.
* *Chunking.* While a piece waits to be fed it reaches from `fed + 1` to `pos`, and is at most
  `CHUNK` long; the rest is linear arithmetic. `Distance` falls with each step also for the zlib pair, whose pieces overlap: `pos` moves all the
  same, and the piece of length 0 comes only at the end. With it the loop takes at most `3 * size + 3` steps; that none of these waits for anybody.

Left to TLC is what says that something happens: `DispatchesAll`, `StopReturns`,
`ServedUnlessStopped`, `AnsweredOnceQuiet`, `DrainsOnceQuiet`, `ReturnsUnlessInChunk`, `CallReturns` and `CallEnds` rest on fairness, hence on
ENABLED, which TLAPS does not reason about. Of most of them the theorems have the safety half, that nobody waits for something that cannot come
(`NoLostWakeUp`, `ServesUntilStopped`, `LockHoldersDoNotWait`, `WaitsForThePeerOnly`, `EveryWaitHasAnEnd`) or that each step leads on (`LoopsAreBounded`).
Every invariant and every action property of the runs that pass is a theorem; `QueueTypeOK` (a part of `TypeOK` in `herd`), `GarbageOnlyIfDisturbed` (which follows
from `UndisturbedCopyIsCurrent`) and `NotFoundIsNeverCached` are theorems without a line of their own in a run. Where a function is recursive, a lemma says that there is such a function, and
induction on a set of numbers what it returns; the induction theorems of the library that take an operator are not used.

## 5. Plan

Done: 1 the client queue, 2 the herd, 3 the cache, 4 the session, 5 compression and base64,
6 the connector and its backend, 7 `Connection`, 8 `HttpClient`, 9 the algorithms checked together (base64, `URI::parse`, pairs
and header fields).

Next, in this order:

10. Requests with more than a key in `ResponseCache`: what a cached response is given to (`Accept-Encoding`, the body of a POST).
11. Composition of sessions, cache and queue at a coarser grain: what a client observes.

## 6. Not modelled

* `libSSLConnection.cpp`: not built into the programs, and a copy of `Connection`.
* `libSelect.cpp`: its `run` does nothing yet and most of its functions have no body.
* `libHtml.py`, `get_gmt_time`, `get_mime_type`, files: text and system calls without state of their own.
* The first line of a message, the `Content-Length` that `serialize` computes, and the setters of `HttpMessage`.
* The choice of a handler by the longest prefix, a loop over a map that is not changed once the server runs.
* The counter of `pythonHandler.py`, which its threads read while the main thread increments it (two requests can show the same number), and the response code and caching time that `handler_connector` makes of an answer.
* Socket options, addresses, the content of responses, the wording of messages.
* Memory exhaustion and exceptions of the library, but for those named under `HandleClient`, `HttpClient` and `Codecs`.
