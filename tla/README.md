# TLA+ models of socnet-cpp

socnet-cpp is a small HTTP server: one event-loop thread on epoll, a pool of
worker threads that read, parse, answer and write, a min-heap of timers that
closes idle connections, and channels that send a response from a buffer, a
mapped file or `sendfile()`. On top of it are services, mounted directories,
sessions, a PHP FastCGI client, form parsers and a JSON library. This directory
holds TLA+ models of these parts, TLC configurations that check them on small
instances, and TLAPS proofs of the safety properties for all values of the
constants. `PROJECT.json` relates
every definition to source lines, and lists the runs, the hazards of the code,
the findings and the theorems.

## 1. Inventory

| Part | State | Operations | Who calls it |
|---|---|---|---|
| `ThreadPool` | queue, mutex, condition variable, atomic flag, threads | `add`, `run`, `shutdownAll` | the loop adds, the workers run, static destruction shuts down |
| `TcpServer` | `conns_` by descriptor, epoll instance, two timers, event descriptor, `quit_` | `start`, `quit`, accept/read/write/close/timeout handlers, `onRead`, `onWrite` | the loop thread; `onRead`/`onWrite` on workers |
| `TcpConnection` | `disconnected_`, `keep_alive_`, context, channel | `initialize`, `readAgain`, `writeAgain` | loop and workers, **without a lock** |
| `EPoller` | interest per descriptor (ET, ONESHOT) | add, update, remove, poll | loop polls, workers re-arm |
| `TimerHeap`, `TimerQueue` | vector, index by key, size; timer descriptor | push, adjust, top, pop; `handleTimeout` | alive timer: loop only; session timer: loop and workers |
| `Channel` (raw, SSL) | two buffers, attached mapped file or sendfile object, three byte counters | read, write, reset, close | workers |
| `Buffer` | vector of bytes, read and write index | `append`, `ensureWritable`, `hasWritten`, `retired`, `reset` | workers: channels read into it, parsers take from it, `build` fills it |
| `HttpResponse` | header, temporary buffer, file name | `build`, `send` | workers, inside `onMessage` |
| `HttpRequest` | parse state, header, form, body | `parseRequest` over arbitrary segments | workers |
| `HttpServer` | services by URL and by pattern, mounted directories, error service | `onMessage`, `dispatchUrlPattern`, `dispatchMountDir`, `dispatchFile`, `onError` | workers |
| sessions (`HttpServer`, `HttpSession`) | table `sessions_`, status of each, one timer per session | `associateSession`, `associateRequestSession`, `invalidate`, `handleSessionTimeout` | workers; the timeout on the loop thread |
| `PhpFastCgi` | socket to php-fpm, request and response buffers | `sendStartRequestRecord`, `sendParams`, `sendPost`, `readPhpFpm`, `dispatchPhpProcessor` | workers |
| `HttpMultiPart` | machine of `parse`, one part, form and files | `parse` | workers |
| query, form, cookie and Digest text | maps of the request | `parseUrlQuery`, `parseKeyValue`, `parseAuthorization`, `EncodeUtil` | workers |
| JSON library | reader position, token list, parser index | `JsonReader`, `JsonLexer`, `JsonParser`, `JsonFormatter` | services, `setBodyJson`, configuration |
| configuration, logging, hashes, base64 | none | pure functions and I/O | set-up and workers |

What is hard in this code:

* connections are shared by the loop and the workers without a lock; only
  EPOLLONESHOT (a reported descriptor is silent until a worker re-arms it) and
  the idle timeout being long keep them apart;
* descriptor numbers are reused as soon as they are closed, and events, tasks and
  timers refer to connections by number or by the address of `conns_[fd]`;
* the pool's flag is changed outside its mutex;
* short writes carry counters from call to call, across the boundary between
  the buffer and a file;
* a `Buffer` moves its bytes to the front or grows, and must lose none and not grow with the connection's age;
* the timer heap keeps an index that must follow every move;
* request data arrives in arbitrary segments, and the parser continues with what
  it kept in the connection and in the receive buffer;
* sessions are freed by a timer on the loop thread, while services on the workers
  hold plain pointers to them, and the session timer is created without a lock;
* the record lengths of FastCGI have two bytes, and what php-fpm sends is divided
  into records anywhere;
* the hand-written parsers (JSON, multipart, Digest) index, skip and go round in
  loops that only end if the text is what they expect.

The hazards with their lines are in `PROJECT.json`, each with the properties that
would catch it or with the reason why none does yet.

## 2. Modules

| Module | Models | Abstraction |
|---|---|---|
| `ThreadPool` | `ThreadPool.h` | a task is the ordinal of its `add()`; a program counter per thread at each point where another can interleave; the condition variable is the set of blocked workers |
| `TcpServer` | `TcpServer.cc`, `TcpConnection.cc`, `EPoller.cc`, `handleTimeout` of `TimerQueue.cc` | data are counts of chunks received and units to send; every connection has an identity besides its descriptor; the pool is its FIFO queue and the heap its timers in order, as `ThreadPool` and `TimerHeap` justify; `onMessage` is the choice between "more data" and a response |
| `TimerHeap` | `TimerHeap.h` | one step per loop iteration; callbacks left out |
| `Timers` | what a timer collection promises: at most one timer per key, `pop` removes one that expires first | abstract specification, implemented by `TimerHeap` |
| `Channel` | `Channel.cc`, `TcpConnection::write`, `HttpResponseBuilder::build` | bytes are positions in the response; a file is its size, its offset and the response it belongs to |
| `HttpRequest` | `HttpRequest::parseRequest` and its parts, the context handling of `HttpServer::onMessage`, `Buffer::retired` | a byte is its position in the request, the buffer an interval of positions, a header line where it began; a request is its number of header lines and body bytes, whether it is multipart, its version and its flaw, if any; a worker that does not come back from the call is `lost` |
| `Session` | `associateSession` and what it calls, `associateRequestSession`, `invalidate`, `handleSessionTimeout`, `createSessionTimer`, `handleTimeout` of the session timer | a step per call that takes a lock; a session is the ordinal of its creation; timers count down, so that the clock is no state; the heap is what `Timers` promises |
| `Buffer` | `Buffer.h`, and how `build()` fills one with a file | a byte is its position in the stream; `append()` is its three calls, one step each; the bytes wanted at a time and waiting are bounded by constants |
| `Json` | reader, lexer and parser of `libjson` | a word is one symbol; a number is its value, written as its shortest decimal text; one `analysis()` call or one round of a parser loop a step, the recursion as a stack of frames |
| `JsonText` | the printers of `libjson`, and what `Json` makes of the texts they print | a document is a tree of records; a layout is where a line begins; a double prints with six digits, as `operator<<` does |
| `MultiPart` | `HttpMultiPart::parse` | one action per case of the switch; the words that are compared or skipped as a whole, and CR LF, are one symbol |
| `FastCgi` | `PhpFastCgi.cc`, `dispatchPhpProcessor`, `HttpHeader::parse` | a byte has `Base` values instead of 256, so that one- and two-byte limits are reached, and `kBufferSize` is small; a write is cut or fails at most once; php-fpm decodes and encodes by the FastCGI specification |
| `Dispatch` | `onMessage` after parsing, `dispatchUrlPattern`, `dispatchMountDir`, `dispatchFile`, `onError`; composed with `FastCgi` | a path is a sequence of names and slashes, a pattern the set of URLs it matches, an unordered map is visited in any order; the default pages are a sequence, of which one may be a script |
| `UrlText` | query, form, cookie and Digest text, `urlEncode`, `urlDecode` | texts are sequences of characters, a few characters of each kind; the Digest buffer has `DigestBuffer` bytes instead of 128 |
| `ThreadPool_proof`, `TcpServer_proof`, `TimerHeap_proof`, `Channel_proof`, `HttpRequest_proof`, `Session_proof`, `Buffer_proof`, `Parsers_proof` (`Dispatch` and `Json`) | the theorems about these modules, with their inductive invariants | |
| `MC*` | the instances TLC checks | |

Actions keep the names of the functions where they model a whole function;
a function that other threads can interleave with is split into one action per
step (`AddBegin`, `AddLock`, ...; `CloseTest`, `CloseMark`, `CloseDel`,
`CloseFree`) and the function's name is their disjunction. The variables ending
in `_` are the members of the classes. History values not in the code:
`added` and `executed` in `ThreadPool`; identities, `owner` and `closed` in `TcpServer`;
`stream`, `resp` and the field `of` in `Channel`; `wire`, `sent`, `content` and `count` in
`HttpRequest`; `appended` and `consumed` in `Buffer`; `torn`, `dead` and the fields `busy` and `late` of a worker in `Session`; the inputs
from which the texts of the parsers were made (`jsonIn`, `parts`, `cgiReq`, `output`, `textIn`).
Each module also has a block of faulty
variants, which the specification does not use: plausible mistakes that show
that a property can fail.

External parts (the peer, the socket, the clock, the condition variable, the
standard containers) are modelled as the code uses them. At the end of a stream
`read()` leaves `errno` alone and the code then tests it: `ReadAgain` takes
either outcome. `SSL_write()` takes all or nothing (partial writes are not
enabled in `ServerSsl.cc`); `writev()` and `sendfile()` take any part. A file does
not change while it is sent. `build()` compressing a file whose `mmap()` failed
would read through a null pointer; that combination is excluded by a guard.
When a segment holds nothing but the method, `parseRequestLine()` moves its
view past the end of the buffer and searches there: the model takes either
outcome, a rejection or a line made of old bytes. In `HttpRequest` the peer sends
its next request when it has the response (no pipelining), multipart bodies
end with the closing boundary that the header names. A request may have a flaw: a version that
is not known, a last header line without a colon or with nothing behind its colon, or an `Authorization` or a body that its
parser does not come back from. Which values and bodies those are is the subject of `UrlText` and
`MultiPart`; here the worker is either lost in them or goes on. The line that ends in its colon
makes `substr(pos2 + 2)` throw (`HttpRequest.cc` 172); no worker catches that, so the process ends.

In `Session` the copy that `handleTimeout()` makes of `top()` is one step. In the code it is made through a
reference, after the mutex was released, so that a `push()` of a worker may move the vector meanwhile; what the loop would then
call is undefined, and not modelled.

`Json` with `JsonText`, `MultiPart`, `UrlText`, `FastCgi`, `Dispatch` and `Buffer` each have their own initial states and
steps, and share no variables except that a dispatch starts a PHP conversation;
`MCParsers` puts them side by side as jobs, one of which is active in a behaviour.
Of what a worker sends to php-fpm only the body of a POST is continued after a short write; a failed write
ends that loop, and the result of every other write is ignored. The variable `cut` says that some record did not
go out whole: php-fpm then sees something else, may wait for the rest or drop the connection, and the worker may wait for ever.
A parameter that is longer than the array it is made in ends in "smashed". Short
reads are not continued either, so that from then on the record header is
whatever is in the array: such a behaviour ends in "torn", and one in
which a STDERR record is larger than the array ends in "overrun". In `UrlText` a Digest name and value longer than
their array end in "overrun", and a form that ends in its separator, with a blank left behind it in the receive buffer, in "past".
Nothing is claimed of what follows.

In `Json` the position of the reader follows `JsonReader` also where it leaves the text: a word that is
cut off moves it up to four characters behind the end before it is refused, and a string or a block comment without an end
moves it on for ever (`Round`, bounded by `JsonRounds`). Numbers go through `toDouble` and `toInt`
when they are read and through `toStrDouble` when they are printed. A text from which the
stream takes no number is 0. Rounding of a number exactly half way between two is left out, and so are numbers out of range.

## 3. Runs

| Run | Bounds | Checks |
|---|---|---|
| `threadpool` | 3 workers, 4 tasks (17 105 states) | exactly once, drained at join, the invariant of the proof; every task runs |
| `threadpool_shutdown` | 3 workers, 1 task | **violated**: `shutdownAll()` returns |
| `server` | 3 connections over 2 descriptors, 2 workers, 2 chunks, 2 units, https, timely handlers (1.5 M states) | one holder, channel alive, timer covers |
| `server_live` | 2 connections over 1 descriptor, 2 workers | every connection closes, the loop returns |
| `server_idle` | 1 connection, handlers may be slow | **violated**: the timer closes only idle connections |
| `timer_heap` | 5 keys, clock 0..2 (226 000 states) | order, index, refinement of `Timers`, loops end |
| `channel` | header up to 2, body up to 3, threshold 1, 2 responses (1 635 states) | order, framing, counters, completion |
| `channel_head` | 1 response | **violated**: HEAD has no body |
| `request` | 2 header lines, 3 bytes of body, 2 requests, cuts in header lines and multipart bodies (221 278 states) | the result does not depend on the cuts, the parser resumes where it stopped, a complete request is answered, but for three flaws |
| `request_split` | 1 header line, 1 byte of body, cuts anywhere | **violated**: the result does not depend on the cuts |
| `session` | 2 workers, 3 sessions, 3 requests, lifetime of 2 ticks (339 492 states) | a timer for every session, sessions in use are alive, invalidated sessions stay so, sessions expire |
| `parsers` | documents 2 deep, 6 tokens, 2 parts, bytes of 6 values, buffer of 12, bodies of 0, 1, 35 and 36 bytes, a parameter that just fits the array and one that does not, every set of four files below two mounts, two default pages; a Digest buffer of 4; a `Buffer` of 3 bytes, up to 3 more at a time, 5 waiting, 10 in all (1 281 873 states) | printing and reading JSON, the parser against the tokens, bounds of the indices, multipart bodies, both directions of FastCGI, dispatch, names and values, Digest; the readable bytes of a `Buffer`, room for every write, its size |

With `Https = TRUE` in `server_live`, `LoopReturns` fails in the state handshake:
`SSL_accept()` runs on the loop thread while the descriptor still blocks
(`TcpServer.cc` 124), and a peer that says nothing stops the loop. No text of the
repository promises otherwise, so it is a remark and not a finding.

Why the bounds are enough: three workers are one more than any scenario of the
pool needs (one executes, one is blocked, one is between its test and its wait);
three connections over two descriptors include two at a time and a number used
again while the stale timer of its former owner is still queued; five timers
make a heap of three levels with an inner position that has one child; a body
below, at and above the threshold takes each path of `build()`, and the second
response meets whatever the first leaves behind; two header lines of five bytes have
every kind of cut (between lines, inside one, between CR and LF) before and
after a line that was used, and the second request meets the context of the
first. Two workers are enough for every race of `Session`, which is between a worker
and the loop or between two workers; three sessions give two clients and one whose session was
replaced, and three requests let one worker ask twice while the other invalidates.
Five bytes waiting in a vector of three make `makeSpace()` resize and move in any order, and ten in all
let bytes be moved, and room that was added be used, again and again.
Six tokens let each check of the next token meet every token, in a container and in one inside another; documents such as `{s:[n]}` and `[{s:n}]` already have seven, and these and larger ones
are covered by the printed documents, up to two containers deep. The doubles have a fraction, none, an exponent of either sign when printed, and a
seventh digit whose rounding carries through all the others. With bytes of six values, 35 is the largest length that two bytes hold and
36 the first that they do not, and a name is "long" from three on; a buffer of 12 is smaller than
a body and larger than a record header. Two mounts, one inside the other, make
every order in which they are visited matter. Workers and descriptors of
the server are symmetric (its safety run uses that; the liveness runs do not).

The parsers check deadlock: a job that cannot go on must have ended, or be in one of
the loops without end that `MCParsers.Spinning` and `UrlText.TextSpins` name. Elsewhere deadlock is not checked where the program really ends: the destroyed pool, the
destroyed server, the last response of the bound, the closed connection, the last request of the sessions. The pool's lost wake-up
is such a final state too; it is found by `threadpool_shutdown`.

`TimelyHandlers` is the assumption that no event waits or is handled for longer
than `idle_timeout_`. `server` shows that under it the lock-free sharing is
sound; `server_idle` shows that without it, it is not.

Some properties have a condition. It excludes what the code, as far as it is modelled, does not
get right, so such a property does not guard against the excluded event: those are hazards that
`PROJECT.json` lists without a property.

| Property | Excluded | Because |
|---|---|---|
| `TimerPerSession`, `SessionsExpire` | `torn`, `queues > 1` | a timer set back between `top()` and `pop()` makes `pop()` take another; a second `createSessionTimer()` destroys the first queue |
| `SessionAliveInUse` | `busy = Interval`, `late` | a service that holds a session for its whole lifetime, or got it while its timeout was under way, has a pointer to freed memory |
| `InvalidatedStaysInvalid` | a request between its test and `setStatus(Accessed)` | that request overwrites the status |
| `JsonRoundTrip` | not `Readable` | escaped printing leaves quotes and backslashes as they are; `operator>>` drops blanks of a file, also inside strings and at the end of a line comment; a double is printed with six digits, and without a point if it is whole and below 10^6, and is then read as an integer |
| `TreeIsText` | not `Paired` | unpaired brackets leave a null value |
| `NoSpinInBody` | a word that was cut | the "bad body" branches neither take a character nor leave |
| `PhpReceives` | a body of `Base^2` bytes or more (65 536) | the length has two bytes |
| `PhpReceives` | a parameter that does not fit `bodyBuff` | it is copied past the end |
| `PhpReceives` | `cut` | the results of `write()` are ignored, or end the loop over the body |
| `PhpAnswerExact` | short reads, STDERR larger than the array | see section 2 |
| `PairsExact` | "past" | the byte behind a form that ends in its separator is looked at, and skipped if it is a blank |
| `DigestExact` | not `Sound` | a comma in a value, and a comma without a blank, make the loop go round for ever; a name and value longer than the buffer go past its end; an empty last value is lost |
| `EveryRequestAnswered` | `lost` with the flaws "bare", "value", "body" | a line that ends in its colon throws; the parsers of authorization, forms and multipart bodies may not come back |
| `Framed` | a failed `mmap()` | the length was promised before |
| `LoopReturns` | https | see above |

### Fairness

* Pool: a thread that can move does (weak fairness); a mutex that is free again
  and again is obtained (strong fairness of the lock steps only). The caller
  decides when to add and when to destroy, so it is under no fairness when
  idle. Spurious wake-ups are allowed, never required.
* Server: the loop and the workers keep running; the periodic timer descriptor
  becomes readable again and again (`runEvery`), and a timer that is not
  postponed expires, because the clock advances. Nothing is assumed of peers.
* Heap: an operation that has begun goes on; it holds the mutex.
* Channel: a blocked socket becomes writable again and a write that is possible
  again and again succeeds, because the peer keeps reading. A peer that stops
  reading is what the server's idle timer is for.
* Request: the worker goes on parsing, and arrived data are reported and read, as
  `server_live` shows of the loop. Nothing is assumed of the peer.
* Sessions: the clock ticks, the loop polls its periodic timer and handles what has
  expired, and a service that has begun returns. Nothing is assumed of new requests.

### Findings

1. `ThreadPool::shutdownAll()` can lose the wake-up and wait for ever in `join()`.
2. The idle timer closes a connection, and frees its channel, while a worker is
   inside its handler, if the handler or the queue takes longer than the timeout.
3. The response to HEAD carries the body when the file goes by `sendfile()` or `mmap()`.
4. A request line or a form body that arrives in two segments is rejected or cut;
   only header lines and multipart bodies are really continued.

Observations that contradict no text of the repository are in the table of
conditions above; one more is that of several files of one name in a multipart
body only the first is kept (`PartsExact` says so), and another that a header line which ends in its colon ends the server.

## 4. Proofs

All proofs have the same shape: an inductive invariant `IInv`, a lemma per
operation that it is preserved, the theorem `Invariance`, and the other theorems
as its consequences. The type invariants of `ThreadPool`, `TcpServer`, `Session` and `Buffer` are part of it and only proved, since
no run needs to repeat what holds for all values. Each `IInv` was checked by TLC on the instance of its module's run
before it was proved. Every safety invariant of `ThreadPool`, `TcpServer`,
`TimerHeap`, `Channel`, `Buffer`, `HttpRequest` and `Session` that a run checks is stated by a theorem.

**`ThreadPool_proof`** (any set of workers, any number of tasks).
`IInv == TypeOK /\ PoolInv /\ ExactlyOnce`. `ExactlyOnce` alone is not inductive:
that `pop()` removes the task which the worker copied needs the mutex, so
`PoolInv` says who is inside the critical section, that the queue is not empty
between the test and `pop()` and that the copied task is its head; that tasks
handed out are distinct needs all of them to be at most `added - Len(tasks_)`.
`ShutdownDrains` follows because a worker returns only with an empty queue and
after the flag was cleared, when nothing can be added. Assumptions: there is at
least one worker (`hardware_concurrency()` is not 0) and thread names are
distinct.

**`Channel_proof`** (all sizes of headers, bodies, thresholds, any number of
responses). `IInv == TypeOK /\ CountersInv /\ InOrder /\ Framed`. `CountersInv` says
that the counters, the offset of the file and the attached objects agree on how
much has gone. The lemma `WriteComputes` is the core: what a call computes from
the counters is exactly the rest of the response, and the bytes it offers start where
the peer's stream ends. Assumptions: sizes are naturals and a header is not
empty.

**`TcpServer_proof`** (any sets of descriptors and workers, any number of connections,
with and without https). The theorems assume `TimelyHandlers`, the one assumption whose absence
`server_idle` shows to be fatal. `OneHolder` alone is not inductive, for two
reasons. That a worker may re-arm its descriptor needs that nobody else has an event, a task or a
thread for it, so `Excludes` says that of every pair of places (armed,
reported, queued, held); and what a close does to the others needs the
identity behind a number, so `OwnerOK` ties the channel in `conns_[f]` to the
connection that owns the descriptor, and `LiveOK` says that events, tasks and
threads are for a live connection, up to the step that marks it. `TimerOK` says that a live
connection has a timer, that nobody works for a connection whose timer has expired, and that the
timer about to be popped belongs to none that is live; together with "the expired timer
stays the first, and no number has two" (`TimerInv`) this gives `TimerCovers`, also when a number
is used again under the timer of its former owner. `Conn(f)` is about one descriptor, so that most
of a step's proof is the lemma that it leaves the other descriptors alone. `TimerClosesOnlyIdleAlways`
proves, under `TimelyHandlers`, what `server_idle` refutes without it.

**`TimerHeap_proof`** (any finite set of keys, any lifetime). While a timer is on its way the vector holds one timer
twice and another one not at all, so the proof looks at `View`, the vector with the timer on its way put
where it would be put now: in `View` the keys are always distinct and `fds_` is
right except at that position and for the timer being removed (`IndexInv`), and the order holds
except on the edges that the loop has still to pass, across which the
grandparent and the grandchildren are in order (`OrderInv`). A round of a loop
exchanges two neighbours of `View`. `ClockInv` (a timer can only be set back)
is why `adjust()`, which only goes down, keeps the order; and `upAdjust(i)`, which follows every
`downAdjust(i)` because that never reports a move, keeps it too, whichever timer is at i by then. That the first timer is a least one is shown by the least position of a counterexample, whose
parent would be a smaller one. `HeapImplementsTimers` is the refinement: the
step of `Timers` is taken by the step that begins `push()`, `adjust()` or `pop()`, and every
round of a loop is a stutter.

**`HttpRequest_proof`** (all lengths of urls, header lines and bodies, any number of lines and requests).
`TypeCorrect` is for every way the stream may be cut. The other two theorems assume `CutsAllowed`: no segment
ends in the request line or in a body that is not multipart, which is exactly what
`request_split` shows to be needed. `SegmentsDoNotMatter` is about the answer only; its invariant has to know, for every point
where the parser can be left, that the header lines kept are the first k, each as it was sent, and
the buffer begins where line k ends (`AtLine`), that a request rejected for its last line has not been
accepted before (`flaw`), that a worker which was not lost has gone through a flawed value or body as through a sound one, and that the bytes used up are over when a response
is written (`RespondInv`), so that the next request starts with an empty buffer and no context. The lemma
`NextLine` is the core: from the beginning of line k + 1 the search for a CRLF finds the end of just that line.

**`Session_proof`** (any finite number of workers, any number of sessions and requests, any lifetime). `TimerPerSession` needs that the session of a creator is
its own and that the loop cannot know it before its timer is added (`CreatorInv`), and that the timer which
the loop has copied is still the expired one when it pops (`LoopInv`, unless `torn` or a second queue). `SessionAliveInUse` needs
how long is left: a service that has had its session for b ticks has a timer of at
least `Interval - b` (`UseInv`). `InvalidatedStaysInvalid` needs that nobody who is past
the test is about to mark a dead session (`DeadInv`). `BoundsInv` counts the requests that
may still create a session, so that the bound on their number is kept. The conditions of the three properties are the ones of
the table in section 3.

**`Buffer_proof`** (any initial size, any lengths). `IInv` adds `BufTypeOK` and `Appending` to the three invariants of the run:
what is known between `ensureWritable()`, the copying and `hasWritten()`, namely that the bytes stand behind the write index
in the order of the stream before they become readable. `ReadableExact` is what `HttpRequest` and `Channel`
take a `Buffer` for. `SizeBounded` is not obvious from `makeSpace()`, which resizes from the
write index on and leaves what was read in front: it resizes to n bytes more than the write index, and one, only when less than n bytes
were read and lie in front, so that the new size is at most what then waits (the longest request) plus the longest read.

**`Parsers_proof`**, first part (`Dispatch`: any set of URLs and of servers, with any services, patterns, mounts and
files). `DispInv` says what is known at each point of `onMessage()`: while the mounts are visited, that none of those
that were visited has the file or lists a directory; after that, what made the answer (`FileAnswer`), and
that a conversation with php-fpm leaves no response until it ends in one of four codes. `DispatchExact` then needs
only the last step, in which the error service takes over the codes from 400 on. `DispAssumption` is that URLs and mount
points are sequences of names, and that a default page is not a directory. The first default page that is there is the least index of a set (`FirstPage`). `FastCgi` enters the proof only by what it can leave in the response.

Second part (`Json`: any text, and any sequence of tokens, `JsonSpec`; the initial states of
the run are among them). `JsonInv` says that once the parser is in its loops the last token closes a container, which is what
`handle_begin_end_mismatch_exception()` tests before the first loop. So a key is not the last token, and neither is the colon
after it: the token that `parseJsonObject()` takes without comparing is there. For the lexer it is shown that a call of `analysis()`
which neither throws nor spins leaves the reader in the text or just behind it, although numbers and comments look
ahead and go back; so the tokens of an accepted text are those of all of it. Where it throws or spins the reader may be anywhere behind the text,
and the theorem says nothing of it. `StringEnd` and the conversions of numbers
enter the proof by one fact only, that a position whose character is not EOF is in the text.

In `MCParsers`, whose run checks the same two properties, `Dispatch` and `Json` are jobs side by side, which share no variable.

Assumptions on the constants, all evaluated by TLC on every run: the workers of `Session` and the keys
of `TimerHeap` are finite sets (both are counted); the pool has a worker; thread names and the marks for
"none" are distinct from what they are marks against; bounds, sizes and times are naturals; a
response, its header and a session's lifetime are not empty, a connection has at least one request,
a header line has at least five bytes, a default page has a name, and URLs and mount points are sequences.

Only model-checked:

* every liveness property (`EveryTaskRuns`, `EveryConnectionCloses`, `LoopReturns`,
  `SiftEnds`, `WriteEnds`, `EveryRequestAnswered`, `SessionsExpire`): liveness under fairness is out of reach of the prover;
* `NoSpinInBody` and `DigestExact`, which are about `ENABLED`;
* `JsonRoundTrip`, `TreeIsText`, `PhpReceives`, `PhpAnswerExact` and `PairsExact`, which compare with what a recursive
  definition computes (nested documents, records and pairs in a byte stream, decoding), and `PartsExact`, which
  compares with a concatenation of parts and a header read by a fold: for every length these need an induction over data,
  which is out of its reach.

## 5. State of the project

Every module of the plan is written: `ThreadPool`, `TcpServer`, `TimerHeap`/`Timers`, `Channel`, `Buffer`, `HttpRequest`,
`Session`, `Json`/`JsonText`, `MultiPart`, `FastCgi`, `Dispatch`, `UrlText`. All but `JsonText`, `MultiPart`, `FastCgi`
and `UrlText` have proofs.

### Not modelled

* Values and wording: the escapes `\u` and `\x`, numbers outside the range of an int or a double, the
  text of cookies, dates and headers, mime types, canonical paths.
* Hashes and codes: base64 and with it Basic authorization, MD5 and the comparison of
  Digest responses, the 32-bit hash that is a session timer's key (taken to be
  distinct), random text.
* The width of the clock arithmetic in `TimeStamp` and `TimerQueue`: timers are ticks.
* The values kept in a session: a map behind a lock, one call at a time.
* What follows a short read from php-fpm or an overrun, and a copy of `top()` that races with a `push()`: undefined.
* Logging, configuration loading, the set-up of the listening socket and the TLS
  library: I/O or code of others. Tests and examples were read for how the server
  is used.
