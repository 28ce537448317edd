# A TLA+ model of h2-server

h2-server is an HTTP/2 server in C++: one acceptor thread, a fixed number of
worker threads with edge-triggered epoll loops, nghttp2 for the protocol,
OpenSSL for TLS and an mmap cache for files. This directory holds TLA+ modules
translated from its source, TLC configurations that check them on small
instances, and TLAPS proofs that hold for all values of the constants.

`PROJECT.json` maps every definition to the source lines it models, lists the
runs, the mutants that show each property can fail, the hazards and the
theorems.

## 1. The system

| Component | Source | State | Operations |
|---|---|---|---|
| Socket queue | `circular_queue.h` | slots, `head`, `tail` | `push`, `is_full` (acceptor); `is_empty`, `front`, `pop` (worker) |
| Hand-off | `worker.cc`: `enqueue_sock`, `dequeue_sock`, `startup`, `run` | `pending_notify`, `signal_fd`, the eventfd counter | push and notify; wake, flush, drain, clear, second look |
| Acceptor, load balancer | `server.cc`, `server.h` | accept queue, `indirect_table`, event of the listening socket | `handle_accept`, `acquire_worker_index`, `find_available_worker` |
| Session map | `worker.cc`: `handle_new_connections`, `run`, `disconnect_from_client` | `session_map` per worker, open descriptors | add, look up, close and erase |
| Connection loop | `worker.cc`: `handle_events` and what it calls | `SessionState`, `events`, input and output buffer, epoll registration | handshake, read, feed, fill, write, register, disconnect |
| HTTP/2 session | `session.cc` | streams, request path and method, upload buffer, `FileContext` | nghttp2 callbacks, replies |
| File cache, handlers | `file_cache.cc`, `handler.cc` | per-thread map of mapped files | find, insert, map; download, upload |
| Multipart parser | `multipart_parser.cc` | boundary, file map, temporary names | `extract_boundary`, `write`, rename |
| Router | `router.cc` | tree of literal and parameter nodes with handlers | `add`, `resolve` |
| Configuration, main, start-up | `config_opt.cc`, `main.cc`, `server.cc` | options, listening socket, vector of workers, threads | parse, register, listen, spawn |
| TLS context | `ssl_ctx.cc` | one `SSL_CTX` per worker | `create_ssl_ctx`, the ALPN callback |

How they interact. The acceptor takes connections from the listening socket,
asks the load balancer for a worker (which calls `is_full` on the workers'
queues) and calls `enqueue_sock` on it: a push into the worker's ring buffer
and, if `pending_notify` was false, a write to the worker's eventfd. The worker
wakes, drains its queue, makes a session for each socket and registers it with
its own epoll instance. From then on only that worker touches the connection:
events lead to reads, reads feed nghttp2, nghttp2 calls back into `session.cc`,
the callbacks find a handler with the router, and responses are serialised
into the output buffer and written.

What is hard. Two threads share the ring buffer, the flag and the eventfd
without a lock. Descriptor numbers are shared by the whole process and reused
at once. Every socket is edge-triggered, so an event that is not used up, or a
registration that is not renewed, can put a connection to sleep for ever.
Errors are possible at almost every system call, and a connection has to be
closed exactly once whichever of them happens.

What makes each component correct:

* socket queue: it is a FIFO; no slot is accessed by both threads at a time;
  `is_full` is not stale when `push` relies on it;
* hand-off: no lost wakeup; notifications coalesce; every socket is taken;
* acceptor: no connection is left in the kernel's queue without an event to
  come; one is turned away only when all workers were full; the search ends;
* session map: one holder per open descriptor, no holder for a closed one; a
  session and an event belong to the connection they were made for;
* connection: no lost edge, everything sendable is sent, a disconnect
  completes, received data is processed;
* session: stream data outlives its use and nothing else does; each complete
  request is answered once, by its handler and with its whole body; the body
  of a response is the file, and it ends;
* files and uploads: a body is read from a mapping that exists; what is
  published under a name comes from one upload of it; a worker serves what it
  has stored; a stored upload is not answered with 404;
* router: the best of the accepted routes is found, literals before
  parameters from left to right;
* start-up: a server that serves has the workers, the port and the table that
  were asked for, and its callbacks hold workers that have not moved.

## 2. Modules

| Module | What it is |
|---|---|
| `BoundedFifo` | abstract specification: a bounded FIFO with atomic operations |
| `CircularQueue` | the ring buffer, one step per shared access; implements `BoundedFifo` |
| `Handoff` | `enqueue_sock` against `startup` and `run`, over a `BoundedFifo` |
| `Service` | abstract specification: what happens to connections, without descriptors |
| `Dispatch` | acceptor, load balancer, all queues and session maps, descriptors; implements `Service` |
| `Connection` | one connection in the event loop, TLS and cleartext |
| `Session` | the streams of one HTTP/2 session: nghttp2 callbacks, requests, response bodies |
| `Multipart` | the parser's searches as operators on token sequences |
| `Files` | handlers, file caches and uploads of several workers over one file system; extends `Multipart` |
| `Router` | the routing tree as a function, `add` and `resolve`, and what `resolve` should return |
| `Startup` | from the command line to the first connection; extends `Router` |
| `...Proofs` | the proofs about the module of that name; those about `Router` are in `StartupProofs` |
| `MC...` | the modules TLC runs, with the constants' values in the `.cfg` files |

**CircularQueue.** `tail` is written only by the producer and `head` only by
the consumer, so loads of a thread's own index are not steps. `push` has three
steps (look at `head`, write the slot, store `tail`), `dequeue_sock` three
(`is_empty`, `front`, `pop`). The release stores and acquire loads justify an
interleaving semantics with program order. `next` wraps at any capacity of at
least two: that is what the mask does for the powers of two which the
constructor produces. `room` records what the last `is_full` answered.

**Handoff.** The acceptor's steps are the push, the `compare_exchange` and the
write; the worker's are epoll's return, the flush of the eventfd, each
`dequeue_sock`, the store of false, the second look and its own
`compare_exchange`. A behaviour has a mode, chosen in `Init` out of two
constants. `started` says whether the worker has finished `startup()` when the
first socket arrives, which nothing in `listen_and_serve` ensures. `seq_cst`
says whether the store of false is ordered before the loads that follow. It is a
release store, and C++ does not order it. g++ on x86-64 makes it an `xchg`,
which does order it, in the build of the repository's Makefile (no
optimisation), and an ordinary store, which does not, with `-O2`; then
`buffered` holds the store that is not visible yet.

**Dispatch.** Queues are atomic FIFOs. The steps of the acceptor are
`accept4`, each `is_full` and the push; those of a worker are epoll's return
with a batch of events, each event, each socket taken, and `close` and `erase`
separately, because between the two the number can be given out again.
`peer[f]` is the connection that descriptor `f` is open for; a connection's
protocol is reduced to "stays" or "disconnects". `emplace` keeps an entry that
exists, as in the code. Any free descriptor may be returned by `accept4`, which
fails when there is none (`AcceptFails`) and at any time for another reason
(`AcceptAborts`: ECONNABORTED takes the connection away, ENOBUFS leaves it);
every error but EINTR ends the loop.
`Held`, `Line` and `Serving` are the refinement mapping to `Service`: the
connections behind the acceptor's socket, the queued descriptors and the session
maps. A session whose descriptor `disconnect_from_client` has closed counts no
more, so `close` is `End` and `erase` is invisible.

**Connection.** One action per system call and one per thread-local stage.
epoll, the TCP socket, OpenSSL and nghttp2 are external; the head of the module
says what is assumed of each. Frames are units of input and output. The loops
of `fill_output_buffer` and of `update_events_*` are closed expressions; the
read and write loops are repeated actions, since the client may act between two
turns. The two modes are one module with `tls` chosen in `Init`. For TLS the
client's script starts with two handshake flights. An `SSL_write` that wanted
to write and is repeated after more output was appended may find its buffer
moved (`moved`), which OpenSSL refuses. `offer` is the ALPN list of the client,
as names; `Wire` gives it the form that the callback scans, byte by byte, since
what can go wrong there is a scan that loses its step.

**Session.** nghttp2 is external: it holds, per stream, the user data and the
data source of the response, calls the callbacks in the protocol's order, and
forgets both pointers when the stream closes. A `StreamData` is a record at an
address; addresses and stream numbers are reused. The fields of a header block
are one step, since header blocks do not interleave with other frames. `method`
starts uninitialised: a read of it yields a value of the enumeration or an index
outside the router's array, which answers 404 at best and ends the process at
worst. `offset` is an int of `IntMax`; beyond it `file_read_callback` copies
from in front of the mapping, which the process may or may not survive. `data` is
the pointer that the downloader puts into `file_ctx`: a mapping or, for an entry
whose mmap failed, `MAP_FAILED`, out of which a copy of any length but 0 ends the
process (`Unreadable`); `Files` says when a worker serves such an entry. The
handlers are reduced to what they submit. `asked`, `chunks`, `handled`,
`answers`, `want` and `out` only record what happened.

**Multipart and Files.** The parser works on tokens: a string that the code
searches for is one token, other text another. `write` is called once in a
parser's life, because a handler runs once per stream (`AnsweredOnce`), so the
file map and the counter are fresh. A worker runs one handler at a time; the
steps of a handler are what another worker can observe: the writing and
renaming of an upload, then the opening and mapping of the file. Temporary files
are private to a parser's address and thread. `history[f]` is the sequence of
the versions of a file; a mapping is of one version and survives its
replacement. `kind[f]` is what there is at a name: a file or nothing yet, a file
that a rename cannot replace, or a directory, which can be opened and has a size,
but cannot be mapped or replaced. The calls in `Failing` may fail at any time:
`open` or `fstat` (nullptr in the entry), `mmap` (`MAP_FAILED`), the opening of
the `ofstream` (nothing is written), its `write` (a part is written, and nobody
looks), and `rename`. `failed` records which worker met which failure, for the
properties' exceptions.

**Router and Startup.** A node of the tree is the sequence of segments that
leads to it, so that the two recursions of the code are a set of prefixes (`add`)
and a recursive function on nodes (`find_handler_recursive`); the loop of
`split_path_segments` is a recursive function on positions. `Startup` runs one
`Program`: a command line and routes to register. Every system call may fail
where the code looks; numbers are narrowed to the widths of their fields; the
worker objects have addresses, callbacks remember the one they were bound to,
and a vector that is full moves its elements. `ssl_ctx` is what each worker
thread runs with: nothing in cleartext mode, a context, or the null pointer that
`create_ssl_ctx` returns for unusable files. What happens from the first
connection on is `Handoff` and `Dispatch`.

## 3. Runs

| Run | Shows |
|---|---|
| `ring` | `NoSlotRace`, `ElementStaysForConsumer`, `RoomIsStable`, and that the ring is a FIFO of Capacity - 1 elements (`ImplementsFifo`) |
| `handoff` | all four modes. Started worker: `PendingIsHonest`; with an ordered store also `NoLostWakeup`, and under fairness `EventuallyTaken`. Every mode: `AtMostOneNotify`, and `StrandedIsExplained`: the two known causes of a stranded socket are the only ones |
| `handoff_boot` | violation: a connection that arrives before `startup()` has created the eventfd leaves `pending_notify` true for ever |
| `dispatch` | `OneHolder`, `EventsAreCurrent`, `AcquiredHasRoom`, `RejectedByAll`, `BacklogIsExplained`, under fairness `SearchEnds`, and that descriptors, queues and maps do for connections what `Service` says (`ImplementsService`) |
| `dispatch_backlog` | violation: after EMFILE the acceptor sleeps on a connection although a descriptor is free again |
| `connection` | `NoLostEdge`, `GoawayDelivers`, `EstablishedMeansH2`, `OutputDrains`, `DisconnectCompletes`, both modes |
| `connection_eof` | violation: what was read together with the client's FIN is dropped |
| `session` | `PointersMatchOwners`, `AnsweredOnce`, `HandlerSeesRequest`, `BodyIsFile`, and under fairness `ResponsesEnd` |
| `files` | `BodyReadable`, `PublishedIsUpload`, `LateOnesAreUnfinished`, `ReadYourWrite`, `StoredIsAnsweredOk` |
| `upload_crlf` | violation: a file with a CRLF in it is stored up to that |
| `startup` | `ResolveIsBestMatch`, `StartsAsAsked`, `WorkersAreSound` |
| `startup_threads` | violation: with `--threads 2` or `--num-threads 2` the server has one worker |

Bounds. `ring`: four slots and three values, so that the indices wrap, the queue
is empty, part full and full, and each position holds a different value.
`handoff`: a queue of two and three descriptors in every mode; the protocol
depends only on empty, not empty and full, and the proofs cover the rest.
`dispatch`: two workers with queues of one, three descriptors, four connections,
a table of two entries: queues fill, entries are remapped, connections are
turned away, descriptors run out, and numbers are reused by the same and by the
other worker. In a queue of one there is no order; that longer queues keep
theirs is in the theorem, which is for any bound. `MaxConn` bounds the
connections that clients make, after which the system may stop, hence no
deadlock check there. `connection`: five client scripts, a send buffer of one
unit and a window of one unit with bodies of two, so that writes block and flow
control holds data back; the client may close or reset at any point. TLS clients
offer h2 behind other names, only inside other names, or nothing. A closed
connection is the end of the behaviour, hence no deadlock check. `session`: two
streams at a time, each followed by others, and two addresses, so that both are
reused in either order; offsets of three bits and files of 0, 3 and 5 units, so
that one is empty, one fits an int and one does not, each mapped or not;
requests for both routes, with another method for a path of the router and for
one outside it, and for the root; reads of one or two units; a session that is
gone is the end. `files`: two workers with two addresses each and two streams at
a time (`MaxStreams`), one name of any kind that exists or not, two uploads
(`MaxUploads`) out of six forms (two lines, empty, without a name, cut off,
quoted boundary, without a file), any number of downloads, and two kinds of
failure, of one worker or of two, each as often as it likes (`MaxFaults`); more
uploads add versions, not new relations between two of them. `startup`: seven
thread counts, four ports and seven other options around field widths of 2 and 3
bits, the real queue size, and all sequences of up to three registrations of
seven paths under two methods. `startup_threads` has the README's command line,
under both documented names.

Fairness. `handoff`: the worker thread and an `enqueue_sock` under way are
scheduled, and a store leaves the store buffer; no fairness on new
connections. `dispatch`: only the acceptor is scheduled; `SearchEnds` needs
nothing of the workers. `connection`: the worker is scheduled and the client
reads; `OutputDrains` and `DisconnectCompletes` are about such clients, since
the server has no timeout for others. `session`: nghttp2 goes on serialising
each response, as `fill_output_buffer` makes it do whenever the connection's
window is open; a client that keeps the window shut is in `connection`.

### Findings

1. *Start-up race* (`handoff_boot`). The flag is set, the write to descriptor
   -1 fails, and no later `enqueue_sock` on that worker writes again: the
   sockets in its queue are never served. The comment on `pending_notify` says
   that true means notified.
2. *Accept loop left on EMFILE* (`dispatch_backlog`). The comment a few
   lines below gives the reason why the loop must not be left.
3. *Data read before FIN is dropped* (`connection_eof`). The comment at the call
   says that it prevents data loss.
4. *Uploads end at the first CRLF* (`upload_crlf`). The comment above the parser
   shows a file of several lines as what it parses; of such a file the first
   line is stored, and the answer is 200. This is about CRLF: a file whose lines
   end in a line feed alone is stored whole.
5. *The documented option for the number of workers is unknown*
   (`startup_threads`). The repository's README has `--threads` in its table and in
   both examples, the usage text has `--num-threads`; the table for `getopt_long`
   has `--thread`. The server prints its usage and serves with one worker.

`StoredIsAnsweredOk`, `HandlerSeesRequest`, `BodyReadable`, `BodyIsFile`,
`PublishedIsUpload` and `StartsAsAsked` hold with exceptions that their
statements name. Each is something the code does, which the property describes
and would not catch:

* a method other than GET and POST runs any handler or ends the process, where
  the path leads to a node of the router;
* a file of 2^31 bytes or more is not sent, and may end the process;
* an mmap that failed, and every one of a directory or an empty file does, is
  served as a mapping and never tried again (the comment at `handler.cc:15`
  promises another attempt); if the size is not 0, the first read ends the process;
* a stored upload is answered with 404 when the file cannot be opened or mapped,
  and when it is empty and the worker was asked for the name before;
* an upload that was written in part only is published as it is and answered with
  200; one that could not be written at all is answered with 200 where there was a
  file before; text left in a temporary file begins a later upload;
* `-n 256` divides by zero; a listening socket with number 0 has no port.

Beside these, from the forms and options of the runs: a boundary in quotes stores
nothing and is answered with 200; only the first file of a form is stored; a
second method for a path with a parameter is refused.

In an optimised build there is one more, without a comment it would
contradict: the unordered store can strand a socket until the next connection
to the same worker (`StrandedIsExplained` allows it, `NoLostWakeup` is stated
for the ordered store).

## 4. Proofs

Every proof module about a state machine follows one scheme: an inductive
invariant `IInv`, `Init => IInv`, `IInv /\ [Next]_vars => IInv'` with one case
or lemma per action, and the properties as consequences. TLC checked each
`IInv` on the bounds of section 3 before it was proved. The theorems hold for
every value of the constants that the named assumptions admit; TLC evaluates the
assumptions in the runs.

**CircularQueueProofs**, from `CapacityAssumption` (at least two slots).
`NoSlotRace` alone is not inductive: one has to know that the producer past its
check still has a free slot and the consumer past its check still has an
element. `IInv` says so for each program position (`ProducerInv`,
`ConsumerInv`), and that the slot between write and store holds the argument
of the push. Neither thread can falsify the other's part: `Pop` moves `head`
away from `next(tail)` because `next` is injective (`NextIndex`). For the
refinement, `CountSlot` relates the indices to positions; `WriteBehindTail`,
`StoreTailAppends` and `PopTakesHead` say what the three concrete changes do to
the abstract sequence, and `NextRefines` that every other step is invisible.

**HandoffProofs**, from `BoundAssumption` and `ModeAssumption`, for all modes.
The invariant treats the notification as a token: `pending_notify` is true in
memory exactly while one exists, and it is in one place: with the acceptor
before its write, in the eventfd, with the serving worker, in the buffered store
that retires it, or lost to a failed write (`NotificationInv`). `QueueInv`,
needed for `NoLostWakeup`, says that for an ordered store somebody answers for
every queued socket. The theorems hold in every mode unless their statement
names one.

**DispatchProofs**, from `DispatchAssumption`: any number of workers,
descriptors, connections and table entries. All six invariants of the run, that
a session is always that of the connection its descriptor is open for
(`SessionIsOfItsConnection`), and the refinement. `OneHolder` counts holders,
which no prover can do step by step; `IInv` says the same without counting: what
is held is open (`HeldIsOpen`), what is open is held (`OpenIsHeld`), by one
holder (`HeldOnce`), in one place of one queue (`QueuedOnce`). The number that
`close` has freed and `erase` has not yet taken out of the map is why a session
that is being erased holds nothing (`Owns`), and why the batch must hold no
event for it (`WorkerInv`). A last lemma turns the four facts back into the
cardinality. For the acceptor the invariant knows which workers the search has
passed (`Passed`), a range that wraps around the array.

`DispatchImplementsService` is the refinement, step by step. `PeerInv`, that no
two descriptors are open for one connection, makes the end of one connection the
end of no other; `QueuedOnce` that a descriptor which is closed or opened is not in
a line; `HeadOfQueue` that `emplace` finds no entry, so that the session it
leaves in place is the new connection's. The push is `Assign` because of
`AcquiredHasRoom`: the branch that closes a socket whose push was refused is
never taken.

**SessionProofs**, from `SessionAssumption`: any streams, addresses, requests
and file sizes. `IInv` ties three things together: for every stream the pointers
nghttp2 has (`PointersOK`), what the `StreamData` they lead to holds of the
request (`RequestOK`) and of the response (`BodyOK`); `OwnerInv` adds that no
object is without a stream, and `CrashInv` that the process has ended only after
a body that does not fit or cannot be read, or after a method that was not
filled in. Two streams never share an object because the
object carries its stream's number. `SameStreamInv` says that a step of one
stream leaves what is known of the others alone, so that each callback is
argued for its own stream only. `ErrorLength <= IntMax`, the one assumption that
is not about types, holds for any page of fewer than 2^31 bytes.

**ConnectionProofs**, from `ConnectionAssumption`: any scripts, protocol lists,
buffer, body and window sizes. `NoLostEdge` is a property of the state in which
the worker sleeps; the invariant says for every place of the worker, and for
each of the four things epoll reports (reset, end of stream, data, space), that
it is about to be reported or that the worker is on its way to it (`ResetSeen`,
`FinSeen`, `RcvSeen`, `SpaceSeen`). They rest on the registration being up to
date when the worker goes to sleep (`InterestInv`), on the order of the
handshake's flights (`FlightInv`) and on what each place of the worker says of
the session (`PhaseInv`, `WantInv`, `SentInv`). `OutputInv` is the balance that
`GoawayDelivers` needs: every submitted unit is delivered, in a buffer or held
back. `EstablishedMeansH2` needs in addition that the scan of the protocol list
meets exactly the entries of the list: `WireLayout` says where they are in the
buffer, `SelectIsOffered` that the scan goes from one to the next and stops
short of three bytes only behind the last.

**MultipartProofs**, about operators only, for any tokens. `find` is the first
occurrence (`Least`), and from it `UploadIsParsed` follows the parser through any
form of the shape browsers send (`BrowserUpload`: a type with a boundary and
other parameters, other fields before the file, anything behind it): it finds
the name, it stores the first line and no more, and it sees the closing boundary.

**FilesProofs**, from `FilesAssumption`: any workers, files, forms and number of
uploads. The assumption asks of a form what the client means by it
(`Understood`); `BrowserFormsAreUnderstood` shows from `UploadIsParsed` that
every browser's form is so, and TLC evaluates it for the forms of the runs, the
odd ones too. That a file is published under its form's own name is not assumed:
it is carried from `write` to the rename, at once or in the destructor, by
`StreamInv`. `IInv` says of each version of a file where it came from
(`HistoryInv`), of each cache entry that it is of a version there is, and mapped
unless that is empty, a directory, or an mmap of the worker has failed
(`CacheInv`), of each stream what its answer promises (`StreamInv`), that a
worker is in the middle of one form at most (`WrittenInv`), and that a temporary
file left by nobody belongs to a worker which could not rename it (`TmpInv`):
the exception in `PublishedIsUpload`.

**StartupProofs**, from `StartupAssumption`, `QueueAssumption` (a size of at
least two, with a power of two of its type at or above it) and
`RoutesAssumption` (paths are text, handlers can be called). `IInv` says that the
fields hold the last numbers given, modulo their width (`OptionsInv`), that a
server which serves has a socket of that port (`SockInv`), how far the table is
filled (`TableInv`) and that no worker has moved, since the vector has the room
it was given (`WorkersInv`). `use_tls` says whether `--h2c` was among the options
read so far (`TlsOk`), and a worker that runs has the context that goes with it
(`SslInv`). `RoundIsNearest` is about `round_to_pow2`, over
the powers of two of 32 bits, which `Power2` enumerates.

`ResolveFindsBestMatch` has two halves. `RouterInv` says what any sequence of
registrations leaves behind: the nodes are closed under prefixes, and the
handlers in the tree are those of the accepted routes, each at the node of its
path; a refused registration may leave nodes but no handler (`AddKeeps`).
`FindIsBest` says what the search computes on such a tree, by induction from the
leaves up: if the two calls for the children return the best match below them,
so does the call for the node (`BestStep`), since every match below the node
lies below one child and any below the literal one is better (`LiteralFirst`).
The parameter is that of the last parameter node on the way (`LastParamLiteral`,
`LastParamParam`),
which is what capturing on the way back and not overwriting amounts to. Two
accepted routes never match one path equally well (`BestIsUnique`), so the
specification's CHOOSE has one answer, the one that was found.

Induction. The library's theorems on induction take a predicate, which the
provers cannot instantiate. The one on well-founded relations takes a set, and is
enough: a set of natural numbers has a least element (`Least`, `Greatest`), and
one that holds 0 and successors holds all numbers (`Induction`). With it
`ScanDefined`, `FlattenDefined`, `SplitDefined` and `FindDefined` show that the
recursive functions exist, and `SelectIsOffered`, `SplitIsPath` and `FindIsBest`
what they compute.

Only model-checked: liveness (`EventuallyTaken`, `SearchEnds`, `OutputDrains`,
`DisconnectCompletes`, `ResponsesEnd`), since the prover does not handle fairness.
Every invariant and both refinements of the passing runs are theorems.

## 5. Not modelled

* `epoll_wait` failing with anything but EINTR, `epoll_ctl` failing, and `eventfd`
  reads and writes failing for other reasons than a missing descriptor.
* A file of the cache that another program truncates or writes to while it is
  mapped; what is not reached through a name of the model's (a device or a FIFO,
  whose `open` may block).
* OpenSSL's error queue, which is per thread and which `fill_input_buffer_tls` and
  `flush_output_buffer_tls` never clear: an error left by another connection can
  make `SSL_get_error` report `SSL_ERROR_SSL` where the socket only had no data
  (`worker.cc:443-462`), and a connection is dropped. In `Connection` each call
  reports its own result.
* `SSL_read` wanting to write (a TLS 1.3 key update while the send buffer is
  full), and what OpenSSL does with the null pointers that a worker without an
  `SSL_CTX` gives it, which depends on its version.
* Failures of memory allocation: `bad_alloc` in the file cache and in buffers,
  and the negative result of `nghttp2_session_mem_send2` that
  `fill_output_buffer` stores in an unsigned variable.
* The copies and swap of the queue, which run only when a worker is moved;
  `WorkersAreSound` shows that none is.
* The end of the process: the destructors of `Server`, `Worker` and `MappedFile`
  run when `epoll_wait` has failed.
* Output for people: `operator<<` of the configuration and the router, usage.
* `ssl_ctx.cc`'s `is_alpn_h2_selected`, which nothing calls.

## 6. Plan

What could be added: `Service` as the environment of `Files`, so that the worker
of a connection is the one whose cache its requests meet; and the end of the
process, with the destructors of `Server`, `Worker` and `MappedFile` run while
bodies are being sent.
