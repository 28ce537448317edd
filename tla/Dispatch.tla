------------------------------ MODULE Dispatch ------------------------------
(***************************************************************************)
(* The acceptor thread (Server::listen_and_serve, handle_accept and the    *)
(* LoadBalancer), the workers' socket queues, and the workers' session     *)
(* maps: the life of a socket descriptor from accept4 to close, when the   *)
(* kernel may give its number to the next connection while the worker that *)
(* closed it is still cleaning up.                                         *)
(*                                                                         *)
(* A socket queue is the atomic bounded FIFO that CircularQueue implements *)
(* and a worker looks at its queue when there is something in it, which is *)
(* what Handoff is about.  What a worker does with a connection's data is  *)
(* reduced to its effect on descriptors and session map: it keeps the      *)
(* connection or it disconnects.                                           *)
(***************************************************************************)
EXTENDS Integers, Sequences, FiniteSets

CONSTANTS NumWorkers,   \* num_threads
          TableSize,    \* entries of the indirect table, 1024
          Bound,        \* sockets a queue holds
          Fd,           \* descriptors the process may use for clients
          MaxConn       \* bound on the connections that clients make

ASSUME DispatchAssumption ==
    /\ NumWorkers \in Nat \ {0}
    /\ TableSize \in Nat \ {0}
    /\ Bound \in Nat \ {0}
    /\ Fd \subseteq Nat
    /\ MaxConn \in Nat

Worker == 0 .. NumWorkers - 1
Conn == 1 .. MaxConn
None == -1

VARIABLES
    \* the kernel
    arrived,      \* connections clients have made
    taken,        \* connections accept4 has returned; taken + 1 .. arrived
                  \* are in the kernel's accept queue
    edge,         \* the listening socket has an event for epoll_wait
    peer,         \* peer[f]: the connection descriptor f is open for, or None
    \* the acceptor
    apc,          \* where it is
    sock,         \* clnt_sock, None when it has none
    index,        \* the worker acquire_worker_index looks at or returned
    seen,         \* the workers found full for sock
    accept_error, \* the error of accept4 that ended the last handle_accept
    indirect_table,
    \* worker w
    queue,        \* queue[w]: the socket queue
    session_map,  \* session_map[w][f]: the connection of the session, or None
    wpc,          \* where it is
    signal,       \* the eventfd is among the events still to be handled
    batch,        \* batch[w][f]: the connection f was open for when epoll_wait
                  \* returned an event for it that is still to be handled
    closing       \* the descriptor disconnect_from_client has closed and not
                  \* yet erased, or None

kernelVars == <<arrived, taken, edge, peer>>
acceptorVars == <<apc, sock, index, seen, accept_error, indirect_table>>
workerVars == <<session_map, wpc, signal, batch, closing>>
vars == <<arrived, taken, edge, peer, apc, sock, index, seen, accept_error,
          indirect_table, queue, session_map, wpc, signal, batch, closing>>

\* init_indirect_table, and the workers as spawn_workers leaves them.
Init ==
    /\ arrived = 0
    /\ taken = 0
    /\ edge = FALSE
    /\ peer = [f \in Fd |-> None]
    /\ apc = "epoll_wait"
    /\ sock = None
    /\ index = 0
    /\ seen = {}
    /\ accept_error = "none"
    /\ indirect_table = [i \in 0 .. TableSize - 1 |-> i % NumWorkers]
    /\ queue = [w \in Worker |-> <<>>]
    /\ session_map = [w \in Worker |-> [f \in Fd |-> None]]
    /\ wpc = [w \in Worker |-> "epoll_wait"]
    /\ signal = [w \in Worker |-> FALSE]
    /\ batch = [w \in Worker |-> [f \in Fd |-> None]]
    /\ closing = [w \in Worker |-> None]
-----------------------------------------------------------------------------
(***************************************************************************)
(* The kernel: a connection is established.                                *)
(***************************************************************************)
Connect ==
    /\ arrived < MaxConn
    /\ arrived' = arrived + 1
    /\ edge' = TRUE
    /\ UNCHANGED <<taken, peer, acceptorVars, queue, workerVars>>
-----------------------------------------------------------------------------
(***************************************************************************)
(* The acceptor.                                                           *)
(***************************************************************************)

\* epoll_wait returns the edge-triggered event, once.
AcceptorWakes ==
    /\ apc = "epoll_wait"
    /\ edge
    /\ edge' = FALSE
    /\ apc' = "accept"
    /\ accept_error' = "none"
    /\ UNCHANGED <<arrived, taken, peer, sock, index, seen, indirect_table,
                   queue, workerVars>>

Accept(f) ==
    /\ apc = "accept"
    /\ taken < arrived
    /\ peer[f] = None
    /\ taken' = taken + 1
    /\ peer' = [peer EXCEPT ![f] = taken + 1]
    /\ sock' = f
    /\ apc' = "acquire"
    /\ UNCHANGED <<arrived, edge, index, seen, accept_error, indirect_table,
                   queue, workerVars>>

\* EAGAIN: the accept queue is empty.
AcceptDrained ==
    /\ apc = "accept"
    /\ taken = arrived
    /\ apc' = "epoll_wait"
    /\ UNCHANGED <<kernelVars, sock, index, seen, accept_error, indirect_table,
                   queue, workerVars>>

\* EMFILE or ENFILE: no descriptor is free, the connection stays queued.
AcceptFails ==
    /\ apc = "accept"
    /\ taken < arrived
    /\ \A f \in Fd : peer[f] # None
    /\ apc' = "epoll_wait"
    /\ accept_error' = "EMFILE"
    /\ UNCHANGED <<kernelVars, sock, index, seen, indirect_table, queue,
                   workerVars>>

\* Any other error but EINTR, which is tried again, ends the loop in the same
\* way: the connection is gone (ECONNABORTED) or still queued (ENOBUFS, ENOMEM).
AcceptAborts ==
    /\ apc = "accept"
    /\ taken < arrived
    /\ taken' \in {taken, taken + 1}
    /\ apc' = "epoll_wait"
    /\ accept_error' = "other"
    /\ UNCHANGED <<arrived, edge, peer, sock, index, seen, indirect_table, queue,
                   workerVars>>

\* Mutant of is_full: one element too many.
is_overfull(w) == Len(queue[w]) > Bound

is_full(w) == Len(queue[w]) = Bound

Entry == sock % TableSize

\* Mutant of acquire_worker_index: gives up when the table's worker is full.
acquire_only_mapped ==
    /\ apc = "acquire"
    /\ index' = indirect_table[Entry]
    /\ IF ~is_full(indirect_table[Entry])
         THEN apc' = "enqueue" /\ seen' = {}
         ELSE apc' = "reject" /\ seen' = {indirect_table[Entry]}
    /\ UNCHANGED <<kernelVars, sock, accept_error, indirect_table, queue,
                   workerVars>>

\* Mutant of acquire_worker_index: the index is not reduced modulo the number
\* of workers.
acquire_without_modulo ==
    LET w == indirect_table[Entry] IN
    /\ apc = "acquire"
    /\ seen' = {}
    /\ index' = IF is_full(w) THEN w + 1 ELSE w
    /\ apc' = "enqueue"
    /\ UNCHANGED <<kernelVars, sock, accept_error, indirect_table, queue,
                   workerVars>>

\* Asks the worker that the table names first.
acquire_worker_index ==
    LET w == indirect_table[Entry] IN
    /\ apc = "acquire"
    /\ \/ /\ ~is_full(w)
          /\ index' = w
          /\ seen' = {}
          /\ apc' = "enqueue"
       \/ /\ is_full(w)
          /\ index' = (w + 1) % NumWorkers
          /\ seen' = {w}
          /\ apc' = IF index' = w THEN "reject" ELSE "scan"
    /\ UNCHANGED <<kernelVars, sock, accept_error, indirect_table, queue,
                   workerVars>>

\* Mutant of find_available_worker: compares with a start that the scan skips.
find_forever ==
    /\ apc = "scan"
    /\ \/ /\ ~is_full(index)
          /\ indirect_table' = [indirect_table EXCEPT ![Entry] = index]
          /\ apc' = "enqueue"
          /\ UNCHANGED <<index, seen>>
       \/ /\ is_full(index)
          /\ index' = (index + 1) % NumWorkers
          /\ seen' = seen \cup {index}
          /\ UNCHANGED <<apc, indirect_table>>
    /\ UNCHANGED <<kernelVars, sock, accept_error, queue, workerVars>>

\* Asks the others in turn; the table remembers the worker that had room.
find_available_worker ==
    /\ apc = "scan"
    /\ \/ /\ ~is_full(index)
          /\ indirect_table' = [indirect_table EXCEPT ![Entry] = index]
          /\ apc' = "enqueue"
          /\ UNCHANGED <<index, seen>>
       \/ /\ is_full(index)
          /\ index' = (index + 1) % NumWorkers
          /\ seen' = seen \cup {index}
          /\ apc' = IF index' = indirect_table[Entry] THEN "reject" ELSE "scan"
          /\ UNCHANGED indirect_table
    /\ UNCHANGED <<kernelVars, sock, accept_error, queue, workerVars>>

\* Mutant of Reject: leaves the accept loop.
RejectAndBreak ==
    /\ apc = "reject"
    /\ peer' = [peer EXCEPT ![sock] = None]
    /\ sock' = None
    /\ apc' = "epoll_wait"
    /\ UNCHANGED <<arrived, taken, edge, index, seen, accept_error,
                   indirect_table, queue, workerVars>>

\* Every worker was full: close and go on accepting.
Reject ==
    /\ apc = "reject"
    /\ peer' = [peer EXCEPT ![sock] = None]
    /\ sock' = None
    /\ apc' = "accept"
    /\ UNCHANGED <<arrived, taken, edge, index, seen, accept_error,
                   indirect_table, queue, workerVars>>

\* The push, and the close if it is refused.
enqueue_sock ==
    /\ apc = "enqueue"
    /\ IF is_full(index)
         THEN peer' = [peer EXCEPT ![sock] = None] /\ UNCHANGED queue
         ELSE queue' = [queue EXCEPT ![index] = Append(@, sock)] /\ UNCHANGED peer
    /\ sock' = None
    /\ apc' = "accept"
    /\ UNCHANGED <<arrived, taken, edge, index, seen, accept_error,
                   indirect_table, workerVars>>
-----------------------------------------------------------------------------
(***************************************************************************)
(* Worker w.                                                               *)
(***************************************************************************)

\* epoll_wait returns events for some of the worker's connections and for the
\* eventfd, which may be readable although the queue is empty: a socket can be
\* taken before its notification is written.
Harvest(w, fds, sig) ==
    /\ wpc[w] = "epoll_wait"
    /\ fds # {} \/ sig
    /\ \A f \in fds : session_map[w][f] # None
    /\ batch' = [batch EXCEPT ![w] = [f \in Fd |-> IF f \in fds THEN peer[f] ELSE None]]
    /\ signal' = [signal EXCEPT ![w] = sig]
    /\ wpc' = [wpc EXCEPT ![w] = "events"]
    /\ UNCHANGED <<kernelVars, acceptorVars, queue, session_map, closing>>

\* The events are handled one by one, here in any order.
HandleSignal(w) ==
    /\ wpc[w] = "events"
    /\ signal[w]
    /\ signal' = [signal EXCEPT ![w] = FALSE]
    /\ wpc' = [wpc EXCEPT ![w] = "drain"]
    /\ UNCHANGED <<kernelVars, acceptorVars, queue, session_map, batch, closing>>

\* Mutant of RefuseConnection: the socket is not closed.
RefuseAndLeak(w) ==
    /\ wpc[w] = "drain"
    /\ queue[w] # <<>>
    /\ queue' = [queue EXCEPT ![w] = Tail(@)]
    /\ UNCHANGED <<kernelVars, acceptorVars, workerVars>>

\* handle_new_connections: no session could be created.
RefuseConnection(w) ==
    /\ wpc[w] = "drain"
    /\ queue[w] # <<>>
    /\ queue' = [queue EXCEPT ![w] = Tail(@)]
    /\ peer' = [peer EXCEPT ![Head(queue[w])] = None]
    /\ UNCHANGED <<arrived, taken, edge, acceptorVars, workerVars>>

\* session_map.emplace leaves an entry alone that has the key already.
Emplaced(w, f) ==
    IF session_map[w][f] = None
      THEN [session_map EXCEPT ![w][f] = peer[f]]
      ELSE session_map

\* handle_new_connections: the connection is set up.
AddConnection(w) ==
    /\ wpc[w] = "drain"
    /\ queue[w] # <<>>
    /\ queue' = [queue EXCEPT ![w] = Tail(@)]
    /\ session_map' = Emplaced(w, Head(queue[w]))
    /\ UNCHANGED <<kernelVars, acceptorVars, wpc, signal, batch, closing>>

\* handle_new_connections: the TLS handshake or the first SETTINGS fail, and
\* disconnect_from_client closes the descriptor.
AddAndDisconnect(w) ==
    LET f == Head(queue[w]) IN
    /\ wpc[w] = "drain"
    /\ queue[w] # <<>>
    /\ queue' = [queue EXCEPT ![w] = Tail(@)]
    /\ session_map' = Emplaced(w, f)
    /\ peer' = [peer EXCEPT ![f] = None]
    /\ closing' = [closing EXCEPT ![w] = f]
    /\ wpc' = [wpc EXCEPT ![w] = "erase_new"]
    /\ UNCHANGED <<arrived, taken, edge, acceptorVars, signal, batch>>

Drained(w) ==
    /\ wpc[w] = "drain"
    /\ queue[w] = <<>>
    /\ wpc' = [wpc EXCEPT ![w] = "events"]
    /\ UNCHANGED <<kernelVars, acceptorVars, queue, session_map, signal, batch,
                   closing>>

\* handle_events or handle_tls_handshake keep the connection.
HandleEvent(w, f) ==
    /\ wpc[w] = "events"
    /\ batch[w][f] # None
    /\ batch' = [batch EXCEPT ![w][f] = None]
    /\ UNCHANGED <<kernelVars, acceptorVars, queue, session_map, wpc, signal,
                   closing>>

\* Mutant of HandleAndDisconnect: the event is looked at a second time.
DisconnectAndStay(w, f) ==
    /\ wpc[w] = "events"
    /\ batch[w][f] # None
    /\ session_map[w][f] # None
    /\ peer' = [peer EXCEPT ![f] = None]
    /\ closing' = [closing EXCEPT ![w] = f]
    /\ wpc' = [wpc EXCEPT ![w] = "erase"]
    /\ UNCHANGED <<arrived, taken, edge, acceptorVars, queue, session_map,
                   signal, batch>>

\* They disconnect: EPOLL_CTL_DEL and close come before the erase.
HandleAndDisconnect(w, f) ==
    /\ wpc[w] = "events"
    /\ batch[w][f] # None
    /\ session_map[w][f] # None
    /\ batch' = [batch EXCEPT ![w][f] = None]
    /\ peer' = [peer EXCEPT ![f] = None]
    /\ closing' = [closing EXCEPT ![w] = f]
    /\ wpc' = [wpc EXCEPT ![w] = "erase"]
    /\ UNCHANGED <<arrived, taken, edge, acceptorVars, queue, session_map, signal>>

\* Mutant of EraseSession: the entry stays.
EraseNothing(w) ==
    /\ closing[w] # None
    /\ closing' = [closing EXCEPT ![w] = None]
    /\ wpc' = [wpc EXCEPT ![w] = IF @ = "erase" THEN "events" ELSE "drain"]
    /\ UNCHANGED <<kernelVars, acceptorVars, queue, session_map, signal, batch>>

\* The end of disconnect_from_client.
EraseSession(w) ==
    /\ closing[w] # None
    /\ session_map' = [session_map EXCEPT ![w][closing[w]] = None]
    /\ closing' = [closing EXCEPT ![w] = None]
    /\ wpc' = [wpc EXCEPT ![w] = IF @ = "erase" THEN "events" ELSE "drain"]
    /\ UNCHANGED <<kernelVars, acceptorVars, queue, signal, batch>>

EventsDone(w) ==
    /\ wpc[w] = "events"
    /\ ~signal[w]
    /\ \A f \in Fd : batch[w][f] = None
    /\ wpc' = [wpc EXCEPT ![w] = "epoll_wait"]
    /\ UNCHANGED <<kernelVars, acceptorVars, queue, session_map, signal, batch,
                   closing>>
-----------------------------------------------------------------------------
Balance == acquire_worker_index \/ find_available_worker \/ Reject \/ enqueue_sock

handle_accept ==
    \/ \E f \in Fd : Accept(f)
    \/ AcceptDrained
    \/ AcceptFails
    \/ AcceptAborts
    \/ Balance

handle_new_connections(w) ==
    \/ RefuseConnection(w)
    \/ AddConnection(w)
    \/ AddAndDisconnect(w)
    \/ Drained(w)

Run(w) ==
    \/ \E fds \in SUBSET Fd, sig \in BOOLEAN : Harvest(w, fds, sig)
    \/ HandleSignal(w)
    \/ handle_new_connections(w)
    \/ \E f \in Fd : HandleEvent(w, f) \/ HandleAndDisconnect(w, f)
    \/ EraseSession(w)
    \/ EventsDone(w)

Next ==
    \/ Connect
    \/ AcceptorWakes
    \/ handle_accept
    \/ \E w \in Worker : Run(w)

Spec == Init /\ [][Next]_vars

\* Only the acceptor need be scheduled for what it owes.
FairSpec == Spec /\ WF_vars(AcceptorWakes \/ handle_accept)
-----------------------------------------------------------------------------
AcceptorPc == {"epoll_wait", "accept", "acquire", "scan", "reject", "enqueue"}
WorkerPc == {"epoll_wait", "events", "drain", "erase", "erase_new"}

TypeOK ==
    /\ arrived \in 0 .. MaxConn
    /\ taken \in 0 .. arrived
    /\ edge \in BOOLEAN
    /\ peer \in [Fd -> Conn \cup {None}]
    /\ apc \in AcceptorPc
    /\ sock \in Fd \cup {None}
    /\ index \in Worker
    /\ seen \subseteq Worker
    /\ accept_error \in {"none", "EMFILE", "other"}
    /\ indirect_table \in [0 .. TableSize - 1 -> Worker]
    /\ queue \in [Worker -> Seq(Fd)]
    /\ \A w \in Worker : Len(queue[w]) <= Bound
    /\ session_map \in [Worker -> [Fd -> Conn \cup {None}]]
    /\ wpc \in [Worker -> WorkerPc]
    /\ signal \in [Worker -> BOOLEAN]
    /\ batch \in [Worker -> [Fd -> Conn \cup {None}]]
    /\ closing \in [Worker -> Fd \cup {None}]

\* Who is responsible for closing descriptor f.
Holders(f) ==
    (IF sock = f THEN {<<"acceptor", 0, 0>>} ELSE {})
    \cup {h \in {"queue"} \X Worker \X (1 .. Bound) :
            h[3] <= Len(queue[h[2]]) /\ queue[h[2]][h[3]] = f}
    \cup {h \in {"session"} \X Worker \X {0} :
            session_map[h[2]][f] # None /\ closing[h[2]] # f}

\* Every open client descriptor has exactly one holder and a closed one has
\* none: no path of handle_accept, enqueue_sock, handle_new_connections or
\* disconnect_from_client leaks a descriptor, hands it to two threads or
\* leaves one to be closed twice.
OneHolder ==
    \A f \in Fd : Cardinality(Holders(f)) = IF peer[f] = None THEN 0 ELSE 1

\* An event that epoll_wait returned some time ago is still about the
\* connection it was returned for when its turn comes, and finds its session.
EventsAreCurrent ==
    \A w \in Worker, f \in Fd :
        batch[w][f] # None =>
            /\ peer[f] = batch[w][f]
            /\ session_map[w][f] = batch[w][f]

\* Between the load balancer's is_full and the push the queue only shrinks:
\* the branch for a refused push is never taken.
AcquiredHasRoom == apc = "enqueue" => Len(queue[index]) < Bound

\* A connection is turned away only after every worker was asked and found
\* full.
RejectedByAll == apc = "reject" => seen = Worker

\* handle_accept leaves connections behind in the kernel's queue without an
\* event to come back for them only after accept4 failed.
BacklogIsExplained ==
    apc = "epoll_wait" /\ ~edge /\ taken < arrived => accept_error # "none"

\* The acceptor never sleeps, with no event to come, on a connection that it
\* could accept, unless accept4 failed for another reason than the want of a
\* descriptor.
NoConnectionLeftWaiting ==
    apc = "epoll_wait" /\ ~edge /\ taken < arrived /\ accept_error # "other" =>
        \A f \in Fd : peer[f] # None

\* Whatever the workers do to their queues meanwhile, the search for a worker
\* ends and the acceptor goes on accepting.
SearchEnds == (apc = "acquire") ~> (apc = "accept")
-----------------------------------------------------------------------------
(***************************************************************************)
(* Connections instead of descriptors: what Service speaks of.             *)
(***************************************************************************)
Held == {peer[f] : f \in {sock} \cap Fd}

Line == [w \in Worker |-> [i \in 1 .. Len(queue[w]) |-> peer[queue[w][i]]]]

\* A session counts until disconnect_from_client has closed its descriptor.
Serving ==
    [w \in Worker |-> {session_map[w][f] :
                         f \in {g \in Fd : session_map[w][g] # None /\ closing[w] # g}}]

S == INSTANCE Service WITH held <- Held, line <- Line, serving <- Serving

\* The acceptor and the workers, with numbers that are reused before their
\* sessions are erased, queues of descriptors and maps that never replace an
\* entry, do for connections what Service says: one worker each, in order of
\* arrival, and no connection is ever taken for another.
ImplementsService == S!ServiceSpec
=============================================================================
