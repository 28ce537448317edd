--------------------------- MODULE DispatchProofs ---------------------------
(***************************************************************************)
(* Proofs about Dispatch for every number of workers, size of the table,   *)
(* queue bound, set of descriptors and number of connections.              *)
(***************************************************************************)
EXTENDS Dispatch, SequenceTheorems, FiniteSetTheorems, TLAPS

-----------------------------------------------------------------------------
(***************************************************************************)
(* The inductive invariant, about the acceptor and about the descriptors.  *)
(***************************************************************************)

\* The workers that the search has passed, from the one the table names up to
\* the one before index, around the end of the array.
Passed(t, i) == IF t < i THEN t .. i - 1 ELSE (t .. NumWorkers - 1) \cup (0 .. i - 1)

\* The acceptor has a socket exactly while it looks for a worker for it.
AcceptorInv ==
    /\ sock # None <=> apc \in {"acquire", "scan", "reject", "enqueue"}
    /\ apc = "scan" => /\ index # indirect_table[Entry]
                       /\ seen = Passed(indirect_table[Entry], index)

\* disconnect_from_client is under way exactly at the worker's two erases, and
\* events are left over only between two calls of epoll_wait, never for the
\* descriptor that was closed.
WorkerInv ==
    \A w \in Worker :
        /\ closing[w] # None <=> wpc[w] \in {"erase", "erase_new"}
        /\ \A f \in Fd : batch[w][f] # None => wpc[w] # "epoll_wait" /\ closing[w] # f

\* The descriptors in the socket queues.
Queued == {f \in Fd : \E w \in Worker : \E i \in 1 .. Len(queue[w]) : queue[w][i] = f}

\* The session of f is in w's map, and it is not the one being erased.
Owns(w, f) == session_map[w][f] # None /\ closing[w] # f

\* A session found in a worker's map under a descriptor is the session of the
\* connection that descriptor is open for, although numbers are reused before
\* the erase and emplace does not replace: outside disconnect_from_client no
\* session outlives its descriptor.
SessionIsOfItsConnection ==
    \A w \in Worker, f \in Fd :
        session_map[w][f] # None /\ closing[w] # f => session_map[w][f] = peer[f]

\* What is held is open, ...
HeldIsOpen ==
    /\ sock # None => peer[sock] # None
    /\ \A f \in Queued : peer[f] # None
    /\ SessionIsOfItsConnection

\* ... what is open is held, ...
OpenIsHeld ==
    \A f \in Fd :
        peer[f] # None => sock = f \/ f \in Queued \/ \E w \in Worker : Owns(w, f)

\* ... by one holder ...
HeldOnce ==
    \A f \in Fd :
        /\ f \in Queued => sock # f
        /\ \A w \in Worker :
             Owns(w, f) => sock # f /\ f \notin Queued /\ \A v \in Worker : Owns(v, f) => v = w

\* ... and in one place of one queue.
QueuedOnce ==
    \A w, v \in Worker : \A i \in 1 .. Len(queue[w]), j \in 1 .. Len(queue[v]) :
        queue[w][i] = queue[v][j] => w = v /\ i = j

\* No two descriptors are open for one connection, nor one for a connection
\* that has not been accepted.
PeerInv ==
    /\ \A f \in Fd : peer[f] # None => peer[f] <= taken
    /\ \A f, g \in Fd : peer[f] # None /\ peer[f] = peer[g] => f = g

IInv == /\ TypeOK
        /\ AcceptorInv
        /\ AcquiredHasRoom
        /\ RejectedByAll
        /\ BacklogIsExplained
        /\ WorkerInv
        /\ HeldIsOpen
        /\ OpenIsHeld
        /\ HeldOnce
        /\ QueuedOnce
        /\ EventsAreCurrent
        /\ PeerInv
-----------------------------------------------------------------------------
(***************************************************************************)
(* Lemmas about the operators.                                             *)
(***************************************************************************)

\* A remainder is below its divisor.
LEMMA ModRange ==
    ASSUME NEW a \in Nat, NEW b \in Nat \ {0} PROVE a % b \in 0 .. b - 1
  OBVIOUS

\* The next worker, as acquire_worker_index and find_available_worker count.
LEMMA NextWorker ==
    ASSUME NEW i \in Worker
    PROVE  (i + 1) % NumWorkers = IF i + 1 = NumWorkers THEN 0 ELSE i + 1
<1> USE DispatchAssumption DEF Worker
<1>1. CASE i + 1 = NumWorkers
  BY <1>1
<1>2. CASE i + 1 # NumWorkers
  <2>1. i + 1 \in 0 .. NumWorkers - 1
    BY <1>2
  <2> QED
    BY <2>1, <1>2
<1> QED
  BY <1>1, <1>2

\* The next worker is one.
LEMMA NextWorkerType ==
    ASSUME NEW i \in Worker PROVE (i + 1) % NumWorkers \in Worker
  BY NextWorker, DispatchAssumption DEF Worker

\* The table has an entry for every socket.
LEMMA EntryType ==
    ASSUME TypeOK, sock # None
    PROVE  Entry \in 0 .. TableSize - 1 /\ indirect_table[Entry] \in Worker
<1>1. sock \in Nat
  BY DispatchAssumption DEF TypeOK
<1>2. Entry \in 0 .. TableSize - 1
  BY <1>1, ModRange, DispatchAssumption DEF Entry
<1> QED
  BY <1>2 DEF TypeOK

\* The search goes on by one worker.
LEMMA PassedStep ==
    ASSUME NEW t \in Worker, NEW i \in Worker, t # i
    PROVE  LET n == (i + 1) % NumWorkers IN
           Passed(t, i) \cup {i} = IF n = t THEN Worker ELSE Passed(t, n)
<1> USE DispatchAssumption DEF Worker, Passed
<1>1. CASE i + 1 = NumWorkers
  BY <1>1, NextWorker
<1>2. CASE i + 1 # NumWorkers
  BY <1>2, NextWorker
<1> QED
  BY <1>1, <1>2

\* The search begins after the worker that the table names.
LEMMA PassedFirst ==
    ASSUME NEW t \in Worker
    PROVE  LET n == (t + 1) % NumWorkers IN
           {t} = IF n = t THEN Worker ELSE Passed(t, n)
<1> USE DispatchAssumption DEF Worker, Passed
<1>1. CASE t + 1 = NumWorkers
  BY <1>1, NextWorker
<1>2. CASE t + 1 # NumWorkers
  BY <1>2, NextWorker
<1> QED
  BY <1>1, <1>2

\* What a pop does to a worker's queue.
LEMMA PopQueue ==
    ASSUME TypeOK, NEW w \in Worker, queue[w] # <<>>,
           queue' = [queue EXCEPT ![w] = Tail(@)]
    PROVE  /\ queue' \in [Worker -> Seq(Fd)]
           /\ Len(queue[w]) \in Nat \ {0}
           /\ Len(queue'[w]) = Len(queue[w]) - 1
           /\ \A i \in 1 .. Len(queue'[w]) : queue'[w][i] = queue[w][i + 1]
           /\ \A v \in Worker : v # w => queue'[v] = queue[v]
           /\ Head(queue[w]) = queue[w][1] /\ Head(queue[w]) \in Fd
<1>1. queue[w] \in Seq(Fd)
  BY DEF TypeOK
<1>2. queue'[w] = Tail(queue[w]) /\ \A v \in Worker : v # w => queue'[v] = queue[v]
  BY DEF TypeOK
<1>3. /\ Head(queue[w]) \in Fd
      /\ Tail(queue[w]) \in Seq(Fd)
      /\ Len(Tail(queue[w])) = Len(queue[w]) - 1
      /\ \A i \in 1 .. Len(Tail(queue[w])) : Tail(queue[w])[i] = queue[w][i + 1]
  BY <1>1, HeadTailProperties
<1>4. Len(queue[w]) \in Nat \ {0}
  BY <1>1, EmptySeq
<1>5. Head(queue[w]) = queue[w][1]
  BY <1>1
<1>6. queue' \in [Worker -> Seq(Fd)]
  BY <1>3 DEF TypeOK
<1> QED
  BY <1>2, <1>3, <1>4, <1>5, <1>6

\* What a push does to it.
LEMMA PushQueue ==
    ASSUME TypeOK, NEW w \in Worker, NEW f \in Fd,
           queue' = [queue EXCEPT ![w] = Append(@, f)]
    PROVE  /\ queue' \in [Worker -> Seq(Fd)]
           /\ Len(queue[w]) \in Nat
           /\ Len(queue'[w]) = Len(queue[w]) + 1
           /\ \A i \in 1 .. Len(queue[w]) : queue'[w][i] = queue[w][i]
           /\ queue'[w][Len(queue[w]) + 1] = f
           /\ \A v \in Worker : v # w => queue'[v] = queue[v]
<1>1. queue[w] \in Seq(Fd)
  BY DEF TypeOK
<1>2. queue'[w] = Append(queue[w], f) /\ \A v \in Worker : v # w => queue'[v] = queue[v]
  BY DEF TypeOK
<1>3. Append(queue[w], f) \in Seq(Fd)
  BY <1>1, AppendProperties
<1>4. queue' \in [Worker -> Seq(Fd)]
  BY <1>3 DEF TypeOK
<1>5. Len(queue[w]) \in Nat
  BY <1>1, LenProperties
<1> QED
  BY <1>1, <1>2, <1>4, <1>5, AppendProperties

\* No descriptor is None.
LEMMA FdIsNotNone == \A f \in Fd : f # None
  BY DispatchAssumption DEF None

\* A queue has a length, and its elements are descriptors.
LEMMA QueueTypes ==
    ASSUME TypeOK, NEW w \in Worker
    PROVE  /\ Len(queue[w]) \in Nat
           /\ \A i \in 1 .. Len(queue[w]) : queue[w][i] \in Fd
<1>1. queue[w] \in Seq(Fd)
  BY DEF TypeOK
<1> QED
  BY <1>1, LenProperties, ElementOfSeq
-----------------------------------------------------------------------------
(***************************************************************************)
(* Initially.                                                              *)
(***************************************************************************)
LEMMA InitIInv == Init => IInv
<1> SUFFICES ASSUME Init PROVE IInv
  OBVIOUS
<1> USE DispatchAssumption DEF Init
<1>1. TypeOK
  <2>1. indirect_table \in [0 .. TableSize - 1 -> Worker]
    BY ModRange DEF Worker
  <2>2. queue \in [Worker -> Seq(Fd)] /\ \A w \in Worker : Len(queue[w]) <= Bound
    BY EmptySeq
  <2>3. index \in Worker
    BY DEF Worker
  <2>4. /\ arrived \in 0 .. MaxConn /\ taken \in 0 .. arrived
        /\ peer \in [Fd -> Conn \cup {None}]
        /\ apc \in AcceptorPc /\ sock \in Fd \cup {None} /\ seen \subseteq Worker
    BY DEF AcceptorPc
  <2>5. /\ session_map \in [Worker -> [Fd -> Conn \cup {None}]]
        /\ wpc \in [Worker -> WorkerPc]
        /\ signal \in [Worker -> BOOLEAN]
        /\ batch \in [Worker -> [Fd -> Conn \cup {None}]]
        /\ closing \in [Worker -> Fd \cup {None}]
    BY DEF WorkerPc
  <2>6. edge \in BOOLEAN /\ accept_error \in {"none", "EMFILE", "other"}
    OBVIOUS
  <2> QED
    BY <2>1, <2>2, <2>3, <2>4, <2>5, <2>6 DEF TypeOK
<1>2. \A w \in Worker : Len(queue[w]) = 0
  OBVIOUS
<1>3. AcceptorInv /\ AcquiredHasRoom /\ RejectedByAll /\ BacklogIsExplained
  BY DEF AcceptorInv, AcquiredHasRoom, RejectedByAll, BacklogIsExplained
<1>4. WorkerInv /\ EventsAreCurrent
  BY DEF WorkerInv, EventsAreCurrent
<1>5. Queued = {} /\ QueuedOnce
  BY <1>2 DEF Queued, QueuedOnce
<1>6. HeldIsOpen /\ OpenIsHeld /\ HeldOnce
  BY <1>5 DEF HeldIsOpen, SessionIsOfItsConnection, OpenIsHeld, HeldOnce, Owns
<1>7. PeerInv
  BY DEF PeerInv
<1> QED
  BY <1>1, <1>3, <1>4, <1>5, <1>6, <1>7 DEF IInv
-----------------------------------------------------------------------------
(***************************************************************************)
(* Every step keeps the types.                                             *)
(***************************************************************************)
LEMMA NextTypeOK == IInv /\ [Next]_vars => TypeOK'
<1> SUFFICES ASSUME IInv, [Next]_vars PROVE TypeOK'
  OBVIOUS
<1> USE DispatchAssumption
<1>0. TypeOK /\ AcceptorInv /\ AcquiredHasRoom /\ WorkerInv
  BY DEF IInv
<1> USE <1>0
<1>1. CASE Connect
  BY <1>1 DEF Connect, acceptorVars, workerVars, TypeOK
<1>2. CASE AcceptorWakes
  BY <1>2 DEF AcceptorWakes, workerVars, TypeOK, AcceptorPc
<1>3. ASSUME NEW f \in Fd, Accept(f) PROVE TypeOK'
  <2>1. taken' \in 0 .. arrived' /\ taken' \in Conn
    BY <1>3 DEF Accept, TypeOK, Conn
  <2> QED
    BY <1>3, <2>1 DEF Accept, workerVars, TypeOK, AcceptorPc
<1>4. CASE AcceptDrained \/ AcceptFails
  BY <1>4 DEF AcceptDrained, AcceptFails, kernelVars, workerVars, TypeOK, AcceptorPc
<1>a. CASE AcceptAborts
  <2>1. taken' \in 0 .. arrived'
    BY <1>a DEF AcceptAborts, TypeOK
  <2> QED
    BY <1>a, <2>1 DEF AcceptAborts, workerVars, TypeOK, AcceptorPc
<1>5. CASE acquire_worker_index
  <2>1. indirect_table[Entry] \in Worker
    BY <1>5, EntryType DEF acquire_worker_index, AcceptorInv
  <2>2. index' \in Worker /\ seen' \subseteq Worker /\ apc' \in AcceptorPc
    BY <1>5, <2>1, NextWorkerType DEF acquire_worker_index, AcceptorPc
  <2> QED
    BY <1>5, <2>2 DEF acquire_worker_index, kernelVars, workerVars, TypeOK
<1>6. CASE find_available_worker
  <2>1. Entry \in 0 .. TableSize - 1
    BY <1>6, EntryType DEF find_available_worker, AcceptorInv
  <2>2. /\ index' \in Worker /\ seen' \subseteq Worker /\ apc' \in AcceptorPc
        /\ indirect_table' \in [0 .. TableSize - 1 -> Worker]
    BY <1>6, <2>1, NextWorkerType DEF find_available_worker, AcceptorPc, TypeOK
  <2> QED
    BY <1>6, <2>2 DEF find_available_worker, kernelVars, workerVars, TypeOK
<1>7. CASE Reject
  BY <1>7 DEF Reject, workerVars, TypeOK, AcceptorPc
<1>8. CASE enqueue_sock
  <2>1. ~is_full(index) /\ sock \in Fd /\ index \in Worker
    BY <1>8, QueueTypes DEF enqueue_sock, AcquiredHasRoom, is_full, AcceptorInv, TypeOK
  <2>2. queue' = [queue EXCEPT ![index] = Append(@, sock)] /\ peer' = peer
    BY <1>8, <2>1 DEF enqueue_sock
  <2>3. queue' \in [Worker -> Seq(Fd)] /\ \A w \in Worker : Len(queue'[w]) <= Bound
    BY <1>8, <2>1, <2>2, PushQueue DEF enqueue_sock, AcquiredHasRoom, TypeOK
  <2> QED
    BY <1>8, <2>2, <2>3 DEF enqueue_sock, workerVars, TypeOK, AcceptorPc
<1>9. ASSUME NEW w \in Worker, Run(w) PROVE TypeOK'
  <2>1. ASSUME queue[w] # <<>>, queue' = [queue EXCEPT ![w] = Tail(@)]
        PROVE  /\ queue' \in [Worker -> Seq(Fd)]
               /\ \A v \in Worker : Len(queue'[v]) <= Bound
               /\ Head(queue[w]) \in Fd
    BY <2>1, PopQueue DEF TypeOK
  <2>2. ASSUME NEW fds \in SUBSET Fd, NEW sig \in BOOLEAN, Harvest(w, fds, sig)
        PROVE  TypeOK'
    <3>1. batch' \in [Worker -> [Fd -> Conn \cup {None}]]
      BY <2>2 DEF Harvest, TypeOK
    <3> QED
      BY <2>2, <3>1 DEF Harvest, kernelVars, acceptorVars, TypeOK, WorkerPc
  <2>3. CASE HandleSignal(w) \/ Drained(w) \/ EventsDone(w)
    BY <2>3 DEF HandleSignal, Drained, EventsDone, kernelVars, acceptorVars, TypeOK, WorkerPc
  <2>4. CASE RefuseConnection(w)
    BY <2>4, <2>1 DEF RefuseConnection, acceptorVars, workerVars, TypeOK
  <2>5. ASSUME NEW f \in Fd
        PROVE  Emplaced(w, f) \in [Worker -> [Fd -> Conn \cup {None}]]
    BY DEF Emplaced, TypeOK
  <2>6. CASE AddConnection(w)
    BY <2>6, <2>1, <2>5 DEF AddConnection, kernelVars, acceptorVars, TypeOK
  <2>7. CASE AddAndDisconnect(w)
    BY <2>7, <2>1, <2>5 DEF AddAndDisconnect, acceptorVars, TypeOK, WorkerPc
  <2>8. ASSUME NEW f \in Fd, HandleEvent(w, f) PROVE TypeOK'
    BY <2>8 DEF HandleEvent, kernelVars, acceptorVars, TypeOK
  <2>9. ASSUME NEW f \in Fd, HandleAndDisconnect(w, f) PROVE TypeOK'
    BY <2>9 DEF HandleAndDisconnect, acceptorVars, TypeOK, WorkerPc
  <2>10. CASE EraseSession(w)
    <3>1. session_map' \in [Worker -> [Fd -> Conn \cup {None}]]
      BY <2>10 DEF EraseSession, TypeOK
    <3> QED
      BY <2>10, <3>1 DEF EraseSession, kernelVars, acceptorVars, TypeOK, WorkerPc
  <2> QED
    BY <1>9, <2>2, <2>3, <2>4, <2>6, <2>7, <2>8, <2>9, <2>10
       DEF Run, handle_new_connections
<1>10. CASE UNCHANGED vars
  BY <1>10 DEF vars, TypeOK
<1> QED
  BY <1>1, <1>2, <1>3, <1>4, <1>a, <1>5, <1>6, <1>7, <1>8, <1>9, <1>10
     DEF Next, handle_accept, Balance
-----------------------------------------------------------------------------
(***************************************************************************)
(* Every step keeps what is known about the acceptor.  Of the workers'     *)
(* steps it is enough to know that their queues only shrink.               *)
(***************************************************************************)
LEMMA QueuesShrink ==
    ASSUME TypeOK, NEW w \in Worker, Run(w)
    PROVE  /\ UNCHANGED <<arrived, taken, edge, acceptorVars>>
           /\ \A v \in Worker : Len(queue'[v]) <= Len(queue[v])
<1>1. \A v \in Worker : Len(queue[v]) \in Nat
  BY QueueTypes
<1>2. ASSUME queue' = queue PROVE \A v \in Worker : Len(queue'[v]) <= Len(queue[v])
  BY <1>1, <1>2
<1>3. ASSUME queue[w] # <<>>, queue' = [queue EXCEPT ![w] = Tail(@)]
      PROVE  \A v \in Worker : Len(queue'[v]) <= Len(queue[v])
  BY <1>1, <1>3, PopQueue
<1>4. CASE \E fds \in SUBSET Fd, sig \in BOOLEAN : Harvest(w, fds, sig)
  BY <1>4, <1>2 DEF Harvest, kernelVars
<1>5. CASE HandleSignal(w) \/ Drained(w) \/ EventsDone(w) \/ EraseSession(w)
  BY <1>5, <1>2 DEF HandleSignal, Drained, EventsDone, EraseSession, kernelVars
<1>6. CASE RefuseConnection(w) \/ AddConnection(w) \/ AddAndDisconnect(w)
  BY <1>6, <1>3 DEF RefuseConnection, AddConnection, AddAndDisconnect, kernelVars
<1>7. CASE \E f \in Fd : HandleEvent(w, f) \/ HandleAndDisconnect(w, f)
  BY <1>7, <1>2 DEF HandleEvent, HandleAndDisconnect, kernelVars
<1> QED
  BY <1>4, <1>5, <1>6, <1>7 DEF Run, handle_new_connections

\* Every step keeps what is known of the acceptor: the worker it has chosen has
\* room, the ones it has passed over were full, and a backlog has its cause.
LEMMA NextAcceptor ==
    IInv /\ [Next]_vars =>
        (AcceptorInv /\ AcquiredHasRoom /\ RejectedByAll /\ BacklogIsExplained)'
<1> SUFFICES ASSUME IInv, [Next]_vars
             PROVE  (AcceptorInv /\ AcquiredHasRoom /\ RejectedByAll /\ BacklogIsExplained)'
  OBVIOUS
<1> USE DispatchAssumption DEF AcceptorInv, AcquiredHasRoom, RejectedByAll,
                               BacklogIsExplained, Entry
<1>0. TypeOK /\ AcceptorInv /\ AcquiredHasRoom /\ RejectedByAll /\ BacklogIsExplained
  BY DEF IInv
<1> USE <1>0
<1>a. \A f \in Fd : f # None
  BY DEF None
<1>1. CASE Connect
  BY <1>1 DEF Connect, acceptorVars
<1>2. CASE AcceptorWakes
  BY <1>2 DEF AcceptorWakes
<1>3. ASSUME NEW f \in Fd, Accept(f)
      PROVE  (AcceptorInv /\ AcquiredHasRoom /\ RejectedByAll /\ BacklogIsExplained)'
  BY <1>3, <1>a DEF Accept
<1>4. CASE AcceptDrained \/ AcceptFails \/ AcceptAborts
  BY <1>4 DEF AcceptDrained, AcceptFails, AcceptAborts, kernelVars, TypeOK
<1>5. CASE acquire_worker_index
  <2> DEFINE t == indirect_table[Entry]
  <2>1. t \in Worker /\ UNCHANGED <<sock, indirect_table, queue>> /\ sock # None
    BY <1>5, EntryType DEF acquire_worker_index
  <2>2. CASE ~is_full(t)
    <3>1. Len(queue[t]) < Bound
      BY <2>1, <2>2, QueueTypes DEF is_full, TypeOK
    <3> QED
      BY <1>5, <2>1, <2>2, <3>1 DEF acquire_worker_index
  <2>3. CASE is_full(t)
    <3>1. seen' = IF index' = t THEN Worker ELSE Passed(t, index')
      BY <1>5, <2>1, <2>3, PassedFirst DEF acquire_worker_index
    <3> QED
      BY <1>5, <2>1, <2>3, <3>1 DEF acquire_worker_index
  <2> QED
    BY <2>2, <2>3
<1>6. CASE find_available_worker
  <2> DEFINE t == indirect_table[Entry]
  <2>1. t \in Worker /\ index \in Worker /\ UNCHANGED <<sock, queue>> /\ sock # None
    BY <1>6, EntryType DEF find_available_worker, TypeOK
  <2>2. CASE ~is_full(index)
    <3>1. Len(queue[index]) < Bound
      BY <2>1, <2>2, QueueTypes DEF is_full, TypeOK
    <3> QED
      BY <1>6, <2>1, <2>2, <3>1 DEF find_available_worker
  <2>3. CASE is_full(index)
    <3>1. seen' = IF index' = t THEN Worker ELSE Passed(t, index')
      BY <1>6, <2>1, <2>3, PassedStep DEF find_available_worker
    <3> QED
      BY <1>6, <2>1, <2>3, <3>1 DEF find_available_worker
  <2> QED
    BY <2>2, <2>3
<1>7. CASE Reject \/ enqueue_sock
  BY <1>7 DEF Reject, enqueue_sock
<1>8. ASSUME NEW w \in Worker, Run(w)
      PROVE  (AcceptorInv /\ AcquiredHasRoom /\ RejectedByAll /\ BacklogIsExplained)'
  <2>1. UNCHANGED <<arrived, taken, edge, apc, sock, index, seen, accept_error,
                    indirect_table>>
    BY <1>8, QueuesShrink DEF acceptorVars
  <2>2. index \in Worker /\ Len(queue'[index]) <= Len(queue[index])
    BY <1>8, QueuesShrink DEF TypeOK
  <2>3. Len(queue[index]) \in Nat /\ Len(queue'[index]) \in Nat
    BY <2>1, <2>2, NextTypeOK, QueueTypes DEF TypeOK
  <2> QED
    BY <2>1, <2>2, <2>3
<1>9. CASE UNCHANGED vars
  BY <1>9 DEF vars
<1> QED
  BY <1>1, <1>2, <1>3, <1>4, <1>5, <1>6, <1>7, <1>8, <1>9
     DEF Next, handle_accept, Balance
-----------------------------------------------------------------------------
(***************************************************************************)
(* What a worker that drains its queue knows of the descriptor it takes:   *)
(* it is open, nobody else has it, and neither the session map nor an      *)
(* event still to be handled mentions it.                                  *)
(***************************************************************************)
LEMMA HeadOfQueue ==
    ASSUME IInv, NEW w \in Worker, wpc[w] = "drain", queue[w] # <<>>
    PROVE  LET f == Head(queue[w]) IN
           /\ f \in Queued /\ f \in Fd /\ f # None /\ f # sock
           /\ peer[f] # None
           /\ closing[w] = None
           /\ session_map[w][f] = None
           /\ \A v \in Worker : ~Owns(v, f) /\ batch[v][f] = None
<1> DEFINE f == Head(queue[w])
<1>0. TypeOK /\ WorkerInv /\ HeldIsOpen /\ HeldOnce /\ EventsAreCurrent
  BY DEF IInv
<1>1. queue[w] \in Seq(Fd)
  BY <1>0 DEF TypeOK
<1>2. f \in Fd /\ f = queue[w][1] /\ Len(queue[w]) \in Nat \ {0}
  BY <1>1, HeadTailProperties, EmptySeq
<1>3. f # None
  BY <1>2, FdIsNotNone
<1>4. f \in Queued
  BY <1>2 DEF Queued
<1>5. closing[w] = None
  BY <1>0 DEF WorkerInv
<1>6. f # sock /\ peer[f] # None /\ \A v \in Worker : ~Owns(v, f)
  BY <1>0, <1>2, <1>4 DEF HeldIsOpen, HeldOnce
<1>7. session_map[w][f] = None
  BY <1>3, <1>5, <1>6 DEF Owns
<1>8. \A v \in Worker : batch[v][f] = None
  BY <1>0, <1>2, <1>6 DEF EventsAreCurrent, WorkerInv, Owns
<1> QED
  BY <1>2, <1>3, <1>4, <1>5, <1>6, <1>7, <1>8
-----------------------------------------------------------------------------
(***************************************************************************)
(* Every step keeps what is known about the workers' program counters.     *)
(***************************************************************************)
LEMMA NextWorkerInv == IInv /\ [Next]_vars => WorkerInv'
<1> SUFFICES ASSUME IInv, [Next]_vars PROVE WorkerInv'
  OBVIOUS
<1> USE DispatchAssumption DEF WorkerInv
<1>0. TypeOK /\ WorkerInv
  BY DEF IInv
<1> USE <1>0
<1>a. \A f \in Fd : f # None
  BY DEF None
<1>1. CASE UNCHANGED workerVars
  BY <1>1 DEF workerVars
<1>2. ASSUME NEW w \in Worker, Run(w) PROVE WorkerInv'
  <2>1. ASSUME NEW fds \in SUBSET Fd, NEW sig \in BOOLEAN, Harvest(w, fds, sig)
        PROVE  WorkerInv'
    <3>1. /\ closing' = closing /\ wpc[w] = "epoll_wait" /\ wpc'[w] = "events"
          /\ \A v \in Worker : v # w => wpc'[v] = wpc[v] /\ batch'[v] = batch[v]
      BY <2>1 DEF Harvest, TypeOK
    <3>2. closing'[w] = None
      BY <3>1
    <3>3. ASSUME NEW v \in Worker, v # w
          PROVE  /\ closing'[v] # None <=> wpc'[v] \in {"erase", "erase_new"}
                 /\ \A f \in Fd : batch'[v][f] # None =>
                      wpc'[v] # "epoll_wait" /\ closing'[v] # f
      BY <3>1, <3>3
    <3>4. /\ closing'[w] # None <=> wpc'[w] \in {"erase", "erase_new"}
          /\ \A f \in Fd : batch'[w][f] # None => wpc'[w] # "epoll_wait" /\ closing'[w] # f
      BY <1>a, <3>1, <3>2
    <3> QED
      BY <3>3, <3>4
  <2>2. CASE HandleSignal(w) \/ Drained(w)
    <3>1. /\ closing' = closing /\ batch' = batch
          /\ wpc[w] \in {"events", "drain"} /\ wpc'[w] \in {"events", "drain"}
          /\ \A v \in Worker : v # w => wpc'[v] = wpc[v]
      BY <2>2 DEF HandleSignal, Drained, TypeOK
    <3> QED
      BY <3>1
  <2>3. CASE EventsDone(w)
    BY <2>3 DEF EventsDone, TypeOK
  <2>4. CASE RefuseConnection(w) \/ AddConnection(w)
    BY <2>4 DEF RefuseConnection, AddConnection, workerVars
  <2>5. CASE AddAndDisconnect(w)
    <3> DEFINE f == Head(queue[w])
    <3>1. f \in Fd /\ f # None /\ batch[w][f] = None
      BY <2>5, HeadOfQueue DEF AddAndDisconnect
    <3> QED
      BY <2>5, <3>1 DEF AddAndDisconnect, TypeOK
  <2>6. ASSUME NEW f \in Fd, HandleEvent(w, f) PROVE WorkerInv'
    BY <2>6 DEF HandleEvent, TypeOK
  <2>7. ASSUME NEW f \in Fd, HandleAndDisconnect(w, f) PROVE WorkerInv'
    BY <2>7, <1>a DEF HandleAndDisconnect, TypeOK
  <2>8. CASE EraseSession(w)
    BY <2>8, <1>a DEF EraseSession, TypeOK
  <2> QED
    BY <1>2, <2>1, <2>2, <2>3, <2>4, <2>5, <2>6, <2>7, <2>8
       DEF Run, handle_new_connections
<1> QED
  BY <1>1, <1>2 DEF Next, Connect, AcceptorWakes, handle_accept, Accept, AcceptDrained,
     AcceptFails, AcceptAborts, Balance, acquire_worker_index, find_available_worker, Reject,
     enqueue_sock, vars, workerVars
-----------------------------------------------------------------------------
(***************************************************************************)
(* What pushing a socket and taking the head of a queue do to the set of   *)
(* queued descriptors.                                                     *)
(***************************************************************************)
LEMMA PushQueued ==
    ASSUME TypeOK, QueuedOnce, NEW w \in Worker, NEW f \in Fd, f \notin Queued,
           queue' = [queue EXCEPT ![w] = Append(@, f)]
    PROVE  Queued' = Queued \cup {f} /\ QueuedOnce'
<1> DEFINE n == Len(queue[w])
<1>1. /\ n \in Nat
      /\ Len(queue'[w]) = n + 1
      /\ \A i \in 1 .. n : queue'[w][i] = queue[w][i]
      /\ queue'[w][n + 1] = f
      /\ \A v \in Worker : v # w => queue'[v] = queue[v]
  BY PushQueue
<1>2. \A v \in Worker : /\ Len(queue[v]) \in Nat
                        /\ \A i \in 1 .. Len(queue[v]) : queue[v][i] \in Queued
  BY QueueTypes DEF Queued
<1>3. \A v \in Worker : \A i \in 1 .. Len(queue'[v]) :
        \/ v = w /\ i = n + 1 /\ queue'[v][i] = f
        \/ i \in 1 .. Len(queue[v]) /\ queue'[v][i] = queue[v][i]
  BY <1>1, <1>2
<1>4. \A v \in Worker : \A i \in 1 .. Len(queue[v]) :
        i \in 1 .. Len(queue'[v]) /\ queue'[v][i] = queue[v][i]
  BY <1>1, <1>2
<1>5. n + 1 \in 1 .. Len(queue'[w])
  BY <1>1
<1>6. Queued' \subseteq Queued \cup {f}
  BY <1>2, <1>3 DEF Queued
<1>7. Queued \cup {f} \subseteq Queued'
  BY <1>1, <1>4, <1>5 DEF Queued
<1>8. QueuedOnce'
  BY <1>2, <1>3 DEF QueuedOnce
<1> QED
  BY <1>6, <1>7, <1>8

\* A pop takes the first descriptor out of the set of queued ones.
LEMMA PopQueued ==
    ASSUME TypeOK, QueuedOnce, NEW w \in Worker, queue[w] # <<>>,
           queue' = [queue EXCEPT ![w] = Tail(@)]
    PROVE  Queued' = Queued \ {Head(queue[w])} /\ QueuedOnce'
<1> DEFINE f == Head(queue[w])
           Old(v, i) == IF v = w THEN i + 1 ELSE i
<1>1. /\ Len(queue[w]) \in Nat \ {0}
      /\ Len(queue'[w]) = Len(queue[w]) - 1
      /\ \A i \in 1 .. Len(queue'[w]) : queue'[w][i] = queue[w][i + 1]
      /\ \A v \in Worker : v # w => queue'[v] = queue[v]
      /\ f = queue[w][1]
  BY PopQueue
<1>2. \A v \in Worker : /\ Len(queue[v]) \in Nat
                        /\ \A i \in 1 .. Len(queue[v]) : queue[v][i] \in Queued
  BY QueueTypes DEF Queued
<1>3. \A v \in Worker : \A i \in 1 .. Len(queue'[v]) :
        /\ Old(v, i) \in 1 .. Len(queue[v])
        /\ queue'[v][i] = queue[v][Old(v, i)]
        /\ ~(v = w /\ Old(v, i) = 1)
  BY <1>1, <1>2
<1>4. 1 \in 1 .. Len(queue[w])
  BY <1>1
<1>5. \A v \in Worker : \A i \in 1 .. Len(queue'[v]) :
        queue'[v][i] \in Queued /\ queue'[v][i] # f
  <2> SUFFICES ASSUME NEW v \in Worker, NEW i \in 1 .. Len(queue'[v])
               PROVE  queue'[v][i] \in Queued /\ queue'[v][i] # f
    OBVIOUS
  <2>1. /\ Old(v, i) \in 1 .. Len(queue[v])
        /\ queue'[v][i] = queue[v][Old(v, i)]
        /\ ~(v = w /\ Old(v, i) = 1)
    BY <1>3
  <2> HIDE DEF Old
  <2>2. queue[v][Old(v, i)] # f
    BY <1>1, <1>4, <2>1 DEF QueuedOnce
  <2> QED
    BY <1>2, <2>1, <2>2
<1>6. Queued' \subseteq Queued \ {f}
  BY <1>5 DEF Queued
<1>7. Queued \ {f} \subseteq Queued'
  <2> SUFFICES ASSUME NEW g \in Fd, g # f, NEW v \in Worker,
                      NEW i \in 1 .. Len(queue[v]), queue[v][i] = g
               PROVE  \E x \in Worker : \E k \in 1 .. Len(queue'[x]) : queue'[x][k] = g
    BY DEF Queued
  <2>1. CASE v = w
    <3>1. i # 1
      BY <1>1, <2>1
    <3>2. i - 1 \in 1 .. Len(queue'[w])
      BY <1>1, <2>1, <3>1
    <3>3. queue'[w][i - 1] = g
      BY <1>1, <2>1, <3>2
    <3> QED
      BY <3>2, <3>3
  <2>2. CASE v # w
    BY <1>1, <2>2
  <2> QED
    BY <2>1, <2>2
<1>8. QueuedOnce'
  <2> SUFFICES ASSUME NEW u \in Worker, NEW v \in Worker,
                      NEW i \in 1 .. Len(queue'[u]), NEW j \in 1 .. Len(queue'[v]),
                      queue'[u][i] = queue'[v][j]
               PROVE  u = v /\ i = j
    BY DEF QueuedOnce
  <2>1. u = v /\ Old(u, i) = Old(v, j)
    BY <1>3 DEF QueuedOnce
  <2>2. Len(queue'[u]) \in Nat
    BY <1>1, <1>2
  <2> QED
    BY <2>1, <2>2
<1> QED
  BY <1>6, <1>7, <1>8
-----------------------------------------------------------------------------
(***************************************************************************)
(* Every step keeps what is known about the descriptors.  HolderInv is     *)
(* that part of the invariant; one lemma for each kind of step.            *)
(***************************************************************************)
HolderInv == HeldIsOpen /\ OpenIsHeld /\ HeldOnce /\ QueuedOnce /\ EventsAreCurrent

\* A step that leaves the queues and the session maps alone.
LEMMA SameQueues ==
    ASSUME UNCHANGED queue PROVE Queued' = Queued /\ (QueuedOnce => QueuedOnce')
  BY DEF Queued, QueuedOnce

\* A step that leaves the session maps and the closing descriptors alone.
LEMMA SameSessions ==
    ASSUME UNCHANGED <<session_map, closing>>, NEW w \in Worker, NEW f \in Fd
    PROVE  Owns(w, f)' <=> Owns(w, f)
  BY DEF Owns

\* A descriptor that no session has, has no events.
LEMMA NoSessionNoEvents ==
    ASSUME IInv, NEW w \in Worker, NEW f \in Fd, ~Owns(w, f)
    PROVE  batch[w][f] = None
  BY DEF IInv, WorkerInv, EventsAreCurrent, Owns

\* accept4 returns a descriptor that nobody has.
LEMMA AcceptHolder ==
    ASSUME IInv, NEW f \in Fd, Accept(f) PROVE HolderInv'
<1>0. TypeOK /\ AcceptorInv /\ HolderInv
  BY DEF IInv, HolderInv
<1>1. /\ sock = None /\ sock' = f /\ f # None
      /\ UNCHANGED <<queue, session_map, batch, closing>>
  BY <1>0, FdIsNotNone DEF Accept, AcceptorInv, workerVars
<1>2. /\ peer[f] = None /\ peer'[f] # None
      /\ \A g \in Fd : g # f => peer'[g] = peer[g]
  BY <1>0 DEF Accept, TypeOK, None
<1>3. Queued' = Queued /\ QueuedOnce' /\ Queued \subseteq Fd /\ f \notin Queued
  BY <1>0, <1>1, <1>2, SameQueues DEF HolderInv, HeldIsOpen, Queued
<1>4. \A w \in Worker : ~Owns(w, f) /\ batch[w][f] = None
  BY <1>0, <1>2, NoSessionNoEvents DEF Owns, HolderInv, HeldIsOpen, SessionIsOfItsConnection
<1>5. \A w \in Worker : \A g \in Fd : Owns(w, g)' <=> Owns(w, g)
  BY <1>1, SameSessions
<1>6. HeldIsOpen'
  BY <1>0, <1>1, <1>2, <1>3, <1>4 DEF HolderInv, HeldIsOpen, SessionIsOfItsConnection, Owns
<1>7. OpenIsHeld'
  BY <1>0, <1>1, <1>2, <1>3, <1>5, FdIsNotNone DEF HolderInv, OpenIsHeld
<1>8. HeldOnce'
  BY <1>0, <1>1, <1>3, <1>4, <1>5 DEF HolderInv, HeldOnce
<1>9. EventsAreCurrent'
  BY <1>0, <1>1, <1>2, <1>4 DEF HolderInv, EventsAreCurrent
<1> QED
  BY <1>3, <1>6, <1>7, <1>8, <1>9 DEF HolderInv

\* The acceptor closes its socket.
LEMMA RejectHolder ==
    ASSUME IInv, Reject PROVE HolderInv'
<1>0. TypeOK /\ AcceptorInv /\ HolderInv
  BY DEF IInv, HolderInv
<1>1. /\ sock \in Fd /\ sock # None /\ sock' = None
      /\ UNCHANGED <<queue, session_map, batch, closing>>
  BY <1>0 DEF Reject, AcceptorInv, TypeOK, workerVars
<1>2. peer'[sock] = None /\ \A g \in Fd : g # sock => peer'[g] = peer[g]
  BY <1>0, <1>1 DEF Reject, TypeOK
<1>3. Queued' = Queued /\ QueuedOnce' /\ Queued \subseteq Fd /\ sock \notin Queued
  BY <1>0, <1>1, SameQueues DEF HolderInv, HeldOnce, Queued
<1>4. \A w \in Worker : ~Owns(w, sock) /\ batch[w][sock] = None
  BY <1>0, <1>1, NoSessionNoEvents DEF HolderInv, HeldOnce
<1>5. \A w \in Worker : \A g \in Fd : Owns(w, g)' <=> Owns(w, g)
  BY <1>1, SameSessions
<1>6. HeldIsOpen'
  BY <1>0, <1>1, <1>2, <1>3, <1>4 DEF HolderInv, HeldIsOpen, SessionIsOfItsConnection, Owns
<1>7. OpenIsHeld'
  BY <1>0, <1>1, <1>2, <1>3, <1>5 DEF HolderInv, OpenIsHeld
<1>8. HeldOnce'
  BY <1>0, <1>1, <1>3, <1>5, FdIsNotNone DEF HolderInv, HeldOnce
<1>9. EventsAreCurrent'
  BY <1>0, <1>1, <1>2, <1>4 DEF HolderInv, EventsAreCurrent
<1> QED
  BY <1>3, <1>6, <1>7, <1>8, <1>9 DEF HolderInv

\* The acceptor hands its socket to the worker that has room.
LEMMA EnqueueHolder ==
    ASSUME IInv, enqueue_sock PROVE HolderInv'
<1>0. TypeOK /\ AcceptorInv /\ HolderInv /\ AcquiredHasRoom
  BY DEF IInv, HolderInv
<1>1. sock \in Fd /\ sock # None /\ sock' = None /\ index \in Worker
  BY <1>0 DEF enqueue_sock, AcceptorInv, TypeOK
<1>2. ~is_full(index)
  BY <1>0, <1>1, QueueTypes, DispatchAssumption DEF enqueue_sock, AcquiredHasRoom, is_full
<1>3. UNCHANGED <<peer, session_map, batch, closing>>
  BY <1>2 DEF enqueue_sock, workerVars
<1>4. sock \notin Queued /\ Queued \subseteq Fd
  BY <1>0, <1>1 DEF HolderInv, HeldOnce, Queued
<1>5. Queued' = Queued \cup {sock} /\ QueuedOnce'
  BY <1>0, <1>1, <1>2, <1>4, PushQueued DEF enqueue_sock, HolderInv
<1>6. \A w \in Worker : \A g \in Fd : Owns(w, g)' <=> Owns(w, g)
  BY <1>3, SameSessions
<1>7. HeldIsOpen'
  BY <1>0, <1>1, <1>3, <1>5 DEF HolderInv, HeldIsOpen, SessionIsOfItsConnection
<1>8. OpenIsHeld'
  BY <1>0, <1>3, <1>5, <1>6 DEF HolderInv, OpenIsHeld
<1>9. HeldOnce'
  BY <1>0, <1>1, <1>5, <1>6, FdIsNotNone DEF HolderInv, HeldOnce
<1>10. EventsAreCurrent'
  BY <1>0, <1>3 DEF HolderInv, EventsAreCurrent
<1> QED
  BY <1>5, <1>7, <1>8, <1>9, <1>10 DEF HolderInv

\* The worker takes a socket and closes it.
LEMMA RefuseHolder ==
    ASSUME IInv, NEW w \in Worker, RefuseConnection(w) PROVE HolderInv'
<1> DEFINE f == Head(queue[w])
<1>0. TypeOK /\ HolderInv
  BY DEF IInv, HolderInv
<1>1. /\ wpc[w] = "drain" /\ queue[w] # <<>>
      /\ queue' = [queue EXCEPT ![w] = Tail(@)]
      /\ UNCHANGED <<sock, session_map, batch, closing>>
  BY DEF RefuseConnection, acceptorVars, workerVars
<1>2. f \in Fd /\ f # sock /\ \A v \in Worker : ~Owns(v, f) /\ batch[v][f] = None
  BY <1>1, HeadOfQueue
<1>3. peer'[f] = None /\ \A g \in Fd : g # f => peer'[g] = peer[g]
  BY <1>0, <1>2 DEF RefuseConnection, TypeOK
<1>4. Queued' = Queued \ {f} /\ QueuedOnce'
  BY <1>0, <1>1, PopQueued DEF HolderInv
<1>5. Queued \subseteq Fd
  BY DEF Queued
<1>6. \A v \in Worker : \A g \in Fd : Owns(v, g)' <=> Owns(v, g)
  BY <1>1, SameSessions
<1> HIDE DEF f
<1>7. HeldIsOpen'
  BY <1>0, <1>1, <1>2, <1>3, <1>4, <1>5
     DEF HolderInv, HeldIsOpen, SessionIsOfItsConnection, Owns, TypeOK
<1>8. OpenIsHeld'
  BY <1>0, <1>1, <1>3, <1>4, <1>6 DEF HolderInv, OpenIsHeld
<1>9. HeldOnce'
  BY <1>0, <1>1, <1>4, <1>6 DEF HolderInv, HeldOnce
<1>10. EventsAreCurrent'
  BY <1>0, <1>1, <1>2, <1>3 DEF HolderInv, EventsAreCurrent
<1> QED
  BY <1>4, <1>7, <1>8, <1>9, <1>10 DEF HolderInv

\* The worker takes a socket and opens a session for it.
LEMMA AddHolder ==
    ASSUME IInv, NEW w \in Worker, AddConnection(w) PROVE HolderInv'
<1> DEFINE f == Head(queue[w])
<1>0. TypeOK /\ HolderInv
  BY DEF IInv, HolderInv
<1>1. /\ wpc[w] = "drain" /\ queue[w] # <<>>
      /\ queue' = [queue EXCEPT ![w] = Tail(@)]
      /\ UNCHANGED <<sock, peer, batch, closing>>
  BY DEF AddConnection, acceptorVars, kernelVars
<1>2. /\ f \in Fd /\ f # None /\ f # sock /\ peer[f] # None /\ closing[w] = None
      /\ session_map[w][f] = None
      /\ \A v \in Worker : ~Owns(v, f) /\ batch[v][f] = None
  BY <1>1, HeadOfQueue
<1>3. session_map' = [session_map EXCEPT ![w][f] = peer[f]]
  BY <1>2 DEF AddConnection, Emplaced
<1>4. /\ session_map'[w][f] = peer[f]
      /\ \A v \in Worker : \A g \in Fd :
           v # w \/ g # f => session_map'[v][g] = session_map[v][g]
  BY <1>0, <1>2, <1>3 DEF TypeOK
<1>5. Queued' = Queued \ {f} /\ QueuedOnce'
  BY <1>0, <1>1, PopQueued DEF HolderInv
<1> HIDE DEF f
<1>6. \A v \in Worker : \A g \in Fd : Owns(v, g)' <=> Owns(v, g) \/ (v = w /\ g = f)
  BY <1>1, <1>2, <1>4 DEF Owns
<1>7. HeldIsOpen'
  BY <1>0, <1>1, <1>2, <1>4, <1>5 DEF HolderInv, HeldIsOpen, SessionIsOfItsConnection, Owns
<1>8. OpenIsHeld'
  BY <1>0, <1>1, <1>2, <1>5, <1>6 DEF HolderInv, OpenIsHeld
<1>9. HeldOnce'
  BY <1>0, <1>1, <1>2, <1>5, <1>6 DEF HolderInv, HeldOnce
<1>10. EventsAreCurrent'
  BY <1>0, <1>1, <1>2, <1>4 DEF HolderInv, EventsAreCurrent
<1> QED
  BY <1>5, <1>7, <1>8, <1>9, <1>10 DEF HolderInv

\* The worker takes a socket, opens a session for it and closes it at once:
\* the entry is left in the map to be erased.
LEMMA AddAndDisconnectHolder ==
    ASSUME IInv, NEW w \in Worker, AddAndDisconnect(w) PROVE HolderInv'
<1> DEFINE f == Head(queue[w])
<1>0. TypeOK /\ HolderInv
  BY DEF IInv, HolderInv
<1>1. /\ wpc[w] = "drain" /\ queue[w] # <<>>
      /\ queue' = [queue EXCEPT ![w] = Tail(@)]
      /\ UNCHANGED <<sock, batch>>
  BY DEF AddAndDisconnect, acceptorVars
<1>2. /\ f \in Fd /\ f # None /\ f # sock /\ closing[w] = None
      /\ session_map[w][f] = None
      /\ \A v \in Worker : ~Owns(v, f) /\ batch[v][f] = None
  BY <1>1, HeadOfQueue
<1>3. \A v \in Worker : \A g \in Fd :
        v # w \/ g # f => session_map'[v][g] = session_map[v][g]
  BY <1>0, <1>2 DEF AddAndDisconnect, Emplaced, TypeOK
<1>4. closing'[w] = f /\ \A v \in Worker : v # w => closing'[v] = closing[v]
  BY <1>0 DEF AddAndDisconnect, TypeOK
<1>5. peer'[f] = None /\ \A g \in Fd : g # f => peer'[g] = peer[g]
  BY <1>0, <1>2 DEF AddAndDisconnect, TypeOK
<1>6. Queued' = Queued \ {f} /\ QueuedOnce'
  BY <1>0, <1>1, PopQueued DEF HolderInv
<1>7. Queued \subseteq Fd
  BY DEF Queued
<1> HIDE DEF f
<1>8. \A v \in Worker : \A g \in Fd : Owns(v, g)' <=> Owns(v, g)
  BY <1>2, <1>3, <1>4, FdIsNotNone DEF Owns
<1>9. HeldIsOpen'
  <2>1. SessionIsOfItsConnection'
    BY <1>0, <1>2, <1>3, <1>4, <1>5, <1>8, FdIsNotNone
       DEF HolderInv, HeldIsOpen, SessionIsOfItsConnection, Owns
  <2> QED
    BY <1>0, <1>1, <1>2, <1>5, <1>6, <1>7, <2>1 DEF HolderInv, HeldIsOpen, TypeOK
<1>10. OpenIsHeld'
  BY <1>0, <1>1, <1>5, <1>6, <1>8 DEF HolderInv, OpenIsHeld
<1>11. HeldOnce'
  BY <1>0, <1>1, <1>6, <1>8 DEF HolderInv, HeldOnce
<1>12. EventsAreCurrent'
  BY <1>0, <1>1, <1>2, <1>3, <1>5 DEF HolderInv, EventsAreCurrent
<1> QED
  BY <1>6, <1>9, <1>10, <1>11, <1>12 DEF HolderInv

\* The worker closes the descriptor of a session, which stays in the map to be
\* erased.
LEMMA DisconnectHolder ==
    ASSUME IInv, NEW w \in Worker, NEW f \in Fd, HandleAndDisconnect(w, f) PROVE HolderInv'
<1>0. TypeOK /\ WorkerInv /\ HolderInv
  BY DEF IInv, HolderInv
<1>1. UNCHANGED <<sock, queue, session_map>>
  BY DEF HandleAndDisconnect, acceptorVars
<1>2. closing[w] = None /\ f # None /\ Owns(w, f)
  BY <1>0, FdIsNotNone DEF HandleAndDisconnect, WorkerInv, Owns
<1>3. /\ f # sock /\ f \notin Queued
      /\ \A v \in Worker : v # w => ~Owns(v, f) /\ batch[v][f] = None
  BY <1>0, <1>2, NoSessionNoEvents DEF HolderInv, HeldOnce
<1>4. closing'[w] = f /\ \A v \in Worker : v # w => closing'[v] = closing[v]
  BY <1>0 DEF HandleAndDisconnect, TypeOK
<1>5. peer'[f] = None /\ \A g \in Fd : g # f => peer'[g] = peer[g]
  BY <1>0 DEF HandleAndDisconnect, TypeOK
<1>6. /\ batch'[w][f] = None
      /\ \A v \in Worker : \A g \in Fd : v # w \/ g # f => batch'[v][g] = batch[v][g]
  BY <1>0 DEF HandleAndDisconnect, TypeOK
<1>7. Queued' = Queued /\ QueuedOnce' /\ Queued \subseteq Fd
  BY <1>0, <1>1, SameQueues DEF HolderInv, Queued
<1>8. \A v \in Worker : \A g \in Fd : Owns(v, g)' <=> Owns(v, g) /\ ~(v = w /\ g = f)
  BY <1>1, <1>2, <1>4, FdIsNotNone DEF Owns
<1>9. HeldIsOpen'
  <2>1. SessionIsOfItsConnection'
    BY <1>0, <1>1, <1>3, <1>4, <1>5, <1>8
       DEF HolderInv, HeldIsOpen, SessionIsOfItsConnection, Owns
  <2> QED
    BY <1>0, <1>1, <1>3, <1>5, <1>7, <2>1 DEF HolderInv, HeldIsOpen, TypeOK
<1>10. OpenIsHeld'
  BY <1>0, <1>1, <1>5, <1>7, <1>8 DEF HolderInv, OpenIsHeld
<1>11. HeldOnce'
  BY <1>0, <1>1, <1>7, <1>8 DEF HolderInv, HeldOnce
<1>12. EventsAreCurrent'
  BY <1>0, <1>1, <1>3, <1>5, <1>6 DEF HolderInv, EventsAreCurrent
<1> QED
  BY <1>7, <1>9, <1>10, <1>11, <1>12 DEF HolderInv

\* The entry of a descriptor that is closed, and perhaps open again for another
\* worker, is erased.
LEMMA EraseHolder ==
    ASSUME IInv, NEW w \in Worker, EraseSession(w) PROVE HolderInv'
<1>0. TypeOK /\ WorkerInv /\ HolderInv
  BY DEF IInv, HolderInv
<1>1. UNCHANGED <<sock, queue, peer, batch>>
  BY DEF EraseSession, acceptorVars, kernelVars
<1>2. closing[w] \in Fd
  BY <1>0 DEF EraseSession, TypeOK
<1>3. /\ session_map'[w][closing[w]] = None
      /\ \A v \in Worker : \A g \in Fd :
           v # w \/ g # closing[w] => session_map'[v][g] = session_map[v][g]
  BY <1>0, <1>2 DEF EraseSession, TypeOK
<1>4. closing'[w] = None /\ \A v \in Worker : v # w => closing'[v] = closing[v]
  BY <1>0 DEF EraseSession, TypeOK
<1>5. Queued' = Queued /\ QueuedOnce'
  BY <1>0, <1>1, SameQueues DEF HolderInv
<1>6. \A v \in Worker : \A g \in Fd : Owns(v, g)' <=> Owns(v, g)
  BY <1>3, <1>4, FdIsNotNone DEF Owns
<1>7. HeldIsOpen'
  <2>1. SessionIsOfItsConnection'
    BY <1>0, <1>1, <1>3, <1>4, <1>6
       DEF HolderInv, HeldIsOpen, SessionIsOfItsConnection, Owns
  <2> QED
    BY <1>0, <1>1, <1>5, <2>1 DEF HolderInv, HeldIsOpen
<1>8. OpenIsHeld'
  BY <1>0, <1>1, <1>5, <1>6 DEF HolderInv, OpenIsHeld
<1>9. HeldOnce'
  BY <1>0, <1>1, <1>5, <1>6 DEF HolderInv, HeldOnce
<1>10. EventsAreCurrent'
  BY <1>0, <1>1, <1>2, <1>3 DEF HolderInv, EventsAreCurrent, WorkerInv
<1> QED
  BY <1>5, <1>7, <1>8, <1>9, <1>10 DEF HolderInv

\* Steps that change nothing but what is known about events.
LEMMA EventsHolder ==
    ASSUME IInv, UNCHANGED <<peer, sock, queue, session_map, closing>>,
           \A w \in Worker, f \in Fd :
               batch'[w][f] \in {None, batch[w][f]} \/ (Owns(w, f) /\ batch'[w][f] = peer[f])
    PROVE  HolderInv'
<1>0. HolderInv
  BY DEF IInv, HolderInv
<1>1. Queued' = Queued /\ QueuedOnce'
  BY <1>0, SameQueues DEF HolderInv
<1>2. \A v \in Worker : \A g \in Fd : Owns(v, g)' <=> Owns(v, g)
  BY SameSessions
<1>3. HeldIsOpen'
  BY <1>0, <1>1 DEF HolderInv, HeldIsOpen, SessionIsOfItsConnection
<1>4. OpenIsHeld'
  BY <1>0, <1>1, <1>2 DEF HolderInv, OpenIsHeld
<1>5. HeldOnce'
  BY <1>0, <1>1, <1>2 DEF HolderInv, HeldOnce
<1>6. EventsAreCurrent'
  BY <1>0 DEF HolderInv, EventsAreCurrent, HeldIsOpen, SessionIsOfItsConnection, Owns
<1> QED
  BY <1>1, <1>3, <1>4, <1>5, <1>6 DEF HolderInv

\* Every step keeps open descriptors and their holders one to one.
LEMMA NextHolder == IInv /\ [Next]_vars => HolderInv'
<1> SUFFICES ASSUME IInv, [Next]_vars PROVE HolderInv'
  OBVIOUS
<1>0. TypeOK /\ WorkerInv
  BY DEF IInv
<1>1. ASSUME UNCHANGED <<peer, sock, queue, session_map, closing, batch>> PROVE HolderInv'
  BY <1>1, EventsHolder
<1>2. CASE UNCHANGED vars \/ Connect \/ AcceptorWakes \/ AcceptDrained \/ AcceptFails
           \/ AcceptAborts \/ acquire_worker_index \/ find_available_worker
  BY <1>2, <1>1 DEF vars, Connect, AcceptorWakes, AcceptDrained, AcceptFails,
     AcceptAborts, acquire_worker_index, find_available_worker, kernelVars, acceptorVars, workerVars
<1>3. ASSUME NEW w \in Worker, Run(w) PROVE HolderInv'
  <2>1. CASE HandleSignal(w) \/ Drained(w) \/ EventsDone(w)
    BY <2>1, <1>1 DEF HandleSignal, Drained, EventsDone, kernelVars, acceptorVars
  <2>2. ASSUME NEW fds \in SUBSET Fd, NEW sig \in BOOLEAN, Harvest(w, fds, sig)
        PROVE  HolderInv'
    <3>1. \A f \in fds : Owns(w, f)
      BY <2>2, <1>0, FdIsNotNone DEF Harvest, WorkerInv, Owns
    <3>2. \A v \in Worker, f \in Fd : IF v # w THEN batch'[v][f] = batch[v][f]
                                      ELSE IF f \in fds THEN batch'[v][f] = peer[f]
                                      ELSE batch'[v][f] = None
      BY <2>2, <1>0 DEF Harvest, TypeOK
    <3> QED
      BY <2>2, <3>1, <3>2, EventsHolder DEF Harvest, kernelVars, acceptorVars
  <2>3. ASSUME NEW f \in Fd, HandleEvent(w, f) PROVE HolderInv'
    <3>1. \A v \in Worker, g \in Fd : batch'[v][g] \in {None, batch[v][g]}
      BY <2>3, <1>0 DEF HandleEvent, TypeOK
    <3> QED
      BY <2>3, <3>1, EventsHolder DEF HandleEvent, kernelVars, acceptorVars
  <2> QED
    BY <1>3, <2>1, <2>2, <2>3, RefuseHolder, AddHolder, AddAndDisconnectHolder,
       DisconnectHolder, EraseHolder DEF Run, handle_new_connections
<1> QED
  BY <1>2, <1>3, AcceptHolder, RejectHolder, EnqueueHolder DEF Next, handle_accept, Balance

\* Only accept4 opens a descriptor, for the connection after the last.
LEMMA NextPeer == IInv /\ [Next]_vars => PeerInv'
<1> SUFFICES ASSUME IInv, [Next]_vars PROVE PeerInv'
  OBVIOUS
<1>0. TypeOK /\ PeerInv
  BY DEF IInv
<1>1. peer \in [Fd -> Conn \cup {None}] /\ taken \in Nat /\ Conn \subseteq Nat
  BY <1>0, DispatchAssumption DEF TypeOK, Conn
<1>2. ASSUME taken' = taken, \A f \in Fd : peer'[f] \in {peer[f], None} PROVE PeerInv'
  BY <1>0, <1>2 DEF PeerInv
<1>3. ASSUME NEW f \in Fd, Accept(f) PROVE PeerInv'
  <2>1. taken' = taken + 1 /\ peer'[f] = taken + 1
    BY <1>1, <1>3 DEF Accept
  <2>2. \A g \in Fd : g # f => peer'[g] = peer[g]
    BY <1>1, <1>3 DEF Accept
  <2>3. \A g \in Fd : peer[g] # None => peer[g] \in Nat /\ peer[g] <= taken
    BY <1>0, <1>1 DEF PeerInv
  <2>4. \A g \in Fd : peer'[g] # None => peer'[g] <= taken'
    BY <1>1, <2>1, <2>2, <2>3
  <2>5. \A g, h \in Fd : peer'[g] # None /\ peer'[g] = peer'[h] => g = h
    BY <1>0, <1>1, <2>1, <2>2, <2>3 DEF PeerInv
  <2> QED
    BY <2>4, <2>5 DEF PeerInv
<1>4. CASE UNCHANGED <<peer, taken>>
  BY <1>2, <1>4
<1>a. CASE AcceptAborts
  <2>1. taken' \in Nat /\ taken <= taken' /\ peer' = peer
    BY <1>1, <1>a DEF AcceptAborts
  <2>2. \A g \in Fd : peer[g] # None => peer[g] \in Nat /\ peer[g] <= taken
    BY <1>0, <1>1 DEF PeerInv
  <2>3. \A g \in Fd : peer'[g] # None => peer'[g] <= taken'
    BY <1>1, <2>1, <2>2
  <2>4. \A g, h \in Fd : peer'[g] # None /\ peer'[g] = peer'[h] => g = h
    BY <1>0, <2>1 DEF PeerInv
  <2> QED
    BY <2>3, <2>4 DEF PeerInv
<1>5. CASE Reject \/ enqueue_sock
  BY <1>1, <1>2, <1>5 DEF Reject, enqueue_sock
<1>6. ASSUME NEW w \in Worker, Run(w) PROVE PeerInv'
  BY <1>1, <1>2, <1>4, <1>6 DEF Run, Harvest, HandleSignal, handle_new_connections,
     RefuseConnection, AddConnection, AddAndDisconnect, Drained, HandleEvent,
     HandleAndDisconnect, EraseSession, EventsDone, kernelVars
<1> QED
  BY <1>3, <1>4, <1>a, <1>5, <1>6 DEF Next, Connect, AcceptorWakes, handle_accept, AcceptDrained,
     AcceptFails, Balance, acquire_worker_index, find_available_worker, vars, kernelVars
-----------------------------------------------------------------------------
(***************************************************************************)
(* The theorems.                                                           *)
(***************************************************************************)

\* The invariant holds throughout, whatever the acceptor, the workers and the
\* kernel's reuse of descriptors do.
THEOREM Invariance == Spec => []IInv
<1>1. IInv /\ [Next]_vars => IInv'
  BY NextTypeOK, NextAcceptor, NextWorkerInv, NextHolder, NextPeer DEF IInv, HolderInv
<1> QED
  BY InitIInv, <1>1, PTL DEF Spec

\* The variables of acceptor, load balancer and workers keep their types; the
\* index is that of a worker and no queue outgrows its bound.
THEOREM TypeCorrect == Spec => []TypeOK
<1>1. IInv => TypeOK
  BY DEF IInv
<1> QED
  BY Invariance, <1>1, PTL

\* A session outside disconnect_from_client is that of the connection its
\* descriptor is open for.
THEOREM SessionsMatchConnections == Spec => []SessionIsOfItsConnection
<1>1. IInv => SessionIsOfItsConnection
  BY DEF IInv, HeldIsOpen
<1> QED
  BY Invariance, <1>1, PTL

\* No event of a batch is handled for another connection than its own.
THEOREM EventsStayCurrent == Spec => []EventsAreCurrent
<1>1. IInv => EventsAreCurrent
  BY DEF IInv
<1> QED
  BY Invariance, <1>1, PTL

\* The worker that acquire_worker_index returns still has room at the push.
THEOREM PushIsNeverRefused == Spec => []AcquiredHasRoom
<1>1. IInv => AcquiredHasRoom
  BY DEF IInv
<1> QED
  BY Invariance, <1>1, PTL

\* The search around the array of workers leaves none out before it gives up.
THEOREM SearchIsComplete == Spec => []RejectedByAll
<1>1. IInv => RejectedByAll
  BY DEF IInv
<1> QED
  BY Invariance, <1>1, PTL

\* Only an error of accept4 leaves connections without an event.
THEOREM BacklogHasOneCause == Spec => []BacklogIsExplained
<1>1. IInv => BacklogIsExplained
  BY DEF IInv
<1> QED
  BY Invariance, <1>1, PTL

\* The three kinds of holders, and what the invariant says of each.
LEMMA HoldersOfFd ==
    ASSUME IInv, NEW f \in Fd
    PROVE  IF peer[f] = None THEN Holders(f) = {} ELSE \E h : Holders(f) = {h}
<1> DEFINE A == IF sock = f THEN {<<"acceptor", 0, 0>>} ELSE {}
           B == {h \in {"queue"} \X Worker \X (1 .. Bound) :
                    h[3] <= Len(queue[h[2]]) /\ queue[h[2]][h[3]] = f}
           C == {h \in {"session"} \X Worker \X {0} :
                    session_map[h[2]][f] # None /\ closing[h[2]] # f}
<1>0. TypeOK /\ HeldIsOpen /\ OpenIsHeld /\ HeldOnce /\ QueuedOnce
  BY DEF IInv
<1>1. Holders(f) = A \cup B \cup C
  BY DEF Holders
<1>2. \A w \in Worker : Len(queue[w]) \in Nat /\ Len(queue[w]) <= Bound
  BY <1>0, QueueTypes DEF TypeOK
<1>3. IF f \in Queued THEN \E h : B = {h} ELSE B = {}
  <2>1. CASE f \in Queued
    <3>1. PICK w \in Worker : \E i \in 1 .. Len(queue[w]) : queue[w][i] = f
      BY <2>1 DEF Queued
    <3>2. PICK i \in 1 .. Len(queue[w]) : queue[w][i] = f
      BY <3>1
    <3>3. <<"queue", w, i>> \in B
      BY <3>2, <1>2, DispatchAssumption
    <3>4. ASSUME NEW h \in B PROVE h = <<"queue", w, i>>
      <4>1. h[2] \in Worker /\ h[3] \in 1 .. Len(queue[h[2]]) /\ queue[h[2]][h[3]] = f
        BY <1>2, DispatchAssumption
      <4>2. h[2] = w /\ h[3] = i
        BY <1>0, <3>2, <4>1 DEF QueuedOnce
      <4> QED
        BY <4>2
    <3> HIDE DEF B
    <3>5. B = {<<"queue", w, i>>}
      BY <3>3, <3>4
    <3> QED
      BY <2>1, <3>5
  <2>2. CASE f \notin Queued
    <3>1. ASSUME NEW h \in B PROVE FALSE
      <4>1. h[2] \in Worker /\ h[3] \in 1 .. Len(queue[h[2]]) /\ queue[h[2]][h[3]] = f
        BY <1>2, DispatchAssumption
      <4> QED
        BY <2>2, <4>1 DEF Queued
    <3> HIDE DEF B
    <3> QED
      BY <2>2, <3>1
  <2> QED
    BY <2>1, <2>2
<1>4. IF \E w \in Worker : Owns(w, f) THEN \E h : C = {h} ELSE C = {}
  <2>1. ASSUME NEW w \in Worker, Owns(w, f) PROVE \E h : C = {h}
    <3>1. <<"session", w, 0>> \in C
      BY <2>1 DEF Owns
    <3>2. ASSUME NEW h \in C PROVE h = <<"session", w, 0>>
      <4>1. h[2] \in Worker /\ Owns(h[2], f)
        BY DEF Owns
      <4>2. h[2] = w
        BY <1>0, <2>1, <4>1 DEF HeldOnce
      <4> QED
        BY <4>2
    <3> HIDE DEF C
    <3>3. C = {<<"session", w, 0>>}
      BY <3>1, <3>2
    <3> QED
      BY <3>3
  <2>2. ASSUME \A w \in Worker : ~Owns(w, f) PROVE C = {}
    BY <2>2 DEF Owns
  <2> HIDE DEF C
  <2> QED
    BY <2>1, <2>2
<1> HIDE DEF B, C
<1>5. CASE peer[f] = None
  <2>1. sock # f /\ f \notin Queued
    BY <1>0, <1>5, FdIsNotNone DEF HeldIsOpen
  <2>2. \A w \in Worker : ~Owns(w, f)
    BY <1>0, <1>5 DEF HeldIsOpen, SessionIsOfItsConnection, Owns
  <2> QED
    BY <1>1, <1>3, <1>4, <1>5, <2>1, <2>2
<1>6. CASE peer[f] # None
  <2>1. CASE sock = f
    <3>1. f \notin Queued /\ \A w \in Worker : ~Owns(w, f)
      BY <1>0, <2>1 DEF HeldOnce
    <3> QED
      BY <1>1, <1>3, <1>4, <1>6, <2>1, <3>1
  <2>2. CASE sock # f /\ f \in Queued
    <3>1. \A w \in Worker : ~Owns(w, f)
      BY <1>0, <2>2 DEF HeldOnce
    <3> QED
      BY <1>1, <1>3, <1>4, <1>6, <2>2, <3>1
  <2>3. CASE sock # f /\ f \notin Queued
    <3>1. \E w \in Worker : Owns(w, f)
      BY <1>0, <1>6, <2>3 DEF OpenIsHeld
    <3> QED
      BY <1>1, <1>3, <1>4, <1>6, <2>3, <3>1
  <2> QED
    BY <2>1, <2>2, <2>3
<1> QED
  BY <1>5, <1>6

\* An open client descriptor has exactly one holder and a closed one none: the
\* acceptor, a place in a queue or a session.
THEOREM DescriptorsHaveOneHolder == Spec => []OneHolder
<1>1. ASSUME IInv PROVE OneHolder
  <2> SUFFICES ASSUME NEW f \in Fd
               PROVE  Cardinality(Holders(f)) = IF peer[f] = None THEN 0 ELSE 1
    BY DEF OneHolder
  <2> QED
    BY <1>1, HoldersOfFd, FS_EmptySet, FS_Singleton
<1> QED
  BY Invariance, <1>1, PTL
-----------------------------------------------------------------------------
(***************************************************************************)
(* Dispatch implements Service.  First what the connections that are held, *)
(* in line and served are after a step that changes descriptors.           *)
(***************************************************************************)

\* The acceptor has the connection of its socket.
LEMMA HeldIs ==
    Held = IF sock \in Fd THEN {peer[sock]} ELSE {}
  BY DEF Held

\* The lines are as long as the queues.
LEMMA LineIs ==
    ASSUME TypeOK, NEW w \in Worker
    PROVE  /\ Line \in [Worker -> Seq(Conn \cup {None})]
           /\ Len(Line[w]) = Len(queue[w])
           /\ \A i \in 1 .. Len(queue[w]) : Line[w][i] = peer[queue[w][i]]
<1>1. \A v \in Worker : /\ Len(queue[v]) \in Nat
                        /\ \A i \in 1 .. Len(queue[v]) : queue[v][i] \in Fd
  BY QueueTypes
<1>2. peer \in [Fd -> Conn \cup {None}]
  BY DEF TypeOK
<1>3. ASSUME NEW v \in Worker
      PROVE  /\ Line[v] \in Seq(Conn \cup {None})
             /\ Len(Line[v]) = Len(queue[v])
             /\ \A i \in 1 .. Len(queue[v]) : Line[v][i] = peer[queue[v][i]]
  <2>1. Line[v] = [i \in 1 .. Len(queue[v]) |-> peer[queue[v][i]]]
    BY DEF Line
  <2>2. Line[v] \in [1 .. Len(queue[v]) -> Conn \cup {None}]
    BY <1>1, <1>2, <2>1
  <2>3. Line[v] \in Seq(Conn \cup {None})
    BY <1>1, <2>2
  <2>4. Len(Line[v]) = Len(queue[v])
    BY <1>1, <2>1, <2>3, LenProperties
  <2>. QED BY <2>1, <2>3, <2>4
<1>4. Line \in [Worker -> Seq(Conn \cup {None})]
  BY <1>3 DEF Line
<1>. QED BY <1>3, <1>4

\* A line stays as it is while its queue does and no queued descriptor is
\* closed or opened.
LEMMA LineSame ==
    ASSUME TypeOK, UNCHANGED queue, \A g \in Queued : peer'[g] = peer[g]
    PROVE  Line' = Line
<1>1. \A w \in Worker : \A i \in 1 .. Len(queue[w]) : queue[w][i] \in Queued
  BY QueueTypes DEF Queued
<1>2. \A w \in Worker : \A i \in 1 .. Len(queue[w]) :
        peer'[queue'[w][i]] = peer[queue[w][i]]
  BY <1>1
<1>. QED BY <1>2 DEF Line

\* The connections of a queue's descriptors.
Peers(q, p) == [i \in 1 .. Len(q) |-> p[q[i]]]

\* Sequences that agree place by place.
LEMMA SeqsEqual ==
    ASSUME NEW A, NEW s \in Seq(A), NEW n \in Nat, NEW t, t = [i \in 1 .. n |-> t[i]],
           Len(s) = n, \A i \in 1 .. n : t[i] = s[i]
    PROVE  t = s
<1>1. s = [i \in 1 .. n |-> s[i]]
  BY LenProperties
<1>. QED BY <1>1

\* A push appends the socket's connection.
LEMMA LinePush ==
    ASSUME TypeOK, NEW w \in Worker, NEW f \in Fd, UNCHANGED peer,
           queue' = [queue EXCEPT ![w] = Append(@, f)]
    PROVE  Line' = [Line EXCEPT ![w] = Append(@, peer[f])]
<1> DEFINE n == Len(queue[w])
           new == Append(Line[w], peer[f])
<1>1. /\ n \in Nat
      /\ Len(queue'[w]) = n + 1
      /\ \A i \in 1 .. n : queue'[w][i] = queue[w][i]
      /\ queue'[w][n + 1] = f
      /\ \A v \in Worker : v # w => queue'[v] = queue[v]
  BY PushQueue
<1>2. /\ Line \in [Worker -> Seq(Conn \cup {None})]
      /\ Len(Line[w]) = n
      /\ \A i \in 1 .. n : Line[w][i] = peer[queue[w][i]]
  BY LineIs
<1>3. peer[f] \in Conn \cup {None}
  BY DEF TypeOK
<1>4. /\ new \in Seq(Conn \cup {None})
      /\ Len(new) = n + 1
      /\ \A i \in 1 .. n : new[i] = Line[w][i]
      /\ new[n + 1] = peer[f]
  BY <1>2, <1>3, AppendProperties
<1>5. /\ Line' = [v \in Worker |-> Line'[v]]
      /\ \A v \in Worker : Line'[v] = Peers(queue'[v], peer)
      /\ \A v \in Worker : Line[v] = Peers(queue[v], peer)
  BY DEF Line, Peers
<1> HIDE DEF new, n
<1>6. ASSUME NEW v \in Worker, v # w PROVE Line'[v] = Line[v]
  <2>1. queue'[v] = queue[v]
    BY <1>1, <1>6
  <2>. QED BY <1>5, <2>1
<1>7. Line'[w] = [i \in 1 .. n + 1 |-> Line'[w][i]]
  BY <1>1, <1>5 DEF Peers
<1>8. \A i \in 1 .. n + 1 : Line'[w][i] = new[i]
  BY <1>1, <1>2, <1>4, <1>5 DEF Peers
<1>9. Line'[w] = new
  BY <1>1, <1>4, <1>7, <1>8, SeqsEqual
<1>. QED BY <1>2, <1>5, <1>6, <1>9 DEF new

\* Taking a socket takes its connection, whatever becomes of the descriptor.
LEMMA LinePop ==
    ASSUME TypeOK, QueuedOnce, NEW w \in Worker, queue[w] # <<>>,
           queue' = [queue EXCEPT ![w] = Tail(@)],
           \A g \in Fd : g # Head(queue[w]) => peer'[g] = peer[g]
    PROVE  /\ Line' = [Line EXCEPT ![w] = Tail(@)]
           /\ Line[w] # <<>>
           /\ Head(Line[w]) = peer[Head(queue[w])]
<1> DEFINE n == Len(queue[w])
           new == Tail(Line[w])
<1>1. /\ n \in Nat \ {0}
      /\ Len(queue'[w]) = n - 1
      /\ \A i \in 1 .. n - 1 : queue'[w][i] = queue[w][i + 1]
      /\ \A v \in Worker : v # w => queue'[v] = queue[v]
      /\ Head(queue[w]) = queue[w][1]
  BY PopQueue
<1>2. /\ Line \in [Worker -> Seq(Conn \cup {None})]
      /\ Len(Line[w]) = n
      /\ \A i \in 1 .. n : Line[w][i] = peer[queue[w][i]]
  BY LineIs
<1>3. Line[w] # <<>>
  BY <1>1, <1>2
<1>4. /\ new \in Seq(Conn \cup {None})
      /\ Len(new) = n - 1
      /\ \A i \in 1 .. n - 1 : new[i] = Line[w][i + 1]
      /\ Head(Line[w]) = Line[w][1]
  BY <1>2, <1>3, HeadTailProperties
<1>5. /\ Line' = [v \in Worker |-> Line'[v]]
      /\ \A v \in Worker : Line'[v] = Peers(queue'[v], peer')
      /\ \A v \in Worker : Line[v] = Peers(queue[v], peer)
  BY DEF Line, Peers
<1>6. \A v \in Worker : \A i \in 1 .. Len(queue[v]) :
        queue[v][i] \in Fd /\ (queue[v][i] = queue[w][1] => v = w /\ i = 1)
  BY <1>1, QueueTypes DEF QueuedOnce
<1> HIDE DEF new, n
<1>7. ASSUME NEW v \in Worker, v # w PROVE Line'[v] = Line[v]
  <2>1. queue'[v] = queue[v]
    BY <1>1, <1>7
  <2>2. \A i \in 1 .. Len(queue[v]) : peer'[queue[v][i]] = peer[queue[v][i]]
    BY <1>1, <1>6, <1>7
  <2>3. Peers(queue[v], peer') = Peers(queue[v], peer)
    BY <2>2 DEF Peers
  <2>. QED BY <1>5, <2>1, <2>3
<1>8. Line'[w] = [i \in 1 .. n - 1 |-> Line'[w][i]]
  BY <1>1, <1>5 DEF Peers
<1>9. ASSUME NEW i \in 1 .. n - 1 PROVE Line'[w][i] = new[i]
  <2>1. i + 1 \in 1 .. n /\ i + 1 # 1
    BY <1>1
  <2>2. Line'[w][i] = peer'[queue[w][i + 1]]
    BY <1>1, <1>5 DEF Peers
  <2>3. peer'[queue[w][i + 1]] = peer[queue[w][i + 1]]
    BY <1>1, <1>6, <2>1 DEF n
  <2>. QED BY <1>2, <1>4, <2>1, <2>2, <2>3
<1>10. Line'[w] = new
  <2>1. n - 1 \in Nat
    BY <1>1
  <2>. QED BY <1>4, <1>8, <1>9, <2>1, SeqsEqual
<1>11. Head(Line[w]) = peer[Head(queue[w])]
  <2>1. 1 \in 1 .. n
    BY <1>1
  <2>. QED BY <1>1, <1>2, <1>4, <2>1
<1>12. Line' = [Line EXCEPT ![w] = Tail(@)]
  BY <1>2, <1>5, <1>7, <1>10 DEF new
<1>. QED BY <1>3, <1>11, <1>12

\* What worker w serves are the connections of the sessions it owns.
LEMMA ServingIs ==
    /\ Serving = [w \in Worker |-> Serving[w]]
    /\ \A w \in Worker : Serving[w] = {session_map[w][f] : f \in {g \in Fd : Owns(w, g)}}
  BY DEF Serving, Owns

\* A step that leaves the owned sessions alone.
LEMMA ServingSame ==
    ASSUME NEW w \in Worker,
           \A g \in Fd : /\ Owns(w, g)' <=> Owns(w, g)
                         /\ Owns(w, g) => session_map'[w][g] = session_map[w][g]
    PROVE  Serving'[w] = Serving[w]
<1>1. Serving'[w] = {session_map'[w][f] : f \in {g \in Fd : Owns(w, g)'}}
  BY DEF Serving, Owns
<1>2. {g \in Fd : Owns(w, g)'} = {g \in Fd : Owns(w, g)}
  OBVIOUS
<1>3. Serving[w] = {session_map[w][f] : f \in {g \in Fd : Owns(w, g)}}
  BY ServingIs
<1>. QED BY <1>1, <1>2, <1>3

\* A step that changes the sessions of one worker at most.
LEMMA ServingAll ==
    ASSUME NEW w \in Worker, NEW T, Serving'[w] = T,
           \A v \in Worker : v # w => Serving'[v] = Serving[v]
    PROVE  Serving' = [Serving EXCEPT ![w] = T]
<1>1. Serving' = [v \in Worker |-> Serving'[v]] /\ Serving = [v \in Worker |-> Serving[v]]
  BY DEF Serving
<1>. QED BY <1>1

\* Nobody's connections change.
LEMMA ServingUnchanged ==
    ASSUME \A v \in Worker, g \in Fd :
             /\ Owns(v, g)' <=> Owns(v, g)
             /\ Owns(v, g) => session_map'[v][g] = session_map[v][g]
    PROVE  Serving' = Serving
<1>1. \A v \in Worker : Serving'[v] = Serving[v]
  BY ServingSame
<1>2. Serving' = [v \in Worker |-> Serving'[v]] /\ Serving = [v \in Worker |-> Serving[v]]
  BY DEF Serving
<1>. QED BY <1>1, <1>2

-----------------------------------------------------------------------------
(***************************************************************************)
(* One lemma for each step that Service sees.                              *)
(***************************************************************************)
ServiceStutters == UNCHANGED <<arrived, taken, Held, Line, Serving>>

\* At first nobody is held, in line or served.
LEMMA InitRefines == Init => S!ServiceInit
<1> SUFFICES ASSUME Init PROVE S!ServiceInit
  OBVIOUS
<1>1. Held = {}
  BY FdIsNotNone DEF Init, Held
<1>2. Line = [w \in Worker |-> <<>>]
  <2>1. \A w \in Worker : 1 .. Len(queue[w]) = {}
    BY DEF Init
  <2>2. \A w \in Worker : [i \in 1 .. Len(queue[w]) |-> peer[queue[w][i]]] = <<>>
    BY <2>1
  <2>. QED BY <2>2 DEF Line
<1>3. Serving = [w \in Worker |-> {}]
  BY DEF Init, Serving
<1>. QED BY <1>1, <1>2, <1>3 DEF Init, S!ServiceInit

\* A step of the acceptor or the kernel leaves what is served alone.
LEMMA SameServing ==
    ASSUME UNCHANGED <<session_map, closing>> PROVE Serving' = Serving
  BY DEF Serving

\* accept4 takes the oldest connection.
LEMMA AcceptRefines ==
    ASSUME IInv, NEW f \in Fd, Accept(f) PROVE S!Take
<1>0. TypeOK /\ AcceptorInv /\ HeldIsOpen
  BY DEF IInv
<1>1. /\ sock = None /\ sock' = f /\ peer[f] = None /\ taken < arrived
      /\ taken' = taken + 1 /\ UNCHANGED <<arrived, queue, session_map, closing>>
  BY <1>0 DEF Accept, AcceptorInv, workerVars
<1>2. peer'[f] = taken + 1 /\ \A g \in Fd : g # f => peer'[g] = peer[g]
  BY <1>0 DEF Accept, TypeOK
<1>3. Held = {}
  BY <1>1, FdIsNotNone, HeldIs
<1>4. Held' = {taken + 1}
  BY <1>1, <1>2 DEF Held
<1>5. Line' = Line
  <2>1. Queued \subseteq Fd /\ f \notin Queued
    BY <1>0, <1>1 DEF HeldIsOpen, Queued
  <2>. QED BY <1>0, <1>1, <1>2, <2>1, LineSame
<1>6. Serving' = Serving
  BY <1>1, SameServing
<1>. QED BY <1>1, <1>3, <1>4, <1>5, <1>6 DEF S!Take

\* Closing the socket that no worker had room for turns its connection away.
LEMMA RejectRefines ==
    ASSUME IInv, Reject PROVE S!TurnAway
<1>0. TypeOK /\ AcceptorInv /\ HeldOnce
  BY DEF IInv
<1>1. /\ sock \in Fd /\ sock' = None
      /\ UNCHANGED <<arrived, taken, queue, session_map, closing>>
  BY <1>0 DEF Reject, AcceptorInv, TypeOK, workerVars
<1>2. \A g \in Fd : g # sock => peer'[g] = peer[g]
  BY <1>0, <1>1 DEF Reject, TypeOK
<1>3. Held # {}
  BY <1>1, HeldIs
<1>4. Held' = {}
  BY <1>1, FdIsNotNone DEF Held
<1>5. Line' = Line
  <2>1. Queued \subseteq Fd /\ sock \notin Queued
    BY <1>0, <1>1 DEF HeldOnce, Queued
  <2>. QED BY <1>0, <1>1, <1>2, <2>1, LineSame
<1>6. Serving' = Serving
  BY <1>1, SameServing
<1>. QED BY <1>1, <1>3, <1>4, <1>5, <1>6 DEF S!TurnAway

\* The push puts the connection in the worker's line.
LEMMA EnqueueRefines ==
    ASSUME IInv, enqueue_sock
    PROVE  index \in Worker /\ peer[sock] \in Conn /\ S!Assign(peer[sock], index)
<1>0. TypeOK /\ AcceptorInv /\ AcquiredHasRoom /\ HeldIsOpen
  BY DEF IInv
<1>1. sock \in Fd /\ sock # None /\ sock' = None /\ index \in Worker
  BY <1>0 DEF enqueue_sock, AcceptorInv, TypeOK
<1>2. Len(queue[index]) < Bound /\ ~is_full(index)
  BY <1>0, <1>1, QueueTypes, DispatchAssumption DEF enqueue_sock, AcquiredHasRoom, is_full
<1>3. /\ UNCHANGED <<arrived, taken, peer, session_map, closing>>
      /\ queue' = [queue EXCEPT ![index] = Append(@, sock)]
  BY <1>2 DEF enqueue_sock, workerVars
<1>4. Held = {peer[sock]}
  BY <1>1, HeldIs
<1>5. peer[sock] \in Conn
  BY <1>0, <1>1 DEF HeldIsOpen, TypeOK
<1>6. Held' = {}
  BY <1>1, FdIsNotNone DEF Held
<1>7. Line' = [Line EXCEPT ![index] = Append(@, peer[sock])]
  BY <1>0, <1>1, <1>3, LinePush
<1>8. Len(Line[index]) < Bound
  BY <1>0, <1>1, <1>2, LineIs
<1>9. Serving' = Serving
  BY <1>3, SameServing
<1>. QED BY <1>1, <1>3, <1>4, <1>5, <1>6, <1>7, <1>8, <1>9 DEF S!Assign

\* The worker takes a socket and closes it.
LEMMA RefuseRefines ==
    ASSUME IInv, NEW w \in Worker, RefuseConnection(w) PROVE S!Drop(w)
<1>0. TypeOK /\ QueuedOnce
  BY DEF IInv
<1>1. /\ wpc[w] = "drain" /\ queue[w] # <<>>
      /\ queue' = [queue EXCEPT ![w] = Tail(@)]
      /\ UNCHANGED <<arrived, taken, sock, session_map, closing>>
  BY DEF RefuseConnection, acceptorVars, workerVars
<1>2. Head(queue[w]) \in Fd /\ Head(queue[w]) # sock
  BY <1>1, HeadOfQueue
<1>3. \A g \in Fd : g # Head(queue[w]) => peer'[g] = peer[g]
  BY <1>0, <1>2 DEF RefuseConnection, TypeOK
<1>4. Line' = [Line EXCEPT ![w] = Tail(@)] /\ Line[w] # <<>>
  BY <1>0, <1>1, <1>3, LinePop
<1>5. Held' = Held
  BY <1>1, <1>2, <1>3 DEF Held
<1>6. Serving' = Serving
  BY <1>1, SameServing
<1>. QED BY <1>1, <1>4, <1>5, <1>6 DEF S!Drop

\* The worker takes a socket and opens a session for it.
LEMMA AddRefines ==
    ASSUME IInv, NEW w \in Worker, AddConnection(w) PROVE S!Begin(w)
<1> DEFINE f == Head(queue[w])
<1>0. TypeOK /\ QueuedOnce
  BY DEF IInv
<1>1. /\ wpc[w] = "drain" /\ queue[w] # <<>>
      /\ queue' = [queue EXCEPT ![w] = Tail(@)]
      /\ UNCHANGED <<arrived, taken, sock, peer, closing>>
  BY DEF AddConnection, acceptorVars, kernelVars
<1>2. /\ f \in Fd /\ f # None /\ peer[f] # None /\ closing[w] = None
      /\ session_map[w][f] = None
      /\ \A v \in Worker : ~Owns(v, f)
  BY <1>1, HeadOfQueue
<1>3. session_map' = [session_map EXCEPT ![w][f] = peer[f]]
  BY <1>2 DEF AddConnection, Emplaced
<1>4. /\ session_map'[w][f] = peer[f]
      /\ \A v \in Worker : \A g \in Fd :
           v # w \/ g # f => session_map'[v][g] = session_map[v][g]
  BY <1>0, <1>2, <1>3 DEF TypeOK
<1>5. /\ Line' = [Line EXCEPT ![w] = Tail(@)] /\ Line[w] # <<>>
      /\ Head(Line[w]) = peer[f]
  BY <1>0, <1>1, LinePop
<1>6. Held' = Held
  BY <1>1 DEF Held
<1> HIDE DEF f
<1>7. \A v \in Worker : \A g \in Fd : Owns(v, g)' <=> Owns(v, g) \/ (v = w /\ g = f)
  BY <1>1, <1>2, <1>4 DEF Owns
<1>8. \A v \in Worker : v # w => Serving'[v] = Serving[v]
  BY <1>4, <1>7, ServingSame
<1>9. Serving'[w] = Serving[w] \cup {peer[f]}
  <2>1. Serving'[w] = {session_map'[w][h] : h \in {g \in Fd : Owns(w, g)'}}
    BY DEF Serving, Owns
  <2>2. {g \in Fd : Owns(w, g)'} = {g \in Fd : Owns(w, g)} \cup {f}
    BY <1>2, <1>7
  <2>3. \A g \in Fd : Owns(w, g) => session_map'[w][g] = session_map[w][g]
    BY <1>2, <1>4
  <2>4. Serving[w] = {session_map[w][h] : h \in {g \in Fd : Owns(w, g)}}
    BY ServingIs
  <2>. QED BY <1>4, <2>1, <2>2, <2>3, <2>4
<1>10. Serving' = [Serving EXCEPT ![w] = @ \cup {Head(Line[w])}]
  BY <1>5, <1>8, <1>9, ServingAll
<1>. QED BY <1>1, <1>5, <1>6, <1>10 DEF S!Begin

\* The worker takes a socket and disconnects before it ever serves it.
LEMMA AddAndDisconnectRefines ==
    ASSUME IInv, NEW w \in Worker, AddAndDisconnect(w) PROVE S!Drop(w)
<1> DEFINE f == Head(queue[w])
<1>0. TypeOK /\ QueuedOnce
  BY DEF IInv
<1>1. /\ wpc[w] = "drain" /\ queue[w] # <<>>
      /\ queue' = [queue EXCEPT ![w] = Tail(@)]
      /\ UNCHANGED <<arrived, taken, sock>>
  BY DEF AddAndDisconnect, acceptorVars
<1>2. /\ f \in Fd /\ f # sock /\ closing[w] = None /\ \A v \in Worker : ~Owns(v, f)
  BY <1>1, HeadOfQueue
<1>3. \A v \in Worker : \A g \in Fd :
        v # w \/ g # f => session_map'[v][g] = session_map[v][g]
  BY <1>0, <1>2 DEF AddAndDisconnect, Emplaced, TypeOK
<1>4. closing'[w] = f /\ \A v \in Worker : v # w => closing'[v] = closing[v]
  BY <1>0 DEF AddAndDisconnect, TypeOK
<1>5. \A g \in Fd : g # f => peer'[g] = peer[g]
  BY <1>0, <1>2 DEF AddAndDisconnect, TypeOK
<1>6. Line' = [Line EXCEPT ![w] = Tail(@)] /\ Line[w] # <<>>
  BY <1>0, <1>1, <1>5, LinePop
<1> HIDE DEF f
<1>7. Held' = Held
  BY <1>1, <1>2, <1>5 DEF Held
<1>8. \A v \in Worker, g \in Fd : /\ Owns(v, g)' <=> Owns(v, g)
                                  /\ Owns(v, g) => session_map'[v][g] = session_map[v][g]
  BY <1>2, <1>3, <1>4, FdIsNotNone DEF Owns
<1>9. Serving' = Serving
  BY <1>8, ServingUnchanged
<1>. QED BY <1>1, <1>6, <1>7, <1>9 DEF S!Drop

\* The close of a session's descriptor ends its connection and no other.
LEMMA DisconnectRefines ==
    ASSUME IInv, NEW w \in Worker, NEW f \in Fd, HandleAndDisconnect(w, f)
    PROVE  peer[f] \in Conn /\ S!End(peer[f], w)
<1>0. TypeOK /\ WorkerInv /\ HeldOnce /\ HeldIsOpen /\ PeerInv
  BY DEF IInv
<1>1. UNCHANGED <<arrived, taken, sock, queue, session_map>>
  BY DEF HandleAndDisconnect, acceptorVars
<1>2. closing[w] = None /\ f # None /\ Owns(w, f)
  BY <1>0, FdIsNotNone DEF HandleAndDisconnect, WorkerInv, Owns
<1>3. f # sock /\ f \notin Queued /\ Queued \subseteq Fd
  BY <1>0, <1>2 DEF HeldOnce, Queued
<1>4. closing'[w] = f /\ \A v \in Worker : v # w => closing'[v] = closing[v]
  BY <1>0 DEF HandleAndDisconnect, TypeOK
<1>5. \A g \in Fd : g # f => peer'[g] = peer[g]
  BY <1>0 DEF HandleAndDisconnect, TypeOK
<1>6. \A v \in Worker : \A g \in Fd : Owns(v, g) => session_map[v][g] = peer[g] /\ peer[g] # None
  BY <1>0 DEF HeldIsOpen, SessionIsOfItsConnection, Owns
<1>7. \A v \in Worker : \A g \in Fd : Owns(v, g)' <=> Owns(v, g) /\ ~(v = w /\ g = f)
  BY <1>1, <1>2, <1>4, FdIsNotNone DEF Owns
<1>8. peer[f] \in Conn
  BY <1>0, <1>2, <1>6 DEF TypeOK
<1>9. Line' = Line
  BY <1>0, <1>1, <1>3, <1>5, LineSame
<1>10. Held' = Held
  BY <1>1, <1>3, <1>5 DEF Held
<1>11. \A v \in Worker : v # w => Serving'[v] = Serving[v]
  BY <1>1, <1>7, ServingSame
<1>12. Serving[w] = {session_map[w][h] : h \in {g \in Fd : Owns(w, g)}}
  BY ServingIs
<1>13. peer[f] \in Serving[w]
  BY <1>2, <1>6, <1>12
<1>14. Serving'[w] = Serving[w] \ {peer[f]}
  <2>1. Serving'[w] = {session_map'[w][h] : h \in {g \in Fd : Owns(w, g)'}}
    BY DEF Serving, Owns
  <2>2. {g \in Fd : Owns(w, g)'} = {g \in Fd : Owns(w, g)} \ {f}
    BY <1>7
  <2>3. \A g \in Fd : Owns(w, g) /\ g # f => session_map[w][g] # peer[f]
    BY <1>0, <1>6 DEF PeerInv
  <2>. QED BY <1>1, <1>2, <1>6, <1>12, <2>1, <2>2, <2>3
<1>15. Serving' = [Serving EXCEPT ![w] = @ \ {peer[f]}]
  BY <1>11, <1>14, ServingAll
<1>. QED BY <1>1, <1>8, <1>9, <1>10, <1>13, <1>15 DEF S!End

\* The erase is invisible: the connection has ended, and the number may belong
\* to another one by now.
LEMMA EraseRefines ==
    ASSUME IInv, NEW w \in Worker, EraseSession(w) PROVE ServiceStutters
<1>0. TypeOK
  BY DEF IInv
<1>1. UNCHANGED <<arrived, taken, sock, queue, peer>>
  BY DEF EraseSession, acceptorVars, kernelVars
<1>2. closing[w] \in Fd
  BY <1>0 DEF EraseSession, TypeOK
<1>3. /\ session_map'[w][closing[w]] = None
      /\ \A v \in Worker : \A g \in Fd :
           v # w \/ g # closing[w] => session_map'[v][g] = session_map[v][g]
  BY <1>0, <1>2 DEF EraseSession, TypeOK
<1>4. closing'[w] = None /\ \A v \in Worker : v # w => closing'[v] = closing[v]
  BY <1>0 DEF EraseSession, TypeOK
<1>5. \A v \in Worker, g \in Fd : /\ Owns(v, g)' <=> Owns(v, g)
                                  /\ Owns(v, g) => session_map'[v][g] = session_map[v][g]
  BY <1>3, <1>4, FdIsNotNone DEF Owns
<1>6. Serving' = Serving
  BY <1>5, ServingUnchanged
<1>7. Held' = Held
  BY <1>1 DEF Held
<1>8. Line' = Line
  BY <1>0, <1>1, LineSame
<1>. QED BY <1>1, <1>6, <1>7, <1>8 DEF ServiceStutters

\* Steps that change neither descriptors nor sessions.
LEMMA InvisibleStep ==
    ASSUME IInv, UNCHANGED <<peer, sock, queue, session_map, closing>>
    PROVE  UNCHANGED <<Held, Line, Serving>>
<1>1. Held' = Held
  BY DEF Held
<1>2. Line' = Line
  BY LineSame DEF IInv
<1>3. Serving' = Serving
  BY SameServing
<1>. QED BY <1>1, <1>2, <1>3

\* An error of accept4 leaves the oldest connection where it is or aborts it.
LEMMA AbortRefines ==
    ASSUME IInv, AcceptAborts PROVE ServiceStutters \/ S!Abort
<1>1. UNCHANGED <<arrived, peer, sock, queue, session_map, closing>>
  BY DEF AcceptAborts, workerVars
<1>2. UNCHANGED <<Held, Line, Serving>>
  BY <1>1, InvisibleStep
<1>3. sock = None /\ Held = {}
  <2>1. sock = None
    BY DEF IInv, AcceptorInv, AcceptAborts
  <2>. QED BY <2>1, FdIsNotNone DEF Held
<1>4. taken < arrived /\ taken' \in {taken, taken + 1}
  BY DEF AcceptAborts
<1>. QED BY <1>1, <1>2, <1>3, <1>4 DEF ServiceStutters, S!Abort

\* Every step is one of Service's or invisible to it.
LEMMA NextRefines == IInv /\ [Next]_vars => [S!ServiceNext]_(S!serviceVars)
<1> SUFFICES ASSUME IInv, [Next]_vars PROVE ServiceStutters \/ S!ServiceNext
  BY DEF ServiceStutters, S!serviceVars
<1>1. CASE Connect
  <2>1. UNCHANGED <<Held, Line, Serving>>
    BY <1>1, InvisibleStep DEF Connect, acceptorVars, workerVars
  <2>2. S!Arrive
    BY <1>1, <2>1 DEF Connect, S!Arrive
  <2>. QED BY <2>2 DEF S!ServiceNext
<1>2. CASE UNCHANGED vars \/ AcceptorWakes \/ AcceptDrained \/ AcceptFails
           \/ acquire_worker_index \/ find_available_worker
  <2>1. UNCHANGED <<arrived, taken, peer, sock, queue, session_map, closing>>
    BY <1>2 DEF vars, AcceptorWakes, AcceptDrained, AcceptFails, acquire_worker_index,
       find_available_worker, kernelVars, workerVars
  <2>. QED BY <2>1, InvisibleStep DEF ServiceStutters
<1>3. CASE \E f \in Fd : Accept(f)
  BY <1>3, AcceptRefines DEF S!ServiceNext
<1>a. CASE AcceptAborts
  BY <1>a, AbortRefines DEF S!ServiceNext
<1>4. CASE Reject
  BY <1>4, RejectRefines DEF S!ServiceNext
<1>5. CASE enqueue_sock
  BY <1>5, EnqueueRefines DEF S!ServiceNext, Conn
<1>6. ASSUME NEW w \in Worker, Run(w) PROVE ServiceStutters \/ S!ServiceNext
  <2>1. CASE \/ HandleSignal(w) \/ Drained(w) \/ EventsDone(w)
             \/ \E f \in Fd : HandleEvent(w, f)
             \/ \E fds \in SUBSET Fd, sig \in BOOLEAN : Harvest(w, fds, sig)
    <3>1. UNCHANGED <<arrived, taken, peer, sock, queue, session_map, closing>>
      BY <2>1 DEF HandleSignal, Drained, EventsDone, HandleEvent, Harvest, kernelVars,
         acceptorVars
    <3>. QED BY <3>1, InvisibleStep DEF ServiceStutters
  <2>2. CASE RefuseConnection(w) \/ AddAndDisconnect(w)
    BY <2>2, RefuseRefines, AddAndDisconnectRefines DEF S!ServiceNext
  <2>3. CASE AddConnection(w)
    BY <2>3, AddRefines DEF S!ServiceNext
  <2>4. CASE \E f \in Fd : HandleAndDisconnect(w, f)
    BY <2>4, DisconnectRefines DEF S!ServiceNext, Conn
  <2>5. CASE EraseSession(w)
    BY <2>5, EraseRefines
  <2>. QED BY <1>6, <2>1, <2>2, <2>3, <2>4, <2>5 DEF Run, handle_new_connections
<1>. QED BY <1>1, <1>2, <1>3, <1>a, <1>4, <1>5, <1>6 DEF Next, handle_accept, Balance

\* For any number of workers, descriptors and connections the acceptor, the
\* queues and the session maps implement Service: although a number is given
\* out again before its last session is erased, every connection has one worker,
\* is taken in order of arrival and is never taken for another.
THEOREM DispatchImplementsService == Spec => ImplementsService
<1>1. Init => S!ServiceInit
  BY InitRefines
<1>2. IInv /\ [Next]_vars => [S!ServiceNext]_(S!serviceVars)
  BY NextRefines
<1>. QED BY <1>1, <1>2, Invariance, PTL DEF Spec, ImplementsService, S!ServiceSpec
=============================================================================
