------------------------------ MODULE Handoff ------------------------------
(***************************************************************************)
(* How an accepted socket reaches a worker thread: Worker::enqueue_sock,   *)
(* called by the acceptor, and Worker::startup and the notification part   *)
(* of Worker::run, executed by the worker.  The two threads share the      *)
(* socket queue (an atomic bounded FIFO, which CircularQueue implements),  *)
(* the flag pending_notify and the eventfd signal_fd.                      *)
(*                                                                         *)
(* The worker clears pending_notify with a release store and then loads    *)
(* the queue's indices.  Where that store is an ordinary x86 store (an     *)
(* optimised build) it may still be in the store buffer when the loads     *)
(* happen: seq_cst is FALSE, with the store that is not visible yet in     *)
(* buffered.  The repository's Makefile compiles without optimisation, and *)
(* there g++ emits an xchg: seq_cst is TRUE.                               *)
(*                                                                         *)
(* listen_and_serve starts the worker threads and then accepts without     *)
(* waiting for them.  A behaviour begins there, or, with started TRUE,     *)
(* when the worker's startup is over.                                      *)
(***************************************************************************)
EXTENDS Naturals, Sequences

CONSTANTS Sock,      \* socket descriptors
          NoSock,    \* -1
          Bound,     \* elements a socket queue holds
          SeqCst,    \* the builds that are looked at: values of seq_cst
          Started    \* the beginnings that are looked at: values of started

ASSUME BoundAssumption == Bound \in Nat \ {0}
ASSUME ModeAssumption == SeqCst \subseteq BOOLEAN /\ Started \subseteq BOOLEAN

VARIABLES
    seq_cst,      \* clearing pending_notify is ordered before later loads
    started,      \* the worker had started up before the first enqueue
    queue, accepted, returned,  \* socket_queue, a BoundedFifo
    pending,      \* pending_notify as memory has it
    buffered,     \* a store of FALSE to pending_notify is not visible yet
    signal_fd,    \* "unset" (-1) or "open"
    evfd,         \* the eventfd's counter
    write_error,  \* some write to signal_fd has failed
    apc,          \* the acceptor: "ready", or in enqueue_sock before its
                  \* "cas" or its "write"
    wpc           \* the worker: "startup", "register", "epoll_wait", in the
                  \* notify loop, or "exited"

mode == <<seq_cst, started>>
vars == <<mode, queue, accepted, returned, pending, buffered, signal_fd, evfd,
          write_error, apc, wpc>>

queueVars == <<queue, accepted, returned>>

Q == INSTANCE BoundedFifo WITH Data <- Sock, NoData <- NoSock

\* The worker holds the notification: it has not cleared pending_notify yet.
Serving == {"flush", "drain", "clear"}

Init ==
    /\ seq_cst \in SeqCst
    /\ started \in Started
    /\ Q!FifoInit
    /\ pending = FALSE
    /\ buffered = FALSE
    /\ signal_fd = IF started THEN "open" ELSE "unset"
    /\ evfd = 0
    /\ write_error = FALSE
    /\ apc = "ready"
    /\ wpc = IF started THEN "epoll_wait" ELSE "startup"
-----------------------------------------------------------------------------
(***************************************************************************)
(* The acceptor: enqueue_sock.  A descriptor that is still queued is open, *)
(* so the kernel does not hand it out again.                               *)
(***************************************************************************)

\* Mutant of EnqueuePush: the socket is queued although the queue is full.
PushUnbounded(s) ==
    /\ apc = "ready"
    /\ \A i \in 1 .. Len(queue) : queue[i] # s
    /\ queue' = Append(queue, s)
    /\ accepted' = TRUE
    /\ apc' = "cas"
    /\ UNCHANGED <<returned, pending, buffered, signal_fd, evfd, write_error, wpc>>

EnqueuePush(s) ==
    /\ apc = "ready"
    /\ \A i \in 1 .. Len(queue) : queue[i] # s
    /\ Q!Push(s)
    /\ apc' = "cas"
    /\ UNCHANGED <<pending, buffered, signal_fd, evfd, write_error, wpc>>

EnqueueRefused ==
    /\ apc = "ready"
    /\ Q!Refuse
    /\ UNCHANGED <<pending, buffered, signal_fd, evfd, write_error, apc, wpc>>

\* Mutant of NotifyCas: notifies whatever the flag says.
NotifyAlways ==
    /\ apc = "cas"
    /\ apc' = "write"
    /\ pending' = TRUE
    /\ UNCHANGED <<queueVars, buffered, signal_fd, evfd, write_error, wpc>>

\* Only the thread that turns pending_notify from false to true notifies.
NotifyCas ==
    /\ apc = "cas"
    /\ apc' = IF pending THEN "ready" ELSE "write"
    /\ pending' = TRUE
    /\ UNCHANGED <<queueVars, buffered, signal_fd, evfd, write_error, wpc>>

\* The write is retried after EINTR and given up after any other error; on
\* descriptor -1 it fails with EBADF.
NotifyWrite ==
    /\ apc = "write"
    /\ \/ /\ signal_fd = "open"
          /\ evfd' = evfd + 1
          /\ UNCHANGED write_error
       \/ /\ signal_fd = "unset"
          /\ write_error' = TRUE
          /\ UNCHANGED evfd
    /\ apc' = "ready"
    /\ UNCHANGED <<queueVars, pending, buffered, signal_fd, wpc>>
-----------------------------------------------------------------------------
(***************************************************************************)
(* The worker: startup, then run.                                          *)
(***************************************************************************)
CreateSignalFd ==
    /\ wpc = "startup"
    /\ signal_fd' = "open"
    /\ wpc' = "register"
    /\ UNCHANGED <<queueVars, pending, buffered, evfd, write_error, apc>>

\* epoll_create or eventfd fails: run returns and the thread ends.
StartupFails ==
    /\ wpc = "startup"
    /\ wpc' = "exited"
    /\ UNCHANGED <<queueVars, pending, buffered, signal_fd, evfd, write_error, apc>>

\* signal_fd is added to the epoll set, level-triggered.
RegisterSignalFd ==
    /\ wpc = "register"
    /\ wpc' = "epoll_wait"
    /\ UNCHANGED <<queueVars, pending, buffered, signal_fd, evfd, write_error, apc>>

Wake ==
    /\ wpc = "epoll_wait"
    /\ evfd > 0
    /\ wpc' = "flush"
    /\ UNCHANGED <<queueVars, pending, buffered, signal_fd, evfd, write_error, apc>>

\* read until the counter is zero; a read on zero fails with EAGAIN.
FlushSignal ==
    /\ wpc = "flush"
    /\ evfd' = 0
    /\ wpc' = "drain"
    /\ UNCHANGED <<queueVars, pending, buffered, signal_fd, write_error, apc>>

\* handle_new_connections takes the sockets until dequeue_sock returns -1.
TakeSock ==
    /\ wpc = "drain"
    /\ Q!Take
    /\ UNCHANGED <<pending, buffered, signal_fd, evfd, write_error, apc, wpc>>

TakeNone ==
    /\ wpc = "drain"
    /\ Q!TakeNothing
    /\ wpc' = "clear"
    /\ UNCHANGED <<pending, buffered, signal_fd, evfd, write_error, apc>>

\* Mutant of ClearPending: forgets to clear the flag.
ClearNothing ==
    /\ wpc = "clear"
    /\ wpc' = "check"
    /\ UNCHANGED <<queueVars, pending, buffered, signal_fd, evfd, write_error, apc>>

\* pending_notify.store(false)
ClearPending ==
    /\ wpc = "clear"
    /\ IF seq_cst
         THEN pending' = FALSE /\ UNCHANGED buffered
         ELSE buffered' = TRUE /\ UNCHANGED pending
    /\ wpc' = "check"
    /\ UNCHANGED <<queueVars, signal_fd, evfd, write_error, apc>>

\* Mutant of CheckAgain: waits without a second look at the queue.
NeverCheckAgain ==
    /\ wpc = "check"
    /\ wpc' = "epoll_wait"
    /\ UNCHANGED <<queueVars, pending, buffered, signal_fd, evfd, write_error, apc>>

\* socket_queue.is_empty() after the store.
CheckAgain ==
    /\ wpc = "check"
    /\ wpc' = IF queue = <<>> THEN "epoll_wait" ELSE "reclaim"
    /\ UNCHANGED <<queueVars, pending, buffered, signal_fd, evfd, write_error, apc>>

\* Mutant of Reclaim: leaves the loop after winning the flag.
ReclaimAndWait ==
    /\ wpc = "reclaim"
    /\ ~buffered
    /\ pending' = TRUE
    /\ wpc' = "epoll_wait"
    /\ UNCHANGED <<queueVars, buffered, signal_fd, evfd, write_error, apc>>

\* The worker's own compare_exchange: a locked instruction, so its buffered
\* store is visible first.
Reclaim ==
    /\ wpc = "reclaim"
    /\ ~buffered
    /\ pending' = TRUE
    /\ wpc' = IF pending THEN "epoll_wait" ELSE "flush"
    /\ UNCHANGED <<queueVars, buffered, signal_fd, evfd, write_error, apc>>

\* The hardware makes the worker's store visible.
StoreVisible ==
    /\ buffered
    /\ buffered' = FALSE
    /\ pending' = FALSE
    /\ UNCHANGED <<queueVars, signal_fd, evfd, write_error, apc, wpc>>
-----------------------------------------------------------------------------
Notify == NotifyCas \/ NotifyWrite

Acceptor ==
    \/ \E s \in Sock : EnqueuePush(s)
    \/ EnqueueRefused
    \/ Notify

Startup == CreateSignalFd \/ StartupFails \/ RegisterSignalFd

NotifyLoop ==
    \/ Wake
    \/ FlushSignal
    \/ TakeSock
    \/ TakeNone
    \/ ClearPending
    \/ CheckAgain
    \/ Reclaim

Next == (Acceptor \/ Startup \/ NotifyLoop \/ StoreVisible) /\ UNCHANGED mode

Spec == Init /\ [][Next]_vars

\* Both threads are scheduled, an enqueue_sock that has begun finishes and a
\* buffered store becomes visible.  Nothing makes clients connect.
FairSpec ==
    /\ Spec
    /\ WF_vars(Notify /\ UNCHANGED mode)
    /\ WF_vars(NotifyLoop /\ UNCHANGED mode)
    /\ WF_vars(StoreVisible /\ UNCHANGED mode)
-----------------------------------------------------------------------------
\* The types; the queue holds Bound sockets at most.
TypeOK ==
    /\ seq_cst \in BOOLEAN
    /\ started \in BOOLEAN
    /\ queue \in Seq(Sock)
    /\ Len(queue) <= Bound
    /\ accepted \in BOOLEAN
    /\ returned \in Sock \cup {NoSock}
    /\ pending \in BOOLEAN
    /\ buffered \in BOOLEAN
    /\ signal_fd \in {"unset", "open"}
    /\ evfd \in Nat
    /\ write_error \in BOOLEAN
    /\ apc \in {"ready", "cas", "write"}
    /\ wpc \in {"startup", "register", "epoll_wait", "check", "reclaim", "exited"}
               \cup Serving

\* A socket is queued, nobody is about to notify, and the worker waits on an
\* eventfd that is not readable.
Stranded == queue # <<>> /\ apc = "ready" /\ wpc = "epoll_wait" /\ evfd = 0

\* A worker that has started never sleeps on a non-empty queue, whatever the
\* order of the acceptor's push, compare_exchange and write and the worker's
\* flush, drain, store, second look and compare_exchange.
NoLostWakeup == seq_cst /\ started => ~Stranded

\* In every mode, a socket is stranded only for one of two reasons: a write to
\* signal_fd has failed, or the worker's store overtook its second look at the
\* queue; then the flag is clear, or about to be, so that the next
\* enqueue_sock on this worker notifies.
StrandedIsExplained ==
    Stranded => write_error \/ (~seq_cst /\ (buffered \/ ~pending))

\* Notifications do not pile up: the eventfd counter never exceeds one,
\* counting the write that is about to happen.
AtMostOneNotify == evfd + (IF apc = "write" THEN 1 ELSE 0) <= 1

\* pending_notify is true only while a notification is under way: its writer
\* is about to write it, the eventfd holds it, or the worker is serving it and
\* has yet to make the flag false.
PendingMeansNotified ==
    pending => evfd > 0 \/ apc = "write" \/ wpc \in Serving \/ buffered

\* Once the worker has started that is so, however the store is ordered: the
\* flag never outlives its notification.
PendingIsHonest == started => PendingMeansNotified

\* Every socket that is queued for a worker that has started is taken by it.
EventuallyTaken ==
    \A s \in Sock :
        (seq_cst /\ started /\ \E i \in 1 .. Len(queue) : queue[i] = s)
            ~> (\A i \in 1 .. Len(queue) : queue[i] # s)
=============================================================================
