--------------------------- MODULE HandoffProofs ---------------------------
(***************************************************************************)
(* Proofs about Handoff for every set of descriptors, every queue bound    *)
(* and every mode.                                                         *)
(***************************************************************************)
EXTENDS Handoff, SequenceTheorems, TLAPS

-----------------------------------------------------------------------------
(***************************************************************************)
(* The inductive invariant.  pending_notify is true exactly while one      *)
(* notification exists, and it exists in one place only: with the acceptor *)
(* that is about to write it, in the eventfd, with the worker that serves  *)
(* it, in the store that retires it, or nowhere any more because its write *)
(* failed.                                                                 *)
(***************************************************************************)
InEventfd == evfd = 1 /\ wpc \notin Serving

NotificationInv ==
    /\ evfd \in {0, 1}
    /\ pending <=> \/ apc = "write"
                   \/ InEventfd
                   \/ wpc \in Serving
                   \/ buffered
                   \/ write_error
    /\ apc = "write" => evfd = 0 /\ wpc \notin Serving /\ ~buffered /\ ~write_error
    /\ InEventfd => ~buffered /\ ~write_error
    /\ wpc \in Serving => ~buffered /\ ~write_error
    /\ wpc \in {"drain", "clear"} => evfd = 0
    /\ buffered => ~write_error /\ ~seq_cst

\* Writes fail only before the worker has created its eventfd.
SignalFdInv ==
    /\ wpc \in {"startup", "exited"} => evfd = 0
    /\ signal_fd = "unset" <=> wpc \in {"startup", "exited"}
    /\ started => signal_fd = "open" /\ ~write_error
    /\ write_error => wpc \in {"startup", "register", "epoll_wait", "exited"}

\* Somebody answers for every queued socket: the acceptor that is about to
\* look at the flag, the notification, or the worker that is about to look at
\* the queue again.
QueueInv ==
    seq_cst /\ queue # <<>> => apc = "cas" \/ pending \/ wpc \in {"check", "reclaim"}

IInv == TypeOK /\ NotificationInv /\ SignalFdInv /\ QueueInv
-----------------------------------------------------------------------------
(***************************************************************************)
(* What the atomic queue does to the type of the queue.                    *)
(***************************************************************************)
LEMMA QueueTypes ==
    ASSUME TypeOK, \/ \E s \in Sock : Q!Push(s)
                   \/ Q!Refuse
                   \/ Q!Take
                   \/ Q!TakeNothing
    PROVE  /\ queue' \in Seq(Sock)
           /\ Len(queue') <= Bound
           /\ accepted' \in BOOLEAN
           /\ returned' \in Sock \cup {NoSock}
<1> USE BoundAssumption DEF TypeOK
<1>1. ASSUME NEW s \in Sock, Q!Push(s)
      PROVE  queue' \in Seq(Sock) /\ Len(queue') <= Bound
  BY <1>1, AppendProperties DEF Q!Push
<1>2. CASE Q!Refuse
  BY <1>2 DEF Q!Refuse
<1>3. CASE Q!Take
  <2>1. Tail(queue) \in Seq(Sock) /\ Len(Tail(queue)) = Len(queue) - 1
    BY <1>3, HeadTailProperties DEF Q!Take
  <2>2. Head(queue) \in Sock
    BY <1>3, HeadTailProperties DEF Q!Take
  <2> QED
    BY <1>3, <2>1, <2>2, LenProperties DEF Q!Take
<1>4. CASE Q!TakeNothing
  BY <1>4 DEF Q!TakeNothing
<1> QED
  BY <1>1, <1>2, <1>3, <1>4 DEF Q!Push

\* Whether the worker has started or not, the invariant holds at the start.
LEMMA InitIInv == Init => IInv
<1> SUFFICES ASSUME Init PROVE IInv
  OBVIOUS
<1> USE ModeAssumption, BoundAssumption DEF Init, Q!FifoInit, Serving
<1>1. TypeOK
  <2>1. queue \in Seq(Sock) /\ Len(queue) <= Bound
    BY EmptySeq
  <2>2. signal_fd \in {"unset", "open"} /\ wpc \in {"startup", "epoll_wait"}
    OBVIOUS
  <2>3. seq_cst \in BOOLEAN /\ started \in BOOLEAN
    OBVIOUS
  <2> QED
    BY <2>1, <2>2, <2>3 DEF TypeOK
<1>2. NotificationInv
  BY DEF NotificationInv, InEventfd
<1>3. SignalFdInv
  BY DEF SignalFdInv
<1>4. QueueInv
  BY DEF QueueInv
<1> QED
  BY <1>1, <1>2, <1>3, <1>4 DEF IInv

\* Every step of the acceptor, the worker and the store buffer keeps the
\* invariant: the notification stays in exactly one place.
LEMMA NextIInv == IInv /\ [Next]_vars => IInv'
<1> SUFFICES ASSUME IInv, [Next]_vars PROVE IInv'
  OBVIOUS
<1> seq_cst' = seq_cst /\ started' = started
  BY DEF Next, vars, mode
<1> USE DEF IInv, TypeOK, NotificationInv, SignalFdInv, QueueInv, InEventfd,
            Serving, queueVars
<1>1. ASSUME NEW s \in Sock, EnqueuePush(s) PROVE IInv'
  <2>1. /\ queue' \in Seq(Sock) /\ Len(queue') <= Bound
        /\ accepted' \in BOOLEAN /\ returned' \in Sock \cup {NoSock}
    BY <1>1, QueueTypes DEF EnqueuePush
  <2> QED
    BY <1>1, <2>1 DEF EnqueuePush
<1>2. CASE EnqueueRefused
  BY <1>2 DEF EnqueueRefused, Q!Refuse
<1>3. CASE NotifyCas
  BY <1>3 DEF NotifyCas
<1>4. CASE NotifyWrite
  <2>1. CASE signal_fd = "open"
    <3>1. evfd' = 1 /\ write_error' = write_error /\ apc' = "ready"
      BY <1>4, <2>1 DEF NotifyWrite
    <3> QED
      BY <1>4, <2>1, <3>1 DEF NotifyWrite
  <2>2. CASE signal_fd = "unset"
    <3>1. evfd' = 0 /\ write_error' = TRUE /\ apc' = "ready"
      BY <1>4, <2>2 DEF NotifyWrite
    <3>2. wpc \in {"startup", "exited"} /\ ~started /\ ~buffered /\ pending
      BY <1>4, <2>2 DEF NotifyWrite
    <3>3. QueueInv'
      BY <1>4, <3>2 DEF NotifyWrite
    <3>4. SignalFdInv'
      BY <1>4, <3>1, <3>2 DEF NotifyWrite
    <3>5. NotificationInv'
      BY <1>4, <3>1, <3>2 DEF NotifyWrite
    <3>6. TypeOK'
      BY <1>4, <3>1 DEF NotifyWrite
    <3> QED
      BY <3>3, <3>4, <3>5, <3>6
  <2> QED
    BY <2>1, <2>2
<1>5. CASE CreateSignalFd
  BY <1>5 DEF CreateSignalFd
<1>6. CASE StartupFails
  BY <1>6 DEF StartupFails
<1>7. CASE RegisterSignalFd
  BY <1>7 DEF RegisterSignalFd
<1>8. CASE Wake
  BY <1>8 DEF Wake
<1>9. CASE FlushSignal
  BY <1>9 DEF FlushSignal
<1>10. CASE TakeSock
  <2>1. /\ queue' \in Seq(Sock) /\ Len(queue') <= Bound
        /\ accepted' \in BOOLEAN /\ returned' \in Sock \cup {NoSock}
    BY <1>10, QueueTypes DEF TakeSock
  <2> QED
    BY <1>10, <2>1 DEF TakeSock
<1>11. CASE TakeNone
  BY <1>11 DEF TakeNone, Q!TakeNothing
<1>12. CASE ClearPending
  <2>1. CASE seq_cst
    <3>1. pending' = FALSE /\ buffered' = buffered /\ wpc' = "check"
      BY <1>12, <2>1 DEF ClearPending
    <3>2. evfd = 0 /\ apc # "write" /\ ~buffered /\ ~write_error
      BY <1>12 DEF ClearPending
    <3>3. TypeOK' /\ SignalFdInv' /\ QueueInv'
      BY <1>12, <3>1 DEF ClearPending
    <3>4. NotificationInv'
      BY <1>12, <3>1, <3>2 DEF ClearPending
    <3> QED
      BY <3>3, <3>4
  <2>2. CASE ~seq_cst
    <3>1. buffered' = TRUE /\ pending' = pending /\ wpc' = "check"
      BY <1>12, <2>2 DEF ClearPending
    <3> QED
      BY <1>12, <2>2, <3>1 DEF ClearPending
  <2> QED
    BY <2>1, <2>2
<1>13. CASE CheckAgain
  BY <1>13 DEF CheckAgain
<1>14. CASE Reclaim
  BY <1>14 DEF Reclaim
<1>15. CASE StoreVisible
  BY <1>15 DEF StoreVisible
<1>16. CASE UNCHANGED vars
  BY <1>16 DEF vars
<1> QED
  BY <1>1, <1>2, <1>3, <1>4, <1>5, <1>6, <1>7, <1>8, <1>9, <1>10, <1>11,
     <1>12, <1>13, <1>14, <1>15, <1>16
  DEF Next, Acceptor, Notify, Startup, NotifyLoop

\* One notification in one place, in every mode.
THEOREM Invariance == Spec => []IInv
BY InitIInv, NextIInv, PTL DEF Spec

\* Every variable keeps its type; the queue never exceeds its bound.
THEOREM TypeCorrect == Spec => []TypeOK
<1>1. IInv => TypeOK
  BY DEF IInv
<1> QED
  BY <1>1, Invariance, PTL

\* The eventfd never counts more than one notification.
THEOREM NotificationsCoalesce == Spec => []AtMostOneNotify
<1>1. IInv => AtMostOneNotify
  BY DEF IInv, TypeOK, NotificationInv, InEventfd, AtMostOneNotify
<1> QED
  BY <1>1, Invariance, PTL

\* A worker that has started never sleeps on a queue with a socket in it.
THEOREM WakeupsAreNotLost == Spec => []NoLostWakeup
<1>1. IInv => NoLostWakeup
  BY DEF IInv, NotificationInv, SignalFdInv, QueueInv, InEventfd, Serving,
         NoLostWakeup, Stranded
<1> QED
  BY <1>1, Invariance, PTL

\* A stranded socket has one of the two known causes.
THEOREM StrandingHasKnownCauses == Spec => []StrandedIsExplained
<1>1. IInv => StrandedIsExplained
  BY ModeAssumption
  DEF IInv, TypeOK, NotificationInv, SignalFdInv, QueueInv, InEventfd, Serving,
      StrandedIsExplained, Stranded
<1> QED
  BY <1>1, Invariance, PTL

\* Once the worker has started, the comment on pending_notify is true.
THEOREM PendingStaysHonest == Spec => []PendingIsHonest
<1>1. IInv => PendingIsHonest
  BY DEF IInv, TypeOK, NotificationInv, SignalFdInv, InEventfd, Serving,
         PendingIsHonest, PendingMeansNotified
<1> QED
  BY <1>1, Invariance, PTL
=============================================================================
