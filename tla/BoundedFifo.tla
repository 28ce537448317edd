---------------------------- MODULE BoundedFifo ----------------------------
(***************************************************************************)
(* What a worker's socket queue promises to the acceptor that pushes into  *)
(* it and to the worker that drains it: a first-in first-out queue of at   *)
(* most Bound elements whose operations take effect in one step.           *)
(* CircularQueue is shown to implement this module; Handoff and Dispatch   *)
(* are built on it.                                                        *)
(***************************************************************************)
EXTENDS Naturals, Sequences

CONSTANTS Data,      \* the values that can be queued (socket descriptors)
          NoData,    \* what dequeue_sock returns when there is nothing, -1
          Bound      \* how many values fit

VARIABLES queue,     \* the queued values, oldest first
          accepted,  \* what the last push returned
          returned   \* what the last dequeue_sock returned

fifoVars == <<queue, accepted, returned>>

FifoInit ==
    /\ queue = <<>>
    /\ accepted = FALSE
    /\ returned = NoData

Push(d) ==
    /\ Len(queue) < Bound
    /\ queue' = Append(queue, d)
    /\ accepted' = TRUE
    /\ UNCHANGED returned

\* push refuses only a queue that is full at that moment.
Refuse ==
    /\ Len(queue) = Bound
    /\ accepted' = FALSE
    /\ UNCHANGED <<queue, returned>>

\* dequeue_sock on a queue that holds something.
Take ==
    /\ queue # <<>>
    /\ returned' = Head(queue)
    /\ queue' = Tail(queue)
    /\ UNCHANGED accepted

\* dequeue_sock on a queue that is empty at that moment.
TakeNothing ==
    /\ queue = <<>>
    /\ returned' = NoData
    /\ UNCHANGED <<queue, accepted>>

FifoNext ==
    \/ \E d \in Data : Push(d)
    \/ Refuse
    \/ Take
    \/ TakeNothing

FifoSpec == FifoInit /\ [][FifoNext]_fifoVars
=============================================================================
