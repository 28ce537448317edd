--------------------------- MODULE CircularQueue ---------------------------
(***************************************************************************)
(* circular_queue.h as the acceptor thread (the only caller of is_full and *)
(* push) and one worker thread (the only caller of is_empty, front and     *)
(* pop, through Worker::dequeue_sock) run it concurrently, one step per    *)
(* access to a location that the other thread uses.  tail is written only  *)
(* by the producer and head only by the consumer, so a thread's loads of   *)
(* its own index are not steps of their own.                               *)
(*                                                                         *)
(* The index arithmetic (index + 1) & (capacity - 1) is the wrap-around of *)
(* next below, because the constructor rounds the capacity to a power of   *)
(* two.  Release stores of an index after the slot access and acquire      *)
(* loads before it give the interleaving semantics used here.              *)
(***************************************************************************)
EXTENDS Integers, Sequences

CONSTANTS Data,      \* the socket descriptors
          NoData,    \* -1, dequeue_sock's "nothing"
          Capacity   \* slots of the buffer

ASSUME CapacityAssumption == Capacity \in Nat /\ Capacity >= 2
ASSUME NoDataAssumption == NoData \notin Data

VARIABLES
    buffer,    \* the slots
    head,      \* index of the oldest element
    tail,      \* index of the slot the next element goes to
    ppc,       \* where the producer is: "idle", or inside push
    item,      \* the argument of the push in progress
    room,      \* the producer's last is_full returned false, and it has not
               \* pushed since
    accepted,  \* what the last push returned
    cpc,       \* where the consumer is: "idle", inside dequeue_sock, or
               \* "aborted" by front's assertion
    value,     \* the consumer's copy of the front element
    returned   \* what the last dequeue_sock returned

producerVars == <<tail, ppc, item, room, accepted>>
consumerVars == <<head, cpc, value, returned>>
vars == <<buffer, head, tail, ppc, item, room, accepted, cpc, value, returned>>

Index == 0 .. Capacity - 1

\* Mutant of next: no wrap-around.
NextWithoutMask(i) == i + 1

next(i) == IF i + 1 = Capacity THEN 0 ELSE i + 1

Init ==
    /\ buffer = [i \in Index |-> NoData]
    /\ head = 0
    /\ tail = 0
    /\ ppc = "idle"
    /\ item = NoData
    /\ room = FALSE
    /\ accepted = FALSE
    /\ cpc = "idle"
    /\ value = NoData
    /\ returned = NoData
-----------------------------------------------------------------------------
(***************************************************************************)
(* The producer.                                                           *)
(***************************************************************************)

\* Mutant of is_full: compares tail itself, not the slot after it.
FullComparesTail ==
    /\ ppc = "idle"
    /\ room' = (tail # head)
    /\ UNCHANGED <<buffer, tail, ppc, item, accepted, consumerVars>>

\* LoadBalancer::is_full asks before a socket is assigned to the worker.
is_full ==
    /\ ppc = "idle"
    /\ room' = (next(tail) # head)
    /\ UNCHANGED <<buffer, tail, ppc, item, accepted, consumerVars>>

\* Mutant of PushFindsRoom: no check for a full buffer.
PushUnchecked(d) ==
    /\ ppc = "idle"
    /\ item' = d
    /\ ppc' = "slot"
    /\ UNCHANGED <<buffer, tail, room, accepted, consumerVars>>

\* push loads head and finds a free slot.
PushFindsRoom(d) ==
    /\ ppc = "idle"
    /\ next(tail) # head
    /\ item' = d
    /\ ppc' = "slot"
    /\ UNCHANGED <<buffer, tail, room, accepted, consumerVars>>

\* push loads head and finds the buffer full: it returns false.
PushFindsFull ==
    /\ ppc = "idle"
    /\ next(tail) = head
    /\ accepted' = FALSE
    /\ room' = FALSE
    /\ UNCHANGED <<buffer, tail, ppc, item, consumerVars>>

\* Mutant of PushWritesSlot: writes the slot after the one tail names.
PushWritesNextSlot ==
    /\ ppc = "slot"
    /\ buffer' = [buffer EXCEPT ![next(tail)] = item]
    /\ ppc' = "publish"
    /\ UNCHANGED <<tail, item, room, accepted, consumerVars>>

PushWritesSlot ==
    /\ ppc = "slot"
    /\ buffer' = [buffer EXCEPT ![tail] = item]
    /\ ppc' = "publish"
    /\ UNCHANGED <<tail, item, room, accepted, consumerVars>>

PushStoresTail ==
    /\ ppc = "publish"
    /\ tail' = next(tail)
    /\ accepted' = TRUE
    /\ room' = FALSE
    /\ ppc' = "idle"
    /\ UNCHANGED <<buffer, item, consumerVars>>
-----------------------------------------------------------------------------
(***************************************************************************)
(* The consumer: is_empty, then front, then pop, as dequeue_sock calls     *)
(* them.                                                                   *)
(***************************************************************************)

DequeueFindsEmpty ==
    /\ cpc = "idle"
    /\ head = tail
    /\ returned' = NoData
    /\ UNCHANGED <<buffer, head, cpc, value, producerVars>>

\* Mutant of DequeueFindsElement: pops before it looks at the front.
DequeuePopsFirst ==
    /\ cpc = "idle"
    /\ head # tail
    /\ head' = next(head)
    /\ cpc' = "front"
    /\ UNCHANGED <<buffer, value, returned, producerVars>>

DequeueFindsElement ==
    /\ cpc = "idle"
    /\ head # tail
    /\ cpc' = "front"
    /\ UNCHANGED <<buffer, head, value, returned, producerVars>>

\* front asserts that the queue is not empty and reads the slot.
Front ==
    /\ cpc = "front"
    /\ cpc' = IF head = tail THEN "aborted" ELSE "pop"
    /\ value' = buffer[head]
    /\ UNCHANGED <<buffer, head, returned, producerVars>>

\* pop looks at tail once more; its result is ignored by dequeue_sock.
Pop ==
    /\ cpc = "pop"
    /\ head' = IF head = tail THEN head ELSE next(head)
    /\ returned' = value
    /\ cpc' = "idle"
    /\ UNCHANGED <<buffer, value, producerVars>>
-----------------------------------------------------------------------------
Producer ==
    \/ is_full
    \/ \E d \in Data : PushFindsRoom(d)
    \/ PushFindsFull
    \/ PushWritesSlot
    \/ PushStoresTail

Consumer ==
    \/ DequeueFindsEmpty
    \/ DequeueFindsElement
    \/ Front
    \/ Pop

Next == Producer \/ Consumer

Spec == Init /\ [][Next]_vars
-----------------------------------------------------------------------------
TypeOK ==
    /\ buffer \in [Index -> Data \cup {NoData}]
    /\ head \in Index
    /\ tail \in Index
    /\ ppc \in {"idle", "slot", "publish"}
    /\ item \in Data \cup {NoData}
    /\ room \in BOOLEAN
    /\ accepted \in BOOLEAN
    /\ cpc \in {"idle", "front", "pop", "aborted"}
    /\ value \in Data \cup {NoData}
    /\ returned \in Data \cup {NoData}
-----------------------------------------------------------------------------
(***************************************************************************)
(* Properties.                                                             *)
(***************************************************************************)

\* push never writes the slot that front is reading: the two threads touch
\* the buffer without a lock, and an overlap would be a data race.
NoSlotRace == ~(ppc = "slot" /\ cpc = "front" /\ tail = head)

\* Whatever the producer does between the consumer's three calls, what
\* is_empty promised still holds in front and in pop: the assertion in front
\* never fires and pop, whose result dequeue_sock ignores, never fails.
ElementStaysForConsumer ==
    /\ cpc # "aborted"
    /\ cpc \in {"front", "pop"} => head # tail

\* When is_full has answered false, a later push of the same thread succeeds
\* whatever the consumer did in between: the check of the load balancer is not
\* stale when enqueue_sock relies on it.
RoomIsStable == room /\ ppc = "idle" => next(tail) # head

(***************************************************************************)
(* The queue the two indices and the slots stand for.                      *)
(***************************************************************************)
Count == IF head <= tail THEN tail - head ELSE tail - head + Capacity

Slot(k) == IF head + k < Capacity THEN head + k ELSE head + k - Capacity

Contents == [k \in 1 .. Count |-> buffer[Slot(k - 1)]]

Fifo == INSTANCE BoundedFifo WITH queue <- Contents, Bound <- Capacity - 1

\* push and dequeue_sock, interleaved access by access, are a queue of
\* Capacity - 1 elements whose operations are atomic: nothing is lost,
\* duplicated, reordered or invented, push refuses only when the queue is
\* full and dequeue_sock returns -1 only when it is empty.
ImplementsFifo == Fifo!FifoSpec
=============================================================================
