------------------------ MODULE CircularQueueProofs ------------------------
(***************************************************************************)
(* Proofs about CircularQueue for every capacity of at least two slots and *)
(* every set of values.                                                    *)
(***************************************************************************)
EXTENDS CircularQueue, SequenceTheorems, TLAPS

(***************************************************************************)
(* The inductive invariant.  Each thread's position says something about   *)
(* the other thread's index that the other thread cannot make false: the   *)
(* consumer only moves head away from the slot after tail, the producer    *)
(* only moves tail away from head.                                         *)
(***************************************************************************)
ProducerInv ==
    /\ ppc \in {"slot", "publish"} => next(tail) # head /\ item \in Data
    /\ ppc = "publish" => buffer[tail] = item
    /\ room => next(tail) # head

ConsumerInv ==
    /\ cpc # "aborted"
    /\ cpc \in {"front", "pop"} => head # tail
    /\ cpc = "pop" => value = buffer[head]

IInv == TypeOK /\ ProducerInv /\ ConsumerInv

-----------------------------------------------------------------------------
(***************************************************************************)
(* Index arithmetic.                                                       *)
(***************************************************************************)

\* next stays inside the buffer, moves, and is injective.
LEMMA NextIndex ==
    ASSUME NEW i \in Index
    PROVE  /\ next(i) \in Index
           /\ next(i) # i
           /\ \A j \in Index : next(i) = next(j) => i = j
BY CapacityAssumption DEF next, Index

\* Count is the number of elements; an element sits in each of the Count slots
\* from head on, and the slot after them is the one tail names.
LEMMA CountSlot ==
    ASSUME head \in Index, tail \in Index
    PROVE  /\ Count \in 0 .. Capacity - 1
           /\ \A k \in 0 .. Capacity - 1 : Slot(k) \in Index
           /\ \A k \in 0 .. Count - 1 : Slot(k) # tail
           /\ Slot(Count) = tail
           /\ Slot(0) = head
           /\ Count = 0 <=> head = tail
           /\ Count = Capacity - 1 <=> next(tail) = head
BY CapacityAssumption DEF Count, Slot, Index, next

-----------------------------------------------------------------------------
(***************************************************************************)
(* The invariant holds.                                                    *)
(***************************************************************************)
LEMMA InitIInv == Init => IInv
<1> SUFFICES ASSUME Init PROVE IInv
  OBVIOUS
<1>1. 0 \in Index
  BY CapacityAssumption DEF Index
<1>2. TypeOK
  BY <1>1 DEF Init, TypeOK
<1>3. ProducerInv /\ ConsumerInv
  BY DEF Init, ProducerInv, ConsumerInv
<1> QED
  BY <1>2, <1>3 DEF IInv

\* Every step of either thread keeps the invariant of the ring.
LEMMA NextIInv == IInv /\ [Next]_vars => IInv'
<1> SUFFICES ASSUME IInv, [Next]_vars PROVE IInv'
  OBVIOUS
<1> USE DEF IInv, TypeOK, ProducerInv, ConsumerInv, producerVars, consumerVars
<1>t. next(tail) \in Index /\ next(head) \in Index /\ next(tail) # tail
  BY NextIndex
<1>i. head # tail => next(head) # next(tail)
  BY NextIndex
<1>1. CASE is_full
  BY <1>1 DEF is_full, next
<1>2. CASE \E d \in Data : PushFindsRoom(d)
  BY <1>2 DEF PushFindsRoom, next
<1>3. CASE PushFindsFull
  BY <1>3 DEF PushFindsFull, next
<1>4. CASE PushWritesSlot
  <2>1. buffer' \in [Index -> Data \cup {NoData}] /\ buffer'[tail] = item
    BY <1>4 DEF PushWritesSlot
  <2>2. head # tail => buffer'[head] = buffer[head]
    BY <1>4 DEF PushWritesSlot
  <2> QED
    BY <1>4, <2>1, <2>2 DEF PushWritesSlot, next
<1>5. CASE PushStoresTail
  BY <1>5, <1>t DEF PushStoresTail
<1>6. CASE DequeueFindsEmpty
  BY <1>6 DEF DequeueFindsEmpty, next
<1>7. CASE DequeueFindsElement
  BY <1>7 DEF DequeueFindsElement, next
<1>8. CASE Front
  BY <1>8 DEF Front, next
<1>9. CASE Pop
  <2>1. head' = next(head) /\ head # tail
    BY <1>9 DEF Pop
  <2> QED
    BY <1>9, <1>t, <1>i, <2>1 DEF Pop, next
<1>10. CASE UNCHANGED vars
  BY <1>10 DEF vars, next
<1> QED
  BY <1>1, <1>2, <1>3, <1>4, <1>5, <1>6, <1>7, <1>8, <1>9, <1>10
  DEF Next, Producer, Consumer

\* The inductive invariant is an invariant of the two threads.
THEOREM Invariance == Spec => []IInv
BY InitIInv, NextIInv, PTL DEF Spec

\* Both indices stay inside the buffer and every slot holds a descriptor.
THEOREM TypeCorrect == Spec => []TypeOK
<1>1. IInv => TypeOK
  BY DEF IInv
<1> QED
  BY <1>1, Invariance, PTL

\* The slot push writes is never the one front reads.
THEOREM SlotRaceFreedom == Spec => []NoSlotRace
<1>1. IInv => NoSlotRace
  BY DEF IInv, ConsumerInv, NoSlotRace
<1> QED
  BY <1>1, Invariance, PTL

\* The assertion in front never fires and pop never fails.
THEOREM ConsumerIsSafe == Spec => []ElementStaysForConsumer
<1>1. IInv => ElementStaysForConsumer
  BY DEF IInv, ConsumerInv, ElementStaysForConsumer
<1> QED
  BY <1>1, Invariance, PTL

\* A push that follows an is_full which answered false succeeds.
THEOREM FullCheckIsNotStale == Spec => []RoomIsStable
<1>1. IInv => RoomIsStable
  BY DEF IInv, ProducerInv, RoomIsStable
<1> QED
  BY <1>1, Invariance, PTL
-----------------------------------------------------------------------------
(***************************************************************************)
(* Refinement.  The abstract queue is the run of Count slots that starts   *)
(* at head; each lemma says what one concrete change does to it.           *)
(***************************************************************************)

\* The slots from head on form a sequence of Count values.
LEMMA ContentsIsSeq ==
    ASSUME TypeOK
    PROVE  /\ Contents \in Seq(Data \cup {NoData})
           /\ Len(Contents) = Count
           /\ Count \in 0 .. Capacity - 1
           /\ \A k \in 1 .. Count : Contents[k] = buffer[Slot(k - 1)]
<1>1. Count \in 0 .. Capacity - 1
  BY CountSlot DEF TypeOK
<1>2. \A k \in 1 .. Count : buffer[Slot(k - 1)] \in Data \cup {NoData}
  <2> TAKE k \in 1 .. Count
  <2>1. k - 1 \in 0 .. Capacity - 1
    BY <1>1, CapacityAssumption
  <2>2. Slot(k - 1) \in Index
    BY <2>1, CountSlot DEF TypeOK
  <2> QED
    BY <2>2 DEF TypeOK
<1> QED
  BY <1>1, <1>2 DEF Contents

\* Writing the slot tail names leaves the queued values alone.
LEMMA WriteBehindTail ==
    ASSUME TypeOK, TypeOK', PushWritesSlot
    PROVE  Contents' = Contents
<1>1. Count' = Count
  BY DEF Count, PushWritesSlot, consumerVars
<1>2. \A k \in 1 .. Count : (buffer[Slot(k - 1)])' = buffer[Slot(k - 1)]
  <2> TAKE k \in 1 .. Count
  <2>1. k - 1 \in 0 .. Count - 1 /\ k - 1 \in 0 .. Capacity - 1
    BY CountSlot, CapacityAssumption DEF TypeOK
  <2>2. Slot(k - 1) # tail /\ Slot(k - 1) \in Index
    BY <2>1, CountSlot DEF TypeOK
  <2>3. Slot(k - 1)' = Slot(k - 1)
    BY DEF Slot, PushWritesSlot, consumerVars
  <2> QED
    BY <2>2, <2>3 DEF PushWritesSlot, TypeOK
<1> QED
  BY <1>1, <1>2 DEF Contents

\* Storing tail appends the value in the slot it named before.
LEMMA StoreTailAppends ==
    ASSUME IInv, IInv', PushStoresTail
    PROVE  Count < Capacity - 1 /\ Contents' = Append(Contents, item)
<1> USE DEF IInv
<1>1. next(tail) # head /\ buffer[tail] = item /\ item \in Data
  BY DEF ProducerInv, PushStoresTail
<1>2. Count < Capacity - 1 /\ Count \in 0 .. Capacity - 1
  BY <1>1, CountSlot, CapacityAssumption DEF TypeOK
<1>3. Count' = Count + 1
  BY <1>1, CapacityAssumption
  DEF Count, PushStoresTail, consumerVars, next, TypeOK, Index
<1>4. Slot(Count) = tail
  BY CountSlot DEF TypeOK
<1>5. \A k \in 1 .. Count + 1 : (buffer[Slot(k - 1)])' = buffer[Slot(k - 1)]
  BY DEF Slot, PushStoresTail, consumerVars
<1>6. Contents' = [k \in 1 .. Count + 1 |-> buffer[Slot(k - 1)]]
  BY <1>3, <1>5 DEF Contents
<1>7. Contents \in Seq(Data \cup {NoData}) /\ Len(Contents) = Count
  BY ContentsIsSeq
<1>8. \A k \in 1 .. Count + 1 : buffer[Slot(k - 1)] = Append(Contents, item)[k]
  <2> TAKE k \in 1 .. Count + 1
  <2>1. CASE k = Count + 1
    <3>1. k - 1 = Count
      BY <2>1, <1>2
    <3>2. Append(Contents, item)[k] = item
      BY <2>1, <1>1, <1>7, AppendProperties
    <3> QED
      BY <3>1, <3>2, <1>4, <1>1
  <2>2. CASE k # Count + 1
    <3>1. k \in 1 .. Count
      BY <2>2, <1>2
    <3>2. Append(Contents, item)[k] = Contents[k]
      BY <3>1, <1>1, <1>7, AppendProperties
    <3> QED
      BY <3>1, <3>2, ContentsIsSeq
  <2> QED
    BY <2>1, <2>2
<1>9. /\ Append(Contents, item) \in Seq(Data \cup {NoData})
      /\ Len(Append(Contents, item)) = Count + 1
  BY <1>1, <1>7, AppendProperties
<1>10. Append(Contents, item) =
         [k \in 1 .. Count + 1 |-> Append(Contents, item)[k]]
  BY <1>9, LenProperties
<1> QED
  BY <1>2, <1>6, <1>8, <1>10

\* Storing head removes the oldest value, the one the consumer copied.
LEMMA PopTakesHead ==
    ASSUME IInv, IInv', Pop
    PROVE  /\ Contents # <<>>
           /\ value = Head(Contents)
           /\ Contents' = Tail(Contents)
<1> USE DEF IInv
<1>1. head # tail /\ value = buffer[head] /\ head' = next(head)
  BY DEF ConsumerInv, Pop
<1>2. Count \in 1 .. Capacity - 1
  BY <1>1, CountSlot, CapacityAssumption DEF TypeOK
<1>3. Contents \in Seq(Data \cup {NoData}) /\ Len(Contents) = Count
  BY ContentsIsSeq
<1>4. Contents # <<>> /\ Head(Contents) = Contents[1]
  BY <1>2, <1>3
<1>5. Contents[1] = buffer[head]
  <2>1. 1 \in 1 .. Count
    BY <1>2
  <2>2. Contents[1] = buffer[Slot(1 - 1)]
    BY <2>1, ContentsIsSeq
  <2>3. Slot(1 - 1) = head
    BY CountSlot DEF TypeOK
  <2> QED
    BY <2>2, <2>3
<1>6. Count' = Count - 1
  BY <1>1, CapacityAssumption
  DEF Count, Pop, producerVars, next, TypeOK, Index
<1>7. \A k \in 1 .. Count - 1 : (buffer[Slot(k - 1)])' = buffer[Slot(k)]
  <2> TAKE k \in 1 .. Count - 1
  <2>1. Slot(k - 1)' = Slot(k)
    <3>1. k \in Int /\ k >= 1 /\ head \in Int /\ head >= 0 /\ head < Capacity
          /\ k < Capacity
      BY <1>2, CapacityAssumption DEF TypeOK, Index
    <3>2. Slot(k - 1)' = IF head' + (k - 1) < Capacity THEN head' + (k - 1)
                         ELSE head' + (k - 1) - Capacity
      BY DEF Slot
    <3> QED
      BY <3>1, <3>2, <1>1, CapacityAssumption DEF Slot, next
  <2>2. buffer' = buffer
    BY DEF Pop
  <2> QED
    BY <2>1, <2>2
<1>8. Contents' = [k \in 1 .. Count - 1 |-> buffer[Slot(k)]]
  BY <1>6, <1>7 DEF Contents
<1>9. Tail(Contents) = [k \in 1 .. Count - 1 |-> Contents[k + 1]]
  <2>1. /\ Tail(Contents) \in Seq(Data \cup {NoData})
        /\ Len(Tail(Contents)) = Count - 1
        /\ \A k \in 1 .. Count - 1 : Tail(Contents)[k] = Contents[k + 1]
    BY <1>3, <1>4, HeadTailProperties
  <2>2. Tail(Contents) = [k \in 1 .. Count - 1 |-> Tail(Contents)[k]]
    BY <2>1, LenProperties
  <2> QED
    BY <2>1, <2>2
<1>10. \A k \in 1 .. Count - 1 : Contents[k + 1] = buffer[Slot(k)]
  <2> TAKE k \in 1 .. Count - 1
  <2>1. k + 1 \in 1 .. Count /\ (k + 1) - 1 = k
    BY <1>2
  <2>2. Contents[k + 1] = buffer[Slot((k + 1) - 1)]
    BY <2>1, ContentsIsSeq
  <2> QED
    BY <2>1, <2>2
<1> QED
  BY <1>1, <1>4, <1>5, <1>8, <1>9, <1>10

\* A step that leaves the indices and the slots alone leaves the queue alone.
LEMMA ContentsUnchanged ==
    ASSUME UNCHANGED <<buffer, head, tail>>
    PROVE  Contents' = Contents
<1>1. Count' = Count
  BY DEF Count
<1>2. \A k : Slot(k)' = Slot(k)
  BY DEF Slot
<1> QED
  BY <1>1, <1>2 DEF Contents

\* The empty ring is the empty FIFO.
LEMMA InitRefines == Init => Fifo!FifoInit
<1> SUFFICES ASSUME Init PROVE Fifo!FifoInit
  OBVIOUS
<1>1. Count = 0
  BY DEF Init, Count
<1>2. Contents = <<>>
  BY <1>1 DEF Contents
<1> QED
  BY <1>2 DEF Init, Fifo!FifoInit

\* Storing tail is the abstract Push, storing head the abstract Take, finding
\* the queue full or empty the abstract Refuse and TakeNothing; every other
\* access is invisible.
LEMMA NextRefines ==
    ASSUME IInv, IInv', [Next]_vars
    PROVE  [Fifo!FifoNext]_(Fifo!fifoVars)
<1> USE DEF Fifo!fifoVars, producerVars, consumerVars
<1>t. TypeOK /\ TypeOK' /\ Len(Contents) = Count /\ Contents \in Seq(Data \cup {NoData})
  BY ContentsIsSeq DEF IInv
<1>1. CASE is_full
  BY <1>1, ContentsUnchanged DEF is_full
<1>2. CASE \E d \in Data : PushFindsRoom(d)
  BY <1>2, ContentsUnchanged DEF PushFindsRoom
<1>3. CASE PushFindsFull
  <2>1. Count = Capacity - 1
    BY <1>3, <1>t, CountSlot DEF PushFindsFull, TypeOK
  <2>2. Contents' = Contents
    BY <1>3, ContentsUnchanged DEF PushFindsFull
  <2>3. Fifo!Refuse
    BY <1>3, <1>t, <2>1, <2>2 DEF PushFindsFull, Fifo!Refuse
  <2> QED
    BY <2>3 DEF Fifo!FifoNext
<1>4. CASE PushWritesSlot
  BY <1>4, <1>t, WriteBehindTail DEF PushWritesSlot
<1>5. CASE PushStoresTail
  <2>1. item \in Data
    BY <1>5 DEF IInv, ProducerInv, PushStoresTail
  <2>2. Fifo!Push(item)
    BY <1>5, <1>t, StoreTailAppends DEF PushStoresTail, Fifo!Push
  <2> QED
    BY <2>1, <2>2 DEF Fifo!FifoNext
<1>6. CASE DequeueFindsEmpty
  <2>1. Count = 0
    BY <1>6, <1>t, CountSlot DEF DequeueFindsEmpty, TypeOK
  <2>2. Contents = <<>> /\ Contents' = Contents
    BY <1>6, <1>t, <2>1, ContentsUnchanged DEF DequeueFindsEmpty
  <2>3. Fifo!TakeNothing
    BY <1>6, <2>2 DEF DequeueFindsEmpty, Fifo!TakeNothing
  <2> QED
    BY <2>3 DEF Fifo!FifoNext
<1>7. CASE DequeueFindsElement
  BY <1>7, ContentsUnchanged DEF DequeueFindsElement
<1>8. CASE Front
  BY <1>8, ContentsUnchanged DEF Front
<1>9. CASE Pop
  <2>1. Fifo!Take
    BY <1>9, PopTakesHead DEF Pop, Fifo!Take
  <2> QED
    BY <2>1 DEF Fifo!FifoNext
<1>10. CASE UNCHANGED vars
  BY <1>10, ContentsUnchanged DEF vars
<1> QED
  BY <1>1, <1>2, <1>3, <1>4, <1>5, <1>6, <1>7, <1>8, <1>9, <1>10
  DEF Next, Producer, Consumer

\* The lock-free ring buffer implements the atomic bounded queue.
THEOREM RingImplementsFifo == Spec => ImplementsFifo
<1>1. Init => Fifo!FifoInit
  BY InitRefines
<1>2. IInv /\ IInv' /\ [Next]_vars => [Fifo!FifoNext]_(Fifo!fifoVars)
  BY NextRefines
<1> QED
  BY <1>1, <1>2, Invariance, PTL DEF Spec, ImplementsFifo, Fifo!FifoSpec
=============================================================================
