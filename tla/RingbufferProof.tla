-------------------------- MODULE RingbufferProof --------------------------
(***************************************************************************)
(* Proofs about Ringbuffer for every storage size and every set of values: *)
(* the invariance of IInv, the absence of shared slots, and the           *)
(* refinement of the bounded queue.                                        *)
(***************************************************************************)
EXTENDS Ringbuffer, TLAPS

USE SlotsAssumption, NoValueAssumption

(* The two pointers of the ring as numbers: how many elements lie between  *)
(* them, and how one step of either changes that.                          *)
LEMMA ReadSpaceRange ==
  ASSUME TypeOK
  PROVE  /\ ReadSpace \in 0 .. Slots - 1
         /\ Full <=> ReadSpace = Slots - 1
         /\ Empty <=> ReadSpace = 0
  BY DEF TypeOK, Index, ReadSpace, WriteSpace, Full, Empty

(* No readable element lies in the slot the next push writes.              *)
LEMMA WriteSlotIsFree ==
  ASSUME TypeOK, NEW i \in 1 .. ReadSpace
  PROVE  SlotOf(i) \in Index /\ SlotOf(i) # write_ptr
  BY DEF TypeOK, Index, ReadSpace, SlotOf

(* Moving the write pointer adds one readable element, and leaves the      *)
(* slots of the others where they were.                                    *)
LEMMA PushMovesSpace ==
  ASSUME TypeOK, ~Full, read_ptr' = read_ptr, write_ptr' = Advance(write_ptr)
  PROVE  /\ write_ptr' \in Index
         /\ ReadSpace' = ReadSpace + 1
         /\ \A i \in 1 .. ReadSpace : SlotOf(i)' = SlotOf(i)
         /\ \A n \in 1 .. Slots - 1 : n = ReadSpace + 1 => SlotOf(n)' = write_ptr
<1> USE DEF TypeOK, Index, Advance
<1>1. write_ptr' \in Index
  OBVIOUS
<1>2. ReadSpace' = ReadSpace + 1
  BY DEF ReadSpace, WriteSpace, Full
<1>3. \A i \in 1 .. ReadSpace : SlotOf(i)' = SlotOf(i)
  BY DEF SlotOf
<1>4. \A n \in 1 .. Slots - 1 : n = ReadSpace + 1 => SlotOf(n)' = write_ptr
  BY DEF SlotOf, ReadSpace
<1> QED
  BY <1>1, <1>2, <1>3, <1>4

(* Moving the read pointer drops the oldest element, and renumbers the     *)
(* others from 1.                                                          *)
LEMMA PopMovesSpace ==
  ASSUME TypeOK, ~Empty, write_ptr' = write_ptr, read_ptr' = Advance(read_ptr)
  PROVE  /\ read_ptr' \in Index
         /\ ReadSpace' = ReadSpace - 1
         /\ \A i \in 1 .. ReadSpace - 1 : SlotOf(i)' = SlotOf(i + 1)
         /\ SlotOf(1) = read_ptr
<1> USE DEF TypeOK, Index, Advance
<1>1. read_ptr' \in Index
  OBVIOUS
<1>2. ReadSpace' = ReadSpace - 1
  BY DEF ReadSpace, Empty
<1>3. \A i \in 1 .. ReadSpace - 1 : SlotOf(i)' = SlotOf(i + 1)
  BY DEF SlotOf, ReadSpace
<1>4. SlotOf(1) = read_ptr
  BY DEF SlotOf
<1> QED
  BY <1>1, <1>2, <1>3, <1>4

(* Neither pointer moved: nothing defined from them changes.               *)
LEMMA SpaceUnchanged ==
  ASSUME UNCHANGED <<write_ptr, read_ptr>>
  PROVE  /\ ReadSpace' = ReadSpace
         /\ \A i : SlotOf(i)' = SlotOf(i)
         /\ Full' <=> Full
         /\ Empty' <=> Empty
  BY DEF ReadSpace, WriteSpace, SlotOf, Full, Empty

-----------------------------------------------------------------------------
(* The empty ring satisfies the invariant.                                *)
LEMMA InitIInv == Init => IInv
<1> SUFFICES ASSUME Init PROVE IInv
  OBVIOUS
<1>1. TypeOK
  BY DEF Init, TypeOK, Index
<1>2. ReadSpace = 0
  BY DEF Init, ReadSpace
<1> QED
  BY <1>1, <1>2 DEF Init, IInv, CheckStillHolds

(* One step of either thread, or none, preserves the invariant.            *)
LEMMA NextIInv == IInv /\ [Next]_vars => IInv'
<1> SUFFICES ASSUME IInv, [Next]_vars PROVE IInv'
  OBVIOUS
<1>t. TypeOK
  BY DEF IInv
<1>1. CASE PushThrows
  BY <1>1, <1>t, SpaceUnchanged DEF PushThrows, IInv, TypeOK, CheckStillHolds
<1>2. ASSUME NEW v \in Value, PushCheck(v) PROVE IInv'
  <2>1. UNCHANGED <<write_ptr, read_ptr>>
    BY <1>2 DEF PushCheck
  <2>2. TypeOK'
    BY <1>2, <1>t DEF PushCheck, TypeOK
  <2> QED
    BY <1>2, <2>1, <2>2, SpaceUnchanged DEF PushCheck, IInv, TypeOK, CheckStillHolds
<1>3. CASE PushCopy
  <2>1. UNCHANGED <<write_ptr, read_ptr>>
    BY <1>3 DEF PushCopy
  <2>2. TypeOK'
    BY <1>3, <1>t DEF PushCopy, TypeOK
  <2>3. /\ ~Full
        /\ producer.v \in Value
        /\ buf' = [buf EXCEPT ![write_ptr] = producer.v]
        /\ producer' = [producer EXCEPT !.pc = "advance"]
        /\ UNCHANGED consumer
    BY <1>3 DEF PushCopy, IInv, CheckStillHolds
  <2>4. CheckStillHolds'
    BY <2>1, <2>3, SpaceUnchanged DEF IInv, CheckStillHolds
  <2>5. \A i \in 1 .. ReadSpace' : buf'[SlotOf(i)'] \in Value
    <3>1. \A i \in 1 .. ReadSpace : SlotOf(i) \in Index /\ SlotOf(i) # write_ptr
      BY <1>t, WriteSlotIsFree
    <3>2. \A i \in 1 .. ReadSpace : buf[SlotOf(i)] \in Value
      BY DEF IInv
    <3> QED
      BY <1>t, <2>1, <2>3, <3>1, <3>2, SpaceUnchanged DEF TypeOK
  <2>6. consumer.pc = "advance" => buf'[read_ptr] = buf[read_ptr]
    <3> SUFFICES ASSUME consumer.pc = "advance" PROVE buf'[read_ptr] = buf[read_ptr]
      OBVIOUS
    <3>1. read_ptr # write_ptr
      BY <1>t DEF IInv, CheckStillHolds, Empty, ReadSpace, TypeOK, Index
    <3> QED
      BY <1>t, <2>3, <3>1 DEF TypeOK
  <2> QED
    BY <1>t, <2>1, <2>2, <2>3, <2>4, <2>5, <2>6 DEF IInv, TypeOK
<1>4. CASE PushAdvance
  <2>1. /\ ~Full
        /\ buf[write_ptr] \in Value
    BY <1>4 DEF PushAdvance, IInv, CheckStillHolds
  <2>2. /\ write_ptr' \in Index
        /\ ReadSpace' = ReadSpace + 1
        /\ \A i \in 1 .. ReadSpace : SlotOf(i)' = SlotOf(i)
        /\ \A n \in 1 .. Slots - 1 : n = ReadSpace + 1 => SlotOf(n)' = write_ptr
    BY <1>4, <1>t, <2>1, PushMovesSpace DEF PushAdvance
  <2>3. TypeOK'
    BY <1>4, <1>t, <2>2 DEF PushAdvance, TypeOK
  <2>4. CheckStillHolds'
    BY <1>4, <1>t, <2>2, <2>3, ReadSpaceRange DEF PushAdvance, IInv, CheckStillHolds, Empty
  <2>5. \A i \in 1 .. ReadSpace' : buf'[SlotOf(i)'] \in Value
    BY <1>4, <1>t, <2>1, <2>2, ReadSpaceRange DEF PushAdvance, IInv
  <2> QED
    BY <1>4, <2>3, <2>4, <2>5 DEF PushAdvance, IInv
<1>5. CASE PopThrows
  BY <1>5, <1>t, SpaceUnchanged DEF PopThrows, IInv, TypeOK, CheckStillHolds
<1>6. CASE PopCheck
  BY <1>6, <1>t, SpaceUnchanged DEF PopCheck, IInv, TypeOK, CheckStillHolds
<1>7. CASE PopCopy
  BY <1>7, <1>t, SpaceUnchanged DEF PopCopy, IInv, TypeOK, CheckStillHolds
<1>8. CASE PopAdvance
  <2>1. ~Empty
    BY <1>8 DEF PopAdvance, IInv, CheckStillHolds
  <2>2. /\ read_ptr' \in Index
        /\ ReadSpace' = ReadSpace - 1
        /\ \A i \in 1 .. ReadSpace - 1 : SlotOf(i)' = SlotOf(i + 1)
    BY <1>8, <1>t, <2>1, PopMovesSpace DEF PopAdvance
  <2>3. TypeOK'
    BY <1>8, <1>t, <2>2 DEF PopAdvance, TypeOK
  <2>4. CheckStillHolds'
    BY <1>8, <1>t, <2>2, <2>3, ReadSpaceRange
       DEF PopAdvance, IInv, CheckStillHolds, Full, WriteSpace
  <2>5. \A i \in 1 .. ReadSpace' : buf'[SlotOf(i)'] \in Value
    BY <1>8, <1>t, <2>2, ReadSpaceRange DEF PopAdvance, IInv
  <2> QED
    BY <1>8, <2>3, <2>4, <2>5 DEF PopAdvance, IInv
<1>9. CASE UNCHANGED vars
  BY <1>9, <1>t, SpaceUnchanged DEF vars, IInv, TypeOK, CheckStillHolds
<1> QED
  BY <1>1, <1>2, <1>3, <1>4, <1>5, <1>6, <1>7, <1>8, <1>9 DEF Next, Producer, Consumer

(* The inductive invariant holds in every reachable state.                 *)
THEOREM Invariance == Spec => []IInv
  BY InitIInv, NextIInv, PTL DEF Spec

-----------------------------------------------------------------------------
(* No data race on the storage, whatever the number of slots: the slot     *)
(* push() copies into is never one that pop() copies from, nor one that    *)
(* holds an element still to be popped.                                    *)
THEOREM NoDataRace == Spec => []NoSharedSlot
<1>1. IInv => NoSharedSlot
  <2> SUFFICES ASSUME IInv PROVE NoSharedSlot
    OBVIOUS
  <2>1. \A i \in 1 .. ReadSpace : SlotOf(i) # write_ptr
    BY WriteSlotIsFree DEF IInv
  <2>2. consumer.pc \in {"copy", "advance"} => read_ptr # write_ptr
    BY DEF IInv, CheckStillHolds, TypeOK, Index, Empty, ReadSpace
  <2> QED
    BY <2>1, <2>2 DEF NoSharedSlot
<1> QED
  BY Invariance, <1>1, PTL

(* A check that passed still holds when the thread acts on it.             *)
THEOREM ChecksAreStable == Spec => []CheckStillHolds
<1>1. IInv => CheckStillHolds
  BY DEF IInv
<1> QED
  BY Invariance, <1>1, PTL

(* The pointers stay inside the storage, and every slot holds an element.  *)
THEOREM TypeCorrect == Spec => []TypeOK
<1>1. IInv => TypeOK
  BY DEF IInv
<1> QED
  BY Invariance, <1>1, PTL

-----------------------------------------------------------------------------
(* The queue read off the ring is a sequence of the right length.          *)
LEMMA QueueIsSeq ==
  ASSUME IInv
  PROVE  /\ Queue \in Seq(Value)
         /\ Len(Queue) = ReadSpace
         /\ ReadSpace \in 0 .. Slots - 1
         /\ \A i \in 1 .. ReadSpace : Queue[i] = buf[SlotOf(i)]
<1>1. ReadSpace \in 0 .. Slots - 1
  BY ReadSpaceRange DEF IInv
<1>2. \A i \in 1 .. ReadSpace : buf[SlotOf(i)] \in Value
  BY DEF IInv
<1> QED
  BY <1>1, <1>2 DEF Queue

(* Publishing the slot just written appends its element to the queue.      *)
LEMMA PushAdvanceAppends ==
  ASSUME IInv, IInv', PushAdvance
  PROVE  Queue' = Append(Queue, producer.v) /\ Len(Queue) < Slots - 1
<1>1. /\ ~Full
      /\ TypeOK
      /\ buf[write_ptr] = producer.v
      /\ producer.v \in Value
  BY DEF PushAdvance, IInv, CheckStillHolds
<1>2. /\ ReadSpace' = ReadSpace + 1
      /\ \A i \in 1 .. ReadSpace : SlotOf(i)' = SlotOf(i)
      /\ \A n \in 1 .. Slots - 1 : n = ReadSpace + 1 => SlotOf(n)' = write_ptr
  BY <1>1, PushMovesSpace DEF PushAdvance
<1>3. ReadSpace \in 0 .. Slots - 2
  BY <1>1, ReadSpaceRange
<1>4. \A i \in 1 .. ReadSpace' : Queue'[i] = Append(Queue, producer.v)[i]
  <2> TAKE i \in 1 .. ReadSpace'
  <2>1. CASE i = ReadSpace + 1
    BY <1>1, <1>2, <1>3, <2>1, QueueIsSeq DEF Queue, PushAdvance
  <2>2. CASE i \in 1 .. ReadSpace
    <3>1. SlotOf(i)' = SlotOf(i) /\ buf' = buf
      BY <1>2, <2>2 DEF PushAdvance
    <3>2. Queue'[i] = buf[SlotOf(i)]
      BY <3>1 DEF Queue
    <3>3. Append(Queue, producer.v)[i] = Queue[i]
      BY <1>1, <2>2, QueueIsSeq
    <3>4. Queue[i] = buf[SlotOf(i)]
      BY <2>2, QueueIsSeq
    <3> QED
      BY <3>2, <3>3, <3>4
  <2>3. i = ReadSpace + 1 \/ i \in 1 .. ReadSpace
    BY <1>2, <1>3
  <2> QED
    BY <2>1, <2>2, <2>3
<1>5. Len(Queue') = ReadSpace' /\ Queue' \in Seq(Value)
  BY <1>2, <1>3, IInv' DEF Queue, IInv
<1> QED
  BY <1>1, <1>2, <1>3, <1>4, <1>5, QueueIsSeq

(* Freeing the oldest slot drops the head of the queue, which is the       *)
(* element the popping thread had copied.                                  *)
LEMMA PopAdvanceTails ==
  ASSUME IInv, IInv', PopAdvance
  PROVE  Queue' = Tail(Queue) /\ Queue # <<>> /\ consumer.d = Head(Queue)
<1>1. /\ ~Empty
      /\ TypeOK
      /\ consumer.d = buf[read_ptr]
  BY DEF PopAdvance, IInv, CheckStillHolds
<1>2. /\ ReadSpace' = ReadSpace - 1
      /\ \A i \in 1 .. ReadSpace - 1 : SlotOf(i)' = SlotOf(i + 1)
      /\ SlotOf(1) = read_ptr
  BY <1>1, PopMovesSpace DEF PopAdvance
<1>3. ReadSpace \in 1 .. Slots - 1
  BY <1>1, ReadSpaceRange
<1>4. \A i \in 1 .. ReadSpace' : Queue'[i] = Tail(Queue)[i]
  BY <1>2, <1>3, QueueIsSeq DEF Queue, PopAdvance
<1>5. Len(Queue') = ReadSpace' /\ Queue' \in Seq(Value)
  BY <1>2, <1>3, IInv' DEF Queue, IInv
<1> QED
  BY <1>1, <1>2, <1>3, <1>4, <1>5, QueueIsSeq

(* Every other step leaves the queue alone.                                *)
LEMMA QueueUnchanged ==
  ASSUME IInv, UNCHANGED <<write_ptr, read_ptr>>,
         UNCHANGED buf \/ PushCopy
  PROVE  Queue' = Queue
<1>1. ReadSpace' = ReadSpace /\ \A i : SlotOf(i)' = SlotOf(i)
  BY SpaceUnchanged
<1>2. \A i \in 1 .. ReadSpace : buf'[SlotOf(i)] = buf[SlotOf(i)]
  BY WriteSlotIsFree DEF PushCopy, IInv, TypeOK
<1> QED
  BY <1>1, <1>2 DEF Queue

(* The ring implements the bounded queue with one element less than it has *)
(* slots: push() takes effect when it moves the write pointer, pop() when  *)
(* it moves the read pointer, a call that throws when it reads them.       *)
THEOREM Refinement == Spec => ImplementsFifo
<1>1. Init => Fifo!FifoInit
  BY DEF Init, Fifo!FifoInit, Queue, ReadSpace
<1>2. IInv /\ IInv' /\ [Next]_vars => [Fifo!FifoNext]_(Fifo!fifoVars)
  <2> SUFFICES ASSUME IInv, IInv', [Next]_vars
               PROVE  [Fifo!FifoNext]_(Fifo!fifoVars)
    OBVIOUS
  <2> USE DEF Fifo!FifoNext, Fifo!fifoVars
  <2>1. CASE PushThrows
    BY <2>1, QueueUnchanged, QueueIsSeq, ReadSpaceRange
       DEF PushThrows, Fifo!PushThrows, IInv
  <2>2. ASSUME NEW v \in Value, PushCheck(v) PROVE [Fifo!FifoNext]_(Fifo!fifoVars)
    BY <2>2, QueueUnchanged DEF PushCheck
  <2>3. CASE PushCopy
    BY <2>3, QueueUnchanged DEF PushCopy
  <2>4. CASE PushAdvance
    <3>1. producer.v \in Value
      BY <2>4 DEF PushAdvance, IInv
    <3>2. Fifo!Push(producer.v)
      BY <2>4, PushAdvanceAppends DEF PushAdvance, Fifo!Push
    <3> QED
      BY <3>1, <3>2
  <2>5. CASE PopThrows
    BY <2>5, QueueUnchanged, QueueIsSeq, ReadSpaceRange
       DEF PopThrows, Fifo!PopThrows, IInv
  <2>6. CASE PopCheck
    BY <2>6, QueueUnchanged DEF PopCheck
  <2>7. CASE PopCopy
    BY <2>7, QueueUnchanged DEF PopCopy
  <2>8. CASE PopAdvance
    BY <2>8, PopAdvanceTails DEF PopAdvance, Fifo!Pop
  <2>9. CASE UNCHANGED vars
    BY <2>9, QueueUnchanged DEF vars
  <2> QED
    BY <2>1, <2>2, <2>3, <2>4, <2>5, <2>6, <2>7, <2>8, <2>9 DEF Next, Producer, Consumer
<1> QED
  BY Invariance, <1>1, <1>2, PTL DEF Spec, ImplementsFifo, Fifo!FifoSpec
=============================================================================
