---------------------------- MODULE MidiInProof ----------------------------
(***************************************************************************)
(* Proofs about MidiIn for every size of the storage and any messages: the *)
(* types, that operator>> never skips past the write pointer, however      *)
(* often the callback pushes between its two looks at the ring, and that   *)
(* the events are cut from the messages in order until the bytes wrap.     *)
(***************************************************************************)
EXTENDS MidiIn, TLAPS

USE SlotsAssumption

(* The byte the callback pushes next is one of the last message.           *)
Pushing == /\ jack.pc = "idle" => jack.pos = 0
           /\ jack.pc = "push" => jack.pos # 0
           /\ jack.pos # 0 => sent # <<>> /\ jack.pos \in 1 .. Len(Last(sent))

(* How far the iterators go.  `it' stops at its own end; only when it has  *)
(* found nothing does operator>> go on to the later end.                   *)
Behind == /\ main.pc # "idle" => main.len <= ReadSpace
          /\ main.pc = "end" => main.off = 0 /\ main.end = 0
          /\ main.pc \notin {"idle", "end"} => main.end <= ReadSpace
          /\ main.pc \in {"skip", "data", "rest"} => main.off <= main.len
          /\ main.pc = "advance" => main.off <= main.len \/ main.off = main.end

(* Where operator>> is, and what it has parsed.                            *)
Place == [pc : {"idle", "end", "skip", "data", "rest", "advance"},
          off : Index, len : Index, end : Index,
          event : [status : Bytes, data : Seq(Bytes)]]

IInv == TypeOK /\ Pushing /\ Behind

-----------------------------------------------------------------------------
(* The readable bytes fit into the storage, with one to spare.             *)
LEMMA ReadSpaceRange ==
  ASSUME write_ptr \in Index, read_ptr \in Index
  PROVE  ReadSpace \in Index /\ (Full <=> ReadSpace = Slots - 1)
  BY DEF Index, ReadSpace, Full

(* Pushing a byte makes one more readable.                                 *)
LEMMA PushMovesSpace ==
  ASSUME write_ptr \in Index, read_ptr \in Index, ~Full,
         read_ptr' = read_ptr, write_ptr' = Moved(write_ptr, 1)
  PROVE  write_ptr' \in Index /\ ReadSpace' = ReadSpace + 1
<1>1. write_ptr' \in Index
  BY DEF Index, Moved
<1>2. ReadSpace' = ReadSpace + 1
  BY DEF Index, Moved, ReadSpace, Full
<1> QED
  BY <1>1, <1>2

(* A moved pointer stays inside the storage.                               *)
LEMMA MovedInIndex ==
  ASSUME NEW p \in Index, NEW n \in Index
  PROVE  Moved(p, n) \in Index
  BY DEF Index, Moved

(* An iterator short of its end can take one more step.                    *)
LEMMA NextOffset ==
  ASSUME NEW off \in Index, NEW len \in Index, off <= len, off # len
  PROVE  off + 1 \in Index /\ off + 1 <= len
  BY DEF Index

(* Whatever the iterator reads is a byte of the storage.                   *)
LEMMA ByteAtIsByte ==
  ASSUME TypeOK, NEW off \in Index
  PROVE  ByteAt(off) \in Bytes
<1>1. read_ptr + off < Slots => read_ptr + off \in Index
  BY DEF TypeOK, Index
<1> QED
  BY <1>1 DEF TypeOK, ByteAt

-----------------------------------------------------------------------------
(* The program starts with the invariant.                                  *)
LEMMA InitIInv == Init => IInv
<1> SUFFICES ASSUME Init PROVE IInv
  OBVIOUS
<1>1. 0 \in Index /\ NoByte \in Bytes
  BY DEF Index, NoByte, Bytes, Kinds
<1>2. TypeOK
  BY <1>1 DEF Init, TypeOK, Idle
<1>3. Pushing /\ Behind
  BY DEF Init, Pushing, Behind, Idle
<1> QED
  BY <1>2, <1>3 DEF IInv

(* The JACK thread: what is readable only grows.                           *)
LEMMA JackKeepsIInv ==
  ASSUME IInv, JackNext
  PROVE  IInv'
<1> USE DEF IInv
<1>1. ASSUME NEW m \in Shapes, NextMessage(m) PROVE IInv'
  <2>1. m \in Seq(Kinds) /\ m # <<>> /\ sent' \in Seq(Shapes) /\ sent' # <<>>
    <3>1. m \in Seq(Kinds) /\ m # <<>>
      BY ShapesAssumption
    <3>2. sent \in Seq(Shapes) /\ sent' = Append(sent, m)
      BY <1>1 DEF NextMessage, TypeOK
    <3>3. sent' \in Seq(Shapes) /\ Len(sent') = Len(sent) + 1
      BY <3>2
    <3>4. sent' # <<>>
      BY <3>2, <3>3
    <3> QED
      BY <3>1, <3>3, <3>4
  <2>2. Last(sent') = m
    BY <1>1 DEF NextMessage, TypeOK, Last
  <2>3. TypeOK'
    BY <1>1, <2>1 DEF NextMessage, TypeOK
  <2>4. Pushing'
    BY <1>1, <2>1, <2>2 DEF NextMessage, Pushing
  <2>5. Behind'
    BY <1>1 DEF NextMessage, Behind, ReadSpace
  <2> QED
    BY <2>3, <2>4, <2>5
<1>2. CASE PushByte
  <2> DEFINE m == Last(sent)
             byte == [kind |-> m[jack.pos], msg |-> Len(sent), pos |-> jack.pos]
  <2>1. write_ptr' \in Index /\ ReadSpace' = ReadSpace + 1 /\ ReadSpace \in Index
    BY <1>2, PushMovesSpace, ReadSpaceRange DEF PushByte, TypeOK
  <2>2. jack.pos \in 1 .. Len(m) /\ m \in Seq(Kinds)
    BY <1>2, ShapesAssumption DEF PushByte, Pushing, TypeOK, Last
  <2>3. byte \in Bytes
    BY <2>2 DEF Bytes, TypeOK
  <2>4. buf' \in [Index -> Bytes]
    BY <1>2, <2>3 DEF PushByte, TypeOK
  <2>5. jack' \in [pc : {"idle", "push", "dropped"}, pos : Nat] /\ Pushing'
    <3>1. CASE jack.pos = Len(m)
      <4>1. jack' = [pc |-> "idle", pos |-> 0]
        BY <1>2, <3>1 DEF PushByte
      <4> QED
        BY <4>1 DEF Pushing
    <3>2. CASE jack.pos # Len(m)
      <4>1. jack' = [pc |-> "push", pos |-> jack.pos + 1]
        BY <1>2, <3>2 DEF PushByte, TypeOK
      <4>2. jack.pos + 1 \in 1 .. Len(m)
        BY <2>2, <3>2
      <4>3. sent # <<>> /\ sent' = sent
        BY <1>2 DEF PushByte, Pushing
      <4> QED
        BY <4>1, <4>2, <4>3 DEF Pushing
    <3> QED
      BY <3>1, <3>2
  <2>6. TypeOK'
    BY <1>2, <2>1, <2>4, <2>5 DEF PushByte, TypeOK
  <2>7. Behind'
    BY <1>2, <2>1 DEF PushByte, Behind, TypeOK, Index
  <2> QED
    BY <2>5, <2>6, <2>7
<1>3. CASE CallbackFails
  BY <1>3 DEF CallbackFails, TypeOK, Pushing, Behind, ReadSpace
<1> QED
  BY <1>1, <1>2, <1>3 DEF JackNext

(* The main thread leaves the others' variables alone: what is left to     *)
(* show is where it goes.                                                  *)
LEMMA MainMoves ==
  ASSUME IInv, UNCHANGED <<sent, bytes, buf, write_ptr, read_ptr, jack, received>>,
         main' \in Place,
         main'.pc # "idle" => main'.len <= ReadSpace,
         main'.pc = "end" => main'.off = 0 /\ main'.end = 0,
         main'.pc \notin {"idle", "end"} => main'.end <= ReadSpace,
         main'.pc \in {"skip", "data", "rest"} => main'.off <= main'.len,
         main'.pc = "advance" => main'.off <= main'.len \/ main'.off = main'.end
  PROVE  IInv'
<1>1. TypeOK'
  BY DEF IInv, TypeOK, Place
<1>2. Pushing'
  BY DEF IInv, Pushing
<1>3. ReadSpace' = ReadSpace
  BY DEF ReadSpace
<1>4. Behind'
  BY <1>3 DEF Behind
<1> QED
  BY <1>1, <1>2, <1>4 DEF IInv

(* The main thread: its offset stops at an end.                            *)
LEMMA MainKeepsIInv ==
  ASSUME IInv, MainNext
  PROVE  IInv'
<1> USE DEF IInv
<1>0. ReadSpace \in Index /\ 0 \in Index /\ NoByte \in Bytes
  BY ReadSpaceRange DEF TypeOK, Index, NoByte, Bytes, Kinds
<1>p. main \in Place
  BY DEF TypeOK, Place
<1>1. CASE TakeBegin
  <2>1. main' = [pc |-> "end", off |-> 0, len |-> ReadSpace, end |-> 0,
                 event |-> [status |-> NoByte, data |-> <<>>]]
    BY <1>1 DEF TakeBegin, Idle
  <2>2. main' \in Place
    BY <1>0, <2>1 DEF Place
  <2>3. ReadSpace <= ReadSpace
    BY <1>0 DEF Index
  <2> QED
    <3>1. main'.pc = "end" /\ main'.len = ReadSpace /\ main'.off = 0 /\ main'.end = 0
      BY <2>1
    <3>2. UNCHANGED <<sent, bytes, buf, write_ptr, read_ptr, jack, received>>
      BY <1>1 DEF TakeBegin
    <3> QED
      BY <2>2, <2>3, <3>1, <3>2, MainMoves
<1>2. CASE TakeEnd
  <2>1. main' = [pc |-> "skip", off |-> main.off, len |-> main.len, end |-> ReadSpace,
                 event |-> main.event]
    BY <1>2, <1>p DEF TakeEnd, Place
  <2>2. main' \in Place
    BY <1>0, <1>p, <2>1 DEF Place
  <2>3. ReadSpace <= ReadSpace /\ main.len <= ReadSpace /\ main.off <= main.len
    BY <1>0, <1>2, <1>p DEF Index, TakeEnd, Behind, Place
  <2> QED
    BY <1>2, <2>1, <2>2, <2>3, MainMoves DEF TakeEnd
<1>3. CASE Skip
  <2>1. /\ main.pc = "skip" /\ UNCHANGED <<sent, bytes, buf, write_ptr, read_ptr, jack, received>>
        /\ main.len <= ReadSpace /\ main.end <= ReadSpace /\ main.off <= main.len
        /\ ByteAt(main.off) \in Bytes
    BY <1>3, ByteAtIsByte DEF Skip, TypeOK, Behind
  <2>2. CASE AtEnd
    <3>1. main' = [pc |-> "advance", off |-> main.end, len |-> main.len,
                   end |-> main.end, event |-> main.event]
      BY <1>3, <1>p, <2>2 DEF Skip, AtData, NoStatus, Place
    <3>2. main' \in Place
      BY <1>p, <3>1 DEF Place
    <3> QED
      BY <2>1, <3>1, <3>2, MainMoves
  <2>3. CASE ~AtEnd
    <3>1. main.off + 1 \in Index /\ main.off + 1 <= main.len
      BY <1>p, <2>1, <2>3, NextOffset DEF AtEnd, Place
    <3>2. PICK pc \in {"skip", "rest", "data"},
               event \in [status : Bytes, data : Seq(Bytes)] :
            main' = [pc |-> pc, off |-> main.off + 1, len |-> main.len,
                     end |-> main.end, event |-> event]
      <4>1. CASE AtData
        BY <1>3, <1>p, <4>1 DEF Skip, Step, Place
      <4>2. CASE ~AtData
        <5>1. [status |-> ByteAt(main.off), data |-> main.event.data]
                \in [status : Bytes, data : Seq(Bytes)]
          BY <1>p, <2>1 DEF Place
        <5>2. \E pc \in {"rest", "data"} :
                main' = [main EXCEPT !.pc = pc, !.off = @ + 1,
                                     !.event.status = ByteAt(main.off)]
          BY <1>3, <2>3, <4>2 DEF Skip
        <5> QED
          BY <1>p, <5>1, <5>2 DEF Place
      <4> QED
        BY <4>1, <4>2
    <3>3. main' \in Place
      BY <1>p, <3>1, <3>2 DEF Place
    <3> QED
      BY <2>1, <3>1, <3>2, <3>3, MainMoves
  <2> QED
    BY <2>2, <2>3
<1>4. CASE StoreData
  <2>1. /\ main.pc = "data" /\ UNCHANGED <<sent, bytes, buf, write_ptr, read_ptr, jack, received>>
        /\ main.len <= ReadSpace /\ main.end <= ReadSpace /\ main.off <= main.len
        /\ ByteAt(main.off) \in Bytes
    BY <1>4, ByteAtIsByte DEF StoreData, TypeOK, Behind
  <2>2. CASE Len(main.event.data) < 2 /\ AtData
    <3>1. main.off + 1 \in Index /\ main.off + 1 <= main.len
      BY <1>p, <2>1, <2>2, NextOffset DEF AtData, AtEnd, Place
    <3>2. [status |-> main.event.status, data |-> Append(main.event.data, ByteAt(main.off))]
            \in [status : Bytes, data : Seq(Bytes)]
      BY <1>p, <2>1 DEF Place
    <3>3. main' = [main EXCEPT !.event.data = Append(@, ByteAt(main.off)), !.off = @ + 1]
      BY <1>4, <2>2 DEF StoreData
    <3>4. main' = [pc |-> "data", off |-> main.off + 1, len |-> main.len, end |-> main.end,
                   event |-> [status |-> main.event.status,
                              data |-> Append(main.event.data, ByteAt(main.off))]]
      BY <1>p, <2>1, <3>3 DEF Place
    <3>5. main' \in Place
      BY <1>p, <3>1, <3>2, <3>4 DEF Place
    <3> QED
      BY <2>1, <3>1, <3>4, <3>5, MainMoves
  <2>3. CASE ~(Len(main.event.data) < 2 /\ AtData)
    <3>1. main' = [pc |-> "rest", off |-> main.off, len |-> main.len, end |-> main.end,
                   event |-> main.event]
      BY <1>4, <1>p, <2>3 DEF StoreData, Place
    <3>2. main' \in Place
      BY <1>p, <3>1 DEF Place
    <3> QED
      BY <2>1, <3>1, <3>2, MainMoves
  <2> QED
    BY <2>2, <2>3
<1>5. CASE SkipRest
  <2>1. /\ main.pc = "rest" /\ UNCHANGED <<sent, bytes, buf, write_ptr, read_ptr, jack, received>>
        /\ main.len <= ReadSpace /\ main.end <= ReadSpace /\ main.off <= main.len
    BY <1>5 DEF SkipRest, Behind
  <2>2. CASE AtData
    <3>1. main.off + 1 \in Index /\ main.off + 1 <= main.len
      BY <1>p, <2>1, <2>2, NextOffset DEF AtData, AtEnd, Place
    <3>2. main' = [pc |-> "rest", off |-> main.off + 1, len |-> main.len, end |-> main.end,
                   event |-> main.event]
      BY <1>5, <1>p, <2>2 DEF SkipRest, Step, Place
    <3>3. main' \in Place
      BY <1>p, <3>1, <3>2 DEF Place
    <3> QED
      BY <2>1, <3>1, <3>2, <3>3, MainMoves
  <2>3. CASE ~AtData
    <3>1. main' = [pc |-> "advance", off |-> main.off, len |-> main.len, end |-> main.end,
                   event |-> main.event]
      BY <1>5, <1>p, <2>3 DEF SkipRest, Place
    <3>2. main' \in Place
      BY <1>p, <3>1 DEF Place
    <3> QED
      BY <2>1, <3>1, <3>2, MainMoves
  <2> QED
    BY <2>2, <2>3
<1>6. CASE Advance
  <2>1. read_ptr' \in Index
    BY <1>6, MovedInIndex DEF Advance, TypeOK
  <2>2. main' = Idle
    BY <1>6 DEF Advance
  <2>3. TypeOK'
    BY <1>0, <1>6, <2>1, <2>2 DEF Advance, TypeOK, Idle
  <2>4. Pushing' /\ Behind'
    BY <1>6, <2>2 DEF Advance, Pushing, Behind, Idle
  <2> QED
    BY <2>3, <2>4
<1> QED
  BY <1>1, <1>2, <1>3, <1>4, <1>5, <1>6 DEF MainNext

-----------------------------------------------------------------------------
(* The invariant holds in every reachable state.                           *)
THEOREM Invariance == Spec => []IInv
<1>1. IInv /\ [Next]_vars => IInv'
  <2> SUFFICES ASSUME IInv, UNCHANGED vars PROVE IInv'
    BY JackKeepsIInv, MainKeepsIInv DEF Next
  <2> QED
    BY DEF vars, IInv, TypeOK, Pushing, Behind, ReadSpace
<1> QED
  BY InitIInv, <1>1, PTL DEF Spec

(* The pointers stay inside the storage, the parser's offsets too, and     *)
(* every event is made of bytes.                                           *)
THEOREM TypeCorrect == Spec => []TypeOK
<1>1. IInv => TypeOK
  BY DEF IInv
<1> QED
  BY Invariance, <1>1, PTL

(* Wherever operator>> is, the other thread is ahead.                      *)
LEMMA BehindTheWrites ==
  ASSUME IInv
  PROVE  NeverPastWritePtr
<1> SUFFICES ASSUME main.pc # "idle"
             PROVE  main.off <= ReadSpace /\ main.len <= ReadSpace /\ main.end <= ReadSpace
  BY DEF NeverPastWritePtr
<1>1. ReadSpace \in Index /\ main.off \in Index /\ main.len \in Index /\ main.end \in Index
  BY ReadSpaceRange DEF IInv, TypeOK
<1> QED
  BY <1>1 DEF IInv, TypeOK, Behind, Index

(* The bytes operator>> skips at the end of parse() are still readable:    *)
(* the read pointer never overtakes the write pointer.                     *)
THEOREM StaysBehind == Spec => []NeverPastWritePtr
<1>1. IInv => NeverPastWritePtr
  BY BehindTheWrites
<1> QED
  BY Invariance, <1>1, PTL

-----------------------------------------------------------------------------
(* Before the bytes wrap around in the storage, a byte has its place there *)
(* by the count of those pushed before it: what is to be pushed of the     *)
(* last message, what has been pushed, and what has been taken of it.      *)
Unpushed == IF jack.pos = 0 THEN 0 ELSE Len(Last(sent)) - jack.pos + 1
Pushed == bytes - Unpushed
Taken == Pushed - ReadSpace

(* The index of the pointers at a place.                                   *)
At(place) == IF place = Slots THEN 0 ELSE place

Older(b, c) == b.msg < c.msg \/ (b.msg = c.msg /\ b.pos < c.pos)

(* A data byte continues the message of the byte before it.                *)
Continues(b, c) == IsStatus(c) \/ (c.msg = b.msg /\ c.pos = b.pos + 1)

(* The bytes of an event are consecutive bytes of one message.             *)
IsRun(e) == \A k \in 1 .. Len(e.data) : /\ e.data[k].msg = e.status.msg
                                        /\ e.data[k].pos = e.status.pos + k

(* The pointers are where the counts say.                                  *)
Linear == /\ Pushed \in Nat /\ Taken \in Nat
          /\ write_ptr = At(Pushed) /\ read_ptr = At(Taken)

(* The bytes in the storage are in the order in which they were sent.      *)
Stored ==
  /\ \A i \in Index : i < Pushed => /\ buf[i].msg <= Len(sent)
                                    /\ jack.pc = "push" /\ buf[i].msg = Len(sent) =>
                                         buf[i].pos < jack.pos
  /\ \A i, j \in Index : i < j /\ j < Pushed => Older(buf[i], buf[j])
  /\ \A i, j \in Index : j = i + 1 /\ j < Pushed => Continues(buf[i], buf[j])
  /\ jack.pc = "push" /\ jack.pos > 1 =>
       \E i \in Index : /\ i = Pushed - 1
                        /\ buf[i].msg = Len(sent) /\ buf[i].pos = jack.pos - 1

(* The event being parsed is cut from the bytes that are being taken.      *)
Parsing ==
  LET e == main.event
  IN  /\ IsRun(e)
      /\ main.pc \in {"idle", "end", "skip"} => e.status = NoByte /\ e.data = <<>>
      /\ e.status # NoByte => \E s \in Index : /\ Taken <= s /\ s < Taken + main.off
                                               /\ e.status = buf[s]
      /\ main.pc = "data" =>
           \E i \in Index : /\ i = Taken + main.off - 1
                            /\ buf[i].msg = e.status.msg
                            /\ buf[i].pos = e.status.pos + Len(e.data)

(* The events are cut, in order, from the bytes that have been taken.      *)
Parsed ==
  /\ \A i \in 1 .. Len(received) :
       /\ IsRun(received[i])
       /\ received[i].status # NoByte =>
            \E s \in Index : s < Taken /\ received[i].status = buf[s]
  /\ \A i, j \in 1 .. Len(received) :
       i < j /\ received[i].status # NoByte /\ received[j].status # NoByte =>
         Older(received[i].status, received[j].status)

Unwrapped == bytes <= Slots => Linear /\ Stored /\ Parsing /\ Parsed

RunInv == IInv /\ Unwrapped

-----------------------------------------------------------------------------
(* Skipping bytes makes as many fewer readable.                            *)
LEMMA MoveTakesSpace ==
  ASSUME write_ptr \in Index, read_ptr \in Index, NEW n \in Index, n <= ReadSpace,
         write_ptr' = write_ptr, read_ptr' = Moved(read_ptr, n)
  PROVE  ReadSpace' = ReadSpace - n
<1>1. ReadSpace = IF write_ptr < read_ptr THEN write_ptr - read_ptr + Slots
                                          ELSE write_ptr - read_ptr
  BY DEF Index, ReadSpace
<1>2. read_ptr' = IF read_ptr + n < Slots THEN read_ptr + n ELSE read_ptr + n - Slots
  BY DEF Index, Moved
<1>3. read_ptr' \in Index
  BY MovedInIndex
<1>4. ReadSpace' = IF write_ptr < read_ptr' THEN write_ptr - read_ptr' + Slots
                                            ELSE write_ptr - read_ptr'
  BY <1>3 DEF Index, ReadSpace
<1> QED
  BY <1>1, <1>2, <1>4 DEF Index

(* A pointer moved from its place by n is at the place n further on.       *)
LEMMA MovedPlace ==
  ASSUME NEW place \in Nat, NEW n \in Nat, place + n <= Slots, n < Slots
  PROVE  Moved(At(place), n) = At(place + n)
<1>1. CASE place = Slots
  <2>1. n = 0 /\ At(place) = 0 /\ At(place + n) = 0
    BY <1>1 DEF At
  <2> QED
    BY <2>1 DEF Moved
<1>2. CASE place # Slots
  <2>1. At(place) = place
    BY <1>2 DEF At
  <2>2. (place + n) % Slots = IF place + n = Slots THEN 0 ELSE place + n
    OBVIOUS
  <2> QED
    BY <2>1, <2>2 DEF Moved, At
<1> QED
  BY <1>1, <1>2

(* No more is pushed than is sent.                                         *)
LEMMA PushedWithin ==
  ASSUME IInv, bytes <= Slots
  PROVE  Pushed <= Slots
<1>1. CASE jack.pos = 0
  BY <1>1 DEF Unpushed, Pushed, IInv, TypeOK
<1>2. CASE jack.pos # 0
  <2>1. jack.pos \in 1 .. Len(Last(sent)) /\ Last(sent) \in Seq(Kinds)
    BY <1>2, ShapesAssumption DEF IInv, Pushing, TypeOK, Last
  <2>2. Unpushed \in Nat
    BY <1>2, <2>1 DEF Unpushed
  <2> QED
    BY <2>2 DEF Pushed, IInv, TypeOK
<1> QED
  BY <1>1, <1>2

(* The iterator reads the byte at its place.                               *)
LEMMA ReadsInPlace ==
  ASSUME IInv, Linear, Pushed <= Slots, main.pc \in {"skip", "data", "rest"}, ~AtEnd
  PROVE  /\ Taken + main.off \in Index /\ Taken + main.off < Pushed
         /\ ByteAt(main.off) = buf[Taken + main.off]
         /\ ByteAt(main.off) \in Bytes
<1>1. main.off \in Index /\ main.len \in Index /\ ReadSpace \in Index
  BY ReadSpaceRange DEF IInv, TypeOK
<1>2. main.off < ReadSpace
  BY <1>1 DEF IInv, Behind, AtEnd, Index
<1>3. Taken \in Nat /\ Pushed \in Nat /\ Pushed = Taken + ReadSpace
  BY <1>1 DEF Linear, Taken, Index
<1>4. Taken + main.off < Pushed /\ Taken + main.off \in Index /\ Taken < Slots
  BY <1>1, <1>2, <1>3 DEF Index
<1>5. read_ptr = Taken
  BY <1>4, <1>3 DEF Linear, At
<1>6. ByteAt(main.off) = buf[Taken + main.off]
  BY <1>4, <1>5 DEF ByteAt, Index
<1> QED
  BY <1>1, <1>4, <1>6, ByteAtIsByte DEF IInv

-----------------------------------------------------------------------------
(* The JACK thread: the next message, ...                                  *)
LEMMA NextMessageKeepsRuns ==
  ASSUME IInv, Unwrapped, NEW m \in Shapes, NextMessage(m)
  PROVE  Unwrapped'
<1> SUFFICES ASSUME bytes' <= Slots
             PROVE  Linear' /\ Stored' /\ Parsing' /\ Parsed'
  BY DEF Unwrapped
<1>1. m \in Seq(Kinds) /\ Len(m) \in Nat /\ sent \in Seq(Shapes) /\ bytes \in Nat
  BY ShapesAssumption DEF IInv, TypeOK
<1>2. /\ sent' = Append(sent, m) /\ bytes' = bytes + Len(m)
      /\ jack.pos = 0 /\ jack' = [pc |-> "push", pos |-> 1]
      /\ UNCHANGED <<buf, write_ptr, read_ptr, main, received>>
  BY DEF NextMessage, IInv, Pushing
<1>3. Last(sent') = m /\ Len(sent') = Len(sent) + 1 /\ Len(sent) \in Nat
  BY <1>1, <1>2 DEF Last
<1>4. Pushed' = Pushed /\ ReadSpace' = ReadSpace /\ Taken' = Taken
  BY <1>1, <1>2, <1>3 DEF Unpushed, Pushed, ReadSpace, Taken
<1>5. Linear /\ Stored /\ Parsing /\ Parsed
  BY <1>1, <1>2 DEF Unwrapped
<1>6. Linear'
  BY <1>2, <1>4, <1>5 DEF Linear, At
<1>7. Stored'
  <2>1. \A i \in Index : buf[i].msg \in Nat
    BY DEF IInv, TypeOK, Bytes
  <2>2. jack'.pos = 1 /\ buf' = buf
    BY <1>2
  <2>3. \A i \in Index : i < Pushed => buf[i].msg <= Len(sent) /\ buf[i].msg # Len(sent')
    BY <1>3, <1>5, <2>1 DEF Stored
  <2>4. \A i \in Index : i < Pushed => buf[i].msg <= Len(sent')
    BY <1>3, <2>1, <2>3
  <2> QED
    BY <1>4, <1>5, <2>2, <2>3, <2>4 DEF Stored
<1>8. Parsing' /\ Parsed'
  BY <1>2, <1>4, <1>5 DEF Parsing, Parsed
<1> QED
  BY <1>6, <1>7, <1>8

(* ... its bytes, each at the place after the one before it, ...           *)
LEMMA PushByteKeepsRuns ==
  ASSUME IInv, Unwrapped, PushByte
  PROVE  Unwrapped'
<1> DEFINE m == Last(sent)
           p == jack.pos
           byte == [kind |-> m[p], msg |-> Len(sent), pos |-> p]
<1> SUFFICES ASSUME bytes' <= Slots
             PROVE  Linear' /\ Stored' /\ Parsing' /\ Parsed'
  BY DEF Unwrapped
<1>1. /\ jack.pc = "push" /\ ~Full
      /\ buf' = [buf EXCEPT ![write_ptr] = byte]
      /\ jack' = IF p = Len(m) THEN [pc |-> "idle", pos |-> 0] ELSE [jack EXCEPT !.pos = @ + 1]
      /\ write_ptr' = Moved(write_ptr, 1)
      /\ UNCHANGED <<sent, bytes, read_ptr, main, received>>
  BY DEF PushByte
<1>2. /\ Linear /\ Stored /\ Parsing /\ Parsed
      /\ bytes \in Nat /\ bytes <= Slots
      /\ buf \in [Index -> Bytes] /\ write_ptr \in Index /\ read_ptr \in Index
      /\ jack \in [pc : {"idle", "push", "dropped"}, pos : Nat]
      /\ Len(sent) \in Nat
  BY <1>1 DEF Unwrapped, IInv, TypeOK
<1>3. p \in 1 .. Len(m) /\ m \in Seq(Kinds) /\ Len(m) \in Nat /\ m[1] # "data"
  BY <1>1, ShapesAssumption DEF IInv, Pushing, TypeOK, Last
<1>4. ReadSpace' = ReadSpace + 1 /\ ReadSpace \in Index
  BY <1>1, <1>2, PushMovesSpace, ReadSpaceRange
<1>5. /\ Unpushed = Len(m) - p + 1
      /\ Unpushed' = Len(m) - p
  <2>1. Last(sent') = m
    BY <1>1
  <2> HIDE DEF m
  <2>2. CASE p = Len(m)
    <3>1. jack'.pos = 0
      BY <1>1, <2>2
    <3> QED
      BY <1>1, <1>3, <2>1, <2>2, <3>1 DEF Unpushed, m
  <2>3. CASE p # Len(m)
    <3>1. jack'.pc = "push" /\ jack'.pos = p + 1
      BY <1>1, <1>2, <2>3
    <3> QED
      BY <1>1, <1>3, <2>1, <3>1 DEF Unpushed, m
  <2> QED BY <2>2, <2>3
<1>6. /\ Pushed' = Pushed + 1 /\ Taken' = Taken
      /\ Pushed \in Nat /\ Taken \in Nat /\ Pushed < Slots
  <2>1. Unpushed \in Nat \ {0} /\ Unpushed' = Unpushed - 1
    <3> HIDE DEF m, p
    <3> QED
      BY <1>3, <1>5
  <2>2. Pushed = bytes - Unpushed /\ Pushed' = bytes - (Unpushed - 1)
    BY <1>1, <2>1 DEF Pushed
  <2>3. Taken = Pushed - ReadSpace /\ Taken' = Pushed' - (ReadSpace + 1)
    BY <1>4 DEF Taken
  <2>4. Pushed \in Nat /\ Taken \in Nat
    BY <1>2 DEF Linear
  <2> QED
    BY <1>2, <1>4, <2>1, <2>2, <2>3, <2>4 DEF Index
<1>7. write_ptr = Pushed /\ write_ptr' = At(Pushed + 1)
  <2>1. write_ptr = Pushed
    BY <1>2, <1>6 DEF Linear, At
  <2>2. Moved(At(Pushed), 1) = At(Pushed + 1)
    BY <1>6, MovedPlace
  <2> QED
    BY <1>1, <1>6, <2>1, <2>2 DEF At
<1>8. Linear'
  BY <1>1, <1>2, <1>6, <1>7 DEF Linear, At
<1>9. /\ Pushed \in Index /\ buf'[Pushed] = byte
      /\ \A i \in Index : i # Pushed => buf'[i] = buf[i]
  BY <1>1, <1>2, <1>6, <1>7 DEF Index
<1>10. \A i \in Index : i \in Nat /\ buf[i].msg \in Nat /\ buf[i].pos \in Nat
  BY <1>2 DEF Index, Bytes
<1>11. byte.msg = Len(sent) /\ byte.pos = p /\ byte.kind = m[p]
  OBVIOUS
<1>12. jack'.pc = "push" => jack'.pos = p + 1
  BY <1>1, <1>2
<1> HIDE DEF byte, m, p
<1>13. Stored'
  <2>1. ASSUME NEW i \in Index, i < Pushed' 
        PROVE  /\ buf'[i].msg <= Len(sent')
               /\ jack'.pc = "push" /\ buf'[i].msg = Len(sent') => buf'[i].pos < jack'.pos
    <3>1. CASE i = Pushed
      BY <1>1, <1>2, <1>3, <1>9, <1>11, <1>12, <3>1 
    <3>2. CASE i # Pushed
      <4>1. i < Pushed /\ buf'[i] = buf[i]
        BY <1>6, <1>9, <1>10, <2>1, <3>2
      <4>2. buf[i].msg <= Len(sent) /\ (buf[i].msg = Len(sent) => buf[i].pos < p)
        BY <1>1, <1>2, <4>1 DEF Stored, p
      <4> QED
        BY <1>1, <1>3, <1>10, <1>12, <4>1, <4>2
    <3> QED BY <3>1, <3>2
  <2>2. ASSUME NEW i \in Index, NEW j \in Index, i < j, j < Pushed'
        PROVE  Older(buf'[i], buf'[j])
    <3>1. i < Pushed /\ buf'[i] = buf[i]
      <4>1. i \in Nat /\ j \in Nat /\ i < Pushed /\ i # Pushed
        BY <1>6, <1>10, <2>2
      <4> QED
        BY <1>9, <4>1
    <3>2. CASE j = Pushed
      <4>1. buf[i].msg <= Len(sent) /\ (buf[i].msg = Len(sent) => buf[i].pos < p)
        BY <1>1, <1>2, <3>1 DEF Stored, p
      <4> QED
        BY <1>2, <1>9, <1>10, <1>11, <3>1, <3>2, <4>1 DEF Older
    <3>3. CASE j # Pushed
      <4>1. j < Pushed /\ buf'[j] = buf[j]
        BY <1>6, <1>9, <1>10, <2>2, <3>3
      <4> QED
        BY <1>2, <2>2, <3>1, <4>1 DEF Stored
    <3> QED BY <3>2, <3>3
  <2>3. ASSUME NEW i \in Index, NEW j \in Index, j = i + 1, j < Pushed'
        PROVE  Continues(buf'[i], buf'[j])
    <3>1. i < Pushed /\ buf'[i] = buf[i]
      BY <1>6, <1>9, <1>10, <2>3
    <3>2. CASE j = Pushed
      <4>1. CASE p = 1
        BY <1>3, <1>9, <1>11, <3>2, <4>1 DEF Continues, IsStatus
      <4>2. CASE p # 1
        <5>1. i = Pushed - 1 /\ p > 1
          BY <1>3, <1>6, <1>10, <2>3, <3>2, <4>2
        <5>2. buf[i].msg = Len(sent) /\ buf[i].pos = p - 1
          BY <1>1, <1>2, <5>1 DEF Stored, p
        <5> QED
          BY <1>3, <1>9, <1>11, <3>1, <3>2, <5>2 DEF Continues
      <4> QED BY <4>1, <4>2
    <3>3. CASE j # Pushed
      <4>1. j < Pushed /\ buf'[j] = buf[j]
        BY <1>6, <1>9, <1>10, <2>3, <3>3
      <4> QED
        BY <1>2, <2>3, <3>1, <4>1 DEF Stored
    <3> QED BY <3>2, <3>3
  <2>4. ASSUME jack'.pc = "push", jack'.pos > 1
        PROVE  \E i \in Index : /\ i = Pushed' - 1
                                /\ buf'[i].msg = Len(sent') /\ buf'[i].pos = jack'.pos - 1
    <3>1. Pushed = Pushed' - 1 /\ p = jack'.pos - 1
      BY <1>3, <1>6, <1>12, <2>4
    <3> QED
      BY <1>1, <1>9, <1>11, <3>1
  <2> QED
    BY <2>1, <2>2, <2>3, <2>4 DEF Stored
<1>14. ASSUME NEW s \in Index, s < Pushed PROVE buf'[s] = buf[s]
  BY <1>6, <1>9, <1>10, <1>14
<1>15. /\ main.off \in Nat /\ Taken <= Pushed
       /\ main.pc # "idle" => Taken + main.off <= Pushed
  <2>1. main.off \in Nat /\ ReadSpace \in Nat
    BY <1>4 DEF IInv, TypeOK, Index
  <2>2. main.pc # "idle" => main.off <= ReadSpace
    BY BehindTheWrites DEF NeverPastWritePtr
  <2>3. Taken = Pushed - ReadSpace
    BY DEF Taken
  <2>4. Pushed \in Nat
    BY <1>6
  <2> HIDE DEF ReadSpace, Taken, Pushed
  <2> QED
    BY <2>1, <2>2, <2>3, <2>4
<1>16. Parsing'
  <2> DEFINE e == main.event
  <2>1. CASE main.pc = "idle"
    BY <1>1, <1>2, <2>1 DEF Parsing, IsRun
  <2>2. CASE main.pc # "idle"
    <3>1. Taken + main.off <= Pushed
      BY <1>15, <2>2
    <3>2. ASSUME NEW s \in Index, s < Taken + main.off PROVE buf'[s] = buf[s]
      <4>1. s \in Nat
        BY <1>10
      <4>2. s < Pushed
        BY <1>6, <1>15, <3>1, <3>2, <4>1
      <4> QED
        BY <1>14, <4>2
    <3>3. ASSUME e.status # NoByte
          PROVE  \E s \in Index : Taken <= s /\ s < Taken + main.off /\ e.status = buf'[s]
      BY <1>2, <3>2, <3>3 DEF Parsing
    <3>4. ASSUME main.pc = "data"
          PROVE  \E i \in Index : /\ i = Taken + main.off - 1
                                  /\ buf'[i].msg = e.status.msg
                                  /\ buf'[i].pos = e.status.pos + Len(e.data)
      <4>1. PICK i \in Index : /\ i = Taken + main.off - 1
                               /\ buf[i].msg = e.status.msg
                               /\ buf[i].pos = e.status.pos + Len(e.data)
        BY <1>2, <3>4 DEF Parsing
      <4>2. buf'[i] = buf[i]
        <5>1. i < Taken + main.off
          BY <1>6, <1>15, <4>1
        <5> QED
          BY <3>2, <5>1
      <4> QED
        BY <4>1, <4>2
    <3> QED
      BY <1>1, <1>2, <1>6, <2>2, <3>3, <3>4 DEF Parsing
  <2> QED BY <2>1, <2>2
<1>17. Parsed'
  <2>1. ASSUME NEW s \in Index, s < Taken PROVE buf'[s] = buf[s]
    <3>1. s \in Nat
      BY <1>10
    <3>2. s < Pushed
      BY <1>6, <1>15, <2>1, <3>1
    <3> QED
      BY <1>14, <3>2
  <2> QED
    BY <1>1, <1>2, <1>6, <2>1 DEF Parsed
<1> QED
  BY <1>8, <1>13, <1>16, <1>17

(* ... or none any more.                                                   *)
LEMMA CallbackFailsKeepsRuns ==
  ASSUME IInv, Unwrapped, CallbackFails
  PROVE  Unwrapped'
<1>1. /\ jack.pc # "dropped" /\ jack'.pc = "dropped" /\ jack'.pos = jack.pos
      /\ UNCHANGED <<sent, bytes, buf, write_ptr, read_ptr, main, received>>
  BY DEF CallbackFails, IInv, TypeOK
<1>2. Pushed' = Pushed /\ Taken' = Taken
  BY <1>1 DEF Unpushed, Pushed, Taken, ReadSpace
<1> QED
  BY <1>1, <1>2 DEF Unwrapped, Linear, At, Stored, Parsing, Parsed

-----------------------------------------------------------------------------
(* While it parses, the main thread touches nothing but the event.         *)
LEMMA ParsingMoves ==
  ASSUME Unwrapped, UNCHANGED <<sent, bytes, buf, write_ptr, read_ptr, jack, received>>,
         bytes <= Slots => Parsing'
  PROVE  Unwrapped'
<1>1. Pushed' = Pushed /\ Taken' = Taken
  BY DEF Unpushed, Pushed, Taken, ReadSpace
<1> QED
  BY <1>1 DEF Unwrapped, Linear, At, Stored, Parsed

(* The main thread: it looks at the ring, ...                              *)
LEMMA TakesKeepRuns ==
  ASSUME IInv, Unwrapped, TakeBegin \/ TakeEnd
  PROVE  Unwrapped'
<1>1. /\ main'.event = main.event \/ main'.event = [status |-> NoByte, data |-> <<>>]
      /\ main.pc \in {"idle", "end"} /\ main'.pc \in {"end", "skip"}
      /\ UNCHANGED <<sent, bytes, buf, write_ptr, read_ptr, jack, received>>
  BY DEF TakeBegin, TakeEnd, Idle, IInv, TypeOK
<1>2. ASSUME bytes <= Slots PROVE Parsing'
  <2>1. main.event.status = NoByte /\ main.event.data = <<>>
    BY <1>1, <1>2 DEF Unwrapped, Parsing
  <2>2. main'.event.status = NoByte /\ main'.event.data = <<>>
    BY <1>1, <2>1
  <2> QED
    BY <1>1, <2>2 DEF Parsing, IsRun
<1> QED
  BY <1>1, <1>2, ParsingMoves

(* ... looks for a status byte, ...                                        *)
LEMMA SkipKeepsRuns ==
  ASSUME IInv, Unwrapped, Skip
  PROVE  Unwrapped'
<1>1. /\ main.pc = "skip"
      /\ UNCHANGED <<sent, bytes, buf, write_ptr, read_ptr, jack, received>>
  BY DEF Skip
<1>2. main \in Place
  BY DEF IInv, TypeOK, Place
<1>3. ASSUME bytes <= Slots PROVE Parsing'
  <2>1. Parsing /\ Linear
    BY <1>3 DEF Unwrapped
  <2>2. main.event.status = NoByte /\ main.event.data = <<>>
    BY <1>1, <2>1 DEF Parsing
  <2>3. CASE AtEnd \/ AtData
    <3>1. main'.pc \in {"skip", "advance"} /\ main'.event = main.event
      BY <1>1, <1>2, <2>3 DEF Skip, Step, NoStatus, AtData, Place
    <3> QED
      BY <2>2, <3>1 DEF Parsing, IsRun
  <2>4. CASE ~AtEnd /\ ~AtData
    <3> DEFINE s == Taken + main.off
               b == ByteAt(main.off)
    <3>1. \E pc \in {"rest", "data"} :
            main' = [main EXCEPT !.pc = pc, !.off = @ + 1, !.event.status = b]
      BY <2>4 DEF Skip
    <3>2. /\ main'.pc \in {"rest", "data"} /\ main'.off = main.off + 1
          /\ main'.event.status = b /\ main'.event.data = <<>>
      BY <1>2, <2>2, <3>1 DEF Place
    <3>3. s \in Index /\ b = buf[s] /\ b \in Bytes /\ Taken \in Nat
      BY <1>1, <1>3, <2>1, <2>4, ReadsInPlace, PushedWithin DEF Linear
    <3>4. Taken' = Taken /\ buf' = buf
      BY <1>1 DEF Unpushed, Pushed, Taken, ReadSpace
    <3>5. Taken <= s /\ s < Taken + main'.off /\ s = Taken + main'.off - 1
      BY <1>2, <3>2, <3>3 DEF Place, Index
    <3>6. b.pos + Len(main'.event.data) = b.pos
      BY <3>2, <3>3 DEF Bytes
    <3>7. IsRun(main'.event)
      BY <3>2 DEF IsRun
    <3> HIDE DEF s, b
    <3> QED
      BY <3>2, <3>3, <3>4, <3>5, <3>6, <3>7 DEF Parsing
  <2> QED
    BY <2>3, <2>4
<1> QED
  BY <1>1, <1>3, ParsingMoves

(* ... stores the data bytes that follow it, ...                           *)
LEMMA StoreDataKeepsRuns ==
  ASSUME IInv, Unwrapped, StoreData
  PROVE  Unwrapped'
<1>1. /\ main.pc = "data"
      /\ UNCHANGED <<sent, bytes, buf, write_ptr, read_ptr, jack, received>>
  BY DEF StoreData
<1>2. main \in Place
  BY DEF IInv, TypeOK, Place
<1>3. Taken' = Taken /\ buf' = buf
  BY <1>1 DEF Unpushed, Pushed, Taken, ReadSpace
<1>4. ASSUME bytes <= Slots PROVE Parsing'
  <2>1. Parsing /\ Linear /\ Stored
    BY <1>4 DEF Unwrapped
  <2>2. CASE Len(main.event.data) < 2 /\ AtData
    <3> DEFINE e == main.event
               s == Taken + main.off
               b == ByteAt(main.off)
               n == Len(e.data)
    <3>1. main' = [main EXCEPT !.event.data = Append(@, b), !.off = @ + 1]
      BY <2>2 DEF StoreData
    <3>2. /\ main'.pc = "data" /\ main'.off = main.off + 1
          /\ main'.event.status = e.status /\ main'.event.data = Append(e.data, b)
      BY <1>1, <1>2, <3>1 DEF Place
    <3>3. s \in Index /\ s < Pushed /\ b = buf[s] /\ b \in Bytes /\ Taken \in Nat
      BY <1>1, <1>4, <2>1, <2>2, ReadsInPlace, PushedWithin DEF Linear, AtData
    <3>4. PICK i \in Index : /\ i = Taken + main.off - 1
                             /\ buf[i].msg = e.status.msg
                             /\ buf[i].pos = e.status.pos + n
      BY <1>1, <2>1 DEF Parsing
    <3>5. s = i + 1
      BY <1>2, <3>3, <3>4 DEF Place, Index
    <3>6. b.msg = e.status.msg /\ b.pos = e.status.pos + (n + 1)
      <4>1. Continues(buf[i], b)
        BY <2>1, <3>3, <3>5 DEF Stored
      <4>2. b.msg = buf[i].msg /\ b.pos = buf[i].pos + 1
        BY <2>2, <4>1 DEF Continues, AtData
      <4>3. e.status.pos \in Nat /\ n \in Nat
        BY <1>2 DEF Place, Bytes
      <4> QED
        BY <3>4, <4>2, <4>3
    <3>7. e.data \in Seq(Bytes) /\ n \in Nat /\ Len(main'.event.data) = n + 1
      BY <1>2, <3>2, <3>3 DEF Place
    <3>8. IsRun(main'.event)
      <4>1. IsRun(e)
        BY <2>1 DEF Parsing
      <4>2. ASSUME NEW k \in 1 .. Len(main'.event.data)
            PROVE  /\ main'.event.data[k].msg = e.status.msg
                   /\ main'.event.data[k].pos = e.status.pos + k
        <5>1. CASE k = n + 1
          BY <3>2, <3>6, <3>7, <5>1
        <5>2. CASE k # n + 1
          <6>1. k \in 1 .. n /\ main'.event.data[k] = e.data[k]
            BY <3>2, <3>3, <3>7, <5>2
          <6> QED
            BY <4>1, <6>1 DEF IsRun
        <5> QED
          BY <5>1, <5>2
      <4> QED
        BY <3>2, <4>2 DEF IsRun
    <3>9. ASSUME e.status # NoByte
          PROVE  \E t \in Index : /\ Taken' <= t /\ t < Taken' + main'.off
                                  /\ main'.event.status = buf'[t]
      <4>1. PICK t \in Index : Taken <= t /\ t < Taken + main.off /\ e.status = buf[t]
        BY <2>1, <3>9 DEF Parsing
      <4>2. t < Taken + main'.off
        BY <1>2, <3>2, <3>3, <4>1 DEF Place, Index
      <4> QED
        BY <1>3, <3>2, <4>1, <4>2
    <3>10. s = Taken + main'.off - 1
      BY <1>2, <3>2, <3>3 DEF Place, Index
    <3> HIDE DEF s, b, n
    <3> QED
      BY <1>3, <3>2, <3>3, <3>6, <3>7, <3>8, <3>9, <3>10 DEF Parsing
  <2>3. CASE ~(Len(main.event.data) < 2 /\ AtData)
    <3>1. main'.pc = "rest" /\ main'.off = main.off /\ main'.event = main.event
      BY <1>2, <2>3 DEF StoreData, Place
    <3> QED
      BY <1>3, <2>1, <3>1 DEF Parsing
  <2> QED
    BY <2>2, <2>3
<1> QED
  BY <1>1, <1>4, ParsingMoves

(* ... skips the ones it has no room for, ...                              *)
LEMMA SkipRestKeepsRuns ==
  ASSUME IInv, Unwrapped, SkipRest
  PROVE  Unwrapped'
<1>1. /\ main.pc = "rest"
      /\ UNCHANGED <<sent, bytes, buf, write_ptr, read_ptr, jack, received>>
  BY DEF SkipRest
<1>2. main \in Place
  BY DEF IInv, TypeOK, Place
<1>3. Taken' = Taken /\ buf' = buf
  BY <1>1 DEF Unpushed, Pushed, Taken, ReadSpace
<1>4. /\ main'.pc \in {"rest", "advance"} /\ main'.event = main.event
      /\ main'.off \in {main.off, main.off + 1}
  BY <1>1, <1>2 DEF SkipRest, Step, Place
<1>5. ASSUME bytes <= Slots PROVE Parsing'
  <2>1. Parsing /\ Taken \in Nat
    BY <1>5 DEF Unwrapped, Linear
  <2>2. ASSUME main.event.status # NoByte
        PROVE  \E t \in Index : /\ Taken' <= t /\ t < Taken' + main'.off
                                /\ main'.event.status = buf'[t]
    <3>1. PICK t \in Index : Taken <= t /\ t < Taken + main.off /\ main.event.status = buf[t]
      BY <2>1, <2>2 DEF Parsing
    <3>2. t < Taken + main'.off
      BY <1>2, <1>4, <2>1, <3>1 DEF Place, Index
    <3> QED
      BY <1>3, <1>4, <3>1, <3>2
  <2> QED
    BY <1>4, <2>1, <2>2 DEF Parsing
<1> QED
  BY <1>1, <1>5, ParsingMoves

(* ... and hands over the event, whose bytes are taken from the ring then: *)
(* the ones before it were taken with the events before it.                *)
LEMMA AdvanceKeepsRuns ==
  ASSUME IInv, Unwrapped, Advance
  PROVE  Unwrapped'
<1> DEFINE e == main.event
           n == Len(received)
<1> SUFFICES ASSUME bytes <= Slots PROVE Linear' /\ Stored' /\ Parsing' /\ Parsed'
  BY DEF Advance, Unwrapped
<1>1. /\ main.pc = "advance" /\ main' = Idle
      /\ read_ptr' = Moved(read_ptr, main.off) /\ received' = Append(received, e)
      /\ UNCHANGED <<sent, bytes, buf, write_ptr, jack>>
  BY DEF Advance
<1>2. /\ Linear /\ Stored /\ Parsing /\ Parsed
      /\ main.off \in Index /\ write_ptr \in Index /\ read_ptr \in Index
      /\ received \in Seq([status : Bytes, data : Seq(Bytes)])
      /\ e \in [status : Bytes, data : Seq(Bytes)]
  BY DEF Unwrapped, IInv, TypeOK
<1>3. main.off <= ReadSpace /\ ReadSpace \in Index
  BY <1>1, <1>2, BehindTheWrites, ReadSpaceRange DEF NeverPastWritePtr
<1>4. ReadSpace' = ReadSpace - main.off
  BY <1>1, <1>2, <1>3, MoveTakesSpace
<1>5. Pushed' = Pushed
  BY <1>1 DEF Unpushed, Pushed
<1>6. Pushed \in Nat /\ Taken \in Nat /\ Taken = Pushed - ReadSpace
  BY <1>2 DEF Linear, Taken
<1>7. Taken' = Taken + main.off /\ Taken + main.off <= Pushed /\ Pushed <= Slots
  <2>1. Taken' = Pushed' - ReadSpace'
    BY DEF Taken
  <2> QED
    BY <1>2, <1>3, <1>4, <1>5, <1>6, <2>1, PushedWithin DEF Index
<1>8. Linear'
  <2>1. read_ptr' = At(Taken + main.off)
    BY <1>1, <1>2, <1>6, <1>7, MovedPlace DEF Linear, Index
  <2> QED
    BY <1>1, <1>2, <1>5, <1>6, <1>7, <2>1 DEF Linear, At, Index
<1>9. Stored'
  BY <1>1, <1>2, <1>5 DEF Stored
<1>10. Parsing'
  BY <1>1 DEF Parsing, Idle, IsRun
<1>11. Parsed'
  <2>1. n \in Nat /\ Len(received') = n + 1
    BY <1>1, <1>2
  <2>2. \A i \in 1 .. Len(received') : \/ i \in 1 .. n /\ received'[i] = received[i]
                                       \/ i = n + 1 /\ received'[i] = e
    BY <1>1, <1>2, <2>1
  <2>3. \A s \in Index : s \in Nat
    BY DEF Index
  <2>4. ASSUME NEW i \in 1 .. n, received[i].status # NoByte
        PROVE  \E s \in Index : s < Taken /\ received[i].status = buf[s]
    BY <1>2, <2>4 DEF Parsed
  <2>5. ASSUME e.status # NoByte
        PROVE  \E s \in Index : Taken <= s /\ s < Taken + main.off /\ e.status = buf[s]
    BY <1>2, <2>5 DEF Parsing
  <2>6. ASSUME NEW i \in 1 .. n, received[i].status # NoByte, e.status # NoByte
        PROVE  Older(received[i].status, e.status)
    <3>1. PICK s \in Index : s < Taken /\ received[i].status = buf[s]
      BY <2>4, <2>6
    <3>2. PICK t \in Index : Taken <= t /\ t < Taken + main.off /\ e.status = buf[t]
      BY <2>5, <2>6
    <3>3. s < t /\ t < Pushed
      BY <1>2, <1>6, <1>7, <2>3, <3>1, <3>2 DEF Index
    <3> QED
      BY <1>2, <3>1, <3>2, <3>3 DEF Stored
  <2>7. ASSUME NEW i \in 1 .. Len(received')
        PROVE  /\ IsRun(received'[i])
               /\ received'[i].status # NoByte =>
                    \E s \in Index : s < Taken' /\ received'[i].status = buf'[s]
    <3>1. CASE i \in 1 .. n /\ received'[i] = received[i]
      <4>1. IsRun(received[i])
        BY <1>2, <3>1 DEF Parsed
      <4>2. \A s \in Index : s < Taken => s < Taken'
        BY <1>2, <1>6, <1>7, <2>3 DEF Index
      <4> QED
        BY <1>1, <2>4, <3>1, <4>1, <4>2
    <3>2. CASE i = n + 1 /\ received'[i] = e
      <4>1. IsRun(e)
        BY <1>2 DEF Parsing
      <4> QED
        BY <1>1, <1>7, <2>5, <3>2, <4>1
    <3> QED
      BY <2>2, <2>7, <3>1, <3>2
  <2>8. ASSUME NEW i \in 1 .. Len(received'), NEW j \in 1 .. Len(received'), i < j,
               received'[i].status # NoByte, received'[j].status # NoByte
        PROVE  Older(received'[i].status, received'[j].status)
    <3>1. i \in 1 .. n /\ received'[i] = received[i]
      BY <2>1, <2>2, <2>8
    <3>2. CASE j \in 1 .. n /\ received'[j] = received[j]
      BY <1>2, <2>8, <3>1, <3>2 DEF Parsed
    <3>3. CASE received'[j] = e
      BY <2>6, <2>8, <3>1, <3>3
    <3> QED
      BY <2>2, <3>2, <3>3
  <2> QED
    BY <2>7, <2>8 DEF Parsed
<1> QED
  BY <1>8, <1>9, <1>10, <1>11

-----------------------------------------------------------------------------
(* The ring and the events stay in order as long as it does not wrap.      *)
THEOREM RunsInvariance == Spec => []RunInv
<1>1. Init => Unwrapped
  <2> SUFFICES ASSUME Init PROVE Linear /\ Stored /\ Parsing /\ Parsed
    BY DEF Unwrapped
  <2>1. Pushed = 0 /\ Taken = 0 /\ At(0) = 0
    BY DEF Init, Unpushed, Pushed, Taken, ReadSpace, At
  <2>2. Linear /\ Parsing /\ Parsed
    BY <2>1 DEF Init, Idle, Linear, Parsing, IsRun, Parsed
  <2>3. Stored
    BY <2>1 DEF Init, Stored, Index
  <2> QED
    BY <2>2, <2>3
<1>2. IInv /\ Unwrapped /\ [Next]_vars => Unwrapped'
  <2> SUFFICES ASSUME IInv, Unwrapped, [Next]_vars PROVE Unwrapped'
    OBVIOUS
  <2>1. CASE JackNext
    BY <2>1, NextMessageKeepsRuns, PushByteKeepsRuns, CallbackFailsKeepsRuns DEF JackNext
  <2>2. CASE MainNext
    BY <2>2, TakesKeepRuns, SkipKeepsRuns, StoreDataKeepsRuns, SkipRestKeepsRuns,
       AdvanceKeepsRuns DEF MainNext
  <2>3. CASE UNCHANGED vars
    <3>1. UNCHANGED <<sent, bytes, buf, write_ptr, read_ptr, jack, received>> /\ main' = main
      BY <2>3 DEF vars
    <3>2. Taken' = Taken
      BY <3>1 DEF Unpushed, Pushed, Taken, ReadSpace
    <3>3. bytes <= Slots => Parsing'
      BY <3>1, <3>2 DEF Unwrapped, Parsing
    <3> QED
      BY <3>1, <3>3, ParsingMoves
  <2> QED
    BY <2>1, <2>2, <2>3 DEF Next
<1>3. IInv /\ Unwrapped <=> RunInv
  BY DEF RunInv
<1> QED
  BY Invariance, <1>1, <1>2, <1>3, PTL DEF Spec

(* The events are cut from the host's messages in order, and each is a run *)
(* of consecutive bytes of one message, however the callback's pushes fall *)
(* between the steps of operator>>, as long as the storage has not wrapped *)
(* (after which operator* reads the wrong bytes).                          *)
THEOREM EventsAreCutInOrder == Spec => []EventsAreRuns
<1>1. RunInv => EventsAreRuns
  <2> SUFFICES ASSUME RunInv, bytes <= Slots
               PROVE  /\ \A i \in 1 .. Len(received) :
                           LET e == EventBytes(received[i])
                           IN  \A k \in 1 .. Len(e) :
                                 e[k] = [e[k] EXCEPT !.msg = e[1].msg, !.pos = e[1].pos + k - 1]
                      /\ \A i, j \in 1 .. Len(received) :
                           LET e == received[i].status
                               f == received[j].status
                           IN  i < j /\ e # NoByte /\ f # NoByte => Older(e, f)
    BY DEF EventsAreRuns, Older
  <2> DEFINE Event == [status : Bytes, data : Seq(Bytes)]
  <2>1. Parsed /\ received \in Seq(Event)
    BY DEF RunInv, Unwrapped, IInv, TypeOK
  <2>2. ASSUME NEW i \in 1 .. Len(received), NEW k \in 1 .. Len(EventBytes(received[i]))
        PROVE  LET e == EventBytes(received[i])
               IN  e[k] = [e[k] EXCEPT !.msg = e[1].msg, !.pos = e[1].pos + k - 1]
    <3> DEFINE v == received[i]
               e == EventBytes(v)
    <3>1. v \in [status : Bytes, data : Seq(Bytes)] /\ IsRun(v)
      <4>1. IsRun(received[i])
        BY <2>1, <2>2 DEF Parsed
      <4>2. received[i] \in Event
        <5> HIDE DEF Event
        <5> QED
          BY <2>1, <2>2
      <4> QED
        BY <4>1, <4>2
    <3>2. e = <<v.status>> \o v.data
      <4>1. CASE v.status = NoByte
        <5>1. e = <<>>
          BY <4>1 DEF EventBytes
        <5> QED
          BY <2>2, <5>1
      <4>2. CASE v.status # NoByte
        BY <4>2 DEF EventBytes
      <4> QED
        BY <4>1, <4>2
    <3>0. k \in 1 .. Len(e)
      BY <2>2
    <3>3. /\ e[1] = v.status /\ k \in Nat /\ e[k] \in Bytes /\ v.status.pos \in Nat
          /\ k = 1 \/ (k - 1 \in 1 .. Len(v.data) /\ e[k] = v.data[k - 1])
      <4> HIDE DEF v, e
      <4>1. v.status \in Bytes /\ v.data \in Seq(Bytes) /\ v.status.pos \in Nat
        BY <3>1 DEF Bytes
      <4>2. k \in 1 .. Len(<<v.status>> \o v.data)
        BY <3>2, <3>0
      <4>3. /\ (<<v.status>> \o v.data)[1] = v.status
            /\ k = 1 \/ (/\ k - 1 \in 1 .. Len(v.data)
                         /\ (<<v.status>> \o v.data)[k] = v.data[k - 1])
            /\ (<<v.status>> \o v.data)[k] \in Bytes
        BY <4>1, <4>2
      <4> QED
        BY <3>2, <4>1, <4>2, <4>3
    <3>4. e[k].msg = e[1].msg /\ e[k].pos = e[1].pos + k - 1
      <4>1. CASE k = 1
        BY <3>3, <4>1
      <4>2. CASE k # 1
        BY <3>1, <3>3, <4>2 DEF IsRun
      <4> QED
        BY <4>1, <4>2
    <3> HIDE DEF v, e
    <3>5. e[k] = [e[k] EXCEPT !.msg = e[1].msg, !.pos = e[1].pos + k - 1]
      BY <3>3, <3>4 DEF Bytes
    <3> QED
      BY <3>5 DEF v, e
  <2> QED
    BY <2>1, <2>2 DEF Parsed
<1> QED
  BY RunsInvariance, <1>1, PTL
=============================================================================
