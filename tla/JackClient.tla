----------------------------- MODULE JackClient -----------------------------
(***************************************************************************)
(* The way of a MIDI event from the main thread of driver-osc to JACK      *)
(* (driver-osc/src/JackClient.cpp): push_event() writes events of three    *)
(* bytes into a libjack ringbuffer, and the process callback, once a       *)
(* cycle, reads as many bytes as it finds readable, three at a time.       *)
(*                                                                         *)
(* libjack copies in two parts at the end of the storage, and publishes    *)
(* the first part before it copies the second: there the callback may find *)
(* a part of an event.  It then returns 2, and JACK does not call it       *)
(* again.  A read is one step here: all that a second part of it could do  *)
(* is to delay the space it frees.                                         *)
(***************************************************************************)
EXTENDS Integers, Sequences

CONSTANTS Size,       \* bytes of storage, one of them unused (INPUT_BUF_SIZE: 256)
          PortEvents, \* events the port's buffer takes in one cycle
          Event,      \* the MIDI events
          NoEvent

ASSUME SizeAssumption == Size \in Nat /\ Size > 3 /\ Size % 3 = 1
ASSUME PortAssumption == PortEvents \in Nat \ {0}
ASSUME NoEventAssumption == NoEvent \notin Event

VARIABLES
  todo,        \* the events push_event() has yet to write
  pending,     \* bytes of the event being written that are not yet readable
  input_buf,   \* the readable bytes
  write_ptr,   \* the offset where the next byte goes
  cycle,       \* the callback: bytes it has yet to send, events written to the port
  last,        \* the last event read
  status       \* "running", "failed" (the callback), or "aborted" (the process)

clientVars == <<todo, pending, input_buf, write_ptr, cycle, last, status>>

Idle == [left |-> 0, written |-> 0]

ClientInit == /\ todo = <<>>
              /\ pending = <<>>
              /\ input_buf = <<>>
              /\ write_ptr = 0
              /\ cycle = Idle
              /\ last = NoEvent
              /\ status = "running"

(* A byte knows its event and its place in it.                             *)
Bytes(e) == <<<<e, 1>>, <<e, 2>>, <<e, 3>>>>

Smaller(m, n) == IF m < n THEN m ELSE n

(* The event three bytes make up; none if they are not one event's.         *)
EventOf(bytes) == IF bytes = Bytes(bytes[1][1]) THEN bytes[1][1] ELSE NoEvent

(* The bytes from the write pointer to the end of the storage.             *)
BytesToEnd == Size - write_ptr

-----------------------------------------------------------------------------
(* A variant that copies the events to the storage in the opposite order   *)
(* of its two parts.                                                       *)
WriteSwapped ==
  /\ status # "aborted" /\ pending = <<>> /\ todo # <<>>
  /\ LET n == Smaller(3, Size - 1 - Len(input_buf))
         first == Smaller(n, BytesToEnd)
     IN  /\ input_buf' = input_buf \o SubSeq(Bytes(Head(todo)), n - first + 1, n)
         /\ pending' = SubSeq(Bytes(Head(todo)), 1, n - first)
         /\ write_ptr' = (write_ptr + first) % Size
         /\ status' = IF n = 3 THEN status ELSE "aborted"
  /\ todo' = Tail(todo)
  /\ UNCHANGED <<cycle, last>>

(* A variant that uses the last byte of the storage too.                   *)
WriteFull ==
  /\ status # "aborted" /\ pending = <<>> /\ todo # <<>>
  /\ LET n == Smaller(3, Size - Len(input_buf))
         first == Smaller(n, BytesToEnd)
     IN  /\ input_buf' = input_buf \o SubSeq(Bytes(Head(todo)), 1, first)
         /\ pending' = SubSeq(Bytes(Head(todo)), first + 1, n)
         /\ write_ptr' = (write_ptr + first) % Size
         /\ status' = IF n = 3 THEN status ELSE "aborted"
  /\ todo' = Tail(todo)
  /\ UNCHANGED <<cycle, last>>

(* write_midi(): the space is looked up, the bytes up to the end of the    *)
(* storage are copied and published; fewer than three bytes of space meet  *)
(* the assertion.                                                          *)
Write ==
  /\ status # "aborted" /\ pending = <<>> /\ todo # <<>>
  /\ LET n == Smaller(3, Size - 1 - Len(input_buf))
         first == Smaller(n, BytesToEnd)
     IN  /\ input_buf' = input_buf \o SubSeq(Bytes(Head(todo)), 1, first)
         /\ pending' = SubSeq(Bytes(Head(todo)), first + 1, n)
         /\ write_ptr' = (write_ptr + first) % Size
         /\ status' = IF n = 3 THEN status ELSE "aborted"
  /\ todo' = Tail(todo)
  /\ UNCHANGED <<cycle, last>>

(* ... and the others, at the start of it.                                 *)
WriteRest ==
  /\ status # "aborted" /\ pending # <<>>
  /\ input_buf' = input_buf \o pending
  /\ write_ptr' = (write_ptr + Len(pending)) % Size
  /\ pending' = <<>>
  /\ UNCHANGED <<todo, cycle, last, status>>

(* A variant that takes the size of the storage for the readable bytes.    *)
BeginCycleAll ==
  /\ status = "running" /\ cycle.left = 0 /\ input_buf # <<>>
  /\ cycle' = [left |-> Size - 1, written |-> 0]
  /\ UNCHANGED <<todo, pending, input_buf, write_ptr, last, status>>

(* A variant that waits for a second event.                                *)
BeginCycleLate ==
  /\ status = "running" /\ cycle.left = 0 /\ Len(input_buf) > 3
  /\ cycle' = [left |-> Len(input_buf), written |-> 0]
  /\ UNCHANGED <<todo, pending, input_buf, write_ptr, last, status>>

(* process_cb(): with nothing to read it returns; otherwise it sends what  *)
(* is readable now.                                                        *)
BeginCycle ==
  /\ status = "running" /\ cycle.left = 0 /\ input_buf # <<>>
  /\ cycle' = [left |-> Len(input_buf), written |-> 0]
  /\ UNCHANGED <<todo, pending, input_buf, write_ptr, last, status>>

(* One round of its loop: three bytes are read, or as many as there are.   *)
(* A short read, or a port without space for the event, ends it with an    *)
(* error.                                                                  *)
SendEvent ==
  /\ status = "running" /\ cycle.left > 0
  /\ LET n == Smaller(3, Len(input_buf))
     IN  /\ input_buf' = SubSeq(input_buf, n + 1, Len(input_buf))
         /\ last' = IF n = 3 THEN EventOf(SubSeq(input_buf, 1, 3)) ELSE last
         /\ IF n = 3 /\ cycle.written < PortEvents
              THEN /\ cycle' = [left |-> IF cycle.left > 3 THEN cycle.left - 3 ELSE 0,
                                written |-> cycle.written + 1]
                   /\ UNCHANGED status
              ELSE status' = "failed" /\ cycle' = Idle
  /\ UNCHANGED <<todo, pending, write_ptr>>

Callback == BeginCycle \/ SendEvent

-----------------------------------------------------------------------------
ByteOf == Event \X (1 .. 3)

ClientTypeOK ==
  /\ todo \in Seq(Event)
  /\ pending \in Seq(ByteOf) /\ Len(pending) < 3
  /\ input_buf \in Seq(ByteOf) /\ Len(input_buf) < Size
  /\ write_ptr \in 0 .. Size - 1
  /\ cycle \in [left : 0 .. Size - 1, written : 0 .. PortEvents]
  /\ last \in Event \cup {NoEvent}
  /\ status \in {"running", "failed", "aborted"}

(* The bytes that are missing of the event the queue begins in: none, but  *)
(* for a callback that failed in it.                                       *)
Torn == IF input_buf = <<>> THEN 0 ELSE input_buf[1][2] - 1

(* The events whose last byte is readable.                                 *)
Queued == [k \in 1 .. (Len(input_buf) + Torn) \div 3 |-> input_buf[3 * k - Torn][1]]

(* The bytes are a queue of whole events: what is read was pushed, and is  *)
(* read whole, once and in order, with the storage wrapping anywhere in an *)
(* event and a cycle beginning anywhere in a write.  A callback that meets *)
(* a part of an event ends, and does not make another event of it.         *)
Channel == INSTANCE BoundedFifo
             WITH Value <- Event, NoValue <- NoEvent, Capacity <- (Size - 1) \div 3,
                  queue <- Queued, popped <- last,
                  pushed <- IF Queued = <<>> /\ last = NoEvent THEN "none" ELSE "ok"
ImplementsChannel == Channel!FifoSpec

(* The callback ends for two reasons only: the other thread is between the *)
(* two parts of a write, or the port is full.  It never takes the queue    *)
(* for longer than it is.                                                  *)
FailsOnlyTorn ==
  [][(status = "running" /\ status' = "failed") =>
        pending # <<>> \/ cycle.written = PortEvents]_clientVars
=============================================================================
