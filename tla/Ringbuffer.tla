----------------------------- MODULE Ringbuffer -----------------------------
(***************************************************************************)
(* Ringbuffer<T> (driver/src/io/Ringbuffer.hpp) between one thread that    *)
(* pushes and one that pops: the input thread and the JACK thread for      *)
(* out_buf, the JACK thread and the main thread for in_buf.  There is no   *)
(* lock.  The wrapper adds the full() and empty() checks; the storage is   *)
(* libjack's jack_ringbuffer_t, which copies the element first and moves   *)
(* its own pointer afterwards.  Each access to a pointer or to a slot is a *)
(* step of its own here, so that every interleaving of the two is covered. *)
(*                                                                         *)
(* A slot stands for sizeof(T) bytes: both pointers only ever move by      *)
(* sizeof(T), which divides the power of two jack_ringbuffer_create()      *)
(* rounds up to (sizeof(T) is 1 or 4 here), so no element straddles the    *)
(* end of the storage.                                                     *)
(***************************************************************************)
EXTENDS Integers, Sequences

CONSTANTS Value,     \* the elements pushed
          NoValue,   \* contents of a slot nobody wrote, or no element
          Slots      \* the size of the storage, in elements

ASSUME SlotsAssumption == Slots \in Nat /\ Slots >= 2
ASSUME NoValueAssumption == NoValue \notin Value

VARIABLES buf,         \* the storage
          write_ptr,   \* moved by the pushing thread only
          read_ptr,    \* moved by the popping thread only
          producer,    \* where the pushing thread is in push(), and its v
          consumer,    \* where the popping thread is in pop(), and its d
          pushed,      \* how the last push() ended
          popped       \* what the last pop() returned

vars == <<buf, write_ptr, read_ptr, producer, consumer, pushed, popped>>

Index == 0 .. Slots - 1

(* jack_ringbuffer_read_space() and jack_ringbuffer_write_space(): one     *)
(* slot always stays unused, for a full storage would look empty.          *)
ReadSpace == IF write_ptr >= read_ptr THEN write_ptr - read_ptr
                                      ELSE write_ptr - read_ptr + Slots
WriteSpace == Slots - 1 - ReadSpace

(* A variant that forgets the mask.                                        *)
AdvanceUnmasked(p) == p + 1

(* A pointer moved by one element, masked to the size of the storage.      *)
Advance(p) == IF p = Slots - 1 THEN 0 ELSE p + 1

Empty == ReadSpace < 1

(* A variant that fills the last slot too.                                 *)
FullOffByOne == WriteSpace < 0

Full == WriteSpace < 1

Init == /\ buf = [i \in Index |-> NoValue]
        /\ write_ptr = 0
        /\ read_ptr = 0
        /\ producer = [pc |-> "idle", v |-> NoValue]
        /\ consumer = [pc |-> "idle", d |-> NoValue]
        /\ pushed = "none"
        /\ popped = NoValue

(* push(v), the check: full() reads both pointers.                         *)
PushThrows == /\ producer.pc = "idle"
              /\ Full
              /\ pushed' = "out_of_range"
              /\ UNCHANGED <<buf, write_ptr, read_ptr, producer, consumer, popped>>

PushCheck(v) == /\ producer.pc = "idle"
                /\ ~Full
                /\ producer' = [pc |-> "copy", v |-> v]
                /\ UNCHANGED <<buf, write_ptr, read_ptr, consumer, pushed, popped>>

(* jack_ringbuffer_write(): the copy into the storage ...                  *)
PushCopy == /\ producer.pc = "copy"
            /\ buf' = [buf EXCEPT ![write_ptr] = producer.v]
            /\ producer' = [producer EXCEPT !.pc = "advance"]
            /\ UNCHANGED <<write_ptr, read_ptr, consumer, pushed, popped>>

(* ... and only then the write pointer, which publishes the element.       *)
PushAdvance == /\ producer.pc = "advance"
               /\ write_ptr' = Advance(write_ptr)
               /\ producer' = [pc |-> "idle", v |-> NoValue]
               /\ pushed' = "ok"
               /\ UNCHANGED <<buf, read_ptr, consumer, popped>>

(* pop(), the check: empty() reads both pointers.                          *)
PopThrows == /\ consumer.pc = "idle"
             /\ Empty
             /\ popped' = NoValue
             /\ UNCHANGED <<buf, write_ptr, read_ptr, producer, consumer, pushed>>

(* A variant of pop() without its check.                                   *)
PopUnchecked == /\ consumer.pc = "idle"
                /\ consumer' = [consumer EXCEPT !.pc = "copy"]
                /\ UNCHANGED <<buf, write_ptr, read_ptr, producer, pushed, popped>>

PopCheck == /\ consumer.pc = "idle"
            /\ ~Empty
            /\ consumer' = [consumer EXCEPT !.pc = "copy"]
            /\ UNCHANGED <<buf, write_ptr, read_ptr, producer, pushed, popped>>

(* A variant that copies from the slot after the oldest one.               *)
PopCopyNext == /\ consumer.pc = "copy"
               /\ consumer' = [pc |-> "advance", d |-> buf[Advance(read_ptr)]]
               /\ UNCHANGED <<buf, write_ptr, read_ptr, producer, pushed, popped>>

(* jack_ringbuffer_read(): the copy out of the storage ...                 *)
PopCopy == /\ consumer.pc = "copy"
           /\ consumer' = [pc |-> "advance", d |-> buf[read_ptr]]
           /\ UNCHANGED <<buf, write_ptr, read_ptr, producer, pushed, popped>>

(* ... and only then the read pointer, which frees the slot.               *)
PopAdvance == /\ consumer.pc = "advance"
              /\ read_ptr' = Advance(read_ptr)
              /\ consumer' = [pc |-> "idle", d |-> NoValue]
              /\ popped' = consumer.d
              /\ UNCHANGED <<buf, write_ptr, producer, pushed>>

Producer == \/ PushThrows
            \/ \E v \in Value : PushCheck(v)
            \/ PushCopy
            \/ PushAdvance

Consumer == PopThrows \/ PopCheck \/ PopCopy \/ PopAdvance

Next == Producer \/ Consumer

Spec == Init /\ [][Next]_vars

-----------------------------------------------------------------------------
(* The type of every variable: the pointers stay inside the storage.       *)
TypeOK ==
  /\ buf \in [Index -> Value \cup {NoValue}]
  /\ write_ptr \in Index
  /\ read_ptr \in Index
  /\ producer \in [pc : {"idle", "copy", "advance"}, v : Value \cup {NoValue}]
  /\ consumer \in [pc : {"idle", "copy", "advance"}, d : Value \cup {NoValue}]
  /\ pushed \in {"none", "ok", "out_of_range"}
  /\ popped \in Value \cup {NoValue}

(* The slot that holds the i-th readable element, counting from 1.         *)
SlotOf(i) == IF read_ptr + i - 1 >= Slots THEN read_ptr + i - 1 - Slots
                                          ELSE read_ptr + i - 1

Queue == [i \in 1 .. ReadSpace |-> buf[SlotOf(i)]]

(* No data race on the storage: while the pushing thread copies into a     *)
(* slot, that slot is neither one the popping thread copies from nor one   *)
(* that holds an element it has yet to reach.                              *)
NoSharedSlot ==
  producer.pc \in {"copy", "advance"} =>
    /\ \A i \in 1 .. ReadSpace : SlotOf(i) # write_ptr
    /\ consumer.pc \in {"copy", "advance"} => read_ptr # write_ptr

(* What a thread relied on when it passed its check still holds when it    *)
(* acts on it, whatever the other one did in between: push() never finds   *)
(* less room than full() saw, so that the byte counts the code asserts     *)
(* after the copies (bytes_written == sizeof(T)) are right.                *)
CheckStillHolds ==
  /\ producer.pc \in {"copy", "advance"} => ~Full
  /\ consumer.pc \in {"copy", "advance"} => ~Empty

(* The strengthening that makes the safety properties inductive: a thread  *)
(* past its check still finds room (an element), and a thread past its     *)
(* copy holds the value that is in the slot it works on.                   *)
IInv ==
  /\ TypeOK
  /\ CheckStillHolds
  /\ producer.pc \in {"copy", "advance"} => producer.v \in Value
  /\ producer.pc = "advance" => buf[write_ptr] = producer.v
  /\ consumer.pc = "advance" => consumer.d = buf[read_ptr]
  /\ \A i \in 1 .. ReadSpace : buf[SlotOf(i)] \in Value

(* The two threads together implement the queue: each push() and pop()     *)
(* takes effect at one instant, in order, and nothing is lost, doubled or  *)
(* read half-written.  The capacity is Slots - 1.                          *)
Fifo == INSTANCE BoundedFifo WITH queue <- Queue, Capacity <- Slots - 1

ImplementsFifo == Fifo!FifoSpec
=============================================================================
