------------------------------- MODULE MidiIn -------------------------------
(***************************************************************************)
(* From a MIDI message of the host to the driver: the read callback of     *)
(* driver/src/io/JackWrapper.cpp, which pushes the bytes of each message   *)
(* one by one into in_buf, and operator>> of the same file, with which the *)
(* main thread parses one message out of in_buf, through the iterators of  *)
(* driver/src/io/RingbufferIterator.{hpp,cpp} and MidiEvent::parse().      *)
(*                                                                         *)
(* The two threads share the two pointers of the ring and nothing else.    *)
(* A push is one step (see module Ringbuffer); the parser's reads of the   *)
(* pointers and of each byte are steps of their own, since it reads the    *)
(* storage directly and moves the read pointer only at the end.            *)
(*                                                                         *)
(* A byte is its kind and, as a ghost, its origin: message msg, byte pos.  *)
(***************************************************************************)
EXTENDS Integers, SequencesExt

CONSTANTS Slots,      \* bytes of storage: IN_BUF_SIZE, 8192
          Shapes,     \* the messages the host may send, as sequences of kinds
          MaxBytes    \* bytes the host sends in all (bounds the model)

Kinds == {"status", "system", "data"}

ASSUME SlotsAssumption == Slots \in Nat /\ Slots >= 2
ASSUME MaxBytesAssumption == MaxBytes \in Nat
\* JACK hands over whole messages, which begin with a status byte.
ASSUME ShapesAssumption ==
  \A s \in Shapes : s \in Seq(Kinds) /\ s # <<>> /\ s[1] # "data"

(* A variant that forgets the mask of the ring.                            *)
MovedUnmasked(p, n) == p + n

(* A pointer moved by n bytes, masked to the size of the storage.          *)
Moved(p, n) == (p + n) % Slots

NoByte == [kind |-> "data", msg |-> 0, pos |-> 0]

VARIABLES sent,        \* the messages the host has sent
          bytes,       \* and how many bytes they are
          buf,         \* the storage of in_buf
          write_ptr,   \* moved by the JACK thread
          read_ptr,    \* moved by the main thread
          jack,        \* where the JACK thread is in the read callback
          main,        \* where the main thread is in operator>>
          received     \* the events parsed, oldest first

vars == <<sent, bytes, buf, write_ptr, read_ptr, jack, main, received>>

Index == 0 .. Slots - 1

ReadSpace == (write_ptr - read_ptr) % Slots
Full == Slots - 1 - ReadSpace < 1

Idle == [pc |-> "idle", off |-> 0, len |-> 0, end |-> 0,
         event |-> [status |-> NoByte, data |-> <<>>]]

Init == /\ sent = <<>>
        /\ bytes = 0
        /\ buf = [i \in Index |-> NoByte]
        /\ write_ptr = 0
        /\ read_ptr = 0
        /\ jack = [pc |-> "idle", pos |-> 0]
        /\ main = Idle
        /\ received = <<>>

-----------------------------------------------------------------------------
(* The JACK thread.  The outer loop of the read callback takes the next    *)
(* message of the cycle's buffer, ...                                      *)
NextMessage(m) ==
  /\ jack.pc = "idle"
  /\ bytes + Len(m) <= MaxBytes
  /\ sent' = Append(sent, m)
  /\ bytes' = bytes + Len(m)
  /\ jack' = [pc |-> "push", pos |-> 1]
  /\ UNCHANGED <<buf, write_ptr, read_ptr, main, received>>

(* ... the inner loop pushes its bytes, one at a time, ...                 *)
PushByte ==
  /\ jack.pc = "push"
  /\ ~Full
  /\ LET m == Last(sent)
     IN  /\ buf' = [buf EXCEPT ![write_ptr] =
                      [kind |-> m[jack.pos], msg |-> Len(sent), pos |-> jack.pos]]
         /\ jack' = IF jack.pos = Len(m) THEN [pc |-> "idle", pos |-> 0]
                                         ELSE [jack EXCEPT !.pos = @ + 1]
  /\ write_ptr' = Moved(write_ptr, 1)
  /\ UNCHANGED <<sent, bytes, read_ptr, main, received>>

(* ... and when a message cannot be had (jack_midi_event_get fails), or    *)
(* there is no room left for a byte, it returns 1, upon which JACK never   *)
(* calls the process callback again.                                       *)
CallbackFails ==
  /\ jack.pc = "idle" \/ (jack.pc = "push" /\ Full)
  /\ jack' = [jack EXCEPT !.pc = "dropped"]
  /\ UNCHANGED <<sent, bytes, buf, write_ptr, read_ptr, main, received>>

-----------------------------------------------------------------------------
(* The main thread.  read_bufsize() > 0, and `it' takes the read vector.   *)
TakeBegin ==
  /\ main.pc = "idle"
  /\ ReadSpace > 0
  /\ main' = [Idle EXCEPT !.pc = "end", !.len = ReadSpace]
  /\ UNCHANGED <<sent, bytes, buf, write_ptr, read_ptr, jack, received>>

(* `end' takes it again: one past the bytes that are readable by now.      *)
TakeEnd ==
  /\ main.pc = "end"
  /\ main' = [main EXCEPT !.pc = "skip", !.end = ReadSpace]
  /\ UNCHANGED <<sent, bytes, buf, write_ptr, read_ptr, jack, received>>

(* operator*: the bytes up to the end of the storage are the first part of *)
(* the read vector.  The second part starts at the beginning of the        *)
(* storage, but is indexed with the offset into the whole vector.          *)
ByteAt(off) == IF read_ptr + off < Slots THEN buf[read_ptr + off] ELSE buf[off]

(* Where the byte at that offset really is.                                *)
ByteThere(off) == buf[(read_ptr + off) % Slots]

(* raw_it != end: an iterator is at its end when it has used up its own    *)
(* read vector, and all iterators at their end are equal.                  *)
AtEnd == main.off = main.len

IsStatus(b) == b.kind # "data"

(* A variant that notices the end one byte late.                           *)
AtDataLate == main.off <= main.len /\ ~IsStatus(ByteAt(main.off))

(* The condition of the loops over data bytes: not at the end, and the     *)
(* byte here is no status byte.                                            *)
AtData == ~AtEnd /\ ~IsStatus(ByteAt(main.off))

Step(pc) == main' = [main EXCEPT !.pc = pc, !.off = @ + 1]

(* Nothing but data: parse() returns the default event and `end'.          *)
NoStatus == main' = [main EXCEPT !.pc = "advance", !.off = main.end]

(* parse(): data bytes before the first status byte are skipped.           *)
Skip ==
  /\ main.pc = "skip"
  /\ IF AtData THEN Step("skip")
     ELSE IF AtEnd THEN NoStatus
     ELSE LET b == ByteAt(main.off)
          IN  main' = [main EXCEPT !.pc = IF b.kind = "system" THEN "rest" ELSE "data",
                                        !.off = @ + 1,
                                        !.event.status = b]
  /\ UNCHANGED <<sent, bytes, buf, write_ptr, read_ptr, jack, received>>

(* A variant that stores any byte but one past the end.                    *)
StoreAnyByte ==
  /\ main.pc = "data"
  /\ IF Len(main.event.data) < 2 /\ ~AtEnd
       THEN main' = [main EXCEPT !.event.data = Append(@, ByteAt(main.off)),
                                 !.off = @ + 1]
       ELSE main' = [main EXCEPT !.pc = "rest"]
  /\ UNCHANGED <<sent, bytes, buf, write_ptr, read_ptr, jack, received>>

(* Up to two data bytes are stored, ...                                    *)
StoreData ==
  /\ main.pc = "data"
  /\ IF Len(main.event.data) < 2 /\ AtData
       THEN main' = [main EXCEPT !.event.data = Append(@, ByteAt(main.off)),
                                 !.off = @ + 1]
       ELSE main' = [main EXCEPT !.pc = "rest"]
  /\ UNCHANGED <<sent, bytes, buf, write_ptr, read_ptr, jack, received>>

(* ... and the data bytes after them skipped.                              *)
SkipRest ==
  /\ main.pc = "rest"
  /\ IF AtData
       THEN Step("rest")
       ELSE main' = [main EXCEPT !.pc = "advance"]
  /\ UNCHANGED <<sent, bytes, buf, write_ptr, read_ptr, jack, received>>

(* A variant that leaves the bytes it could make nothing of.               *)
AdvanceOverEvents ==
  /\ main.pc = "advance"
  /\ IF main.event.status = NoByte
       THEN UNCHANGED <<read_ptr, received>>
       ELSE /\ read_ptr' = Moved(read_ptr, main.off)
            /\ received' = Append(received, main.event)
  /\ main' = Idle
  /\ UNCHANGED <<sent, bytes, buf, write_ptr, jack>>

(* jack_ringbuffer_read_advance() by the distance from `it'.               *)
Advance ==
  /\ main.pc = "advance"
  /\ read_ptr' = Moved(read_ptr, main.off)
  /\ received' = Append(received, main.event)
  /\ main' = Idle
  /\ UNCHANGED <<sent, bytes, buf, write_ptr, jack>>

JackNext == (\E m \in Shapes : NextMessage(m)) \/ PushByte \/ CallbackFails
MainNext == TakeBegin \/ TakeEnd \/ Skip \/ StoreData \/ SkipRest \/ Advance

Next == JackNext \/ MainNext

(* The main loop never blocks for good: it polls every 50 ms.              *)
Spec == Init /\ [][Next]_vars /\ WF_vars(MainNext)

-----------------------------------------------------------------------------
Bytes == [kind : Kinds, msg : Nat, pos : Nat]

TypeOK ==
  /\ sent \in Seq(Shapes)
  /\ bytes \in Nat
  /\ buf \in [Index -> Bytes]
  /\ write_ptr \in Index
  /\ read_ptr \in Index
  /\ jack \in [pc : {"idle", "push", "dropped"}, pos : Nat]
  /\ main \in [pc : {"idle", "end", "skip", "data", "rest", "advance"},
               off : Index, len : Index, end : Index,
               event : [status : Bytes, data : Seq(Bytes)]]
  /\ received \in Seq([status : Bytes, data : Seq(Bytes)])

(* What operator>> is about to skip is still there to be skipped: the      *)
(* iterators of the main thread never run past the bytes that are          *)
(* readable, although the other thread moves the write pointer all the     *)
(* time.  Otherwise read_advance() would jump over the write pointer, and  *)
(* the ring would look nearly full of old bytes.                           *)
NeverPastWritePtr ==
  main.pc # "idle" => /\ main.off <= ReadSpace
                      /\ main.len <= ReadSpace
                      /\ main.end <= ReadSpace

EventBytes(e) == IF e.status = NoByte THEN <<>> ELSE <<e.status>> \o e.data

(* As long as the bytes have not wrapped around in the storage, the events *)
(* are cut from the messages in order: no byte is read twice, none is      *)
(* moved into another event, and an event holds a run of consecutive bytes *)
(* of one message.  (It need not hold all of them: what is pushed after    *)
(* `it' has looked is skipped.)                                            *)
EventsAreRuns == bytes <= Slots =>
  /\ \A i \in 1 .. Len(received) :
       LET e == EventBytes(received[i])
       IN  \A k \in 1 .. Len(e) : e[k] = [e[k] EXCEPT !.msg = e[1].msg,
                                                     !.pos = e[1].pos + k - 1]
  /\ \A i, j \in 1 .. Len(received) :
       LET e == received[i].status
           f == received[j].status
       IN  i < j /\ e # NoByte /\ f # NoByte =>
             e.msg < f.msg \/ (e.msg = f.msg /\ e.pos < f.pos)

(* What the host sends is used up in the end: the parser gets past any     *)
(* bytes, also those it can make nothing of.                               *)
InputDrains == []<>(ReadSpace = 0)

-----------------------------------------------------------------------------
(* operator*: "The byte at the current position".                          *)
ReadsTheByteThere ==
  main.pc \in {"skip", "data", "rest"} /\ ~AtEnd => ByteAt(main.off) = ByteThere(main.off)
=============================================================================
