--------------------------- MODULE OscInputProof ---------------------------
(***************************************************************************)
(* Proofs about OscInput and the queue of JackClient in it, for every size *)
(* of the storage, every capacity of the port and all positions of the     *)
(* controls: the bytes behave as a queue of events, and the host, the      *)
(* peers and the lights end with what the user did.                        *)
(***************************************************************************)
EXTENDS OscInput, F1ReportsProof

(* The bytes push_event() has taken on, readable or not yet.               *)
Stream == input_buf \o pending

(* How many bytes of the first event are missing: they have been read.     *)
Start == IF Stream = <<>> THEN 0 ELSE Stream[1][2] - 1

(* The bytes are those of whole events, one after the other, the first of  *)
(* them without its first o bytes.                                         *)
WholeFrom(bytes, o) == \A i \in 1 .. Len(bytes) :
  /\ bytes[i][2] = ((i - 1 + o) % 3) + 1
  /\ i < Len(bytes) /\ bytes[i][2] < 3 => bytes[i + 1][1] = bytes[i][1]

(* The stream is made of whole events.                                     *)
Wellformed == WholeFrom(Stream, Start)

(* The inductive invariant of the queue: its bytes are whole events, but   *)
(* for the end of the last when the process has been aborted in it and the *)
(* start of the first when the callback has failed in it; and a cycle      *)
(* sends no more than there is.                                            *)
ClientInv ==
  /\ ClientTypeOK
  /\ Wellformed
  /\ status # "aborted" => (Len(Stream) + Start) % 3 = 0
  /\ status = "running" => Start = 0 /\ cycle.left <= Len(input_buf)
  /\ Len(Stream) < Size

(* What the definitions above say, in the words of sequences.              *)
StreamView ==
  /\ Stream \in Seq(ByteOf)
  /\ Len(Stream) = Len(input_buf) + Len(pending)
  /\ Len(input_buf) \in Nat /\ Len(pending) \in Nat
  /\ \A i \in 1 .. Len(Stream) : Stream[i] =
       IF i <= Len(input_buf) THEN input_buf[i] ELSE pending[i - Len(input_buf)]
  /\ \A i \in 1 .. Len(Stream) : Stream[i] \in ByteOf
  /\ Start \in 0 .. 2
  /\ Stream # <<>> => Start = Stream[1][2] - 1
  /\ Len(Stream) = 0 <=> Stream = <<>>
  /\ Len(Stream) = 0 => Start = 0

(* The stream is the readable bytes and those that follow.                 *)
LEMMA StreamFacts == ClientTypeOK => StreamView
<1> SUFFICES ASSUME ClientTypeOK PROVE StreamView
  OBVIOUS
<1>1. input_buf \in Seq(ByteOf) /\ pending \in Seq(ByteOf)
  BY DEF ClientTypeOK
<1>2. /\ Stream \in Seq(ByteOf)
      /\ Len(Stream) = Len(input_buf) + Len(pending)
      /\ \A i \in 1 .. Len(Stream) : Stream[i] =
              IF i <= Len(input_buf) THEN input_buf[i] ELSE pending[i - Len(input_buf)]
  BY <1>1, ConcatProperties DEF Stream
<1>3. Len(input_buf) \in Nat /\ Len(pending) \in Nat
  BY <1>1, LenProperties
<1>4. \A i \in 1 .. Len(Stream) : Stream[i] \in ByteOf
  BY <1>2, ElementOfSeq
<1>5. Len(Stream) = 0 <=> Stream = <<>>
  BY <1>2, EmptySeq
<1>6. Start \in 0 .. 2 /\ (Stream # <<>> => Start = Stream[1][2] - 1)
  BY <1>2, <1>3, <1>4, <1>5 DEF Start, ByteOf
<1>7. Len(Stream) = 0 => Start = 0
  BY <1>5 DEF Start
<1> QED BY <1>2, <1>3, <1>4, <1>5, <1>6, <1>7 DEF StreamView

(* ... in the next state too.                                              *)
LEMMA StreamFactsNext == ClientTypeOK' => StreamView'
<1>1. (ClientTypeOK => StreamView)'
  BY StreamFacts, PTL
<1> QED BY <1>1

(* The three bytes of an event.                                            *)
LEMMA BytesFacts ==
  ASSUME NEW e \in Event
  PROVE  /\ Bytes(e) \in Seq(ByteOf) /\ Len(Bytes(e)) = 3
         /\ \A i \in 1 .. 3 : Bytes(e)[i] = <<e, i>>
BY DEF Bytes, ByteOf

(* The two parts an event is cut into at the end of the storage.           *)
LEMMA PartOfEvent ==
  ASSUME NEW e \in Event, NEW n \in 0 .. 3, NEW m \in 0 .. n
  PROVE  /\ SubSeq(Bytes(e), 1, m) \in Seq(ByteOf) /\ Len(SubSeq(Bytes(e), 1, m)) = m
         /\ \A i \in 1 .. m : SubSeq(Bytes(e), 1, m)[i] = <<e, i>>
         /\ SubSeq(Bytes(e), m + 1, n) \in Seq(ByteOf) /\ Len(SubSeq(Bytes(e), m + 1, n)) = n - m
         /\ \A i \in 1 .. n - m : SubSeq(Bytes(e), m + 1, n)[i] = <<e, m + i>>
<1>1. \A i \in 1 .. 3 : Bytes(e)[i] = <<e, i>> /\ Bytes(e)[i] \in ByteOf
  BY BytesFacts DEF ByteOf
<1>2. /\ SubSeq(Bytes(e), 1, m) \in Seq(ByteOf)
      /\ Len(SubSeq(Bytes(e), 1, m)) = IF 1 <= m THEN m - 1 + 1 ELSE 0
      /\ \A i \in 1 .. m - 1 + 1 : SubSeq(Bytes(e), 1, m)[i] = Bytes(e)[1 + i - 1]
  <2>1. \A i \in 1 .. m : Bytes(e)[i] \in ByteOf
    BY <1>1
  <2> QED BY <2>1, SubSeqProperties
<1>3. /\ SubSeq(Bytes(e), m + 1, n) \in Seq(ByteOf)
      /\ Len(SubSeq(Bytes(e), m + 1, n)) = IF m + 1 <= n THEN n - (m + 1) + 1 ELSE 0
      /\ \A i \in 1 .. n - (m + 1) + 1 : SubSeq(Bytes(e), m + 1, n)[i] = Bytes(e)[m + 1 + i - 1]
  <2>1. \A i \in m + 1 .. n : Bytes(e)[i] \in ByteOf
    BY <1>1
  <2> QED BY <2>1, SubSeqProperties
<1> QED BY <1>1, <1>2, <1>3

(* A write of n bytes, the first of them readable at once: what it appends *)
(* to the queue and what it leaves to WriteRest.                           *)
WriteStep(n, first) ==
  /\ Len(todo) > 0 /\ Head(todo) \in Event /\ todo' = Tail(todo)
  /\ status # "aborted" /\ status' = IF n = 3 THEN status ELSE "aborted"
  /\ UNCHANGED <<cycle, last>>
  /\ n <= Size - 1 - Len(input_buf)
  /\ n > 0 => first > 0
  /\ pending = <<>> /\ Len(pending) = 0 /\ Len(pending') = n - first
  /\ Len(input_buf') = Len(input_buf) + first
  /\ \A i \in 1 .. Len(input_buf) : input_buf'[i] = input_buf[i]
  /\ \A i \in 1 .. first : input_buf'[Len(input_buf) + i] = <<Head(todo), i>>
  /\ \A i \in 1 .. n - first : pending'[i] = <<Head(todo), first + i>>

(* Write is such a step, and keeps the types: the pointer stays inside the *)
(* storage and one byte of it unused.                                      *)
LEMMA WriteFacts ==
  ASSUME ClientTypeOK, Write
  PROVE  ClientTypeOK' /\ \E n \in 0 .. 3 : \E first \in 0 .. n : WriteStep(n, first)
<1> DEFINE n == Smaller(3, Size - 1 - Len(input_buf))
           first == Smaller(n, BytesToEnd)
           e == Head(todo)
<1>1. todo \in Seq(Event) /\ todo # <<>> /\ input_buf \in Seq(ByteOf) /\ Len(input_buf) < Size
      /\ write_ptr \in 0 .. Size - 1 /\ Len(input_buf) \in Nat /\ status # "aborted" /\ pending = <<>>
  BY LenProperties DEF Write, ClientTypeOK
<1>2. e \in Event /\ Tail(todo) \in Seq(Event) /\ Len(todo) > 0
  BY <1>1, HeadTailProperties, EmptySeq
<1>3. /\ n \in 0 .. 3 /\ first \in 0 .. n /\ (n > 0 => first > 0) /\ (n = 3 => Len(input_buf) + 3 <= Size - 1)
      /\ n <= Size - 1 - Len(input_buf)
  BY <1>1, SizeAssumption DEF Smaller, BytesToEnd
<1>4. /\ input_buf' = input_buf \o SubSeq(Bytes(e), 1, first)
      /\ pending' = SubSeq(Bytes(e), first + 1, n)
      /\ write_ptr' = (write_ptr + first) % Size
      /\ status' = IF n = 3 THEN status ELSE "aborted"
      /\ todo' = Tail(todo) /\ cycle' = cycle /\ last' = last
  BY DEF Write
<1> HIDE DEF n, first, e
<1>5. /\ SubSeq(Bytes(e), 1, first) \in Seq(ByteOf) /\ Len(SubSeq(Bytes(e), 1, first)) = first
      /\ \A i \in 1 .. first : SubSeq(Bytes(e), 1, first)[i] = <<e, i>>
      /\ SubSeq(Bytes(e), first + 1, n) \in Seq(ByteOf) /\ Len(SubSeq(Bytes(e), first + 1, n)) = n - first
      /\ \A i \in 1 .. n - first : SubSeq(Bytes(e), first + 1, n)[i] = <<e, first + i>>
  BY <1>2, <1>3, PartOfEvent
<1>6. /\ input_buf' \in Seq(ByteOf)
      /\ Len(input_buf') = Len(input_buf) + first
      /\ \A i \in 1 .. Len(input_buf) + first : input_buf'[i] =
           IF i <= Len(input_buf) THEN input_buf[i]
                                  ELSE SubSeq(Bytes(e), 1, first)[i - Len(input_buf)]
  <2> DEFINE part == SubSeq(Bytes(e), 1, first)
  <2>1. input_buf \in Seq(ByteOf) /\ part \in Seq(ByteOf) /\ Len(part) = first
    BY <1>1, <1>5
  <2>2. input_buf' = input_buf \o part
    BY <1>4
  <2> HIDE DEF part
  <2>3. /\ input_buf' \in Seq(ByteOf)
        /\ Len(input_buf') = Len(input_buf) + first
        /\ \A i \in 1 .. Len(input_buf) + first : input_buf'[i] =
             IF i <= Len(input_buf) THEN input_buf[i] ELSE part[i - Len(input_buf)]
    BY <2>1, <2>2, ConcatProperties
  <2> QED BY <2>3 DEF part
<1>7. write_ptr' \in 0 .. Size - 1
  BY <1>1, <1>3, <1>4, SizeAssumption
<1>8. ClientTypeOK'
  BY <1>1, <1>2, <1>3, <1>4, <1>5, <1>6, <1>7, SizeAssumption DEF ClientTypeOK
<1>9. /\ \A i \in 1 .. Len(input_buf) : input_buf'[i] = input_buf[i]
      /\ \A i \in 1 .. first : input_buf'[Len(input_buf) + i] = <<e, i>>
  <2>1. \A i \in 1 .. Len(input_buf) : input_buf'[i] = input_buf[i]
    BY <1>1, <1>3, <1>6
  <2>2. ASSUME NEW i \in 1 .. first
        PROVE  input_buf'[Len(input_buf) + i] = <<e, i>>
    <3> DEFINE j == Len(input_buf) + i
    <3>1. /\ j \in 1 .. Len(input_buf) + first
          /\ ~(j <= Len(input_buf))
          /\ j - Len(input_buf) = i
      BY <1>1, <1>3
    <3> HIDE DEF j
    <3>2. input_buf'[j] = SubSeq(Bytes(e), 1, first)[i]
      BY <3>1, <1>6
    <3>3. SubSeq(Bytes(e), 1, first)[i] = <<e, i>>
      BY <1>5
    <3> QED BY <3>2, <3>3 DEF j
  <2> QED BY <2>1, <2>2
<1>10. Len(pending) = 0
  BY <1>1, EmptySeq
<1>11. WriteStep(n, first)
  BY <1>1, <1>2, <1>3, <1>4, <1>5, <1>6, <1>9, <1>10 DEF e, WriteStep
<1> QED BY <1>3, <1>8, <1>11

(* WriteRest makes the rest readable and loses nothing.                    *)
LEMMA WriteRestFacts ==
  ASSUME ClientInv, WriteRest
  PROVE  /\ ClientTypeOK'
         /\ Stream' = Stream
         /\ status # "aborted"
         /\ UNCHANGED <<todo, cycle, last, status>>
         /\ pending # <<>> /\ pending' = <<>> /\ Len(pending') = 0
         /\ Len(input_buf') = Len(input_buf) + Len(pending)
         /\ input_buf' = Stream
<1>1. /\ input_buf \in Seq(ByteOf) /\ pending \in Seq(ByteOf) /\ Len(pending) < 3
      /\ write_ptr \in 0 .. Size - 1 /\ ClientTypeOK
  BY DEF ClientInv, ClientTypeOK
<1>2. /\ input_buf' = Stream /\ pending' = <<>> /\ UNCHANGED <<todo, cycle, last, status>>
      /\ pending # <<>> /\ status # "aborted" /\ write_ptr' = (write_ptr + Len(pending)) % Size
  BY DEF WriteRest, Stream
<1>3. Stream \in Seq(ByteOf) /\ Len(Stream) = Len(input_buf) + Len(pending)
  BY <1>1, StreamFacts DEF StreamView
<1>4. Stream' = Stream
  BY <1>2, <1>3, ConcatEmptySeq DEF Stream
<1>5. write_ptr' \in 0 .. Size - 1
  BY <1>1, <1>2, LenProperties, SizeAssumption
<1>6. Len(Stream) < Size
  BY <1>3 DEF ClientInv
<1>7. ClientTypeOK'
  BY <1>1, <1>2, <1>3, <1>5, <1>6, EmptySeq DEF ClientTypeOK
<1> QED BY <1>2, <1>3, <1>4, <1>7, EmptySeq

(* A round of the callback that reads n bytes.                             *)
SendStep(n) ==
  /\ UNCHANGED <<todo, pending, write_ptr>>
  /\ status = "running" /\ status' \in {"running", "failed"}
  /\ n <= Len(input_buf) /\ (n < 3 => n = Len(input_buf))
  /\ Len(input_buf') = Len(input_buf) - n
  /\ \A i \in 1 .. Len(input_buf) - n : input_buf'[i] = input_buf[n + i]
  /\ status' = "running" <=> n = 3 /\ cycle.written < PortEvents
  /\ status' = "running" => cycle'.left = IF cycle.left > 3 THEN cycle.left - 3 ELSE 0
  /\ n = 3 => last' = input_buf[3][1]
  /\ n < 3 => last' = last

(* SendEvent is such a round: three bytes, or all there are.               *)
LEMMA SendFacts ==
  ASSUME ClientInv, SendEvent
  PROVE  ClientTypeOK' /\ \E n \in 1 .. 3 : SendStep(n)
<1> DEFINE n == Smaller(3, Len(input_buf))
<1>1. /\ input_buf \in Seq(ByteOf) /\ pending \in Seq(ByteOf)
      /\ Len(input_buf) \in Nat /\ Len(input_buf) < Size
      /\ status = "running" /\ ClientTypeOK
  BY LenProperties DEF ClientInv, ClientTypeOK, SendEvent
<1>12. /\ cycle \in [left : 0 .. Size - 1, written : 0 .. PortEvents]
       /\ cycle.left <= Len(input_buf) /\ cycle.left > 0
  BY DEF ClientInv, ClientTypeOK, SendEvent
<1>13. Len(input_buf) > 0
  BY <1>1, <1>12
<1>2. n \in 1 .. 3 /\ n <= Len(input_buf) /\ (n < 3 => n = Len(input_buf))
  <2> DEFINE len == Len(input_buf)
  <2>1. len \in Nat /\ len > 0
    BY <1>1, <1>13
  <2> HIDE DEF len
  <2>2. /\ Smaller(3, len) \in 1 .. 3 /\ Smaller(3, len) <= len
        /\ Smaller(3, len) < 3 => Smaller(3, len) = len
    BY <2>1 DEF Smaller
  <2> QED BY <2>2 DEF len
<1>3. /\ input_buf' = SubSeq(input_buf, n + 1, Len(input_buf))
      /\ last' = IF n = 3 THEN EventOf(SubSeq(input_buf, 1, 3)) ELSE last
      /\ UNCHANGED <<todo, pending, write_ptr>>
  BY DEF SendEvent
<1>4. IF n = 3 /\ cycle.written < PortEvents
        THEN /\ cycle' = [left |-> IF cycle.left > 3 THEN cycle.left - 3 ELSE 0,
                          written |-> cycle.written + 1]
             /\ status' = status
        ELSE status' = "failed" /\ cycle' = [left |-> 0, written |-> 0]
  BY DEF SendEvent, Idle
<1> HIDE DEF n
<1>5. /\ input_buf' \in Seq(ByteOf)
      /\ Len(input_buf') = Len(input_buf) - n
      /\ \A i \in 1 .. Len(input_buf) - n : input_buf'[i] = input_buf[n + i]
  <2>1. \A i \in n + 1 .. Len(input_buf) : input_buf[i] \in ByteOf
    BY <1>1, <1>2, ElementOfSeq
  <2>2. /\ input_buf' \in Seq(ByteOf)
        /\ Len(input_buf') = IF n + 1 <= Len(input_buf) THEN Len(input_buf) - (n + 1) + 1 ELSE 0
        /\ \A i \in 1 .. Len(input_buf) - (n + 1) + 1 : input_buf'[i] = input_buf[n + 1 + i - 1]
    <3> DEFINE a == n + 1  b == Len(input_buf)
    <3>1. a \in Int /\ b \in Int /\ (\A i \in a .. b : input_buf[i] \in ByteOf)
          /\ input_buf' = SubSeq(input_buf, a, b)
      BY <1>1, <1>2, <1>3, <2>1
    <3> HIDE DEF a, b
    <3>2. /\ input_buf' \in Seq(ByteOf)
          /\ Len(input_buf') = IF a <= b THEN b - a + 1 ELSE 0
          /\ \A i \in 1 .. b - a + 1 : input_buf'[i] = input_buf[a + i - 1]
      BY <3>1, SubSeqProperties
    <3> QED BY <3>2 DEF a, b
  <2>3. ASSUME NEW i \in 1 .. Len(input_buf) - n
        PROVE  n + 1 + i - 1 = n + i /\ Len(input_buf) - (n + 1) + 1 = Len(input_buf) - n
    BY <1>1, <1>2
  <2>4. ASSUME NEW i \in 1 .. Len(input_buf) - n
        PROVE  input_buf'[i] = input_buf[n + i]
    BY <2>2, <2>3
  <2> QED BY <2>2, <2>4, <1>1, <1>2
<1>6. ASSUME n = 3
      PROVE  last' \in Event /\ last' = input_buf[3][1]
  <2> DEFINE e == input_buf[1][1]
             three == SubSeq(input_buf, 1, 3)
  <2>1. Len(input_buf) >= 3 /\ Start = 0 /\ Wellformed
    BY <1>1, <1>2, <1>6 DEF ClientInv
  <2>2. \A i \in 1 .. 3 : input_buf[i] \in ByteOf
    BY <1>1, <2>1, ElementOfSeq
  <2>3. three \in Seq(ByteOf) /\ Len(three) = 3 /\ \A i \in 1 .. 3 : three[i] = input_buf[i]
    BY <2>2, SubSeqProperties
  <2>4. \A i \in 1 .. 3 : Stream[i] = input_buf[i] /\ i \in 1 .. Len(Stream)
    BY <1>1, <2>1, StreamFacts DEF StreamView
  <2>5. /\ input_buf[1][2] = 1 /\ input_buf[2][2] = 2 /\ input_buf[3][2] = 3
        /\ input_buf[2][1] = input_buf[1][1] /\ input_buf[3][1] = input_buf[2][1]
    <3>1. \A i \in 1 .. Len(Stream) :
            /\ Stream[i][2] = ((i - 1 + Start) % 3) + 1
            /\ i < Len(Stream) /\ Stream[i][2] < 3 => Stream[i + 1][1] = Stream[i][1]
      BY <2>1 DEF Wellformed, WholeFrom
    <3>2. Len(Stream) \in Nat /\ Len(Stream) >= 3 /\ Start = 0
      BY <1>1, <2>1, StreamFacts DEF StreamView
    <3>3. Stream[1][2] = 1 /\ Stream[2][2] = 2 /\ Stream[3][2] = 3
      BY <3>1, <3>2
    <3>4. Stream[1 + 1][1] = Stream[1][1] /\ Stream[2 + 1][1] = Stream[2][1]
      <4>1. 1 \in 1 .. Len(Stream) /\ 2 \in 1 .. Len(Stream) /\ 1 < Len(Stream) /\ 2 < Len(Stream)
        BY <3>2
      <4>2. Stream[1][2] < 3 /\ Stream[2][2] < 3
        BY <3>3
      <4> QED BY <4>1, <4>2, <3>1
    <3>5. Stream[1] = input_buf[1] /\ Stream[2] = input_buf[2] /\ Stream[3] = input_buf[3]
      BY <2>4
    <3> QED BY <3>3, <3>4, <3>5
  <2>6. e \in Event /\ input_buf[1] = <<e, 1>> /\ input_buf[2] = <<e, 2>> /\ input_buf[3] = <<e, 3>>
    BY <2>2, <2>5 DEF ByteOf
  <2>7. three = Bytes(e)
    <3>1. /\ Bytes(e) \in Seq(ByteOf) /\ Len(Bytes(e)) = 3
          /\ Bytes(e)[1] = <<e, 1>> /\ Bytes(e)[2] = <<e, 2>> /\ Bytes(e)[3] = <<e, 3>>
      BY <2>6, BytesFacts
    <3>2. three[1] = <<e, 1>> /\ three[2] = <<e, 2>> /\ three[3] = <<e, 3>>
      BY <2>3, <2>6
    <3>3. \A i \in 1 .. 3 : three[i] = Bytes(e)[i]
      BY <3>1, <3>2
    <3> HIDE DEF three, e
    <3> QED BY <2>3, <3>1, <3>3, SeqEqual
  <2>8. three[1][1] = e
    BY <2>3
  <2> QED BY <2>6, <2>7, <2>8, <1>3, <1>6 DEF EventOf
<1>7. cycle' \in [left : 0 .. Size - 1, written : 0 .. PortEvents]
  <2>1. CASE n = 3 /\ cycle.written < PortEvents
    <3>1. cycle.left \in 0 .. Size - 1 /\ cycle.written \in 0 .. PortEvents
      BY <1>12
    <3>2. /\ (IF cycle.left > 3 THEN cycle.left - 3 ELSE 0) \in 0 .. Size - 1
          /\ cycle.written + 1 \in 0 .. PortEvents
      BY <2>1, <3>1, PortAssumption, SizeAssumption
    <3> QED BY <3>2, <2>1, <1>4
  <2>2. CASE ~(n = 3 /\ cycle.written < PortEvents)
    BY <2>2, <1>4, PortAssumption, SizeAssumption
  <2> QED BY <2>1, <2>2
<1>8. status' \in {"running", "failed"} /\ (status' = "running" <=> n = 3 /\ cycle.written < PortEvents)
  BY <1>1, <1>4
<1>9. last' \in Event \cup {NoEvent}
  BY <1>1, <1>3, <1>6 DEF ClientTypeOK
<1>10. ClientTypeOK'
  <2>1. Len(input_buf') < Size
    BY <1>1, <1>2, <1>5, SizeAssumption
  <2>2. /\ todo' \in Seq(Event) /\ pending' \in Seq(ByteOf) /\ Len(pending') < 3
        /\ write_ptr' \in 0 .. Size - 1
    BY <1>3, <1>1 DEF ClientTypeOK
  <2> QED BY <2>1, <2>2, <1>5, <1>7, <1>8, <1>9 DEF ClientTypeOK
<1>11. status' = "running" => cycle'.left = IF cycle.left > 3 THEN cycle.left - 3 ELSE 0
  BY <1>4, <1>8
<1>14. n < 3 => last' = last
  BY <1>2, <1>3
<1>15. n \in 1 .. 3
  BY <1>2
<1>16. SendStep(n)
  BY <1>1, <1>2, <1>3, <1>5, <1>6, <1>8, <1>11, <1>14 DEF SendStep
<1> QED BY <1>10, <1>15, <1>16

(* The queue is empty at first.                                            *)
LEMMA ClientInitInv == ClientInit => ClientInv
<1> SUFFICES ASSUME ClientInit PROVE ClientInv
  OBVIOUS
<1>1. ClientTypeOK
  <2>1. Idle \in [left : 0 .. Size - 1, written : 0 .. PortEvents]
    BY SizeAssumption, PortAssumption DEF Idle
  <2> QED BY <2>1, EmptySeq, SizeAssumption DEF ClientInit, ClientTypeOK
<1>2. input_buf = <<>> /\ pending = <<>> /\ cycle.left = 0
  BY DEF ClientInit, Idle
<1>3. Stream = <<>> /\ Len(Stream) = 0 /\ Len(input_buf) = 0
  BY <1>1, <1>2, StreamFacts, EmptySeq DEF StreamView
<1>4. Start = 0
  BY <1>3 DEF Start
<1> QED BY <1>1, <1>2, <1>3, <1>4, SizeAssumption DEF ClientInv, Wellformed, WholeFrom

(* The last byte of whole events is the third of one.                      *)
LEMMA LastOfThree ==
  ASSUME NEW l \in Nat, NEW o \in 0 .. 2, l > 0, (l + o) % 3 = 0
  PROVE  (l - 1 + o) % 3 = 2
OBVIOUS

(* Bytes that follow whole events start with the first of one.             *)
LEMMA NextThree ==
  ASSUME NEW l \in Nat, NEW o \in 0 .. 2, NEW j \in 1 .. 3, (l + o) % 3 = 0
  PROVE  j = ((l + j - 1 + o) % 3) + 1
OBVIOUS

(* Places in an event, counted from a later byte.                          *)
LEMMA ShiftedThree ==
  ASSUME NEW i \in Nat, NEW o \in 0 .. 2, NEW n \in 0 .. 3, NEW r \in 0 .. 2, r = (o + n) % 3
  PROVE  (n + i - 1 + o) % 3 = (i - 1 + r) % 3
OBVIOUS

(* Whole events, followed by an event or the start of one.                 *)
LEMMA WholeAfterWrite ==
  ASSUME NEW s, NEW t, NEW o \in 0 .. 2, NEW n \in 0 .. 3, NEW e,
         Len(s) \in Nat, WholeFrom(s, o), (Len(s) + o) % 3 = 0, Len(t) = Len(s) + n,
         \A i \in 1 .. Len(s) : t[i] = s[i],
         \A i \in 1 .. n : t[Len(s) + i] = <<e, i>>
  PROVE  WholeFrom(t, o)
<1> DEFINE l == Len(s)
<1> SUFFICES ASSUME NEW i \in 1 .. l + n
             PROVE  /\ t[i][2] = ((i - 1 + o) % 3) + 1
                    /\ i < l + n /\ t[i][2] < 3 => t[i + 1][1] = t[i][1]
  BY DEF WholeFrom
<1>1. l \in Nat /\ (l + o) % 3 = 0
  OBVIOUS
<1>2. \A j \in 1 .. l : t[j] = s[j]
  OBVIOUS
<1>7. \A j \in 1 .. l : s[j][2] = ((j - 1 + o) % 3) + 1
  BY DEF WholeFrom
<1>8. \A j \in 1 .. l : j < l /\ s[j][2] < 3 => s[j + 1][1] = s[j][1]
  BY DEF WholeFrom
<1>3. \A j \in 1 .. n : t[l + j] = <<e, j>>
  OBVIOUS
<1> HIDE DEF l
<1>4. CASE i < l
  <2>1. i \in 1 .. l /\ i + 1 \in 1 .. l
    BY <1>1, <1>4
  <2>2. t[i] = s[i] /\ t[i + 1] = s[i + 1]
    BY <2>1, <1>2
  <2>3. s[i][2] = ((i - 1 + o) % 3) + 1
    BY <2>1, <1>7
  <2>4. s[i][2] < 3 => s[i + 1][1] = s[i][1]
    BY <2>1, <1>4, <1>8
  <2> QED BY <2>2, <2>3, <2>4
<1>5. CASE i = l
  <2>1. t[i][2] = ((l - 1 + o) % 3) + 1
    <3>1. l \in 1 .. l
      BY <1>1, <1>5
    <3> QED BY <3>1, <1>2, <1>5, <1>7
  <2>2. (l - 1 + o) % 3 = 2
    <3>1. l > 0
      BY <1>1, <1>5
    <3> QED BY <3>1, <1>1, LastOfThree
  <2> QED BY <2>1, <2>2, <1>5
<1>6. CASE i > l
  <2>1. PICK j \in 1 .. n : i = l + j
    <3>1. i - l \in 1 .. n /\ i = l + (i - l)
      BY <1>1, <1>6
    <3> QED BY <3>1
  <2>2. t[i] = <<e, j>>
    BY <2>1, <1>3
  <2>3. j = ((i - 1 + o) % 3) + 1
    <3>1. j = ((l + j - 1 + o) % 3) + 1
      <4>1. j \in 1 .. 3
        OBVIOUS
      <4> QED BY <4>1, <1>1, NextThree
    <3>2. i - 1 + o = l + j - 1 + o
      BY <2>1, <1>1
    <3> QED BY <3>1, <3>2
  <2>4. ASSUME i < l + n PROVE t[i + 1] = <<e, j + 1>>
    <3>1. j + 1 \in 1 .. n /\ i + 1 = l + (j + 1)
      BY <2>1, <2>4, <1>1
    <3> QED BY <3>1, <1>3
  <2> QED BY <2>2, <2>3, <2>4
<1> QED BY <1>1, <1>4, <1>5, <1>6

(* Whole events without their first n bytes.                               *)
LEMMA WholeAfterRead ==
  ASSUME NEW s, NEW t, NEW o \in 0 .. 2, NEW n \in 0 .. 3, NEW r \in 0 .. 2,
         Len(s) \in Nat, n <= Len(s), WholeFrom(s, o), Len(t) = Len(s) - n, r = (o + n) % 3,
         \A i \in 1 .. Len(t) : t[i] = s[n + i]
  PROVE  WholeFrom(t, r)
<1> DEFINE l == Len(s)
<1> SUFFICES ASSUME NEW i \in 1 .. l - n
             PROVE  /\ t[i][2] = ((i - 1 + r) % 3) + 1
                    /\ i < l - n /\ t[i][2] < 3 => t[i + 1][1] = t[i][1]
  BY DEF WholeFrom
<1>1. l \in Nat /\ n <= l
  OBVIOUS
<1>2. \A j \in 1 .. l : s[j][2] = ((j - 1 + o) % 3) + 1
  BY DEF WholeFrom
<1>8. \A j \in 1 .. l : j < l /\ s[j][2] < 3 => s[j + 1][1] = s[j][1]
  BY DEF WholeFrom
<1>3. \A j \in 1 .. l - n : t[j] = s[n + j]
  OBVIOUS
<1> HIDE DEF l
<1>4. PICK j \in 1 .. l : j = n + i
  BY <1>1
<1>5. t[i] = s[j]
  BY <1>3, <1>4
<1>6. s[j][2] = ((i - 1 + r) % 3) + 1
  <2>1. (j - 1 + o) % 3 = (i - 1 + r) % 3
    <3>1. (n + i - 1 + o) % 3 = (i - 1 + r) % 3
      BY <1>1, ShiftedThree
    <3> QED BY <3>1, <1>4
  <2> QED BY <2>1, <1>2
<1>7. ASSUME i < l - n PROVE t[i + 1] = s[j + 1] /\ j < l
  <2>1. i + 1 \in 1 .. l - n /\ j + 1 = n + (i + 1) /\ j < l
    BY <1>1, <1>4, <1>7
  <2>2. t[i + 1] = s[n + (i + 1)]
    BY <2>1, <1>3
  <2> QED BY <2>1, <2>2
<1> QED BY <1>5, <1>6, <1>7, <1>8

(* Write appends the bytes of the event, in their order.                   *)
LEMMA WriteStream ==
  ASSUME ClientInv, ClientTypeOK', NEW n \in 0 .. 3, NEW first \in 0 .. n, WriteStep(n, first)
  PROVE  /\ Len(Stream') = Len(Stream) + n
         /\ Len(Stream) = Len(input_buf)
         /\ \A i \in 1 .. Len(Stream) : Stream'[i] = Stream[i]
         /\ \A i \in 1 .. n : Stream'[Len(Stream) + i] = <<Head(todo), i>>
         /\ Start' = Start
<1>1. StreamView /\ StreamView'
  BY StreamFacts, StreamFactsNext DEF ClientInv
<1>2. /\ Len(Stream) = Len(input_buf) /\ Len(input_buf) \in Nat
      /\ Len(Stream') = Len(input_buf) + n
      /\ Len(input_buf') = Len(input_buf) + first
  BY <1>1 DEF StreamView, WriteStep
<1>3. ASSUME NEW i \in 1 .. Len(Stream)
      PROVE  Stream'[i] = Stream[i]
  <2>1. i \in 1 .. Len(input_buf) /\ i <= Len(input_buf') /\ i \in 1 .. Len(Stream')
    BY <1>2
  <2>2. Stream'[i] = input_buf'[i]
    BY <1>1, <2>1 DEF StreamView
  <2>3. Stream[i] = input_buf[i]
    BY <1>1, <2>1 DEF StreamView
  <2>4. input_buf'[i] = input_buf[i]
    BY <2>1 DEF WriteStep
  <2> QED BY <2>2, <2>3, <2>4
<1>4. ASSUME NEW i \in 1 .. n
      PROVE  Stream'[Len(Stream) + i] = <<Head(todo), i>>
  <2> DEFINE j == Len(Stream) + i
  <2>1. j \in 1 .. Len(Stream') /\ j = Len(input_buf) + i
    BY <1>2
  <2>2. Stream'[j] = IF j <= Len(input_buf') THEN input_buf'[j] ELSE pending'[j - Len(input_buf')]
    <3> HIDE DEF j
    <3> QED BY <1>1, <2>1 DEF StreamView
  <2>3. CASE i <= first
    <3>1. j <= Len(input_buf') /\ i \in 1 .. first
      BY <1>2, <2>1, <2>3
    <3>2. input_buf'[Len(input_buf) + i] = <<Head(todo), i>>
      BY <3>1 DEF WriteStep
    <3> QED BY <3>1, <3>2, <2>1, <2>2
  <2>4. CASE i > first
    <3>1. ~(j <= Len(input_buf')) /\ i - first \in 1 .. n - first
          /\ j - Len(input_buf') = i - first /\ first + (i - first) = i
      BY <1>2, <2>1, <2>4
    <3>2. pending'[i - first] = <<Head(todo), first + (i - first)>>
      BY <3>1 DEF WriteStep
    <3> QED BY <3>1, <3>2, <2>2
  <2> QED BY <2>3, <2>4
<1>5. Start' = Start
  <2>1. CASE Stream # <<>>
    <3>1. 1 \in 1 .. Len(Stream) /\ Len(Stream') # 0
      BY <1>1, <1>2, <2>1 DEF StreamView
    <3>2. Stream'[1] = Stream[1]
      BY <3>1, <1>3
    <3> QED BY <3>1, <3>2, <2>1, <1>1 DEF StreamView
  <2>2. CASE Stream = <<>> /\ n > 0
    <3>1. Len(Stream) = 0 /\ Len(Stream') # 0 /\ Start = 0 /\ 1 \in 1 .. n
      BY <1>1, <1>2, <2>2 DEF StreamView
    <3>2. Stream'[Len(Stream) + 1] = <<Head(todo), 1>>
      BY <3>1, <1>4
    <3>3. Stream'[1] = <<Head(todo), 1>>
      BY <3>1, <3>2
    <3>4. Start' = Stream'[1][2] - 1
      BY <1>1, <3>1 DEF StreamView
    <3> QED BY <3>1, <3>3, <3>4
  <2>3. CASE Stream = <<>> /\ n = 0
    <3>1. Len(Stream) = 0 /\ Len(Stream') = 0
      BY <1>1, <1>2, <2>3 DEF StreamView
    <3> QED BY <3>1, <1>1 DEF StreamView
  <2> QED BY <2>1, <2>2, <2>3
<1> QED BY <1>2, <1>3, <1>4, <1>5

(* Write keeps the invariant.                                              *)
LEMMA WriteInv ==
  ASSUME ClientInv, Write
  PROVE  ClientInv'
<1>1. ClientTypeOK' /\ \E n \in 0 .. 3 : \E first \in 0 .. n : WriteStep(n, first)
  BY WriteFacts DEF ClientInv
<1>2. PICK n \in 0 .. 3, first \in 0 .. 3 : first \in 0 .. n /\ WriteStep(n, first)
  BY <1>1
<1>3. /\ Len(Stream') = Len(Stream) + n
      /\ Len(Stream) = Len(input_buf)
      /\ \A i \in 1 .. Len(Stream) : Stream'[i] = Stream[i]
      /\ \A i \in 1 .. n : Stream'[Len(Stream) + i] = <<Head(todo), i>>
      /\ Start' = Start
  BY <1>1, <1>2, WriteStream
<1>4. Start \in 0 .. 2 /\ Len(Stream) \in Nat /\ Len(input_buf) \in Nat
  BY <1>3, StreamFacts DEF ClientInv, StreamView
<1>5. status # "aborted" /\ n <= Size - 1 - Len(input_buf) /\ cycle' = cycle
      /\ Len(input_buf') = Len(input_buf) + first /\ status' = (IF n = 3 THEN status ELSE "aborted")
  BY <1>2 DEF WriteStep
<1>6. (Len(Stream) + Start) % 3 = 0 /\ WholeFrom(Stream, Start)
  BY <1>5 DEF ClientInv, Wellformed
<1>7. WholeFrom(Stream', Start)
  BY <1>3, <1>4, <1>6, WholeAfterWrite
<1>8. status' # "aborted" => (Len(Stream') + Start') % 3 = 0
  <2>1. n = 3 => (Len(Stream) + 3 + Start) % 3 = 0
    BY <1>4, <1>6
  <2> QED BY <2>1, <1>3, <1>5
<1>9. status' = "running" => Start' = 0 /\ cycle'.left <= Len(input_buf')
  <2>1. ASSUME status' = "running" PROVE status = "running"
    BY <2>1, <1>5
  <2>2. status = "running" => Start = 0 /\ cycle.left <= Len(input_buf)
    BY DEF ClientInv
  <2>3. cycle.left \in Int
    BY DEF ClientInv, ClientTypeOK
  <2> QED BY <2>1, <2>2, <2>3, <1>3, <1>4, <1>5
<1>10. Len(Stream') < Size
  BY <1>3, <1>4, <1>5, SizeAssumption
<1>11. Wellformed'
  BY <1>3, <1>7 DEF Wellformed
<1> QED BY <1>1, <1>8, <1>9, <1>10, <1>11 DEF ClientInv

(* WriteRest keeps the invariant.                                          *)
LEMMA WriteRestInv ==
  ASSUME ClientInv, WriteRest
  PROVE  ClientInv'
<1>1. /\ ClientTypeOK' /\ Stream' = Stream /\ UNCHANGED <<cycle, status>>
      /\ Len(input_buf') = Len(input_buf) + Len(pending)
  BY WriteRestFacts
<1>2. Start' = Start
  BY <1>1 DEF Start
<1>3. Wellformed' /\ (status' # "aborted" => (Len(Stream') + Start') % 3 = 0) /\ Len(Stream') < Size
  BY <1>1, <1>2 DEF ClientInv, Wellformed
<1>4. status' = "running" => Start' = 0 /\ cycle'.left <= Len(input_buf')
  <2>1. status = "running" => Start = 0 /\ cycle.left <= Len(input_buf)
    BY DEF ClientInv
  <2>2. cycle.left \in Int /\ Len(input_buf) \in Nat /\ Len(pending) \in Nat
    BY StreamFacts DEF ClientInv, ClientTypeOK, StreamView
  <2> QED BY <2>1, <2>2, <1>1, <1>2
<1> QED BY <1>1, <1>3, <1>4 DEF ClientInv

(* A cycle takes what is readable, and no more.                            *)
LEMMA BeginCycleInv ==
  ASSUME ClientInv, BeginCycle
  PROVE  ClientInv'
<1>1. UNCHANGED <<todo, pending, input_buf, write_ptr, last, status>>
      /\ cycle' = [left |-> Len(input_buf), written |-> 0]
  BY DEF BeginCycle
<1>2. Stream' = Stream /\ Start' = Start
  BY <1>1 DEF Stream, Start
<1>3. Len(input_buf) \in 0 .. Size - 1
  BY LenProperties, SizeAssumption DEF ClientInv, ClientTypeOK
<1>4. cycle' \in [left : 0 .. Size - 1, written : 0 .. PortEvents] /\ cycle'.left = Len(input_buf)
  BY <1>1, <1>3, PortAssumption
<1>5. ClientTypeOK'
  BY <1>1, <1>4 DEF ClientInv, ClientTypeOK
<1> QED BY <1>1, <1>2, <1>3, <1>4, <1>5 DEF ClientInv, Wellformed

(* A round takes its bytes from the front, and moves the start of the      *)
(* first event by as many.                                                 *)
LEMMA SendStream ==
  ASSUME ClientInv, ClientTypeOK', NEW n \in 1 .. 3, SendStep(n)
  PROVE  /\ Len(Stream') = Len(Stream) - n
         /\ Start' = n % 3 /\ WholeFrom(Stream', n % 3) /\ (Len(Stream') + (n % 3)) % 3 = 0
<1>3. StreamView /\ StreamView'
  BY StreamFacts, StreamFactsNext DEF ClientInv
<1>4. /\ Len(input_buf') = Len(input_buf) - n /\ n <= Len(input_buf) /\ pending' = pending
      /\ status = "running" /\ status' \in {"running", "failed"}
      /\ status' = "running" => n = 3 /\ cycle'.left = IF cycle.left > 3 THEN cycle.left - 3 ELSE 0
  BY DEF SendStep
<1>5. /\ Len(Stream) = Len(input_buf) + Len(pending) /\ Len(Stream') = Len(Stream) - n
      /\ Len(input_buf) \in Nat /\ Len(pending) \in Nat /\ Len(Stream) \in Nat
  BY <1>3, <1>4 DEF StreamView
<1>6. ASSUME NEW i \in 1 .. Len(Stream')
      PROVE  Stream'[i] = Stream[n + i]
  <2>1. n + i \in 1 .. Len(Stream)
    BY <1>5
  <2>2. Stream'[i] = IF i <= Len(input_buf') THEN input_buf'[i] ELSE pending'[i - Len(input_buf')]
    BY <1>3 DEF StreamView
  <2>3. Stream[n + i] = IF n + i <= Len(input_buf) THEN input_buf[n + i]
                                                    ELSE pending[n + i - Len(input_buf)]
    <3> DEFINE j == n + i
    <3>1. j \in 1 .. Len(Stream)
      BY <2>1
    <3> HIDE DEF j
    <3>2. Stream[j] = IF j <= Len(input_buf) THEN input_buf[j] ELSE pending[j - Len(input_buf)]
      BY <3>1, <1>3 DEF StreamView
    <3> QED BY <3>2 DEF j
  <2>4. CASE i <= Len(input_buf')
    <3>1. i \in 1 .. Len(input_buf) - n /\ n + i <= Len(input_buf)
      BY <1>4, <1>5, <2>4
    <3>2. input_buf'[i] = input_buf[n + i]
      BY <3>1 DEF SendStep
    <3> QED BY <3>1, <3>2, <2>2, <2>3, <2>4
  <2>5. CASE ~(i <= Len(input_buf'))
    <3>1. ~(n + i <= Len(input_buf)) /\ i - Len(input_buf') = n + i - Len(input_buf)
      BY <1>4, <1>5, <2>5
    <3> QED BY <3>1, <1>4, <2>2, <2>3, <2>5
  <2> QED BY <2>4, <2>5
<1>7. Start = 0 /\ WholeFrom(Stream, 0) /\ (Len(Stream) + 0) % 3 = 0
  BY <1>4 DEF ClientInv, Wellformed
<1>8. PICK r \in 0 .. 2 : r = (0 + n) % 3
  OBVIOUS
<1>9. WholeFrom(Stream', r)
  <2>1. n \in 0 .. 3 /\ 0 \in 0 .. 2 /\ n <= Len(Stream)
    BY <1>4, <1>5
  <2> QED BY <2>1, <1>5, <1>6, <1>7, <1>8, WholeAfterRead
<1>10. (Len(Stream') + r) % 3 = 0
  BY <1>5, <1>7, <1>8
<1>11. Start' = r
  <2>1. CASE Len(Stream') = 0
    <3>1. Start' = 0
      BY <2>1, <1>3 DEF StreamView
    <3> QED BY <3>1, <2>1, <1>10
  <2>2. CASE Len(Stream') # 0
    <3>1. 1 \in 1 .. Len(Stream')
      BY <2>2, <1>4, <1>5
    <3>2. Stream'[1][2] = ((1 - 1 + r) % 3) + 1
      BY <3>1, <1>9 DEF WholeFrom
    <3>3. Start' = Stream'[1][2] - 1
      BY <2>2, <1>3 DEF StreamView
    <3> QED BY <3>2, <3>3
  <2> QED BY <2>1, <2>2
<1> QED BY <1>5, <1>8, <1>9, <1>10, <1>11

(* SendEvent keeps the invariant: while the callback runs the bytes begin  *)
(* with an event, so a read of three bytes is an event.                    *)
LEMMA SendInv ==
  ASSUME ClientInv, SendEvent
  PROVE  ClientInv'
<1>1. ClientTypeOK' /\ \E n \in 1 .. 3 : SendStep(n)
  BY SendFacts
<1>2. PICK n \in 1 .. 3 : SendStep(n)
  BY <1>1
<1>3. /\ Len(input_buf') = Len(input_buf) - n /\ n <= Len(input_buf)
      /\ status = "running" /\ status' \in {"running", "failed"}
      /\ status' = "running" => n = 3 /\ cycle'.left = IF cycle.left > 3 THEN cycle.left - 3 ELSE 0
  BY <1>2 DEF SendStep
<1>4. /\ Len(Stream') = Len(Stream) - n
      /\ Start' = n % 3 /\ WholeFrom(Stream', n % 3) /\ (Len(Stream') + (n % 3)) % 3 = 0
  BY <1>1, <1>2, SendStream
<1>5. Len(input_buf) \in Nat /\ Len(Stream) \in Nat
  BY StreamFacts DEF ClientInv, StreamView
<1>12. status' = "running" => Start' = 0 /\ cycle'.left <= Len(input_buf')
  <2>1. n = 3 => n % 3 = 0
    OBVIOUS
  <2>2. ASSUME status' = "running" PROVE cycle'.left <= Len(input_buf')
    <3>1. cycle.left <= Len(input_buf) /\ cycle.left \in Int
      BY <1>3 DEF ClientInv, ClientTypeOK
    <3> QED BY <3>1, <2>2, <1>3, <1>5
  <2> QED BY <2>1, <2>2, <1>3, <1>4
<1>13. Len(Stream') < Size
  BY <1>4, <1>5, SizeAssumption DEF ClientInv
<1>14. Wellformed'
  BY <1>4 DEF Wellformed
<1> QED BY <1>1, <1>4, <1>12, <1>13, <1>14 DEF ClientInv

-----------------------------------------------------------------------------
(* The queue of events, in the words of sequences.                         *)
QueueView ==
  /\ Queued \in Seq(Event)
  /\ Len(Queued) = (Len(input_buf) + Torn) \div 3
  /\ Len(Queued) \in Nat
  /\ \A k \in 1 .. Len(Queued) : Queued[k] = input_buf[3 * k - Torn][1]
  /\ Torn \in 0 .. 2
  /\ Len(input_buf) > 0 => Torn = Start
  /\ Len(input_buf) = 0 => Torn = 0

(* The queue holds events, one for each third byte that is readable.       *)
LEMMA QueueFacts == ClientInv => QueueView
<1> SUFFICES ASSUME ClientInv PROVE QueueView
  OBVIOUS
<1>1. StreamView /\ input_buf \in Seq(ByteOf)
  BY StreamFacts DEF ClientInv, ClientTypeOK
<1>2. Len(input_buf) \in Nat /\ (Len(input_buf) = 0 <=> input_buf = <<>>)
  BY <1>1, EmptySeq, LenProperties
<1>3. Len(input_buf) > 0 => Torn = Start
  <2>1. ASSUME Len(input_buf) > 0 PROVE Stream[1] = input_buf[1] /\ Stream # <<>>
    <3>1. Len(Stream) \in Nat /\ 1 \in 1 .. Len(Stream) /\ 1 <= Len(input_buf)
      BY <1>1, <1>2, <2>1 DEF StreamView
    <3> QED BY <3>1, <1>1 DEF StreamView
  <2> QED BY <2>1, <1>1, <1>2 DEF StreamView, Torn
<1>4. Len(input_buf) = 0 => Torn = 0
  BY <1>2 DEF Torn
<1>5. Torn \in 0 .. 2
  BY <1>1, <1>2, <1>3, <1>4 DEF StreamView
<1> DEFINE l == (Len(input_buf) + Torn) \div 3
<1>6. l \in Nat
  BY <1>2, <1>5
<1>7. ASSUME NEW k \in 1 .. l
      PROVE  input_buf[3 * k - Torn][1] \in Event
  <2>1. 3 * k - Torn \in 1 .. Len(input_buf)
    BY <1>2, <1>5
  <2>2. input_buf[3 * k - Torn] \in ByteOf
    BY <1>1, <2>1, ElementOfSeq
  <2> QED BY <2>2 DEF ByteOf
<1>8. Queued = [k \in 1 .. l |-> input_buf[3 * k - Torn][1]]
  BY DEF Queued
<1> HIDE DEF l
<1>9. Queued \in [1 .. l -> Event]
  BY <1>7, <1>8
<1>10. Queued \in Seq(Event) /\ Len(Queued) = l
  BY <1>6, <1>9
<1> QED BY <1>3, <1>4, <1>5, <1>6, <1>8, <1>10 DEF QueueView, l

(* ... in the next state too.                                              *)
LEMMA QueueFactsNext == ClientInv' => QueueView'
<1>1. (ClientInv => QueueView)'
  BY QueueFacts, PTL
<1> QED BY <1>1

(* What Write does to the queue: the event is in it at once, or waits for  *)
(* its rest, or the process ends for lack of space.                        *)
LEMMA WriteQueue ==
  ASSUME ClientInv, Write
  PROVE  /\ pending = <<>> /\ todo # <<>> /\ Head(todo) \in Event /\ todo' = Tail(todo)
         /\ last' = last
         /\ \/ /\ Queued' = Append(Queued, Head(todo))
               /\ Len(Queued) < (Size - 1) \div 3
               /\ pending' = <<>> /\ status' = status
            \/ /\ Queued' = Queued
               /\ pending' # <<>> /\ pending'[1][1] = Head(todo) /\ status' = status
            \/ Queued' = Queued /\ status' = "aborted"
<1>1. PICK n \in 0 .. 3, first \in 0 .. 3 : first \in 0 .. n /\ WriteStep(n, first)
  BY WriteFacts DEF ClientInv
<1>2. QueueView /\ QueueView' /\ StreamView /\ ClientTypeOK'
  BY QueueFacts, QueueFactsNext, WriteInv, StreamFacts DEF ClientInv
<1>3. Start' = Start /\ Len(Stream) = Len(input_buf)
  BY <1>1, <1>2, WriteStream
<1> DEFINE L == Len(input_buf)
<1>4. /\ L \in Nat /\ Len(input_buf') = L + first /\ status # "aborted" /\ n <= Size - 1 - L
      /\ Len(pending') = n - first /\ (n > 0 => first > 0)
  BY <1>1, <1>2 DEF WriteStep, StreamView
<1>5. (L + Start) % 3 = 0 /\ Start \in 0 .. 2
  BY <1>2, <1>3, <1>4 DEF ClientInv, StreamView
<1>6. Torn = Start /\ (Len(input_buf') > 0 => Torn' = Start)
  <2>1. L = 0 => Start = 0
    BY <1>5
  <2> QED BY <2>1, <1>2, <1>3, <1>4 DEF QueueView
<1>7. \A i \in 1 .. L : input_buf'[i] = input_buf[i]
  BY <1>1 DEF WriteStep
<1>8. \A i \in 1 .. first : input_buf'[L + i] = <<Head(todo), i>>
  BY <1>1 DEF WriteStep
<1>9. Len(Queued) = (L + Start) \div 3 /\ L + Start = 3 * Len(Queued)
  <2>1. Len(Queued) = (L + Start) \div 3
    BY <1>2, <1>6 DEF QueueView
  <2>2. L + Start = 3 * ((L + Start) \div 3)
    <3> HIDE DEF L
    <3> QED BY <1>4, <1>5
  <2> QED BY <2>1, <2>2
<1>10. CASE first < 3
  <2>1. Len(Queued') = Len(Queued)
    <3>1. CASE L + first = 0
      BY <3>1, <1>2, <1>4, <1>9 DEF QueueView
    <3>2. CASE L + first > 0
      <4>1. Len(Queued') = (L + first + Start) \div 3
        BY <3>2, <1>2, <1>4, <1>6 DEF QueueView
      <4> QED BY <4>1, <1>4, <1>5, <1>9, <1>10
    <3> QED BY <3>1, <3>2, <1>4
  <2>2. ASSUME NEW k \in 1 .. Len(Queued) PROVE Queued'[k] = Queued[k]
    <3>1. 3 * k - Start \in 1 .. L /\ k \in 1 .. Len(Queued') /\ Len(input_buf') > 0
      BY <1>2, <1>4, <1>5, <1>9, <2>1 DEF QueueView
    <3>2. Queued[k] = input_buf[3 * k - Start][1] /\ Queued'[k] = input_buf'[3 * k - Start][1]
      BY <3>1, <1>2, <1>6 DEF QueueView
    <3> QED BY <3>1, <3>2, <1>7
  <2>3. Queued' = Queued
    BY <2>1, <2>2, <1>2, SeqEqual DEF QueueView
  <2>4. CASE n < 3
    BY <2>3, <2>4, <1>1 DEF WriteStep
  <2>5. CASE n = 3
    <3>1. Len(pending') > 0 /\ 1 \in 1 .. n - first
      BY <2>5, <1>4, <1>10
    <3>2. pending'[1] = <<Head(todo), first + 1>> /\ pending' # <<>>
      <4>1. pending'[1] = <<Head(todo), first + 1>>
        BY <3>1, <1>1 DEF WriteStep
      <4>2. pending' # <<>>
        BY <3>1, <1>2, EmptySeq DEF ClientTypeOK
      <4> QED BY <4>1, <4>2
    <3> QED BY <3>2, <2>3, <2>5, <1>1 DEF WriteStep
  <2> QED BY <2>4, <2>5
<1>11. CASE first = 3
  <2>1. n = 3 /\ Len(pending') = 0 /\ Len(input_buf') > 0 /\ L + 3 <= Size - 1
    BY <1>4, <1>11, <1>1, SizeAssumption
  <2>2. Len(Queued') = Len(Queued) + 1
    <3>1. Len(Queued') = (L + 3 + Start) \div 3
      BY <2>1, <1>2, <1>4, <1>6, <1>11 DEF QueueView
    <3> QED BY <3>1, <1>4, <1>5, <1>9
  <2>3. Len(Queued) < (Size - 1) \div 3
    BY <2>1, <1>4, <1>5, <1>9, SizeAssumption
  <2>4. ASSUME NEW k \in 1 .. Len(Queued) PROVE Queued'[k] = Queued[k]
    <3>1. 3 * k - Start \in 1 .. L /\ k \in 1 .. Len(Queued') /\ Len(input_buf') > 0
      BY <1>2, <1>4, <1>5, <1>9, <2>1, <2>2 DEF QueueView
    <3>2. Queued[k] = input_buf[3 * k - Start][1] /\ Queued'[k] = input_buf'[3 * k - Start][1]
      BY <3>1, <1>2, <1>6 DEF QueueView
    <3> QED BY <3>1, <3>2, <1>7
  <2>5. Queued'[Len(Queued) + 1] = Head(todo)
    <3> DEFINE k == Len(Queued) + 1
    <3>1. k \in 1 .. Len(Queued') /\ 3 * k - Start = L + 3
      <4>1. Len(Queued) \in Nat
        BY <1>2 DEF QueueView
      <4> QED BY <4>1, <1>4, <1>5, <1>9, <2>2
    <3> HIDE DEF k
    <3>2. Queued'[k] = input_buf'[3 * k - Start][1]
      BY <3>1, <1>2, <1>6, <2>1 DEF QueueView
    <3>3. input_buf'[L + 3] = <<Head(todo), 3>>
      BY <1>8, <1>11
    <3> QED BY <3>1, <3>2, <3>3 DEF k
  <2>6. Queued' = Append(Queued, Head(todo))
    <3>1. /\ Head(todo) \in Event /\ Queued \in Seq(Event) /\ Queued' \in Seq(Event)
          /\ Len(Queued) \in Nat
      BY <1>1, <1>2 DEF WriteStep, QueueView
    <3> DEFINE q == Append(Queued, Head(todo))
    <3>2. /\ q \in Seq(Event) /\ Len(q) = Len(Queued) + 1
          /\ \A k \in 1 .. Len(Queued) : q[k] = Queued[k]
          /\ q[Len(Queued) + 1] = Head(todo)
      BY <3>1, AppendProperties
    <3> HIDE DEF q
    <3>3. \A k \in 1 .. Len(Queued) + 1 : q[k] = Queued'[k]
      BY <3>1, <3>2, <2>4, <2>5
    <3>4. q = Queued'
      BY <3>1, <3>2, <3>3, <2>2, SeqEqual
    <3> QED BY <3>4 DEF q
  <2>7. pending' = <<>>
    BY <2>1, <1>2, EmptySeq DEF ClientTypeOK
  <2> QED BY <2>1, <2>3, <2>6, <2>7, <1>1 DEF WriteStep
<1>12. todo # <<>>
  BY DEF Write
<1> QED BY <1>10, <1>11, <1>12, <1>1 DEF WriteStep

(* WriteRest appends the event that was begun.                             *)
LEMMA WriteRestQueue ==
  ASSUME ClientInv, WriteRest
  PROVE  /\ pending # <<>> /\ pending' = <<>> /\ pending[1][1] \in Event
         /\ Queued' = Append(Queued, pending[1][1])
         /\ Len(Queued) < (Size - 1) \div 3
         /\ UNCHANGED <<todo, last, status, cycle>>
<1> DEFINE L == Len(input_buf)
           P == Len(pending)
           e == pending[1][1]
<1>1. /\ pending # <<>> /\ pending' = <<>> /\ input_buf' = Stream /\ Stream' = Stream
      /\ UNCHANGED <<todo, last, status, cycle>> /\ status # "aborted"
      /\ Len(input_buf') = L + P
  BY WriteRestFacts
<1>2. QueueView /\ QueueView' /\ StreamView /\ pending \in Seq(ByteOf) /\ Len(pending) < 3
  BY QueueFacts, QueueFactsNext, WriteRestInv, StreamFacts DEF ClientInv, ClientTypeOK
<1>3. L \in Nat /\ P \in 1 .. 2 /\ Len(Stream) = L + P /\ Start \in 0 .. 2
  <2>1. P \in Nat /\ P # 0
    BY <1>1, <1>2, EmptySeq DEF StreamView
  <2>2. L \in Nat /\ P < 3 /\ Len(Stream) = L + P /\ Start \in 0 .. 2
    BY <1>2 DEF StreamView
  <2> HIDE DEF L, P
  <2> QED BY <2>1, <2>2
<1>4. (L + P + Start) % 3 = 0 /\ WholeFrom(Stream, Start) /\ L + P < Size
  BY <1>1, <1>3 DEF ClientInv, Wellformed
<1>5. \A i \in 1 .. L : Stream[i] = input_buf[i]
  BY <1>2, <1>3 DEF StreamView
<1>6. \A i \in 1 .. P : Stream[L + i] = pending[i]
  <2>1. ASSUME NEW i \in 1 .. P PROVE Stream[L + i] = pending[i]
    <3> DEFINE j == L + i
    <3>1. j \in 1 .. Len(Stream) /\ ~(j <= L) /\ j - L = i
      BY <1>3
    <3> HIDE DEF j
    <3>2. Stream[j] = pending[j - L]
      BY <3>1, <1>2 DEF StreamView
    <3> QED BY <3>1, <3>2 DEF j
  <2> QED BY <2>1
<1>7. e \in Event
  <2>1. pending[1] \in ByteOf
    BY <1>2, <1>3, ElementOfSeq
  <2> QED BY <2>1 DEF ByteOf
<1>8. Stream[L + P][1] = e
  <2>1. CASE P = 1
    <3>1. Stream[L + 1] = pending[1]
      BY <1>3, <1>6
    <3> QED BY <3>1, <2>1
  <2>2. CASE P = 2
    <3>1. Stream[L + 1] = pending[1] /\ Stream[L + 2] = pending[2]
      BY <2>2, <1>6
    <3> DEFINE j == L + 1
    <3>2. j \in 1 .. Len(Stream) /\ j < Len(Stream) /\ j + 1 = L + 2
      BY <1>3, <2>2
    <3>3. (j - 1 + Start) % 3 = 1
      BY <1>3, <1>4, <2>2
    <3> HIDE DEF j
    <3>4. Stream[j][2] = ((j - 1 + Start) % 3) + 1
      BY <3>2, <1>4 DEF WholeFrom
    <3>5. Stream[j][2] < 3
      BY <3>3, <3>4
    <3>6. Stream[j + 1][1] = Stream[j][1]
      BY <3>2, <3>5, <1>4 DEF WholeFrom
    <3> QED BY <3>1, <3>2, <3>6, <2>2 DEF j
  <2> QED BY <2>1, <2>2, <1>3
<1>9. Torn' = Start
  <2>1. Start' = Start
    BY <1>1 DEF Start
  <2>2. Len(input_buf') > 0
    BY <1>1, <1>3
  <2> QED BY <2>1, <2>2, <1>2 DEF QueueView
<1>10. Len(Queued') = Len(Queued) + 1 /\ 3 * Len(Queued') = L + P + Start
  <2>1. Len(Queued') = (L + P + Start) \div 3
    BY <1>1, <1>2, <1>3, <1>9 DEF QueueView
  <2>2. Len(Queued) = (L + P + Start) \div 3 - 1
    <3>1. CASE L = 0
      <4>1. Len(Queued) = 0
        BY <3>1, <1>2 DEF QueueView
      <4>2. (L + P + Start) \div 3 = 1
        <5> HIDE DEF L, P
        <5> QED BY <3>1, <1>3, <1>4
      <4> QED BY <4>1, <4>2
    <3>2. CASE L > 0
      <4>1. Len(Queued) = (L + Start) \div 3
        BY <3>2, <1>2, <1>3 DEF QueueView
      <4>2. (L + Start) \div 3 = (L + P + Start) \div 3 - 1
        <5> HIDE DEF L, P
        <5> QED BY <1>3, <1>4
      <4> QED BY <4>1, <4>2
    <3> QED BY <3>1, <3>2, <1>3
  <2>3. 3 * ((L + P + Start) \div 3) = L + P + Start
    <3> HIDE DEF L, P
    <3> QED BY <1>3, <1>4
  <2>4. (L + P + Start) \div 3 \in Int
    BY <1>3
  <2> QED BY <2>1, <2>2, <2>3, <2>4
<1>11. Len(Queued) \in Nat /\ Len(Queued') \in Nat
  BY <1>2 DEF QueueView
<1>12. Len(Queued) < (Size - 1) \div 3
  BY <1>3, <1>4, <1>10, <1>11, SizeAssumption
<1>13. ASSUME NEW k \in 1 .. Len(Queued) PROVE Queued'[k] = Queued[k]
  <2>1. L > 0
    <3>1. L = 0 => Len(Queued) = 0
      BY <1>2 DEF QueueView
    <3> QED BY <3>1, <1>3, <1>11
  <2>2. Torn = Start
    BY <2>1, <1>2 DEF QueueView
  <2>3. k \in 1 .. Len(Queued') /\ 3 * k - Start \in 1 .. L
    <3>1. 3 * Len(Queued) = L + P + Start - 3
      BY <1>3, <1>10, <1>11
    <3> HIDE DEF L, P
    <3> QED BY <3>1, <1>3, <1>10, <1>11
  <2>4. Queued[k] = input_buf[3 * k - Start][1]
    BY <2>2, <1>2 DEF QueueView
  <2>5. Queued'[k] = Stream[3 * k - Start][1]
    BY <2>3, <1>1, <1>2, <1>9 DEF QueueView
  <2> QED BY <2>3, <2>4, <2>5, <1>5
<1>14. Queued'[Len(Queued) + 1] = e
  <2> DEFINE k == Len(Queued) + 1
  <2>1. k \in 1 .. Len(Queued') /\ 3 * k - Start = L + P
    BY <1>3, <1>10, <1>11
  <2> HIDE DEF k
  <2>2. Queued'[k] = Stream[3 * k - Start][1]
    BY <2>1, <1>1, <1>2, <1>9 DEF QueueView
  <2> QED BY <2>1, <2>2, <1>8 DEF k
<1> DEFINE q == Append(Queued, e)
<1>15. /\ q \in Seq(Event) /\ Len(q) = Len(Queued) + 1
       /\ \A k \in 1 .. Len(Queued) : q[k] = Queued[k]
       /\ q[Len(Queued) + 1] = e /\ Queued' \in Seq(Event)
  <2>1. Queued \in Seq(Event) /\ Queued' \in Seq(Event)
    BY <1>2 DEF QueueView
  <2> HIDE DEF e
  <2> QED BY <2>1, <1>7, AppendProperties
<1> HIDE DEF q, e
<1>16. \A k \in 1 .. Len(Queued) + 1 : q[k] = Queued'[k]
  BY <1>11, <1>13, <1>14, <1>15
<1>17. q = Queued'
  BY <1>10, <1>15, <1>16, SeqEqual
<1> QED BY <1>1, <1>7, <1>12, <1>17 DEF q, e

(* What a round of the callback does to the queue: it takes the first      *)
(* event, or fails when there is only a part of one.                       *)
LEMMA SendQueue ==
  ASSUME ClientInv, SendEvent
  PROVE  /\ UNCHANGED <<todo, pending>> /\ status = "running"
         /\ \/ /\ Queued # <<>> /\ Head(Queued) \in Event
               /\ Queued' = Tail(Queued) /\ last' = Head(Queued)
               /\ status' = "running" \/ cycle.written = PortEvents
            \/ /\ Queued = <<>> /\ Queued' = <<>> /\ last' = last
               /\ status' = "failed" /\ pending # <<>>
<1> DEFINE L == Len(input_buf)
<1>1. PICK n \in 1 .. 3 : SendStep(n)
  BY SendFacts
<1>2. QueueView /\ QueueView' /\ StreamView
  BY QueueFacts, QueueFactsNext, SendInv, StreamFacts DEF ClientInv
<1>3. /\ L \in Nat /\ Len(input_buf') = L - n /\ n <= L /\ (n < 3 => n = L)
      /\ status = "running" /\ UNCHANGED <<todo, pending>>
  BY <1>1, <1>2 DEF SendStep, StreamView
<1>4. Start = 0 /\ (Len(Stream) + Start) % 3 = 0
  BY <1>3 DEF ClientInv
<1>5. Torn = 0
  BY <1>2, <1>3, <1>4 DEF QueueView
<1>6. Queued \in Seq(Event) /\ Queued' \in Seq(Event) /\ Len(Queued) = L \div 3
  BY <1>2, <1>3, <1>5 DEF QueueView
<1>7. CASE n < 3
  <2>1. Len(Queued) = 0 /\ Len(Queued') = 0
    <3>1. L \in 1 .. 2 /\ Len(input_buf') = 0
      BY <1>3, <1>7
    <3>2. Torn' = 0
      BY <3>1, <1>2 DEF QueueView
    <3>3. Len(Queued') = (0 + 0) \div 3
      BY <3>1, <3>2, <1>2 DEF QueueView
    <3>4. L \div 3 = 0
      <4> HIDE DEF L
      <4> QED BY <3>1
    <3> QED BY <3>3, <3>4, <1>6
  <2>2. Queued = <<>> /\ Queued' = <<>>
    BY <2>1, <1>6, EmptySeq
  <2>3. last' = last /\ status' = "failed"
    BY <1>1, <1>7 DEF SendStep
  <2>4. pending # <<>>
    <3>1. Len(Stream) = L + Len(pending) /\ Len(pending) \in Nat
      BY <1>2 DEF StreamView
    <3>2. Len(pending) # 0
      BY <3>1, <1>3, <1>4, <1>7
    <3> QED BY <3>2, EmptySeq DEF ClientInv, ClientTypeOK
  <2> QED BY <2>2, <2>3, <2>4, <1>3
<1>8. CASE n = 3
  <2>1. last' = input_buf[3][1]
    BY <1>1, <1>8 DEF SendStep
  <2>2. Len(Queued) > 0 /\ Queued # <<>> /\ L >= 3
    BY <1>3, <1>6, <1>8, EmptySeq
  <2>3. \A k \in 1 .. Len(Queued) : Queued[k] = input_buf[3 * k][1]
    BY <1>2, <1>3, <1>5, <1>6 DEF QueueView
  <2>4. Start' = 0
    <3>1. Start' = n % 3
      BY <1>1, SendFacts, SendStream
    <3> QED BY <3>1, <1>8
  <2>5. Torn' = 0
    BY <2>4, <1>2, <1>3, <1>8 DEF QueueView
  <2>6. Len(Queued') = Len(Queued) - 1
    <3>1. Len(Queued') = (L - 3 + 0) \div 3
      BY <2>5, <1>2, <1>3, <1>8 DEF QueueView
    <3> HIDE DEF L
    <3> QED BY <3>1, <1>3, <1>6, <2>2
  <2>7. \A k \in 1 .. L - 3 : input_buf'[k] = input_buf[3 + k]
    BY <1>1, <1>8 DEF SendStep
  <2>8. ASSUME NEW k \in 1 .. Len(Queued') PROVE Queued'[k] = Queued[k + 1]
    <3>1. 3 * k \in 1 .. L - 3 /\ k + 1 \in 1 .. Len(Queued) /\ 3 * (k + 1) = 3 + 3 * k
      <4> HIDE DEF L
      <4> QED BY <1>3, <1>6, <2>6
    <3>2. Queued'[k] = input_buf'[3 * k][1]
      BY <2>5, <1>2 DEF QueueView
    <3>3. Queued[k + 1] = input_buf[3 * (k + 1)][1]
      BY <2>3, <3>1
    <3>4. input_buf'[3 * k] = input_buf[3 + 3 * k]
      BY <3>1, <2>7
    <3> QED BY <3>1, <3>2, <3>3, <3>4
  <2>9. Head(Queued) = last' /\ Head(Queued) \in Event
    <3>1. Head(Queued) = Queued[1] /\ Head(Queued) \in Event
      BY <1>6, <2>2, HeadTailProperties
    <3>2. Queued[1] = input_buf[3 * 1][1]
      BY <1>6, <2>2, <2>3
    <3> QED BY <3>1, <3>2, <2>1
  <2>10. Queued' = Tail(Queued)
    <3>1. /\ Tail(Queued) \in Seq(Event) /\ Len(Tail(Queued)) = Len(Queued) - 1
          /\ \A k \in 1 .. Len(Tail(Queued)) : Tail(Queued)[k] = Queued[k + 1]
      BY <1>6, <2>2, HeadTailProperties
    <3> QED BY <3>1, <1>6, <2>6, <2>8, SeqEqual
  <2>11. status' = "running" \/ cycle.written = PortEvents
    <3>1. status' = "running" <=> cycle.written < PortEvents
      BY <1>1, <1>8 DEF SendStep
    <3>2. cycle.written \in 0 .. PortEvents
      BY DEF ClientInv, ClientTypeOK
    <3> QED BY <3>1, <3>2, PortAssumption
  <2> QED BY <2>2, <2>9, <2>10, <2>11, <1>3
<1> QED BY <1>1, <1>7, <1>8

-----------------------------------------------------------------------------
(* What F1HidDev holds.                                                    *)
Inputs == [matrix : [Matrix -> BOOLEAN], special : [Special -> BOOLEAN], stop : [Stop -> BOOLEAN],
           wheel : Byte, knobs : [Knobs -> 0 .. FADERS_MAX], faders : [Faders -> 0 .. FADERS_MAX]]

(* The buttons of a group that change to a value.                          *)
Turning(old, new, value) == {i \in DOMAIN new : new[i] # old[i] /\ new[i] = value}

(* The vectors of a difference list them.                                  *)
LEMMA TurnedLists ==
  ASSUME NEW n \in Nat, NEW old, NEW new, DOMAIN new = 0 .. n, NEW value
  PROVE  Lists(Turned(old, new, value), Turning(old, new, value))
<1>1. Turning(old, new, value) \in SUBSET (0 .. n)
  BY DEF Turning
<1>2. Turned(old, new, value) = InOrder(Turning(old, new, value))
  BY DEF Turned, Turning
<1> QED BY <1>1, <1>2, InOrderOf

(* F1HidDev::read() takes the position of every control from a report, as  *)
(* update_in_state() does.                                                 *)
LEMMA ReadDecodes ==
  ASSUME NEW p \in Position
  PROVE  ReadInput(Report(p)) = Decoded(p)
<1>1. UpdateInState(Report(p), Report(p)) = Decoded(p)
  BY UpdateDecodes
<1>2. Report(p)[0] = INPUT_REPORT_ID
  BY DEF Report, INPUT_REPORT_SIZE
<1> DEFINE r == Report(p)
<1>3. \A i \in Special : Bit(r[IF i < 6 THEN 3 ELSE 4], IF i < 6 THEN i + 2 ELSE i - 5)
                         = IF i < 6 THEN Bit(r[3], i + 2) ELSE Bit(r[4], i - 5)
  OBVIOUS
<1>4. \A i \in Stop : Bit(r[4], 4 + (3 - i)) = Bit(r[4], StopBit(i))
  BY DEF StopBit
<1> HIDE DEF r
<1>5. [i \in Special |-> Bit(r[IF i < 6 THEN 3 ELSE 4], IF i < 6 THEN i + 2 ELSE i - 5)]
      = [i \in Special |-> IF i < 6 THEN Bit(r[3], i + 2) ELSE Bit(r[4], i - 5)]
  BY <1>3
<1>6. [i \in Stop |-> Bit(r[4], 4 + (3 - i))] = [i \in Stop |-> Bit(r[4], StopBit(i))]
  BY <1>4
<1>7. r[0] = INPUT_REPORT_ID
  BY <1>2 DEF r
<1>8. ReadInput(r) = UpdateInState(r, r)
  BY <1>5, <1>6, <1>7 DEF ReadInput, UpdateInState
<1> QED BY <1>1, <1>8 DEF r

(* ... and what it takes has the type of an input.                         *)
LEMMA DecodedInput ==
  ASSUME NEW p \in Position
  PROVE  Decoded(p) \in Inputs
BY DEF Decoded, Inputs, Position

(* No two buttons share a note or a controller.                            *)
LEMMA KeyInjective ==
  ASSUME NEW b \in Buttons, NEW c \in Buttons, Key(b) = Key(c)
  PROVE  b = c
<1> DEFINE g == b[1]
           i == b[2]
           h == c[1]
           j == c[2]
<1>1. /\ b = <<g, i>> /\ c = <<h, j>>
      /\ g \in {"MATRIX", "SPECIAL", "STOP"} /\ h \in {"MATRIX", "SPECIAL", "STOP"}
      /\ i \in 0 .. 15 /\ j \in 0 .. 15
      /\ g = "STOP" => i \in 0 .. 3
      /\ g = "SPECIAL" => i \in 0 .. 8
      /\ h = "STOP" => j \in 0 .. 3
      /\ h = "SPECIAL" => j \in 0 .. 8
  BY DEF Buttons, Matrix, Special, Stop
<1>2. Key(b).type = Key(c).type /\ Key(b).number = Key(c).number
  OBVIOUS
<1>3. /\ Key(b).type = IF g = "MATRIX" THEN "NOTE" ELSE "CC"
      /\ Key(b).number = IF g = "MATRIX" THEN 48 + i ELSE IF g = "STOP" THEN 112 + i ELSE 102 + i
  BY DEF Key, MatrixNote, StopController, SpecialController
<1>4. /\ Key(c).type = IF h = "MATRIX" THEN "NOTE" ELSE "CC"
      /\ Key(c).number = IF h = "MATRIX" THEN 48 + j ELSE IF h = "STOP" THEN 112 + j ELSE 102 + j
  BY DEF Key, MatrixNote, StopController, SpecialController
<1> HIDE DEF g, h, i, j
<1>5. g = h /\ i = j
  BY <1>1, <1>2, <1>3, <1>4
<1> QED BY <1>1, <1>5

(* The event that says that button b is on, or off.                        *)
Says(b, on) == [key |-> Key(b), on |-> on]

(* Events say different things of different buttons.                       *)
LEMMA SaysInjective ==
  ASSUME NEW b \in Buttons, NEW c \in Buttons, NEW v, NEW w, Says(b, v) = Says(c, w)
  PROVE  b = c /\ v = w
<1>1. Says(b, v).key = Says(c, w).key /\ Says(b, v).on = Says(c, w).on
  OBVIOUS
<1>2. Key(b) = Key(c) /\ v = w
  BY <1>1 DEF Says
<1> QED BY <1>2, KeyInjective

(* The indexes of a group's buttons that are in a set.                     *)
Of(group, indexes, S) == {i \in indexes : <<group, i>> \in S}

(* What is said of them.                                                   *)
SaysAll(group, indexes, S, on) == {Says(<<group, i>>, on) : i \in Of(group, indexes, S)}

(* Difference d tells what changes from the buttons that are on before to  *)
(* those that are on after.                                                *)
Tells(d, before, after) ==
  /\ Lists(d.pressed.matrix, Of("MATRIX", Matrix, after \ before))
  /\ Lists(d.released.matrix, Of("MATRIX", Matrix, before \ after))
  /\ Lists(d.pressed.stop, Of("STOP", Stop, after \ before))
  /\ Lists(d.released.stop, Of("STOP", Stop, before \ after))
  /\ Lists(d.pressed.special, Of("SPECIAL", Special, after \ before))
  /\ Lists(d.released.special, Of("SPECIAL", Special, before \ after))

(* The events that tell it: one for each button that changes.              *)
EventsBetween(before, after) ==
  {Says(b, TRUE) : b \in Buttons \cap (after \ before)}
  \cup {Says(b, FALSE) : b \in Buttons \cap (before \ after)}

(* push_event() makes one event for each index of a vector.                *)
LEMMA EachLists ==
  ASSUME NEW on \in BOOLEAN, NEW S, NEW indexes
  PROVE  /\ Lists(indexes, Of("MATRIX", Matrix, S)) =>
              Lists([k \in 1 .. Len(indexes) |-> [key |-> MatrixNote(indexes[k]), on |-> on]],
                    SaysAll("MATRIX", Matrix, S, on))
         /\ Lists(indexes, Of("STOP", Stop, S)) =>
              Lists([k \in 1 .. Len(indexes) |-> [key |-> StopController(indexes[k]), on |-> on]],
                    SaysAll("STOP", Stop, S, on))
         /\ Lists(indexes, Of("SPECIAL", Special, S)) =>
              Lists([k \in 1 .. Len(indexes) |-> [key |-> SpecialController(indexes[k]), on |-> on]],
                    SaysAll("SPECIAL", Special, S, on))
<1>1. ASSUME NEW g \in {"MATRIX", "STOP", "SPECIAL"}, NEW I, \A i \in I : <<g, i>> \in Buttons,
             Lists(indexes, Of(g, I, S))
      PROVE  Lists([k \in 1 .. Len(indexes) |-> Says(<<g, indexes[k]>>, on)], SaysAll(g, I, S, on))
  <2> DEFINE X == Of(g, I, S)
             f == [i \in X |-> Says(<<g, i>>, on)]
             Y == {f[i] : i \in X}
  <2>1. X \subseteq I
    BY DEF Of
  <2>2. f \in [X -> Y]
    OBVIOUS
  <2>3. \A i, j \in X : f[i] = f[j] => i = j
    <3>1. ASSUME NEW i \in X, NEW j \in X, f[i] = f[j] PROVE i = j
      <4>1. <<g, i>> \in Buttons /\ <<g, j>> \in Buttons
        BY <2>1, <1>1
      <4>2. Says(<<g, i>>, on) = Says(<<g, j>>, on)
        BY <3>1
      <4>3. <<g, i>> = <<g, j>>
        BY <4>1, <4>2, SaysInjective
      <4> QED BY <4>3
    <3> QED BY <3>1
  <2>4. Lists(indexes, X)
    BY <1>1
  <2>5. SaysAll(g, I, S, on) = Y
    BY DEF SaysAll
  <2>6. \A k \in 1 .. Len(indexes) : indexes[k] \in X
    BY <2>4, ElementOfSeq DEF Lists
  <2>7. [k \in 1 .. Len(indexes) |-> Says(<<g, indexes[k]>>, on)] = [k \in 1 .. Len(indexes) |-> f[indexes[k]]]
    BY <2>6
  <2>8. \A y \in Y : \E i \in X : f[i] = y
    OBVIOUS
  <2> DEFINE q == [k \in 1 .. Len(indexes) |-> Says(<<g, indexes[k]>>, on)]
  <2>9. q = [k \in 1 .. Len(indexes) |-> f[indexes[k]]]
    BY <2>7
  <2> HIDE DEF X, f, Y, q
  <2>10. Lists(q, Y)
    BY <2>2, <2>3, <2>4, <2>8, <2>9, ListsMap
  <2> QED BY <2>5, <2>10 DEF q
<1>2. /\ \A i \in Matrix : <<"MATRIX", i>> \in Buttons
      /\ \A i \in Stop : <<"STOP", i>> \in Buttons
      /\ \A i \in Special : <<"SPECIAL", i>> \in Buttons
  BY DEF Buttons
<1>3. ASSUME NEW i
      PROVE  /\ Says(<<"MATRIX", i>>, on) = [key |-> MatrixNote(i), on |-> on]
             /\ Says(<<"STOP", i>>, on) = [key |-> StopController(i), on |-> on]
             /\ Says(<<"SPECIAL", i>>, on) = [key |-> SpecialController(i), on |-> on]
  BY DEF Says, Key
<1>4. /\ [k \in 1 .. Len(indexes) |-> [key |-> MatrixNote(indexes[k]), on |-> on]]
         = [k \in 1 .. Len(indexes) |-> Says(<<"MATRIX", indexes[k]>>, on)]
      /\ [k \in 1 .. Len(indexes) |-> [key |-> StopController(indexes[k]), on |-> on]]
         = [k \in 1 .. Len(indexes) |-> Says(<<"STOP", indexes[k]>>, on)]
      /\ [k \in 1 .. Len(indexes) |-> [key |-> SpecialController(indexes[k]), on |-> on]]
         = [k \in 1 .. Len(indexes) |-> Says(<<"SPECIAL", indexes[k]>>, on)]
  BY <1>3
<1> QED BY <1>1, <1>2, <1>4

(* The group an event is about.                                            *)
GroupOf(e) == IF e.key.type = "NOTE" THEN "MATRIX"
              ELSE IF e.key.number >= 112 THEN "STOP" ELSE "SPECIAL"

(* The six vectors give different events.                                  *)
LEMMA SaysAllApart ==
  ASSUME NEW S, NEW on
  PROVE  /\ \A e \in SaysAll("MATRIX", Matrix, S, on) : e.on = on /\ GroupOf(e) = "MATRIX"
         /\ \A e \in SaysAll("STOP", Stop, S, on) : e.on = on /\ GroupOf(e) = "STOP"
         /\ \A e \in SaysAll("SPECIAL", Special, S, on) : e.on = on /\ GroupOf(e) = "SPECIAL"
<1>1. ASSUME NEW i \in Matrix
      PROVE  Says(<<"MATRIX", i>>, on).on = on /\ GroupOf(Says(<<"MATRIX", i>>, on)) = "MATRIX"
  BY DEF Says, Key, MatrixNote, GroupOf
<1>2. ASSUME NEW i \in Stop
      PROVE  Says(<<"STOP", i>>, on).on = on /\ GroupOf(Says(<<"STOP", i>>, on)) = "STOP"
  BY DEF Says, Key, StopController, GroupOf, Stop
<1>3. ASSUME NEW i \in Special
      PROVE  Says(<<"SPECIAL", i>>, on).on = on /\ GroupOf(Says(<<"SPECIAL", i>>, on)) = "SPECIAL"
  BY DEF Says, Key, SpecialController, GroupOf, Special
<1> QED BY <1>1, <1>2, <1>3 DEF SaysAll, Of

(* What is said of a group is what is said of its buttons.                 *)
LEMMA SaysAllFacts ==
  ASSUME NEW S, NEW e, NEW on
  PROVE  /\ e \in SaysAll("MATRIX", Matrix, S, on)
              <=> \E b \in Buttons \cap S : b[1] = "MATRIX" /\ e = Says(b, on)
         /\ e \in SaysAll("STOP", Stop, S, on)
              <=> \E b \in Buttons \cap S : b[1] = "STOP" /\ e = Says(b, on)
         /\ e \in SaysAll("SPECIAL", Special, S, on)
              <=> \E b \in Buttons \cap S : b[1] = "SPECIAL" /\ e = Says(b, on)
<1>1. /\ \A i \in Matrix : <<"MATRIX", i>> \in Buttons
      /\ \A i \in Stop : <<"STOP", i>> \in Buttons
      /\ \A i \in Special : <<"SPECIAL", i>> \in Buttons
  BY DEF Buttons
<1>2. \A b \in Buttons : b = <<b[1], b[2]>>
  BY DEF Buttons
<1>3. /\ \A b \in Buttons : b[1] = "MATRIX" => b[2] \in Matrix
      /\ \A b \in Buttons : b[1] = "STOP" => b[2] \in Stop
      /\ \A b \in Buttons : b[1] = "SPECIAL" => b[2] \in Special
  BY DEF Buttons
<1>4. e \in SaysAll("MATRIX", Matrix, S, on)
              <=> \E b \in Buttons \cap S : b[1] = "MATRIX" /\ e = Says(b, on)
  <2>1. ASSUME NEW b \in Buttons \cap S, b[1] = "MATRIX", e = Says(b, on)
        PROVE  e \in SaysAll("MATRIX", Matrix, S, on)
    <3>1. b[2] \in Matrix /\ <<"MATRIX", b[2]>> = b
      BY <2>1, <1>2, <1>3
    <3> QED BY <3>1, <2>1 DEF SaysAll, Of
  <2>2. ASSUME e \in SaysAll("MATRIX", Matrix, S, on)
        PROVE  \E b \in Buttons \cap S : b[1] = "MATRIX" /\ e = Says(b, on)
    <3>1. PICK i \in Matrix : <<"MATRIX", i>> \in S /\ e = Says(<<"MATRIX", i>>, on)
      BY <2>2 DEF SaysAll, Of
    <3> QED BY <3>1, <1>1
  <2> QED BY <2>1, <2>2
<1>5. e \in SaysAll("STOP", Stop, S, on)
              <=> \E b \in Buttons \cap S : b[1] = "STOP" /\ e = Says(b, on)
  <2>1. ASSUME NEW b \in Buttons \cap S, b[1] = "STOP", e = Says(b, on)
        PROVE  e \in SaysAll("STOP", Stop, S, on)
    <3>1. b[2] \in Stop /\ <<"STOP", b[2]>> = b
      BY <2>1, <1>2, <1>3
    <3> QED BY <3>1, <2>1 DEF SaysAll, Of
  <2>2. ASSUME e \in SaysAll("STOP", Stop, S, on)
        PROVE  \E b \in Buttons \cap S : b[1] = "STOP" /\ e = Says(b, on)
    <3>1. PICK i \in Stop : <<"STOP", i>> \in S /\ e = Says(<<"STOP", i>>, on)
      BY <2>2 DEF SaysAll, Of
    <3> QED BY <3>1, <1>1
  <2> QED BY <2>1, <2>2
<1>6. e \in SaysAll("SPECIAL", Special, S, on)
              <=> \E b \in Buttons \cap S : b[1] = "SPECIAL" /\ e = Says(b, on)
  <2>1. ASSUME NEW b \in Buttons \cap S, b[1] = "SPECIAL", e = Says(b, on)
        PROVE  e \in SaysAll("SPECIAL", Special, S, on)
    <3>1. b[2] \in Special /\ <<"SPECIAL", b[2]>> = b
      BY <2>1, <1>2, <1>3
    <3> QED BY <3>1, <2>1 DEF SaysAll, Of
  <2>2. ASSUME e \in SaysAll("SPECIAL", Special, S, on)
        PROVE  \E b \in Buttons \cap S : b[1] = "SPECIAL" /\ e = Says(b, on)
    <3>1. PICK i \in Special : <<"SPECIAL", i>> \in S /\ e = Says(<<"SPECIAL", i>>, on)
      BY <2>2 DEF SaysAll, Of
    <3> QED BY <3>1, <1>1
  <2> QED BY <2>1, <2>2
<1> QED BY <1>4, <1>5, <1>6

(* What is said of all three groups.                                       *)
SaysEach(S, on) == SaysAll("MATRIX", Matrix, S, on) \cup SaysAll("STOP", Stop, S, on)
                   \cup SaysAll("SPECIAL", Special, S, on)

(* The three groups are all buttons.                                       *)
LEMMA SaysAllGroups ==
  ASSUME NEW S, NEW on
  PROVE  SaysEach(S, on) = {Says(b, on) : b \in Buttons \cap S}
<1>1. \A b \in Buttons : b[1] \in {"MATRIX", "STOP", "SPECIAL"}
  BY DEF Buttons
<1> DEFINE m == SaysAll("MATRIX", Matrix, S, on)
           t == SaysAll("STOP", Stop, S, on)
           p == SaysAll("SPECIAL", Special, S, on)
<1>2. ASSUME NEW e
      PROVE  e \in m \cup t \cup p <=> \E b \in Buttons \cap S : e = Says(b, on)
  <2>1. e \in m <=> \E b \in Buttons \cap S : b[1] = "MATRIX" /\ e = Says(b, on)
    BY SaysAllFacts
  <2>2. e \in t <=> \E b \in Buttons \cap S : b[1] = "STOP" /\ e = Says(b, on)
    BY SaysAllFacts
  <2>3. e \in p <=> \E b \in Buttons \cap S : b[1] = "SPECIAL" /\ e = Says(b, on)
    BY SaysAllFacts
  <2> HIDE DEF m, t, p
  <2> QED BY <1>1, <2>1, <2>2, <2>3
<1> HIDE DEF m, t, p
<1>3. m \cup t \cup p = {Says(b, on) : b \in Buttons \cap S}
  BY <1>2
<1> QED BY <1>3 DEF m, t, p, SaysEach

(* The events of a difference are one for each button that changes, and no *)
(* others.                                                                 *)
LEMMA EventsOf ==
  ASSUME NEW d, NEW before, NEW after, Tells(d, before, after)
  PROVE  Lists(MidiEvents(d), EventsBetween(before, after))
<1> DEFINE on == after \ before
           off == before \ after
           m1 == SaysAll("MATRIX", Matrix, on, TRUE)
           m2 == SaysAll("MATRIX", Matrix, off, FALSE)
           t1 == SaysAll("STOP", Stop, on, TRUE)
           t2 == SaysAll("STOP", Stop, off, FALSE)
           p1 == SaysAll("SPECIAL", Special, on, TRUE)
           p2 == SaysAll("SPECIAL", Special, off, FALSE)
           Each(indexes, Name(_), value) == [k \in 1 .. Len(indexes) |-> [key |-> Name(indexes[k]), on |-> value]]
           s1 == Each(d.pressed.matrix, MatrixNote, TRUE)
           s2 == Each(d.released.matrix, MatrixNote, FALSE)
           s3 == Each(d.pressed.stop, StopController, TRUE)
           s4 == Each(d.released.stop, StopController, FALSE)
           s5 == Each(d.pressed.special, SpecialController, TRUE)
           s6 == Each(d.released.special, SpecialController, FALSE)
<1>1. Lists(s1, m1) /\ Lists(s2, m2) /\ Lists(s3, t1) /\ Lists(s4, t2) /\ Lists(s5, p1) /\ Lists(s6, p2)
  BY EachLists DEF Tells
<1>2. MidiEvents(d) = s1 \o s2 \o s3 \o s4 \o s5 \o s6
  BY DEF MidiEvents
<1> HIDE DEF on, off
<1>3. /\ \A e \in m1 : e.on = TRUE /\ GroupOf(e) = "MATRIX"
      /\ \A e \in m2 : e.on = FALSE /\ GroupOf(e) = "MATRIX"
      /\ \A e \in t1 : e.on = TRUE /\ GroupOf(e) = "STOP"
      /\ \A e \in t2 : e.on = FALSE /\ GroupOf(e) = "STOP"
      /\ \A e \in p1 : e.on = TRUE /\ GroupOf(e) = "SPECIAL"
      /\ \A e \in p2 : e.on = FALSE /\ GroupOf(e) = "SPECIAL"
  BY SaysAllApart
<1>4. /\ m1 \cap m2 = {} /\ (m1 \cup m2) \cap t1 = {} /\ (m1 \cup m2 \cup t1) \cap t2 = {}
      /\ (m1 \cup m2 \cup t1 \cup t2) \cap p1 = {} /\ (m1 \cup m2 \cup t1 \cup t2 \cup p1) \cap p2 = {}
  <2> HIDE DEF m1, m2, t1, t2, p1, p2
  <2> QED BY <1>3
<1>11. /\ m1 \cup t1 \cup p1 = {Says(b, TRUE) : b \in Buttons \cap on}
       /\ m2 \cup t2 \cup p2 = {Says(b, FALSE) : b \in Buttons \cap off}
  <2>1. m1 \cup t1 \cup p1 = SaysEach(on, TRUE) /\ m2 \cup t2 \cup p2 = SaysEach(off, FALSE)
    BY DEF SaysEach
  <2> HIDE DEF m1, m2, t1, t2, p1, p2
  <2> QED BY <2>1, SaysAllGroups
<1> HIDE DEF m1, m2, t1, t2, p1, p2, s1, s2, s3, s4, s5, s6
<1>5. Lists(s1 \o s2, m1 \cup m2)
  BY <1>1, <1>4, ListsConcat
<1>6. Lists(s1 \o s2 \o s3, m1 \cup m2 \cup t1)
  BY <1>1, <1>4, <1>5, ListsConcat
<1>7. Lists(s1 \o s2 \o s3 \o s4, m1 \cup m2 \cup t1 \cup t2)
  BY <1>1, <1>4, <1>6, ListsConcat
<1>8. Lists(s1 \o s2 \o s3 \o s4 \o s5, m1 \cup m2 \cup t1 \cup t2 \cup p1)
  BY <1>1, <1>4, <1>7, ListsConcat
<1>9. Lists(s1 \o s2 \o s3 \o s4 \o s5 \o s6, m1 \cup m2 \cup t1 \cup t2 \cup p1 \cup p2)
  BY <1>1, <1>4, <1>8, ListsConcat
<1>10. m1 \cup m2 \cup t1 \cup t2 \cup p1 \cup p2 = EventsBetween(before, after)
  <2>1. EventsBetween(before, after) = {Says(b, TRUE) : b \in Buttons \cap on} \cup {Says(b, FALSE) : b \in Buttons \cap off}
    BY DEF EventsBetween, on, off
  <2> QED BY <1>11, <2>1
<1> QED BY <1>2, <1>9, <1>10

(* The buttons that are on at position p with the latches f.               *)
OnAt(p, f) == {b \in Buttons : IF b[1] = "STOP" THEN b \in f ELSE b \in p.held}

(* The stop buttons that go down.                                          *)
PressedStops(new, old) == {b \in new.held \ old.held : b[1] = "STOP"}

(* The latches say which stop buttons were pressed an odd number of times. *)
Latches(latch, f) == /\ latch \in [Stop -> BOOLEAN]
                     /\ \A i \in Stop : latch[i] <=> <<"STOP", i>> \in f

(* The heart of the main loop: whatever two positions are compared, the    *)
(* latches stay right, and what is left of the difference tells exactly    *)
(* the buttons that go on or off, a stop button by its latch.              *)
LEMMA LatchTells ==
  ASSUME NEW old \in Position, NEW new \in Position, NEW f, NEW latch, Latches(latch, f)
  PROVE  LET d0 == InputDiff(Decoded(new), Decoded(old))
             g == SymDiff(f, PressedStops(new, old))
         IN  /\ Latches(Flip(latch, d0), g)
             /\ Tells(LatchStops(latch, d0), OnAt(old, f), OnAt(new, g))
<1> DEFINE d0 == InputDiff(Decoded(new), Decoded(old))
           g == SymDiff(f, PressedStops(new, old))
           d == LatchStops(latch, d0)
           next == Flip(latch, d0)
           before == OnAt(old, f)
           after == OnAt(new, g)
<1>1. /\ d0.pressed.stop = Turned(Decoded(old).stop, Decoded(new).stop, TRUE)
      /\ d.pressed.matrix = Turned(Decoded(old).matrix, Decoded(new).matrix, TRUE)
      /\ d.released.matrix = Turned(Decoded(old).matrix, Decoded(new).matrix, FALSE)
      /\ d.pressed.special = Turned(Decoded(old).special, Decoded(new).special, TRUE)
      /\ d.released.special = Turned(Decoded(old).special, Decoded(new).special, FALSE)
      /\ d.pressed.stop = InOrder({i \in Stop : Listed(i, d0.pressed.stop) /\ next[i] = TRUE})
      /\ d.released.stop = InOrder({i \in Stop : Listed(i, d0.pressed.stop) /\ next[i] = FALSE})
  BY DEF InputDiff, LatchStops
<1>2. /\ Lists(Turned(Decoded(old).stop, Decoded(new).stop, TRUE),
                Turning(Decoded(old).stop, Decoded(new).stop, TRUE))
      /\ \A v \in BOOLEAN : Lists(Turned(Decoded(old).matrix, Decoded(new).matrix, v),
                                  Turning(Decoded(old).matrix, Decoded(new).matrix, v))
      /\ \A v \in BOOLEAN : Lists(Turned(Decoded(old).special, Decoded(new).special, v),
                                  Turning(Decoded(old).special, Decoded(new).special, v))
  <2>1. /\ DOMAIN Decoded(new).stop = 0 .. 3
        /\ DOMAIN Decoded(new).matrix = 0 .. 15
        /\ DOMAIN Decoded(new).special = 0 .. 8
    BY DEF Decoded, Stop, Matrix, Special
  <2>2. 3 \in Nat /\ 8 \in Nat /\ 15 \in Nat
    OBVIOUS
  <2> QED BY <2>1, <2>2, TurnedLists
<1>3. /\ \A i \in Stop : <<"STOP", i>> \in Buttons
      /\ \A i \in Matrix : <<"MATRIX", i>> \in Buttons
      /\ \A i \in Special : <<"SPECIAL", i>> \in Buttons
  BY DEF Buttons
<1>4. Turning(Decoded(old).stop, Decoded(new).stop, TRUE)
      = {i \in Stop : <<"STOP", i>> \in new.held /\ <<"STOP", i>> \notin old.held}
  BY DEF Turning, Decoded
<1>5. /\ Turning(Decoded(old).matrix, Decoded(new).matrix, TRUE) = Of("MATRIX", Matrix, after \ before)
      /\ Turning(Decoded(old).matrix, Decoded(new).matrix, FALSE) = Of("MATRIX", Matrix, before \ after)
      /\ Turning(Decoded(old).special, Decoded(new).special, TRUE) = Of("SPECIAL", Special, after \ before)
      /\ Turning(Decoded(old).special, Decoded(new).special, FALSE) = Of("SPECIAL", Special, before \ after)
  <2> HIDE DEF g
  <2>1. /\ \A i \in Matrix : <<"MATRIX", i>> \in before <=> <<"MATRIX", i>> \in old.held
        /\ \A i \in Matrix : <<"MATRIX", i>> \in after <=> <<"MATRIX", i>> \in new.held
        /\ \A i \in Special : <<"SPECIAL", i>> \in before <=> <<"SPECIAL", i>> \in old.held
        /\ \A i \in Special : <<"SPECIAL", i>> \in after <=> <<"SPECIAL", i>> \in new.held
    BY <1>3 DEF OnAt
  <2> HIDE DEF before, after
  <2>2. Turning(Decoded(old).matrix, Decoded(new).matrix, TRUE) = Of("MATRIX", Matrix, after \ before)
    BY <2>1 DEF Turning, Decoded, Of
  <2>3. Turning(Decoded(old).matrix, Decoded(new).matrix, FALSE) = Of("MATRIX", Matrix, before \ after)
    <3> DEFINE o == [i \in Matrix |-> <<"MATRIX", i>> \in old.held]
               n == [i \in Matrix |-> <<"MATRIX", i>> \in new.held]
    <3>1. Decoded(old).matrix = o /\ Decoded(new).matrix = n
      BY DEF Decoded
    <3>2. /\ DOMAIN n = Matrix
          /\ \A i \in Matrix : n[i] \in BOOLEAN /\ o[i] \in BOOLEAN
          /\ \A i \in Matrix : n[i] <=> <<"MATRIX", i>> \in new.held
          /\ \A i \in Matrix : o[i] <=> <<"MATRIX", i>> \in old.held
      <4>1. DOMAIN n = Matrix /\ n \in [Matrix -> BOOLEAN] /\ o \in [Matrix -> BOOLEAN]
        OBVIOUS
      <4>2. \A i \in Matrix : n[i] <=> <<"MATRIX", i>> \in new.held
        OBVIOUS
      <4>3. \A i \in Matrix : o[i] <=> <<"MATRIX", i>> \in old.held
        OBVIOUS
      <4> HIDE DEF n, o
      <4> QED BY <4>1, <4>2, <4>3
    <3> HIDE DEF o, n
    <3>3. \A i \in Matrix : (n[i] # o[i] /\ n[i] = FALSE) <=> <<"MATRIX", i>> \in before \ after
      BY <2>1, <3>2
    <3> QED BY <3>1, <3>2, <3>3 DEF Turning, Of
  <2>4. Turning(Decoded(old).special, Decoded(new).special, TRUE) = Of("SPECIAL", Special, after \ before)
    BY <2>1 DEF Turning, Decoded, Of
  <2>5. Turning(Decoded(old).special, Decoded(new).special, FALSE) = Of("SPECIAL", Special, before \ after)
    <3> DEFINE o == [i \in Special |-> <<"SPECIAL", i>> \in old.held]
               n == [i \in Special |-> <<"SPECIAL", i>> \in new.held]
    <3>1. Decoded(old).special = o /\ Decoded(new).special = n
      BY DEF Decoded
    <3>2. /\ DOMAIN n = Special
          /\ \A i \in Special : n[i] \in BOOLEAN /\ o[i] \in BOOLEAN
          /\ \A i \in Special : n[i] <=> <<"SPECIAL", i>> \in new.held
          /\ \A i \in Special : o[i] <=> <<"SPECIAL", i>> \in old.held
      <4>1. DOMAIN n = Special /\ n \in [Special -> BOOLEAN] /\ o \in [Special -> BOOLEAN]
        OBVIOUS
      <4>2. \A i \in Special : n[i] <=> <<"SPECIAL", i>> \in new.held
        OBVIOUS
      <4>3. \A i \in Special : o[i] <=> <<"SPECIAL", i>> \in old.held
        OBVIOUS
      <4> HIDE DEF n, o
      <4> QED BY <4>1, <4>2, <4>3
    <3> HIDE DEF o, n
    <3>3. \A i \in Special : (n[i] # o[i] /\ n[i] = FALSE) <=> <<"SPECIAL", i>> \in before \ after
      BY <2>1, <3>2
    <3> QED BY <3>1, <3>2, <3>3 DEF Turning, Of
  <2> QED BY <2>2, <2>3, <2>4, <2>5
<1>6. \A i \in Stop : Listed(i, d0.pressed.stop)
                      <=> <<"STOP", i>> \in new.held /\ <<"STOP", i>> \notin old.held
  <2> DEFINE s == d0.pressed.stop
  <2>1. Lists(s, {i \in Stop : <<"STOP", i>> \in new.held /\ <<"STOP", i>> \notin old.held})
    BY <1>1, <1>2, <1>4
  <2> HIDE DEF s, d0
  <2>2. DOMAIN s = 1 .. Len(s)
    BY <2>1, LenProperties DEF Lists
  <2>3. \A k \in 1 .. Len(s) : <<"STOP", s[k]>> \in new.held /\ <<"STOP", s[k]>> \notin old.held
    BY <2>1, ElementOfSeq DEF Lists
  <2>4. \A i \in Stop : <<"STOP", i>> \in new.held /\ <<"STOP", i>> \notin old.held
                       => \E k \in 1 .. Len(s) : s[k] = i
    BY <2>1 DEF Lists
  <2>5. \A i \in Stop : Listed(i, s)
                      <=> <<"STOP", i>> \in new.held /\ <<"STOP", i>> \notin old.held
    BY <2>2, <2>3, <2>4 DEF Listed
  <2> QED BY <2>5 DEF s
<1>7. \A i \in Stop : <<"STOP", i>> \in g <=>
          IF <<"STOP", i>> \in new.held /\ <<"STOP", i>> \notin old.held
            THEN <<"STOP", i>> \notin f ELSE <<"STOP", i>> \in f
  BY DEF SymDiff, PressedStops
<1> HIDE DEF d0, g
<1>8. Latches(next, g)
  <2>1. next \in [Stop -> BOOLEAN]
    BY DEF Flip, Latches
  <2>2. \A i \in Stop : next[i] <=> <<"STOP", i>> \in g
    BY <1>6, <1>7 DEF Flip, Latches
  <2> HIDE DEF next
  <2> QED BY <2>1, <2>2 DEF Latches
<1> HIDE DEF next
<1>9. /\ Lists(d.pressed.stop, Of("STOP", Stop, after \ before))
      /\ Lists(d.released.stop, Of("STOP", Stop, before \ after))
  <2>1. /\ {i \in Stop : Listed(i, d0.pressed.stop) /\ next[i] = TRUE} = Of("STOP", Stop, after \ before)
        /\ {i \in Stop : Listed(i, d0.pressed.stop) /\ next[i] = FALSE} = Of("STOP", Stop, before \ after)
    BY <1>3, <1>6, <1>7, <1>8 DEF Of, OnAt, Latches
  <2>2. Of("STOP", Stop, after \ before) \in SUBSET (0 .. 3) /\ Of("STOP", Stop, before \ after) \in SUBSET (0 .. 3)
    BY DEF Of, Stop
  <2>3. 3 \in Nat
    OBVIOUS
  <2> HIDE DEF d, before, after
  <2> QED BY <2>1, <2>2, <2>3, <1>1, InOrderOf
<1>10. Tells(d, before, after)
  BY <1>1, <1>2, <1>5, <1>9 DEF Tells
<1> QED BY <1>8, <1>10 DEF d0, g, next

-----------------------------------------------------------------------------
(* The invariant of the main loop: last is what the report said, the       *)
(* latches are right, and nothing is left to push outside of push_event(). *)
LoopInv ==
  /\ ClientInv
  /\ position \in Position
  /\ input = Decoded(position)
  /\ Latches(stop_buttons, flips)
  /\ pc \in {"read", "push", "lights"}
  /\ pc # "push" => todo = <<>> /\ pending = <<>>

(* What a difference gives are events of the client.                       *)
LEMMA EventsAreEvents ==
  ASSUME NEW d, NEW before, NEW after, Tells(d, before, after)
  PROVE  MidiEvents(d) \in Seq(Event)
<1>1. \A b \in Buttons : \A on \in BOOLEAN : Says(b, on) \in Event
  BY EventAssumption DEF Says, MidiEvent, Keys
<1>2. EventsBetween(before, after) \subseteq Event
  BY <1>1 DEF EventsBetween
<1> QED BY <1>2, EventsOf, SeqMonotonic DEF Lists

(* What the loop knows after a report.                                     *)
LEMMA ReadFacts ==
  ASSUME LoopInv, Read
  PROVE  /\ position' \in Position
         /\ input' = Decoded(position')
         /\ Latches(stop_buttons', flips')
         /\ input_diff' = LatchStops(stop_buttons, InputDiff(input', input))
         /\ Tells(input_diff', OnAt(position, flips), OnAt(position', flips'))
         /\ todo' = MidiEvents(input_diff') /\ todo' \in Seq(Event)
<1>1. PICK p \in Positions :
        /\ position' = p
        /\ flips' = SymDiff(flips, PressedStops(p, position))
        /\ input' = ReadInput(Report(p))
        /\ stop_buttons' = Flip(stop_buttons, InputDiff(input', input))
        /\ input_diff' = LatchStops(stop_buttons, InputDiff(input', input))
        /\ todo' = MidiEvents(input_diff')
  BY DEF Read, PressedStops
<1>2. p \in Position /\ input' = Decoded(p)
  BY <1>1, PositionsAssumption, ReadDecodes
<1>3. position \in Position /\ input = Decoded(position) /\ Latches(stop_buttons, flips)
  BY DEF LoopInv
<1>4. /\ Latches(stop_buttons', flips')
      /\ Tells(input_diff', OnAt(position, flips), OnAt(p, flips'))
  BY <1>1, <1>2, <1>3, LatchTells
<1>5. todo' \in Seq(Event)
  BY <1>1, <1>4, EventsAreEvents
<1> QED BY <1>1, <1>2, <1>4, <1>5

(* New events to push leave the queue alone.                               *)
LEMMA TodoInv ==
  ASSUME ClientInv, todo' \in Seq(Event),
         UNCHANGED <<pending, input_buf, write_ptr, cycle, last, status>>
  PROVE  ClientInv' /\ Queued' = Queued
<1>1. Stream' = Stream /\ Start' = Start
  BY DEF Stream, Start
<1>2. ClientTypeOK'
  BY DEF ClientInv, ClientTypeOK
<1>3. Wellformed'
  BY <1>1 DEF ClientInv, Wellformed
<1>4. Queued' = Queued
  BY DEF Queued, Torn
<1> QED BY <1>1, <1>2, <1>3, <1>4 DEF ClientInv

(* Steps of others leave the queue alone.                                  *)
LEMMA ClientStutters ==
  ASSUME ClientInv, UNCHANGED clientVars
  PROVE  ClientInv' /\ Queued' = Queued
<1>1. todo' \in Seq(Event)
  BY DEF ClientInv, ClientTypeOK, clientVars
<1> QED BY <1>1, TodoInv DEF clientVars

(* The loop's invariant holds at first.                                    *)
LEMMA LoopInvInit == Init => LoopInv
<1> SUFFICES ASSUME Init PROVE LoopInv
  OBVIOUS
<1>1. ClientInv /\ todo = <<>> /\ pending = <<>> /\ pc = "read"
  BY ClientInitInv DEF Init, ClientInit
<1>2. position = [held |-> {}, wheel |-> 0, knobs |-> [i \in Knobs |-> 0], faders |-> [i \in Faders |-> 0]]
  BY DEF Init
<1>3. position \in Position
  <2>1. 0 \in Byte /\ 0 \in 0 .. FADERS_MAX
    BY DEF Byte, FADERS_MAX
  <2> QED BY <1>2, <2>1 DEF Position
<1>4. input = Decoded(position)
  <2>1. input = InitialInput
    BY DEF Init
  <2>2. /\ position.held = {} /\ position.wheel = 0 /\ position.knobs = [i \in Knobs |-> 0]
        /\ position.faders = [i \in Faders |-> 0]
    BY <1>2
  <2>3. /\ [i \in Matrix |-> <<"MATRIX", i>> \in position.held] = [i \in Matrix |-> FALSE]
        /\ [i \in Special |-> <<"SPECIAL", i>> \in position.held] = [i \in Special |-> FALSE]
        /\ [i \in Stop |-> <<"STOP", i>> \in position.held] = [i \in Stop |-> FALSE]
    <3>1. \A b : (b \in position.held) = FALSE
      BY <2>2
    <3> QED BY <3>1
  <2>4. Decoded(position) = InitialInput
    BY <2>2, <2>3 DEF Decoded, InitialInput, InitialInputState
  <2> QED BY <2>1, <2>4
<1>5. Latches(stop_buttons, flips)
  BY DEF Init, Latches
<1> QED BY <1>1, <1>3, <1>4, <1>5 DEF LoopInv

(* Every step keeps the loop's invariant.                                  *)
LEMMA LoopInvNext == LoopInv /\ [Next]_vars => LoopInv'
<1> SUFFICES ASSUME LoopInv, [Next]_vars PROVE LoopInv'
  OBVIOUS
<1>0. ClientInv
  BY DEF LoopInv
<1>1. CASE Read
  <2>1. UNCHANGED <<pending, input_buf, write_ptr, cycle, last, status>> /\ pc' = "push"
    BY <1>1 DEF Read
  <2>2. ClientInv'
    BY <1>0, <1>1, <2>1, ReadFacts, TodoInv
  <2> QED BY <1>1, <2>1, <2>2, ReadFacts DEF LoopInv
<1>2. CASE Push
  <2>1. (Write \/ WriteRest) /\ UNCHANGED <<position, flips, input, stop_buttons, pc>>
    BY <1>2 DEF Push, hands, loop
  <2>2. ClientInv'
    BY <1>0, <2>1, WriteInv, WriteRestInv
  <2>3. pc = "push"
    <3>1. todo # <<>> \/ pending # <<>>
      BY <2>1 DEF Write, WriteRest
    <3> QED BY <3>1 DEF LoopInv
  <2> QED BY <2>1, <2>2, <2>3 DEF LoopInv
<1>3. CASE Broadcast
  <2>1. /\ UNCHANGED <<position, flips, input, stop_buttons>> /\ UNCHANGED clientVars
        /\ todo = <<>> /\ pending = <<>> /\ pc' = "lights"
    BY <1>3 DEF Broadcast, hands, loop
  <2>2. ClientInv'
    BY <1>0, <2>1, ClientStutters
  <2> QED BY <2>1, <2>2 DEF LoopInv, clientVars
<1>4. CASE SetColors
  <2>1. /\ UNCHANGED <<position, flips, input, stop_buttons>> /\ UNCHANGED clientVars
        /\ pc = "lights" /\ pc' = "read"
    BY <1>4 DEF SetColors, hands
  <2>2. ClientInv'
    BY <1>0, <2>1, ClientStutters
  <2> QED BY <2>1, <2>2 DEF LoopInv, clientVars
<1>5. CASE Process
  <2>1. (BeginCycle \/ SendEvent) /\ UNCHANGED <<position, flips, input, stop_buttons, pc>>
    BY <1>5 DEF Process, Callback, hands, loop
  <2>2. ClientInv'
    BY <1>0, <2>1, BeginCycleInv, SendInv
  <2>3. UNCHANGED <<todo, pending>>
    BY <2>1 DEF BeginCycle, SendEvent
  <2> QED BY <2>1, <2>2, <2>3 DEF LoopInv
<1>6. CASE UNCHANGED vars
  <2>1. /\ UNCHANGED <<position, flips, input, stop_buttons, pc>> /\ UNCHANGED clientVars
    BY <1>6 DEF vars, hands, loop
  <2>2. ClientInv'
    BY <1>0, <2>1, ClientStutters
  <2> QED BY <2>1, <2>2 DEF LoopInv, clientVars
<1>7. CASE Join
  <2>1. /\ UNCHANGED <<position, flips, input, stop_buttons, pc>> /\ UNCHANGED clientVars
    BY <1>7 DEF Join, hands, loop
  <2>2. ClientInv'
    BY <1>0, <2>1, ClientStutters
  <2> QED BY <2>1, <2>2 DEF LoopInv, clientVars
<1> QED BY <1>1, <1>2, <1>3, <1>4, <1>5, <1>6, <1>7 DEF Next, MainStep

(* The invariant of the main loop and of the queue, for every size of the  *)
(* storage, every capacity of the port and any positions of the controls.  *)
THEOREM LoopInvariant == Spec => []LoopInv
BY LoopInvInit, LoopInvNext, PTL DEF Spec

-----------------------------------------------------------------------------
(* What Channel takes for pushed.                                          *)
Pushed == IF Queued = <<>> /\ last = NoEvent THEN "none" ELSE "ok"

(* A step that leaves queue and last alone is one of the channel.          *)
LEMMA QueueStutters ==
  ASSUME Queued' = Queued, last' = last
  PROVE  [Channel!FifoNext]_(Channel!fifoVars)
BY DEF Channel!fifoVars

(* An event that becomes readable is pushed, within the capacity.          *)
LEMMA ChannelPush ==
  ASSUME ClientInv, NEW e \in Event, Queued' = Append(Queued, e), last' = last,
         Len(Queued) < (Size - 1) \div 3
  PROVE  [Channel!FifoNext]_(Channel!fifoVars)
<1>1. Queued \in Seq(Event) /\ last \in Event \cup {NoEvent}
  BY QueueFacts DEF QueueView, ClientInv, ClientTypeOK
<1>2. Pushed' = "ok"
  <2>1. Queued' # <<>>
    <3>1. Queued' \in Seq(Event) /\ Len(Queued') = Len(Queued) + 1 /\ Len(Queued) \in Nat
      BY <1>1, AppendProperties, LenProperties
    <3> HIDE DEF Queued
    <3> QED BY <3>1, EmptySeq
  <2> QED BY <2>1 DEF Pushed
<1> HIDE DEF Queued
<1>3. Channel!Push(e)
  BY <1>2 DEF Channel!Push, Pushed
<1> QED BY <1>3 DEF Channel!FifoNext

(* The event a round reads is popped.                                      *)
LEMMA ChannelPop ==
  ASSUME ClientInv, Queued # <<>>, Queued' = Tail(Queued), last' = Head(Queued),
         Head(Queued) \in Event
  PROVE  [Channel!FifoNext]_(Channel!fifoVars)
<1>1. Pushed = "ok" /\ Pushed' = "ok"
  BY NoEventAssumption DEF Pushed
<1> HIDE DEF Queued
<1>2. Channel!Pop
  BY <1>1 DEF Channel!Pop, Pushed
<1> QED BY <1>2 DEF Channel!FifoNext

(* Every step of the program is a step of the bounded queue, or none.      *)
LEMMA ChannelStep == LoopInv /\ [Next]_vars => [Channel!FifoNext]_(Channel!fifoVars)
<1> SUFFICES ASSUME LoopInv, [Next]_vars PROVE [Channel!FifoNext]_(Channel!fifoVars)
  OBVIOUS
<1>0. ClientInv
  BY DEF LoopInv
<1>1. CASE Read
  <2>1. UNCHANGED <<pending, input_buf, write_ptr, cycle, last, status>>
    BY <1>1 DEF Read
  <2>2. Queued' = Queued
    BY <1>0, <1>1, <2>1, ReadFacts, TodoInv
  <2> QED BY <2>1, <2>2, QueueStutters
<1>2. CASE Write
  <2>1. \/ Queued' = Append(Queued, Head(todo)) /\ Len(Queued) < (Size - 1) \div 3
        \/ Queued' = Queued
    BY <1>0, <1>2, WriteQueue
  <2>2. Head(todo) \in Event /\ last' = last
    BY <1>0, <1>2, WriteQueue
  <2> QED BY <1>0, <2>1, <2>2, ChannelPush, QueueStutters
<1>3. CASE WriteRest
  <2>1. /\ Queued' = Append(Queued, pending[1][1]) /\ Len(Queued) < (Size - 1) \div 3
        /\ pending[1][1] \in Event /\ last' = last
    BY <1>0, <1>3, WriteRestQueue
  <2> QED BY <1>0, <2>1, ChannelPush
<1>4. CASE BeginCycle
  <2>1. UNCHANGED <<input_buf, last>>
    BY <1>4 DEF BeginCycle
  <2> QED BY <2>1, QueueStutters DEF Queued, Torn
<1>5. CASE SendEvent
  <2>1. \/ /\ Queued # <<>> /\ Head(Queued) \in Event
           /\ Queued' = Tail(Queued) /\ last' = Head(Queued)
        \/ Queued' = Queued /\ last' = last
    BY <1>0, <1>5, SendQueue
  <2> QED BY <1>0, <2>1, ChannelPop, QueueStutters
<1>6. CASE UNCHANGED clientVars
  BY <1>6, <1>0, ClientStutters, QueueStutters DEF clientVars
<1>7. \/ Read \/ Write \/ WriteRest \/ BeginCycle \/ SendEvent \/ UNCHANGED clientVars
  BY DEF Next, MainStep, Push, Broadcast, SetColors, Process, Callback, Join, vars
<1> QED BY <1>1, <1>2, <1>3, <1>4, <1>5, <1>6, <1>7

(* Bytes, two-part writes and cycles together behave as an atomic queue of *)
(* at most (Size - 1) / 3 events, whatever is pushed (ImplementsChannel):  *)
(* nothing is torn, lost, repeated or reordered.                           *)
THEOREM Refinement == Spec => ImplementsChannel
<1>1. Init => Channel!FifoInit
  <2> SUFFICES ASSUME Init PROVE Channel!FifoInit
    OBVIOUS
  <2>2. input_buf = <<>> /\ last = NoEvent
    BY DEF Init, ClientInit
  <2>3. Queued = <<>>
    <3>1. QueueView /\ ClientInv
      BY LoopInvInit, QueueFacts DEF LoopInv
    <3>2. Len(input_buf) = 0 /\ Torn = 0
      BY <2>2, EmptySeq DEF Torn
    <3>3. Queued \in Seq(Event) /\ Len(Queued) = 0
      BY <3>1, <3>2 DEF QueueView
    <3> HIDE DEF Queued
    <3> QED BY <3>3, EmptySeq
  <2> QED BY <2>2, <2>3 DEF Channel!FifoInit
<1>2. LoopInv /\ [Next]_vars => [Channel!FifoNext]_(Channel!fifoVars)
  BY ChannelStep
<1> QED BY LoopInvariant, <1>1, <1>2, PTL DEF Spec, ImplementsChannel, Channel!FifoSpec

(* The callback ends only when it meets an event of which the other thread *)
(* has written a part, or when the port is full (FailsOnlyTorn).           *)
THEOREM CallbackFailures == Spec => FailsOnlyTorn
<1>1. LoopInv /\ [Next]_vars =>
        [(status = "running" /\ status' = "failed") =>
           pending # <<>> \/ cycle.written = PortEvents]_clientVars
  <2> SUFFICES ASSUME LoopInv, [Next]_vars, status = "running", status' = "failed"
               PROVE  pending # <<>> \/ cycle.written = PortEvents
    OBVIOUS
  <2>0. ClientInv
    BY DEF LoopInv
  <2>1. CASE Write
    BY <2>1 DEF Write
  <2>2. CASE SendEvent
    BY <2>0, <2>2, SendQueue
  <2>3. CASE UNCHANGED status
    BY <2>3
  <2>4. Write \/ SendEvent \/ UNCHANGED status
    BY DEF Next, MainStep, Push, Broadcast, SetColors, Process, Callback, vars, clientVars, Read, WriteRest, BeginCycle, Join
  <2> QED BY <2>1, <2>2, <2>3, <2>4
<1> QED BY LoopInvariant, <1>1, PTL DEF Spec, FailsOnlyTorn

-----------------------------------------------------------------------------
(* The first message about a key is not what the receiver knows.           *)
FirstIsNews(m, h) ==
  \A i \in 1 .. Len(m) : (\A j \in 1 .. Len(m) : m[j].key = m[i].key => i <= j) => h[m[i].key] # m[i].on

(* A message about a key differs from the one before.                      *)
NextIsNews(m) ==
  \A i, j \in 1 .. Len(m) :
    i < j /\ m[i].key = m[j].key
    /\ (\A k \in 1 .. Len(m) : m[k].key = m[i].key => k <= i \/ j <= k)
    => m[i].on # m[j].on

(* A button no message is about is what the receiver takes it for.         *)
NoneIsRight(m, h, on) ==
  \A b \in Buttons : (\A i \in 1 .. Len(m) : m[i].key # Key(b)) => h[Key(b)] = (b \in on)

(* The last message about a button says what it is.                        *)
LastIsRight(m, on) ==
  \A b \in Buttons : \A i \in 1 .. Len(m) :
    m[i].key = Key(b) /\ (\A j \in 1 .. Len(m) : m[j].key = Key(b) => j <= i)
    => m[i].on = (b \in on)

(* A host that has h and receives the messages m ends with exactly the     *)
(* buttons of the set on, and each message tells it something new. Stated  *)
(* without recursion: by the first, next and last message about each key.  *)
Leads(m, h, on) ==
  /\ m \in Seq(MidiEvent)
  /\ h \in [Keys -> BOOLEAN]
  /\ FirstIsNews(m, h)
  /\ NextIsNews(m)
  /\ NoneIsRight(m, h, on)
  /\ LastIsRight(m, on)

(* Receiving the first message changes what the host knows, and leaves it  *)
(* with messages that lead to the same end.                                *)
LEMMA LeadsReceive ==
  ASSUME NEW m, NEW h, NEW on, Leads(m, h, on), m # <<>>
  PROVE  /\ Leads(Tail(m), Receive(h, Head(m)), on)
         /\ Receive(h, Head(m)) # h
<1> DEFINE n == Len(m)
           t == Tail(m)
           e == Head(m)
           g == Receive(h, e)
<1>1. m \in Seq(MidiEvent) /\ h \in [Keys -> BOOLEAN] /\ n \in Nat /\ n # 0
  BY EmptySeq DEF Leads
<1>2. /\ t \in Seq(MidiEvent) /\ Len(t) = n - 1 /\ e = m[1] /\ e \in MidiEvent
      /\ \A i \in 1 .. n - 1 : t[i] = m[i + 1]
  BY <1>1, HeadTailProperties
<1>3. e.key \in Keys /\ e.on \in BOOLEAN
  BY <1>2 DEF MidiEvent
<1>4. /\ g \in [Keys -> BOOLEAN]
      /\ \A k \in Keys : g[k] = IF k = e.key THEN e.on ELSE h[k]
  BY <1>1, <1>3 DEF Receive
<1> HIDE DEF n, t, e, g
<1>5. FirstIsNews(m, h) /\ NextIsNews(m) /\ NoneIsRight(m, h, on) /\ LastIsRight(m, on)
  BY DEF Leads
<1>6. h[e.key] # e.on
  <2>1. 1 \in 1 .. n /\ \A j \in 1 .. n : 1 <= j
    BY <1>1
  <2> QED BY <2>1, <1>2, <1>5 DEF FirstIsNews, n
<1>7. g # h
  BY <1>3, <1>4, <1>6
<1>8. \A i \in 1 .. n - 1 : t[i].key \in Keys
  <2>1. \A i \in 1 .. n - 1 : t[i] \in MidiEvent
    BY <1>2, ElementOfSeq
  <2>2. \A x \in MidiEvent : x.key \in Keys
    BY DEF MidiEvent
  <2> QED BY <2>1, <2>2
<1>9. FirstIsNews(t, g)
  <2> SUFFICES ASSUME NEW i \in 1 .. n - 1, \A j \in 1 .. n - 1 : t[j].key = t[i].key => i <= j
               PROVE  g[t[i].key] # t[i].on
    BY <1>2 DEF FirstIsNews
  <2>1. i + 1 \in 1 .. n /\ m[i + 1] = t[i] /\ 1 \in 1 .. n /\ 1 < i + 1
    BY <1>1, <1>2
  <2>2. \A k \in 1 .. n : m[k].key = m[i + 1].key => k <= 1 \/ i + 1 <= k
    <3>1. ASSUME NEW k \in 1 .. n, m[k].key = m[i + 1].key, ~(k <= 1) PROVE i + 1 <= k
      <4>1. k - 1 \in 1 .. n - 1 /\ k - 1 + 1 = k
        BY <1>1, <3>1
      <4>2. t[k - 1] = m[k]
        BY <1>2, <4>1
      <4>3. i <= k - 1
        BY <4>1, <4>2, <2>1, <3>1
      <4> QED BY <4>3, <1>1
    <3> QED BY <3>1
  <2>3. CASE t[i].key = e.key
    <3>1. m[1].on # m[i + 1].on
      BY <2>1, <2>2, <2>3, <1>2, <1>5 DEF NextIsNews, n
    <3>2. g[t[i].key] = e.on
      BY <1>4, <1>3, <2>3
    <3> QED BY <3>1, <3>2, <1>2, <2>1
  <2>4. CASE t[i].key # e.key
    <3>1. g[t[i].key] = h[t[i].key]
      BY <1>4, <1>8, <2>4
    <3>2. \A j \in 1 .. n : m[j].key = m[i + 1].key => i + 1 <= j
      BY <2>1, <2>2, <2>4, <1>2
    <3>3. h[m[i + 1].key] # m[i + 1].on
      BY <2>1, <3>2, <1>5 DEF FirstIsNews, n
    <3> QED BY <3>1, <3>3, <2>1
  <2> QED BY <2>3, <2>4
<1>10. NextIsNews(t)
  <2> SUFFICES ASSUME NEW i \in 1 .. n - 1, NEW j \in 1 .. n - 1, i < j, t[i].key = t[j].key,
                      \A k \in 1 .. n - 1 : t[k].key = t[i].key => k <= i \/ j <= k
               PROVE  t[i].on # t[j].on
    BY <1>2 DEF NextIsNews
  <2>1. /\ i + 1 \in 1 .. n /\ m[i + 1] = t[i] /\ j + 1 \in 1 .. n /\ m[j + 1] = t[j]
        /\ i + 1 < j + 1
    BY <1>1, <1>2
  <2>2. \A k \in 1 .. n : m[k].key = m[i + 1].key => k <= i + 1 \/ j + 1 <= k
    <3>1. ASSUME NEW k \in 1 .. n, m[k].key = m[i + 1].key, ~(k <= i + 1) PROVE j + 1 <= k
      <4>1. k - 1 \in 1 .. n - 1 /\ k - 1 + 1 = k /\ ~(k - 1 <= i)
        BY <1>1, <3>1
      <4>2. t[k - 1] = m[k]
        BY <1>2, <4>1
      <4>3. j <= k - 1
        BY <4>1, <4>2, <2>1, <3>1
      <4> QED BY <4>3, <1>1
    <3> QED BY <3>1
  <2>3. m[i + 1].on # m[j + 1].on
    BY <2>1, <2>2, <1>5 DEF NextIsNews, n
  <2> QED BY <2>1, <2>3
<1>11. NoneIsRight(t, g, on)
  <2> SUFFICES ASSUME NEW b \in Buttons, \A i \in 1 .. n - 1 : t[i].key # Key(b)
               PROVE  g[Key(b)] = (b \in on)
    BY <1>2 DEF NoneIsRight
  <2>1. Key(b) \in Keys
    BY DEF Keys
  <2>2. \A k \in 1 .. n : m[k].key = Key(b) => k <= 1
    <3>1. ASSUME NEW k \in 1 .. n, m[k].key = Key(b), ~(k <= 1) PROVE FALSE
      <4>1. k - 1 \in 1 .. n - 1 /\ k - 1 + 1 = k
        BY <1>1, <3>1
      <4>2. t[k - 1] = m[k]
        BY <1>2, <4>1
      <4> QED BY <4>1, <4>2, <3>1
    <3> QED BY <3>1
  <2>3. CASE e.key = Key(b)
    <3>1. m[1].on = (b \in on)
      <4>1. 1 \in 1 .. n
        BY <1>1
      <4> QED BY <4>1, <2>2, <2>3, <1>2, <1>5 DEF LastIsRight, n
    <3> QED BY <3>1, <2>1, <2>3, <1>2, <1>4
  <2>4. CASE e.key # Key(b)
    <3>1. \A k \in 1 .. n : m[k].key # Key(b)
      <4>1. \A k \in 1 .. n : k <= 1 => k = 1
        BY <1>1
      <4> QED BY <4>1, <2>2, <2>4, <1>2
    <3>2. h[Key(b)] = (b \in on)
      BY <3>1, <1>5 DEF NoneIsRight, n
    <3> QED BY <3>2, <2>1, <2>4, <1>4
  <2> QED BY <2>3, <2>4
<1>12. LastIsRight(t, on)
  <2> SUFFICES ASSUME NEW b \in Buttons, NEW i \in 1 .. n - 1, t[i].key = Key(b),
                      \A j \in 1 .. n - 1 : t[j].key = Key(b) => j <= i
               PROVE  t[i].on = (b \in on)
    BY <1>2 DEF LastIsRight
  <2>1. i + 1 \in 1 .. n /\ m[i + 1] = t[i]
    BY <1>1, <1>2
  <2>2. \A k \in 1 .. n : m[k].key = Key(b) => k <= i + 1
    <3>1. ASSUME NEW k \in 1 .. n, m[k].key = Key(b), ~(k <= 1) PROVE k <= i + 1
      <4>1. k - 1 \in 1 .. n - 1 /\ k - 1 + 1 = k
        BY <1>1, <3>1
      <4>2. t[k - 1] = m[k]
        BY <1>2, <4>1
      <4>3. k - 1 <= i
        BY <4>1, <4>2, <3>1
      <4> QED BY <4>3, <1>1
    <3>2. \A k \in 1 .. n : k <= 1 => k <= i + 1
      BY <1>1
    <3> QED BY <3>1, <3>2
  <2>3. m[i + 1].on = (b \in on)
    BY <2>1, <2>2, <1>5 DEF LastIsRight, n
  <2> QED BY <2>1, <2>3
<1> QED BY <1>2, <1>4, <1>7, <1>9, <1>10, <1>11, <1>12 DEF Leads, t, e, g

(* The events between two sets, one by one.                                *)
LEMMA EventsBetweenFacts ==
  ASSUME NEW before, NEW after, NEW t, Lists(t, EventsBetween(before, after))
  PROVE  /\ t \in Seq(MidiEvent)
         /\ \A i \in 1 .. Len(t) : \E b \in Buttons :
              t[i].key = Key(b) /\ t[i].on = (b \in after) /\ (b \in before) # (b \in after)
         /\ \A i, j \in 1 .. Len(t) : t[i].key = t[j].key => i = j
         /\ \A b \in Buttons : (\A i \in 1 .. Len(t) : t[i].key # Key(b))
                               => (b \in before) = (b \in after)
<1> DEFINE on == Buttons \cap (after \ before)
           off == Buttons \cap (before \ after)
<1>1. \A b \in Buttons : \A v \in BOOLEAN :
        Says(b, v) \in MidiEvent /\ Says(b, v).key = Key(b) /\ Says(b, v).on = v
  BY DEF Says, MidiEvent, Keys
<1>2. EventsBetween(before, after) = {Says(b, TRUE) : b \in on} \cup {Says(b, FALSE) : b \in off}
  BY DEF EventsBetween
<1>3. \A e \in EventsBetween(before, after) : \E b \in Buttons : e = Says(b, b \in after)
                                                                 /\ (b \in before) # (b \in after)
  <2>1. ASSUME NEW b \in on
        PROVE  Says(b, TRUE) = Says(b, b \in after) /\ (b \in before) # (b \in after)
    <3>1. (b \in after) = TRUE /\ (b \in before) = FALSE
      OBVIOUS
    <3> QED BY <3>1
  <2>2. ASSUME NEW b \in off
        PROVE  Says(b, FALSE) = Says(b, b \in after) /\ (b \in before) # (b \in after)
    <3>1. (b \in after) = FALSE /\ (b \in before) = TRUE
      OBVIOUS
    <3> QED BY <3>1
  <2>3. on \subseteq Buttons /\ off \subseteq Buttons
    OBVIOUS
  <2> HIDE DEF on, off
  <2> QED BY <1>2, <2>1, <2>2, <2>3
<1>4. \A i \in 1 .. Len(t) : t[i] \in EventsBetween(before, after)
  BY ElementOfSeq DEF Lists
<1>5. t \in Seq(MidiEvent)
  <2>1. ASSUME NEW e \in EventsBetween(before, after) PROVE e \in MidiEvent
    <3>1. PICK b \in Buttons : e = Says(b, b \in after)
      BY <1>3
    <3>2. (b \in after) \in BOOLEAN
      OBVIOUS
    <3> QED BY <3>1, <3>2, <1>1
  <2> QED BY <2>1, SeqMonotonic DEF Lists
<1>6. \A i \in 1 .. Len(t) : \E b \in Buttons :
        t[i].key = Key(b) /\ t[i].on = (b \in after) /\ (b \in before) # (b \in after)
  <2>1. ASSUME NEW i \in 1 .. Len(t)
        PROVE  \E b \in Buttons : t[i].key = Key(b) /\ t[i].on = (b \in after)
                                 /\ (b \in before) # (b \in after)
    <3>1. PICK b \in Buttons : t[i] = Says(b, b \in after) /\ (b \in before) # (b \in after)
      BY <1>3, <1>4
    <3>2. (b \in after) \in BOOLEAN
      OBVIOUS
    <3> QED BY <3>1, <3>2, <1>1
  <2> QED BY <2>1
<1>7. \A i, j \in 1 .. Len(t) : t[i].key = t[j].key => i = j
  <2>1. ASSUME NEW i \in 1 .. Len(t), NEW j \in 1 .. Len(t), t[i].key = t[j].key
        PROVE  i = j
    <3>1. PICK b \in Buttons : t[i] = Says(b, b \in after)
      BY <1>3, <1>4
    <3>2. PICK c \in Buttons : t[j] = Says(c, c \in after)
      BY <1>3, <1>4
    <3>3. (b \in after) \in BOOLEAN /\ (c \in after) \in BOOLEAN
      OBVIOUS
    <3>4. t[i].key = Key(b) /\ t[j].key = Key(c)
      BY <3>1, <3>2, <3>3, <1>1
    <3>5. b = c
      BY <3>4, <2>1, KeyInjective
    <3>6. t[i] = t[j]
      BY <3>1, <3>2, <3>5
    <3> QED BY <3>6 DEF Lists
  <2> QED BY <2>1
<1>8. \A b \in Buttons : (\A i \in 1 .. Len(t) : t[i].key # Key(b)) => (b \in before) = (b \in after)
  <2>1. ASSUME NEW b \in Buttons, (b \in before) # (b \in after)
        PROVE  \E i \in 1 .. Len(t) : t[i].key = Key(b)
    <3>1. \E v \in BOOLEAN : Says(b, v) \in EventsBetween(before, after)
      <4>1. CASE b \in after
        <5>1. b \in on
          BY <4>1, <2>1
        <5> HIDE DEF on, off
        <5> QED BY <5>1, <1>2
      <4>2. CASE b \notin after
        <5>1. b \in off
          BY <4>2, <2>1
        <5> HIDE DEF on, off
        <5> QED BY <5>1, <1>2
      <4> QED BY <4>1, <4>2
    <3>2. PICK v \in BOOLEAN : Says(b, v) \in EventsBetween(before, after)
      BY <3>1
    <3>3. PICK i \in 1 .. Len(t) : t[i] = Says(b, v)
      BY <3>2 DEF Lists
    <3>4. t[i].key = Key(b)
      BY <3>3, <1>1
    <3> QED BY <3>4
  <2> QED BY <2>1
<1> QED BY <1>5, <1>6, <1>7, <1>8

(* The messages that lead to one set of buttons, followed by the events    *)
(* from there to another, lead to that.                                    *)
LEMMA LeadsAppend ==
  ASSUME NEW m, NEW h, NEW before, NEW after, Leads(m, h, before),
         NEW t, Lists(t, EventsBetween(before, after))
  PROVE  Leads(m \o t, h, after)
<1> DEFINE n == Len(m)
           l == Len(t)
           q == m \o t
<1>1. m \in Seq(MidiEvent) /\ h \in [Keys -> BOOLEAN] /\ n \in Nat
  BY LenProperties DEF Leads
<1>2. /\ t \in Seq(MidiEvent) /\ l \in Nat
      /\ \A i \in 1 .. l : \E b \in Buttons :
           t[i].key = Key(b) /\ t[i].on = (b \in after) /\ (b \in before) # (b \in after)
      /\ \A i, j \in 1 .. l : t[i].key = t[j].key => i = j
      /\ \A b \in Buttons : (\A i \in 1 .. l : t[i].key # Key(b)) => (b \in before) = (b \in after)
  BY EventsBetweenFacts, LenProperties
<1>3. /\ q \in Seq(MidiEvent) /\ Len(q) = n + l
      /\ \A i \in 1 .. n + l : q[i] = IF i <= n THEN m[i] ELSE t[i - n]
  BY <1>1, <1>2, ConcatProperties
<1>4. FirstIsNews(m, h) /\ NextIsNews(m) /\ NoneIsRight(m, h, before) /\ LastIsRight(m, before)
  BY DEF Leads
<1> HIDE DEF n, l, q
<1>5. \A i \in 1 .. n : i \in 1 .. n + l /\ q[i] = m[i]
  BY <1>1, <1>2, <1>3
<1>6. \A i \in 1 .. n + l : i \in 1 .. n \/ (i - n \in 1 .. l /\ n < i /\ q[i] = t[i - n])
  BY <1>1, <1>2, <1>3
<1>7. \A i \in 1 .. l : n + i \in 1 .. n + l /\ q[n + i] = t[i]
  <2>1. ASSUME NEW i \in 1 .. l PROVE n + i \in 1 .. n + l /\ q[n + i] = t[i]
    <3> DEFINE j == n + i
    <3>1. j \in 1 .. n + l /\ ~(j <= n) /\ j - n = i
      BY <1>1, <1>2
    <3> HIDE DEF j
    <3>2. q[j] = t[i]
      BY <3>1, <1>3
    <3> QED BY <3>1, <3>2 DEF j
  <2> QED BY <2>1
(* An index of the appended part is the only one of its key there.         *)
<1>8. ASSUME NEW i \in 1 .. n + l, n < i
      PROVE  /\ \E b \in Buttons : /\ q[i].key = Key(b) /\ q[i].on = (b \in after)
                                   /\ (b \in before) # (b \in after)
             /\ \A j \in 1 .. n + l : q[j].key = q[i].key => j <= n \/ j = i
  <2>1. i - n \in 1 .. l /\ q[i] = t[i - n]
    BY <1>1, <1>6, <1>8
  <2>2. \E b \in Buttons : /\ q[i].key = Key(b) /\ q[i].on = (b \in after)
                          /\ (b \in before) # (b \in after)
    BY <1>2, <2>1
  <2>3. ASSUME NEW j \in 1 .. n + l, q[j].key = q[i].key, ~(j <= n) PROVE j = i
    <3>1. j - n \in 1 .. l /\ q[j] = t[j - n]
      BY <1>1, <1>6, <2>3
    <3>2. j - n = i - n
      BY <3>1, <2>1, <2>3, <1>2
    <3> QED BY <3>2, <1>1
  <2> QED BY <2>2, <2>3
<1>9. FirstIsNews(q, h)
  <2> SUFFICES ASSUME NEW i \in 1 .. n + l, \A j \in 1 .. n + l : q[j].key = q[i].key => i <= j
               PROVE  h[q[i].key] # q[i].on
    BY <1>3 DEF FirstIsNews
  <2>1. CASE i <= n
    <3>1. i \in 1 .. n /\ q[i] = m[i]
      BY <1>1, <1>5, <2>1
    <3>2. \A j \in 1 .. n : m[j].key = m[i].key => i <= j
      BY <3>1, <1>5
    <3> QED BY <3>1, <3>2, <1>4 DEF FirstIsNews, n
  <2>2. CASE ~(i <= n)
    <3>1. n < i
      BY <1>1, <2>2
    <3>2. PICK b \in Buttons : /\ q[i].key = Key(b) /\ q[i].on = (b \in after)
                              /\ (b \in before) # (b \in after)
      BY <1>8, <3>1
    <3>3. \A j \in 1 .. n : m[j].key # Key(b)
      <4>1. ASSUME NEW j \in 1 .. n, m[j].key = Key(b) PROVE FALSE
        <5>1. i <= j
          BY <1>5, <3>2, <4>1
        <5> QED BY <5>1, <3>1, <1>1
      <4> QED BY <4>1
    <3>4. h[Key(b)] = (b \in before)
      BY <3>3, <1>4 DEF NoneIsRight, n
    <3> QED BY <3>2, <3>4
  <2> QED BY <2>1, <2>2
<1>10. NextIsNews(q)
  <2> SUFFICES ASSUME NEW i \in 1 .. n + l, NEW j \in 1 .. n + l, i < j, q[i].key = q[j].key,
                      \A k \in 1 .. n + l : q[k].key = q[i].key => k <= i \/ j <= k
               PROVE  q[i].on # q[j].on
    BY <1>3 DEF NextIsNews
  <2>1. CASE j <= n
    <3>1. i \in 1 .. n /\ j \in 1 .. n /\ q[i] = m[i] /\ q[j] = m[j]
      BY <1>1, <1>5, <2>1
    <3>2. \A k \in 1 .. n : m[k].key = m[i].key => k <= i \/ j <= k
      BY <3>1, <1>5
    <3> QED BY <3>1, <3>2, <1>4 DEF NextIsNews, n
  <2>2. CASE ~(j <= n)
    <3>1. n < j
      BY <1>1, <2>2
    <3>2. PICK b \in Buttons : /\ q[j].key = Key(b) /\ q[j].on = (b \in after)
                              /\ (b \in before) # (b \in after)
      BY <1>8, <3>1
    <3>3. i <= n
      <4>1. i <= n \/ i = j
        BY <1>8, <3>1
      <4> QED BY <4>1
    <3>4. i \in 1 .. n /\ q[i] = m[i] /\ m[i].key = Key(b)
      BY <3>2, <3>3, <1>1, <1>5
    <3>5. \A k \in 1 .. n : m[k].key = Key(b) => k <= i
      <4>1. ASSUME NEW k \in 1 .. n, m[k].key = Key(b) PROVE k <= i
        <5>1. k <= i \/ j <= k
          BY <1>5, <3>4, <4>1
        <5> QED BY <5>1, <3>1, <1>1
      <4> QED BY <4>1
    <3>6. m[i].on = (b \in before)
      BY <3>4, <3>5, <1>4 DEF LastIsRight, n
    <3> QED BY <3>2, <3>4, <3>6
  <2> QED BY <2>1, <2>2
<1>11. NoneIsRight(q, h, after)
  <2> SUFFICES ASSUME NEW b \in Buttons, \A i \in 1 .. n + l : q[i].key # Key(b)
               PROVE  h[Key(b)] = (b \in after)
    BY <1>3 DEF NoneIsRight
  <2>1. \A i \in 1 .. n : m[i].key # Key(b)
    BY <1>5
  <2>2. \A i \in 1 .. l : t[i].key # Key(b)
    BY <1>7
  <2>3. h[Key(b)] = (b \in before)
    BY <2>1, <1>4 DEF NoneIsRight, n
  <2>4. (b \in before) = (b \in after)
    BY <2>2, <1>2
  <2> QED BY <2>3, <2>4
<1>12. LastIsRight(q, after)
  <2> SUFFICES ASSUME NEW b \in Buttons, NEW i \in 1 .. n + l, q[i].key = Key(b),
                      \A j \in 1 .. n + l : q[j].key = Key(b) => j <= i
               PROVE  q[i].on = (b \in after)
    BY <1>3 DEF LastIsRight
  <2>1. CASE i <= n
    <3>1. i \in 1 .. n /\ q[i] = m[i]
      BY <1>1, <1>5, <2>1
    <3>2. \A j \in 1 .. n : m[j].key = Key(b) => j <= i
      BY <1>5
    <3>3. m[i].on = (b \in before)
      BY <3>1, <3>2, <1>4 DEF LastIsRight, n
    <3>4. \A j \in 1 .. l : t[j].key # Key(b)
      <4>1. ASSUME NEW j \in 1 .. l, t[j].key = Key(b) PROVE FALSE
        <5>1. n + j <= i
          BY <1>7, <4>1
        <5> QED BY <5>1, <2>1, <1>1, <1>2
      <4> QED BY <4>1
    <3>5. (b \in before) = (b \in after)
      BY <3>4, <1>2
    <3> QED BY <3>1, <3>3, <3>5
  <2>2. CASE ~(i <= n)
    <3>1. n < i
      BY <1>1, <2>2
    <3>2. PICK c \in Buttons : q[i].key = Key(c) /\ q[i].on = (c \in after)
      BY <1>8, <3>1
    <3>3. b = c
      BY <3>2, KeyInjective
    <3> QED BY <3>2, <3>3
  <2> QED BY <2>1, <2>2
<1> QED BY <1>1, <1>3, <1>9, <1>10, <1>11, <1>12 DEF Leads, q

-----------------------------------------------------------------------------
(* The event that has been begun and is not in the queue yet.              *)
Begun == IF pending = <<>> THEN <<>> ELSE <<pending[1][1]>>

(* The events on their way: the queue, the one being written, the rest.    *)
Messages == (Queued \o Begun) \o todo

(* Writing an event, whole or begun, moves it from one part of the         *)
(* messages to another.                                                    *)
LEMMA MoveHead ==
  ASSUME NEW S, NEW q \in Seq(S), NEW t \in Seq(S), t # <<>>
  PROVE  /\ (Append(q, Head(t)) \o <<>>) \o Tail(t) = (q \o <<>>) \o t
         /\ (q \o <<Head(t)>>) \o Tail(t) = (q \o <<>>) \o t
<1> DEFINE n == Len(q)
           l == Len(t)
           a == Append(q, Head(t))
           u == Tail(t)
<1>1. /\ n \in Nat /\ l \in Nat /\ l # 0
      /\ Head(t) \in S /\ Head(t) = t[1]
      /\ u \in Seq(S) /\ Len(u) = l - 1 /\ \A i \in 1 .. l - 1 : u[i] = t[i + 1]
  BY LenProperties, EmptySeq, HeadTailProperties
<1>2. a \in Seq(S) /\ Len(a) = n + 1 /\ a[n + 1] = t[1] /\ \A i \in 1 .. n : a[i] = q[i]
  BY <1>1, AppendProperties
<1>3. a \o <<>> = a /\ q \o <<>> = q /\ q \o <<Head(t)>> = a
  BY <1>1, <1>2, ConcatEmptySeq, AppendIsConcat
<1> HIDE DEF n, l, a, u
<1>4. /\ a \o u \in Seq(S) /\ Len(a \o u) = n + 1 + (l - 1)
      /\ \A i \in 1 .. n + 1 + (l - 1) : (a \o u)[i] = IF i <= n + 1 THEN a[i] ELSE u[i - (n + 1)]
  <2>1. /\ a \o u \in Seq(S) /\ Len(a \o u) = Len(a) + Len(u)
        /\ \A i \in 1 .. Len(a) + Len(u) : (a \o u)[i] = IF i <= Len(a) THEN a[i] ELSE u[i - Len(a)]
    BY <1>1, <1>2, ConcatProperties
  <2>2. Len(a) = n + 1 /\ Len(u) = l - 1
    BY <1>1, <1>2
  <2> QED BY ONLY <2>1, <2>2
<1>5. /\ q \o t \in Seq(S) /\ Len(q \o t) = n + l
      /\ \A i \in 1 .. n + l : (q \o t)[i] = IF i <= n THEN q[i] ELSE t[i - n]
  BY ConcatProperties DEF n, l
<1>6. \A i \in 1 .. n + l : (a \o u)[i] = (q \o t)[i]
  <2> SUFFICES ASSUME NEW i \in 1 .. n + l PROVE (a \o u)[i] = (q \o t)[i]
    OBVIOUS
  <2>1. i \in 1 .. n + 1 + (l - 1)
    BY <1>1
  <2>2. CASE i <= n
    <3>1. i \in 1 .. n /\ i <= n + 1
      BY <2>2, <1>1
    <3> QED BY <3>1, <2>1, <2>2, <1>2, <1>4, <1>5
  <2>3. CASE i = n + 1
    <3>1. i <= n + 1 /\ ~(i <= n) /\ i - n = 1
      BY <2>3, <1>1
    <3> QED BY <3>1, <2>1, <2>3, <1>2, <1>4, <1>5
  <2>4. CASE n + 1 < i
    <3>1. /\ ~(i <= n + 1) /\ ~(i <= n) /\ i - (n + 1) \in 1 .. l - 1 /\ i - (n + 1) + 1 = i - n
      BY <2>4, <1>1
    <3>2. u[i - (n + 1)] = t[i - n]
      BY <3>1, <1>1
    <3> QED BY <3>1, <3>2, <2>1, <1>4, <1>5
  <2>5. i <= n \/ i = n + 1 \/ n + 1 < i
    BY <1>1
  <2> QED BY <2>2, <2>3, <2>4, <2>5
<1>7. a \o u = q \o t
  <2>1. Len(a \o u) = Len(q \o t) /\ Len(a \o u) = n + l
    BY <1>1, <1>4, <1>5
  <2>2. a \o u \in Seq(S) /\ q \o t \in Seq(S)
    BY <1>4, <1>5
  <2> QED BY <2>1, <2>2, <1>6, SeqEqual
<1> QED BY <1>3, <1>7 DEF a, u

(* Reading the first of the queue takes the first of the messages.         *)
LEMMA TakeHead ==
  ASSUME NEW S, NEW q \in Seq(S), NEW b \in Seq(S), NEW t \in Seq(S), q # <<>>
  PROVE  /\ (q \o b) \o t # <<>>
         /\ Head((q \o b) \o t) = Head(q)
         /\ Tail((q \o b) \o t) = (Tail(q) \o b) \o t
<1> DEFINE r == b \o t
           n == Len(q)
           l == Len(r)
           u == Tail(q)
           m == q \o r
<1>0. u \in Seq(S)
  BY HeadTailProperties
<1>1. (q \o b) \o t = m /\ (u \o b) \o t = u \o r
  <2> HIDE DEF u
  <2>1. (q \o b) \o t = m
    BY ConcatAssociative
  <2>2. (u \o b) \o t = u \o r
    BY <1>0, ConcatAssociative
  <2> QED BY <2>1, <2>2
<1>2. /\ n \in Nat /\ n # 0 /\ r \in Seq(S) /\ l \in Nat
      /\ u \in Seq(S) /\ Len(u) = n - 1 /\ \A i \in 1 .. n - 1 : u[i] = q[i + 1]
      /\ Head(q) = q[1]
  BY LenProperties, EmptySeq, HeadTailProperties, ConcatProperties
<1> HIDE DEF r, n, l, u
<1>3. /\ m \in Seq(S) /\ Len(m) = n + l
      /\ \A i \in 1 .. n + l : m[i] = IF i <= n THEN q[i] ELSE r[i - n]
  BY <1>2, ConcatProperties DEF n, l
<1>4. /\ u \o r \in Seq(S) /\ Len(u \o r) = n - 1 + l
      /\ \A i \in 1 .. n - 1 + l : (u \o r)[i] = IF i <= n - 1 THEN u[i] ELSE r[i - (n - 1)]
  BY <1>2, ConcatProperties DEF l
<1> HIDE DEF m
<1>5. m # <<>>
  <2>1. Len(m) # 0
    BY <1>2, <1>3
  <2> QED BY <2>1, EmptySeq
<1>6. /\ Head(m) = m[1] /\ Tail(m) \in Seq(S) /\ Len(Tail(m)) = n + l - 1
      /\ \A i \in 1 .. n + l - 1 : Tail(m)[i] = m[i + 1]
  <2>1. m # <<>> /\ m \in Seq(S)
    BY <1>3, <1>5
  <2>2. /\ Head(m) = m[1] /\ Tail(m) \in Seq(S) /\ Len(Tail(m)) = Len(m) - 1
        /\ \A i \in 1 .. Len(m) - 1 : Tail(m)[i] = m[i + 1]
    BY <2>1, HeadTailProperties
  <2>3. Len(m) - 1 = n + l - 1
    BY <1>2, <1>3
  <2> QED BY <2>2, <2>3
<1>7. Head(m) = Head(q)
  <2>1. 1 \in 1 .. n + l /\ 1 <= n
    BY <1>2
  <2> QED BY <2>1, <1>2, <1>3, <1>6
<1>8. \A i \in 1 .. n - 1 + l : Tail(m)[i] = (u \o r)[i]
  <2> SUFFICES ASSUME NEW i \in 1 .. n - 1 + l PROVE Tail(m)[i] = (u \o r)[i]
    OBVIOUS
  <2>1. i \in 1 .. n + l - 1 /\ i + 1 \in 1 .. n + l
    BY <1>2
  <2>2. CASE i <= n - 1
    <3>1. i \in 1 .. n - 1 /\ i + 1 <= n
      BY <2>2, <1>2
    <3> QED BY <3>1, <2>1, <2>2, <1>2, <1>3, <1>4, <1>6
  <2>3. CASE ~(i <= n - 1)
    <3>1. ~(i + 1 <= n) /\ (i + 1) - n = i - (n - 1)
      BY <2>3, <1>2
    <3>2. Tail(m)[i] = m[i + 1]
      BY <2>1, <1>6
    <3>3. m[i + 1] = r[(i + 1) - n]
      BY <3>1, <2>1, <1>3
    <3>4. (u \o r)[i] = r[i - (n - 1)]
      BY <2>3, <1>4
    <3> QED BY <3>1, <3>2, <3>3, <3>4
  <2> QED BY <2>2, <2>3
<1>9. Tail(m) = u \o r
  <2>1. Len(Tail(m)) = Len(u \o r) /\ Len(Tail(m)) = n - 1 + l
    BY <1>2, <1>4, <1>6
  <2> QED BY <2>1, <1>4, <1>6, <1>8, SeqEqual
<1> QED BY <1>1, <1>5, <1>7, <1>9 DEF u

(* The parts of the messages.                                              *)
LEMMA MessagesFacts ==
  ASSUME ClientInv
  PROVE  /\ Queued \in Seq(MidiEvent) /\ todo \in Seq(MidiEvent)
         /\ pending = <<>> => Begun = <<>> /\ Queued \o <<>> = Queued
         /\ pending # <<>> => Begun = <<pending[1][1]>>
<1>1. QueueView /\ todo \in Seq(Event)
  BY QueueFacts DEF ClientInv, ClientTypeOK
<1>2. Queued \in Seq(MidiEvent) /\ todo \in Seq(MidiEvent)
  BY <1>1, EventAssumption DEF QueueView
<1> HIDE DEF Queued
<1>3. Queued \o <<>> = Queued
  BY <1>2, ConcatEmptySeq
<1> QED BY <1>2, <1>3 DEF Begun

(* A write changes nothing in the messages ...                             *)
LEMMA MessagesWrite ==
  ASSUME ClientInv, Write, status' # "aborted"
  PROVE  Messages' = Messages
<1> DEFINE q == Queued
           t == todo
           e == Head(todo)
<1>1. q \in Seq(MidiEvent) /\ t \in Seq(MidiEvent) /\ Begun = <<>>
  BY WriteQueue, MessagesFacts
<1>2. t # <<>> /\ todo' = Tail(t)
  BY WriteQueue
<1>3. \/ Queued' = Append(q, e) /\ Begun' = <<>>
      \/ Queued' = q /\ Begun' = <<e>>
  BY WriteQueue DEF Begun
<1>4. Messages = (q \o <<>>) \o t
  BY <1>1 DEF Messages
<1>5. \/ Messages' = (Append(q, Head(t)) \o <<>>) \o Tail(t)
      \/ Messages' = (q \o <<Head(t)>>) \o Tail(t)
  BY <1>2, <1>3 DEF Messages
<1> HIDE DEF q, t
<1>6. /\ (Append(q, Head(t)) \o <<>>) \o Tail(t) = (q \o <<>>) \o t
      /\ (q \o <<Head(t)>>) \o Tail(t) = (q \o <<>>) \o t
  BY <1>1, <1>2, MoveHead
<1> QED BY <1>4, <1>5, <1>6

(* ... nor does the rest of it.                                            *)
LEMMA MessagesWriteRest ==
  ASSUME ClientInv, WriteRest
  PROVE  Messages' = Messages
<1> DEFINE q == Queued
           e == pending[1][1]
<1>1. q \in Seq(MidiEvent) /\ Begun = <<e>> /\ e \in MidiEvent
  BY WriteRestQueue, MessagesFacts, EventAssumption
<1>2. Queued' = Append(q, e) /\ Begun' = <<>> /\ todo' = todo
  BY WriteRestQueue DEF Begun
<1>3. Messages = (q \o <<e>>) \o todo
  BY <1>1 DEF Messages
<1>4. Messages' = (Append(q, e) \o <<>>) \o todo
  BY <1>2 DEF Messages
<1> HIDE DEF q, e
<1>5. Append(q, e) \in Seq(MidiEvent) /\ q \o <<e>> = Append(q, e)
  BY <1>1, AppendProperties, AppendIsConcat
<1>6. Append(q, e) \o <<>> = Append(q, e)
  BY <1>5, ConcatEmptySeq
<1> QED BY <1>3, <1>4, <1>5, <1>6

(* A round of the callback passes on the first of the messages.            *)
LEMMA MessagesSend ==
  ASSUME ClientInv, SendEvent, status' = "running"
  PROVE  /\ Messages # <<>> /\ Messages' = Tail(Messages)
         /\ last' = Head(Messages)
<1> DEFINE q == Queued
           b == Begun
           t == todo
<1>1. q \in Seq(MidiEvent) /\ b \in Seq(MidiEvent) /\ t \in Seq(MidiEvent)
  <2>1. CASE pending = <<>>
    <3>1. b = <<>> /\ <<>> \in Seq(MidiEvent)
      BY <2>1, EmptySeq DEF Begun
    <3> QED BY <3>1, MessagesFacts
  <2>2. CASE pending # <<>>
    <3>1. pending \in Seq(ByteOf) /\ Len(pending) \in Nat /\ Len(pending) # 0
      BY <2>2, EmptySeq, LenProperties DEF ClientInv, ClientTypeOK
    <3>2. pending[1] \in ByteOf
      BY <3>1, ElementOfSeq
    <3>3. pending[1][1] \in MidiEvent
      BY <3>2, EventAssumption DEF ByteOf
    <3>4. b = <<pending[1][1]>>
      BY <2>2 DEF Begun
    <3>5. b \in Seq(MidiEvent)
      BY <3>3, <3>4
    <3> QED BY <3>5, MessagesFacts
  <2> QED BY <2>1, <2>2
<1>2. UNCHANGED <<todo, pending>> /\ q # <<>> /\ Queued' = Tail(q) /\ last' = Head(q)
  BY SendQueue
<1>3. Messages = (q \o b) \o t /\ Messages' = (Tail(q) \o b) \o t
  BY <1>2 DEF Messages, Begun
<1> HIDE DEF q, b, t
<1>4. /\ (q \o b) \o t # <<>>
      /\ Head((q \o b) \o t) = Head(q)
      /\ Tail((q \o b) \o t) = (Tail(q) \o b) \o t
  <2>1. q # <<>>
    BY <1>2
  <2> QED BY <1>1, <2>1, TakeHead
<1> QED BY <1>2, <1>3, <1>4

(* A report appends its events.                                            *)
LEMMA MessagesRead ==
  ASSUME ClientInv, todo = <<>>, pending = <<>>, pending' = <<>>, Queued' = Queued,
         todo' \in Seq(MidiEvent)
  PROVE  Messages = Queued /\ Messages' = Messages \o todo'
<1> DEFINE q == Queued
<1>1. q \in Seq(MidiEvent) /\ q \o <<>> = q /\ Begun = <<>>
  BY MessagesFacts
<1>2. Begun' = <<>>
  BY DEF Begun
<1> QED BY <1>1, <1>2 DEF Messages

(* While the callback runs, the messages on their way lead the host to the *)
(* buttons that are on.                                                    *)
HostInv ==
  /\ LoopInv
  /\ host \in [Keys -> BOOLEAN]
  /\ status = "running" => Leads(Messages, host, OnAt(position, flips))

(* At first nothing is on and nothing on its way.                          *)
LEMMA HostInvInit == Init => HostInv
<1> SUFFICES ASSUME Init PROVE HostInv
  OBVIOUS
<1>1. LoopInv
  BY LoopInvInit
<1>2. host = [k \in Keys |-> FALSE] /\ host \in [Keys -> BOOLEAN]
  BY DEF Init
<1>3. Messages = <<>>
  <2>1. todo = <<>> /\ pending = <<>> /\ input_buf = <<>>
    BY DEF Init, ClientInit
  <2>2. QueueView /\ ClientInv
    BY <1>1, QueueFacts DEF LoopInv
  <2>3. Len(input_buf) = 0 /\ Torn = 0
    BY <2>1, EmptySeq DEF Torn
  <2>4. Queued = <<>>
    <3>1. Queued \in Seq(Event) /\ Len(Queued) = 0
      BY <2>2, <2>3 DEF QueueView
    <3> HIDE DEF Queued
    <3> QED BY <3>1, EmptySeq
  <2>5. Begun = <<>>
    BY <2>1 DEF Begun
  <2>6. <<>> \o <<>> = <<>>
    BY EmptySeq, ConcatEmptySeq
  <2> QED BY <2>1, <2>4, <2>5, <2>6 DEF Messages
<1>4. OnAt(position, flips) = {}
  BY DEF Init, OnAt
<1>5. Leads(<<>>, host, {})
  <2> DEFINE m == <<>>
  <2>1. m \in Seq(MidiEvent) /\ Len(m) = 0 /\ 1 .. Len(m) = {}
    BY EmptySeq
  <2>2. \A b \in Buttons : Key(b) \in Keys
    BY DEF Keys
  <2>3. NoneIsRight(m, host, {})
    <3>1. \A b \in Buttons : host[Key(b)] = FALSE /\ (b \in {}) = FALSE
      BY <1>2, <2>2
    <3> QED BY <3>1 DEF NoneIsRight
  <2> HIDE DEF m
  <2>4. FirstIsNews(m, host) /\ NextIsNews(m) /\ LastIsRight(m, {})
    BY <2>1 DEF FirstIsNews, NextIsNews, LastIsRight
  <2> QED BY <1>2, <2>1, <2>3, <2>4 DEF Leads, m
<1> QED BY <1>1, <1>2, <1>3, <1>4, <1>5 DEF HostInv

(* Every step keeps it: a report moves the goal and appends the way to it, *)
(* the callback takes a step of the way.                                   *)
LEMMA HostInvNext == HostInv /\ [Next]_vars => HostInv'
<1> SUFFICES ASSUME HostInv, [Next]_vars PROVE HostInv'
  OBVIOUS
<1>0. LoopInv /\ ClientInv /\ LoopInv'
  BY LoopInvNext DEF HostInv, LoopInv
<1>1. CASE Read
  <2>1. /\ UNCHANGED <<pending, input_buf, write_ptr, cycle, last, status, host>>
        /\ pc = "read" /\ todo = <<>> /\ pending = <<>>
    BY <1>0, <1>1 DEF Read, LoopInv
  <2>2. /\ Tells(input_diff', OnAt(position, flips), OnAt(position', flips'))
        /\ todo' = MidiEvents(input_diff') /\ todo' \in Seq(Event)
    BY <1>0, <1>1, ReadFacts
  <2>3. Queued' = Queued
    BY <1>0, <2>1, <2>2, TodoInv
  <2>4. Messages' = Messages \o todo'
    BY <1>0, <2>1, <2>2, <2>3, MessagesRead, EventAssumption
  <2>5. Lists(todo', EventsBetween(OnAt(position, flips), OnAt(position', flips')))
    BY <2>2, EventsOf
  <2>6. ASSUME status = "running" PROVE Leads(Messages', host', OnAt(position', flips'))
    <3>1. Leads(Messages, host, OnAt(position, flips))
      BY <2>6 DEF HostInv
    <3> HIDE DEF Messages
    <3>2. Leads(Messages \o todo', host, OnAt(position', flips'))
      BY <2>5, <3>1, LeadsAppend
    <3> QED BY <2>1, <2>4, <3>2
  <2> QED BY <1>0, <2>1, <2>6 DEF HostInv, OnAt, Leads
<1>2. CASE UNCHANGED <<position, flips, host>> /\ Messages' = Messages
           /\ (status' = "running" => status = "running")
  BY <1>0, <1>2 DEF HostInv, OnAt, Leads
<1>3. CASE UNCHANGED <<position, flips, host>> /\ status' # "running"
  BY <1>0, <1>3 DEF HostInv
<1>4. CASE Push
  <2>1. UNCHANGED <<position, flips, host>> /\ (Write \/ WriteRest)
    BY <1>4 DEF Push, hands, session
  <2>2. CASE Write
    <3>1. status' = "aborted" \/ status' = status
      BY <1>0, <2>2, WriteQueue
    <3>2. status' # "aborted" => Messages' = Messages
      BY <1>0, <2>2, MessagesWrite
    <3> QED BY <2>1, <3>1, <3>2, <1>2, <1>3
  <2>3. CASE WriteRest
    <3>1. status' = status /\ Messages' = Messages
      BY <1>0, <2>3, MessagesWriteRest, WriteRestQueue
    <3> QED BY <2>1, <3>1, <1>2
  <2> QED BY <2>1, <2>2, <2>3
<1>5. CASE UNCHANGED <<position, flips, host>> /\ UNCHANGED <<input_buf, pending, todo, status>>
  <2>1. Messages' = Messages
    BY <1>5 DEF Messages, Queued, Begun, Torn
  <2> QED BY <2>1, <1>2, <1>5
<1>6. CASE Process /\ BeginCycle
  <2>1. UNCHANGED <<position, flips, input_buf, pending, todo, status>> /\ cycle.left = 0
    BY <1>6 DEF Process, BeginCycle, hands
  <2>2. host' = host
    BY <1>6, <2>1 DEF Process, Sends
  <2> QED BY <2>1, <2>2, <1>5
<1>7. CASE Process /\ SendEvent
  <2>1. UNCHANGED <<position, flips>> /\ cycle.left > 0 /\ status = "running"
    BY <1>7 DEF Process, SendEvent, hands
  <2>2. CASE status' = "running"
    <3>1. host' = Receive(host, last')
      BY <1>7, <2>1, <2>2 DEF Process, Sends
    <3>2. Messages # <<>> /\ Messages' = Tail(Messages) /\ last' = Head(Messages)
      BY <1>0, <1>7, <2>2, MessagesSend
    <3>3. Leads(Messages, host, OnAt(position, flips))
      BY <2>1 DEF HostInv
    <3> HIDE DEF Messages
    <3>4. Leads(Tail(Messages), Receive(host, Head(Messages)), OnAt(position, flips))
      BY <3>2, <3>3, LeadsReceive
    <3>5. Leads(Messages', host', OnAt(position', flips'))
      BY <2>1, <3>1, <3>2, <3>4 DEF OnAt
    <3>6. host' \in [Keys -> BOOLEAN]
      BY <3>5 DEF Leads
    <3> QED BY <1>0, <3>5, <3>6 DEF HostInv
  <2>3. CASE status' # "running"
    <3>1. host' = host
      BY <1>7, <2>3 DEF Process, Sends
    <3> QED BY <2>1, <2>3, <3>1, <1>3
  <2> QED BY <2>2, <2>3
<1>8. \/ Read \/ Push \/ (Process /\ BeginCycle) \/ (Process /\ SendEvent)
      \/ UNCHANGED <<position, flips, host>> /\ UNCHANGED <<input_buf, pending, todo, status>>
  BY DEF Next, MainStep, Broadcast, SetColors, Process, Callback, Join, vars, hands, loop, session, clientVars
<1> QED BY <1>1, <1>4, <1>5, <1>6, <1>7, <1>8

(* The messages lead the host to the user's buttons in every reachable     *)
(* state.                                                                  *)
THEOREM HostInvariant == Spec => []HostInv
BY HostInvInit, HostInvNext, PTL DEF Spec

(* HostHears, for every size of the queue, every port and all positions of *)
(* the controls: as long as the callback runs, what was sent and what is   *)
(* queued leaves exactly the notes and controllers on that the user turned *)
(* on.                                                                     *)
THEOREM HostIsRight == Spec => []HostHears
<1>1. HostInv => HostHears
  <2> SUFFICES ASSUME HostInv, Waiting, status = "running", NEW b \in Buttons
               PROVE  WillHear(Queued, Key(b), IsOn(b))
    BY DEF HostHears
  <2>1. ClientInv /\ todo = <<>> /\ pending = <<>>
    BY DEF HostInv, LoopInv, Waiting
  <2>2. Messages = Queued
    <3>1. Queued \o <<>> = Queued /\ Begun = <<>>
      BY <2>1, MessagesFacts
    <3> QED BY <2>1, <3>1 DEF Messages
  <2>3. Leads(Queued, host, OnAt(position, flips))
    BY <2>2 DEF HostInv
  <2> DEFINE q == Queued
             on == OnAt(position, flips)
  <2>4. (b \in on) = IsOn(b)
    BY DEF OnAt, IsOn
  <2> HIDE DEF q, on
  <2>5. NoneIsRight(q, host, on) /\ LastIsRight(q, on)
    BY <2>3 DEF Leads, q, on
  <2>6. {i \in 1 .. Len(q) : q[i].key = Key(b)} = {} => host[Key(b)] = IsOn(b)
    BY <2>4, <2>5 DEF NoneIsRight
  <2>7. ASSUME NEW i \in {k \in 1 .. Len(q) : q[k].key = Key(b)},
               \A j \in {k \in 1 .. Len(q) : q[k].key = Key(b)} : j <= i
        PROVE  q[i].on = IsOn(b)
    <3>1. \A j \in 1 .. Len(q) : q[j].key = Key(b) => j <= i
      BY <2>7
    <3> QED BY <2>4, <2>5, <2>7, <3>1 DEF LastIsRight
  <2>8. WillHear(q, Key(b), IsOn(b))
    BY <2>6, <2>7 DEF WillHear
  <2> QED BY <2>8 DEF q
<1> QED BY HostInvariant, <1>1, PTL

(* Every event JACK passes on changes what the host knows                  *)
(* (EveryEventIsNews): a note is never turned on twice.                    *)
THEOREM NewsOnly == Spec => EveryEventIsNews
<1>1. HostInv /\ [Next]_vars => [Process /\ Sends => host' # host]_vars
  <2> SUFFICES ASSUME HostInv, Process, Sends PROVE host' # host
    OBVIOUS
  <2>1. SendEvent /\ status = "running" /\ status' = "running" /\ host' = Receive(host, last')
    BY DEF Process, Sends, Callback, BeginCycle, SendEvent
  <2>2. ClientInv
    BY DEF HostInv, LoopInv
  <2>3. Messages # <<>> /\ last' = Head(Messages)
    BY <2>1, <2>2, MessagesSend
  <2>4. Leads(Messages, host, OnAt(position, flips))
    BY <2>1 DEF HostInv
  <2> HIDE DEF Messages
  <2>5. Receive(host, Head(Messages)) # host
    BY <2>3, <2>4, LeadsReceive
  <2> QED BY <2>1, <2>3, <2>5
<1> QED BY HostInvariant, <1>1, PTL DEF Spec, EveryEventIsNews

-----------------------------------------------------------------------------
(* An index is listed exactly when it is in the set.                       *)
LEMMA ListedIn ==
  ASSUME NEW s, NEW X, Lists(s, X), NEW i
  PROVE  Listed(i, s) <=> i \in X
<1>1. s \in Seq(X) /\ DOMAIN s = 1 .. Len(s)
  BY LenProperties DEF Lists
<1>2. \A k \in 1 .. Len(s) : s[k] \in X
  BY <1>1, ElementOfSeq
<1>3. i \in X => \E k \in 1 .. Len(s) : s[k] = i
  BY DEF Lists
<1> HIDE DEF Lists
<1> QED BY <1>1, <1>2, <1>3 DEF Listed

(* Button b is in a group of vectors of a difference.                      *)
Names(b, d) == Listed(b[2], IF b[1] = "MATRIX" THEN d.matrix
                            ELSE IF b[1] = "STOP" THEN d.stop ELSE d.special)

(* A difference names the buttons that change.                             *)
LEMMA ButtonsNamed ==
  ASSUME NEW d, NEW before, NEW after, Tells(d, before, after), NEW b \in Buttons
  PROVE  /\ Names(b, d.pressed) <=> b \in after /\ b \notin before
         /\ Names(b, d.released) <=> b \in before /\ b \notin after
<1>1. /\ b = <<b[1], b[2]>>
      /\ \/ b[1] = "MATRIX" /\ b[2] \in Matrix
         \/ b[1] = "STOP" /\ b[2] \in Stop
         \/ b[1] = "SPECIAL" /\ b[2] \in Special
  BY DEF Buttons
<1> DEFINE on == after \ before
           off == before \ after
<1>2. CASE b[1] = "MATRIX"
  <2>1. /\ Names(b, d.pressed) <=> b[2] \in Of("MATRIX", Matrix, on)
        /\ Names(b, d.released) <=> b[2] \in Of("MATRIX", Matrix, off)
    BY <1>2, ListedIn DEF Names, Tells
  <2>2. b[2] \in Matrix /\ b = <<"MATRIX", b[2]>>
    BY <1>1, <1>2
  <2> QED BY <2>1, <2>2 DEF Of
<1>3. CASE b[1] = "STOP"
  <2>1. /\ Names(b, d.pressed) <=> b[2] \in Of("STOP", Stop, on)
        /\ Names(b, d.released) <=> b[2] \in Of("STOP", Stop, off)
    BY <1>3, ListedIn DEF Names, Tells
  <2>2. b[2] \in Stop /\ b = <<"STOP", b[2]>>
    BY <1>1, <1>3
  <2> QED BY <2>1, <2>2 DEF Of
<1>4. CASE b[1] = "SPECIAL"
  <2>1. /\ Names(b, d.pressed) <=> b[2] \in Of("SPECIAL", Special, on)
        /\ Names(b, d.released) <=> b[2] \in Of("SPECIAL", Special, off)
    BY <1>4, ListedIn DEF Names, Tells
  <2>2. b[2] \in Special /\ b = <<"SPECIAL", b[2]>>
    BY <1>1, <1>4
  <2> QED BY <2>1, <2>2 DEF Of
<1> QED BY <1>1, <1>2, <1>3, <1>4

(* What the list of the knobs or faders that moved makes of what a peer    *)
(* has.                                                                    *)
ValueIn(moved, i, has) == IF \E k \in DOMAIN moved : moved[k][1] = i
                            THEN Told(moved[CHOOSE k \in DOMAIN moved : moved[k][1] = i][2])
                            ELSE has

(* It tells the new value of each that moved.                              *)
LEMMA MovedValue ==
  ASSUME NEW old, NEW new, DOMAIN new = 0 .. 3, NEW m, m = Moved(old, new),
         NEW i \in 0 .. 3, NEW has
  PROVE  ValueIn(m, i, has) = IF new[i] # old[i] THEN Told(new[i]) ELSE has
<1> DEFINE S == {j \in DOMAIN new : new[j] # old[j]}
           c == InOrder(S)
<1>1. S \in SUBSET (0 .. 3)
  OBVIOUS
<1>2. Lists(c, S)
  <2>1. 3 \in Nat
    OBVIOUS
  <2> HIDE DEF S
  <2> QED BY <1>1, <2>1, InOrderOf
<1>3. m = [k \in 1 .. Len(c) |-> <<c[k], new[c[k]]>>]
  BY DEF Moved, Changed
<1>4. i \in S <=> \E k \in 1 .. Len(c) : c[k] = i
  <2>1. \A k \in 1 .. Len(c) : c[k] \in S
    BY <1>2, ElementOfSeq DEF Lists
  <2> QED BY <1>2, <2>1 DEF Lists
<1>5. i \in S <=> new[i] # old[i]
  OBVIOUS
<1> HIDE DEF S, c
<1>6. DOMAIN m = 1 .. Len(c) /\ \A k \in 1 .. Len(c) : m[k][1] = c[k] /\ m[k][2] = new[c[k]]
  BY <1>3
<1>7. CASE i \in S
  <2> DEFINE w == CHOOSE k \in DOMAIN m : m[k][1] = i
  <2>1. \E k \in DOMAIN m : m[k][1] = i
    BY <1>4, <1>6, <1>7
  <2>2. w \in DOMAIN m /\ m[w][1] = i
    BY <2>1
  <2> HIDE DEF w
  <2>3. m[w][2] = new[i]
    BY <2>2, <1>6
  <2> QED BY <2>1, <2>3, <1>5, <1>7 DEF w, ValueIn
<1>8. CASE i \notin S
  <2>1. ~ \E k \in DOMAIN m : m[k][1] = i
    BY <1>4, <1>6, <1>8
  <2> QED BY <2>1, <1>5, <1>8 DEF ValueIn
<1> QED BY <1>7, <1>8

(* What a peer has (p) is right for position at and latches f: told or     *)
(* not, each signal has the value it should.                               *)
Shows(p, at, f) ==
  /\ \A b \in Buttons : Follows(p.on[b], b \in OnAt(at, f))
  /\ \A i \in Knobs : Follows(p.knobs[i], at.knobs[i])
  /\ \A i \in Faders : Follows(p.faders[i], at.faders[i])

(* The bundle of a difference takes a peer from one position to the next,  *)
(* and does no harm to one that joined in between.                         *)
LEMMA HearOf ==
  ASSUME NEW old \in Position, NEW new \in Position, NEW f, NEW g, NEW latch, NEW d,
         d = LatchStops(latch, InputDiff(Decoded(new), Decoded(old))),
         Tells(d, OnAt(old, f), OnAt(new, g)),
         NEW p, Shows(p, old, f) \/ Shows(p, new, g)
  PROVE  Shows(HearBundle(p, d), new, g)
<1> DEFINE before == OnAt(old, f)
           after == OnAt(new, g)
           h == HearBundle(p, d)
           heard(b) == IF Names(b, d.released) THEN Told(FALSE)
                       ELSE IF Names(b, d.pressed) THEN Told(TRUE) ELSE p.on[b]
<1>1. d.knobs = Moved(old.knobs, new.knobs) /\ d.faders = Moved(old.faders, new.faders)
  BY DEF LatchStops, InputDiff, Decoded
<1>2. DOMAIN new.knobs = 0 .. 3 /\ DOMAIN new.faders = 0 .. 3
  BY DEF Position, Knobs, Faders
<1>3. h = [on |-> [b \in Buttons |-> heard(b)],
           knobs |-> [i \in Knobs |-> ValueIn(d.knobs, i, p.knobs[i])],
           faders |-> [i \in Faders |-> ValueIn(d.faders, i, p.faders[i])]]
  BY DEF HearBundle, Names, ValueIn
<1>4. ASSUME NEW b \in Buttons PROVE Follows(h.on[b], b \in after)
  <2>1. h.on[b] = heard(b)
    BY <1>3
  <2>2. /\ Names(b, d.pressed) <=> b \in after /\ b \notin before
        /\ Names(b, d.released) <=> b \in before /\ b \notin after
    BY ButtonsNamed
  <2>3. Follows(p.on[b], b \in before) \/ Follows(p.on[b], b \in after)
    BY DEF Shows
  <2> HIDE DEF before, after, h
  <2>4. CASE Names(b, d.released)
    <3>1. (b \in after) = FALSE
      BY <2>2, <2>4
    <3> QED BY <2>1, <2>4, <3>1 DEF Follows
  <2>5. CASE ~Names(b, d.released) /\ Names(b, d.pressed)
    <3>1. (b \in after) = TRUE
      BY <2>2, <2>5
    <3> QED BY <2>1, <2>5, <3>1 DEF Follows
  <2>6. CASE ~Names(b, d.released) /\ ~Names(b, d.pressed)
    <3>1. (b \in before) = (b \in after)
      BY <2>2, <2>6
    <3> QED BY <2>1, <2>3, <2>6, <3>1
  <2> QED BY <2>4, <2>5, <2>6
<1>5. ASSUME NEW i \in Knobs PROVE Follows(h.knobs[i], new.knobs[i])
  <2> DEFINE m == d.knobs
             n == new.knobs
             o == old.knobs
             has == p.knobs[i]
  <2>1. Follows(has, o[i]) \/ Follows(has, n[i])
    BY DEF Shows
  <2>2. h.knobs[i] = ValueIn(m, i, has)
    BY <1>3
  <2>3. m = Moved(o, n) /\ DOMAIN n = 0 .. 3 /\ i \in 0 .. 3
    BY <1>1, <1>2 DEF Knobs
  <2> HIDE DEF m, n, o, has, h
  <2>4. ValueIn(m, i, has) = IF n[i] # o[i] THEN Told(n[i]) ELSE has
    BY <2>3, MovedValue
  <2>5. Follows(h.knobs[i], n[i])
    BY <2>1, <2>2, <2>4 DEF Follows
  <2> QED BY <2>5 DEF n
<1>6. ASSUME NEW i \in Faders PROVE Follows(h.faders[i], new.faders[i])
  <2> DEFINE m == d.faders
             n == new.faders
             o == old.faders
             has == p.faders[i]
  <2>1. Follows(has, o[i]) \/ Follows(has, n[i])
    BY DEF Shows
  <2>2. h.faders[i] = ValueIn(m, i, has)
    BY <1>3
  <2>3. m = Moved(o, n) /\ DOMAIN n = 0 .. 3 /\ i \in 0 .. 3
    BY <1>1, <1>2 DEF Faders
  <2> HIDE DEF m, n, o, has, h
  <2>4. ValueIn(m, i, has) = IF n[i] # o[i] THEN Told(n[i]) ELSE has
    BY <2>3, MovedValue
  <2>5. Follows(h.faders[i], n[i])
    BY <2>1, <2>2, <2>4 DEF Follows
  <2> QED BY <2>5 DEF n
<1> HIDE DEF h
<1>7. Shows(h, new, g)
  BY <1>4, <1>5, <1>6 DEF Shows
<1> QED BY <1>7 DEF h

(* A newcomer is told nothing, and has missed nothing yet.                 *)
LEMMA NewcomerShows == Shows(Newcomer, position, flips)
<1>1. ASSUME NEW b \in Buttons PROVE Follows(Newcomer.on[b], b \in OnAt(position, flips))
  <2>1. (b \in OnAt(position, flips)) = IsOn(b)
    BY DEF OnAt, IsOn
  <2>2. Newcomer.on[b] = Untold(IsOn(b))
    BY DEF Newcomer
  <2> QED BY <2>1, <2>2 DEF Follows
<1>2. ASSUME NEW i \in Knobs PROVE Follows(Newcomer.knobs[i], position.knobs[i])
  BY DEF Newcomer, Follows
<1>3. ASSUME NEW i \in Faders PROVE Follows(Newcomer.faders[i], position.faders[i])
  BY DEF Newcomer, Follows
<1> QED BY <1>1, <1>2, <1>3 DEF Shows

(* A peer that joined is right, or the bundle that is due makes it so, and *)
(* would any that joins before it is sent.                                 *)
PeersInv ==
  /\ LoopInv
  /\ joined /\ pc # "push" => Shows(peer, position, flips)
  /\ joined /\ pc = "push" => Shows(HearBundle(peer, input_diff), position, flips)
  /\ pc = "push" => \A p : Shows(p, position, flips) => Shows(HearBundle(p, input_diff), position, flips)

(* It holds at first.                                                      *)
LEMMA PeersInvInit == Init => PeersInv
BY LoopInvInit DEF Init, PeersInv

(* Every step keeps it.                                                    *)
LEMMA PeersInvNext == PeersInv /\ [Next]_vars => PeersInv'
<1> SUFFICES ASSUME PeersInv, [Next]_vars PROVE PeersInv'
  OBVIOUS
<1>0. LoopInv /\ LoopInv'
  BY LoopInvNext DEF PeersInv
<1>1. CASE Read
  <2>1. /\ pc = "read" /\ pc' = "push" /\ peer' = peer /\ joined' = joined
        /\ joined => Shows(peer, position, flips)
    BY <1>1 DEF Read, session, PeersInv
  <2>2. /\ position \in Position /\ position' \in Position
        /\ input_diff' = LatchStops(stop_buttons, InputDiff(Decoded(position'), Decoded(position)))
        /\ Tells(input_diff', OnAt(position, flips), OnAt(position', flips'))
    BY <1>0, <1>1, ReadFacts DEF LoopInv
  <2>3. \A p : Shows(p, position, flips) \/ Shows(p, position', flips')
               => Shows(HearBundle(p, input_diff'), position', flips')
    BY <2>2, HearOf
  <2>4. joined' => Shows(HearBundle(peer', input_diff'), position', flips')
    BY <2>1, <2>3
  <2>5. Shows(HearBundle(peer, input_diff), position, flips)' <=>
        Shows(HearBundle(peer', input_diff'), position', flips')
    BY DEF Shows, OnAt
  <2>6. \A p : Shows(p, position, flips)' <=> Shows(p, position', flips')
    BY DEF Shows, OnAt
  <2> QED BY <1>0, <2>1, <2>3, <2>4 DEF PeersInv
<1>2. CASE Broadcast
  <2>1. /\ UNCHANGED <<position, flips, input_diff, joined>> /\ pc = "push" /\ pc' = "lights"
        /\ peer' = IF joined THEN HearBundle(peer, input_diff) ELSE peer
    BY <1>2 DEF Broadcast, hands, loop
  <2> QED BY <1>0, <2>1 DEF PeersInv, Shows, OnAt
<1>3. CASE SetColors
  <2>1. UNCHANGED <<position, flips, joined, peer>> /\ pc = "lights" /\ pc' = "read"
    BY <1>3 DEF SetColors, hands, session
  <2> QED BY <1>0, <2>1 DEF PeersInv, Shows, OnAt
<1>4. CASE Join
  <2>1. UNCHANGED <<position, flips, pc, input_diff>> /\ joined' /\ peer' = Newcomer
    BY <1>4 DEF Join, hands, loop
  <2>2. Shows(Newcomer, position, flips)
    BY NewcomerShows
  <2> HIDE DEF Newcomer
  <2> QED BY <1>0, <2>1, <2>2 DEF PeersInv
<1>5. CASE UNCHANGED <<position, flips, joined, peer, pc, input_diff>>
  BY <1>0, <1>5 DEF PeersInv, Shows, OnAt
<1>6. Read \/ Broadcast \/ SetColors \/ Join \/ UNCHANGED <<position, flips, joined, peer, pc, input_diff>>
  BY DEF Next, MainStep, Push, Process, vars, hands, loop, session
<1> QED BY <1>1, <1>2, <1>3, <1>4, <1>5, <1>6

(* PeersFollow, for all positions of the controls and whenever the peer    *)
(* joins: what it was told is right, to the last of the 4096 positions of  *)
(* a knob or fader, and what it was not told has not changed since.        *)
THEOREM PeersAreNeverWrong == Spec => []PeersFollow
<1>1. PeersInv => PeersFollow
  <2> SUFFICES ASSUME PeersInv, Waiting, joined PROVE PeersFollow
    BY DEF PeersFollow
  <2>1. Shows(peer, position, flips)
    BY DEF PeersInv, Waiting
  <2>2. ASSUME NEW b \in Buttons PROVE Follows(peer.on[b], IsOn(b))
    <3>1. (b \in OnAt(position, flips)) = IsOn(b)
      BY DEF OnAt, IsOn
    <3> QED BY <2>1, <3>1 DEF Shows
  <2> QED BY <2>1, <2>2 DEF PeersFollow, Shows
<1> QED BY PeersInvInit, PeersInvNext, <1>1, PTL DEF Spec

-----------------------------------------------------------------------------
(* The lights for a set of buttons that are on.                            *)
LightsOf(on) == [matrix |-> [i \in Matrix |-> IF <<"MATRIX", i>> \in on THEN On ELSE Off],
                 stop |-> [i \in Stop |-> IF <<"STOP", i>> \in on THEN On ELSE Off]]

(* Levels of seven bits.                                                   *)
Lights == [matrix : [Matrix -> 0 .. 127], stop : [Stop -> 0 .. 127]]

(* These are lights.                                                       *)
LEMMA LightsTyped ==
  ASSUME NEW on
  PROVE  LightsOf(on) \in Lights
BY DEF LightsOf, Lights, On, Off

(* set_colors() takes the lights from one set of buttons to the next.      *)
LEMMA SetLightsOf ==
  ASSUME NEW d, NEW before, NEW after, Tells(d, before, after)
  PROVE  SetLights(LightsOf(before), d) = LightsOf(after)
<1> DEFINE o == LightsOf(before)
           S(group, on, off) == [i \in DOMAIN group |-> IF Listed(i, off) THEN Off
                                                        ELSE IF Listed(i, on) THEN On ELSE group[i]]
<1>1. /\ \A i \in Matrix : Listed(i, d.pressed.matrix) <=> i \in Of("MATRIX", Matrix, after \ before)
      /\ \A i \in Matrix : Listed(i, d.released.matrix) <=> i \in Of("MATRIX", Matrix, before \ after)
      /\ \A i \in Stop : Listed(i, d.pressed.stop) <=> i \in Of("STOP", Stop, after \ before)
      /\ \A i \in Stop : Listed(i, d.released.stop) <=> i \in Of("STOP", Stop, before \ after)
  BY ListedIn DEF Tells
<1>2. /\ DOMAIN o.matrix = Matrix /\ DOMAIN o.stop = Stop
      /\ \A i \in Matrix : o.matrix[i] = IF <<"MATRIX", i>> \in before THEN On ELSE Off
      /\ \A i \in Stop : o.stop[i] = IF <<"STOP", i>> \in before THEN On ELSE Off
  BY DEF LightsOf
<1>3. SetLights(o, d) = [matrix |-> S(o.matrix, d.pressed.matrix, d.released.matrix),
                         stop |-> S(o.stop, d.pressed.stop, d.released.stop)]
  BY DEF SetLights
<1> HIDE DEF o
<1>4. S(o.matrix, d.pressed.matrix, d.released.matrix)
      = [i \in Matrix |-> IF <<"MATRIX", i>> \in after THEN On ELSE Off]
  BY <1>1, <1>2 DEF Of
<1>5. S(o.stop, d.pressed.stop, d.released.stop)
      = [i \in Stop |-> IF <<"STOP", i>> \in after THEN On ELSE Off]
  BY <1>1, <1>2 DEF Of
<1> HIDE DEF S
<1> QED BY <1>3, <1>4, <1>5 DEF LightsOf, o

(* The lights are right, or set_colors() is due and makes them so; and the *)
(* device has what was set last.                                           *)
LightsInv ==
  /\ LoopInv
  /\ device = OutputReport(output)
  /\ output \in Lights
  /\ pc = "read" => output = LightsOf(OnAt(position, flips))
  /\ pc # "read" => SetLights(output, input_diff) = LightsOf(OnAt(position, flips))

(* Everything is dim at first.                                             *)
LEMMA LightsInvInit == Init => LightsInv
<1> SUFFICES ASSUME Init PROVE LightsInv
  OBVIOUS
<1>1. LoopInv
  BY LoopInvInit
<1>2. /\ position.held = {} /\ flips = {} /\ pc = "read"
      /\ output = InitialLights /\ device = OutputReport(InitialLights)
  BY DEF Init
<1>3. OnAt(position, flips) = {}
  BY <1>2 DEF OnAt
<1>4. LightsOf({}) = InitialLights
  BY DEF LightsOf, InitialLights
<1> QED BY <1>1, <1>2, <1>3, <1>4, LightsTyped DEF LightsInv

(* Every step keeps it.                                                    *)
LEMMA LightsInvNext == LightsInv /\ [Next]_vars => LightsInv'
<1> SUFFICES ASSUME LightsInv, [Next]_vars PROVE LightsInv'
  OBVIOUS
<1>0. LoopInv /\ LoopInv'
  BY LoopInvNext DEF LightsInv
<1>1. CASE Read
  <2>1. pc = "read" /\ pc' = "push" /\ UNCHANGED <<output, device>>
    BY <1>1 DEF Read
  <2>2. Tells(input_diff', OnAt(position, flips), OnAt(position', flips'))
    BY <1>0, <1>1, ReadFacts
  <2>3. output = LightsOf(OnAt(position, flips)) /\ output \in Lights
    BY <2>1 DEF LightsInv
  <2>4. SetLights(output, input_diff') = LightsOf(OnAt(position', flips'))
    BY <2>2, <2>3, SetLightsOf
  <2>5. device' = OutputReport(output')
    BY <2>1 DEF LightsInv
  <2> QED BY <1>0, <2>1, <2>3, <2>4, <2>5 DEF LightsInv
<1>2. CASE SetColors
  <2>1. /\ pc = "lights" /\ pc' = "read" /\ UNCHANGED <<position, flips>>
        /\ output' = SetLights(output, input_diff) /\ device' = OutputReport(output')
    BY <1>2 DEF SetColors, hands
  <2>2. output' = LightsOf(OnAt(position, flips)) /\ OnAt(position', flips') = OnAt(position, flips)
    BY <2>1 DEF LightsInv, OnAt
  <2> QED BY <1>0, <2>1, <2>2, LightsTyped DEF LightsInv
<1>3. CASE /\ UNCHANGED <<position, flips, output, device, input_diff>>
           /\ pc' = "read" <=> pc = "read"
  BY <1>0, <1>3 DEF LightsInv, OnAt
<1>4. \/ Read \/ SetColors
      \/ /\ UNCHANGED <<position, flips, output, device, input_diff>>
         /\ pc' = "read" <=> pc = "read"
  BY DEF Next, MainStep, Push, Broadcast, Process, Join, vars, hands, loop
<1> QED BY <1>1, <1>2, <1>3, <1>4

(* The lights are right whenever the loop waits for a report.              *)
THEOREM LightsInvariant == Spec => []LightsInv
BY LightsInvInit, LightsInvNext, PTL DEF Spec

(* The bytes of the output report that light a button have its level: of   *)
(* three colours in a matrix button, of two LEDs in a stop button.         *)
LEMMA OutputLights ==
  ASSUME NEW on, NEW b \in Buttons, b[1] # "SPECIAL", NEW k \in LedBytes(b)
  PROVE  OutputReport(LightsOf(on))[k] = IF b \in on THEN On ELSE Off
<1> DEFINE i == b[2]
           o == LightsOf(on)
<1>1. \/ b = <<"MATRIX", i>> /\ b[1] = "MATRIX" /\ i \in 0 .. 15
      \/ b = <<"STOP", i>> /\ b[1] = "STOP" /\ i \in 0 .. 3
  BY DEF Buttons, Matrix, Special, Stop
<1>2. CASE b = <<"MATRIX", i>> /\ b[1] = "MATRIX" /\ i \in 0 .. 15
  <2>1. k \in 25 + 3 * i .. 27 + 3 * i
    BY <1>2 DEF LedBytes
  <2> HIDE DEF i
  <2>2. k \in 25 .. 72 /\ ~(k >= 73) /\ k # 0 /\ k \in 0 .. 80 /\ (k - 25) \div 3 = i
    BY <1>2, <2>1
  <2>3. OutputReport(o)[k] = o.matrix[i]
    BY <2>2 DEF OutputReport
  <2>4. o.matrix[i] = IF <<"MATRIX", i>> \in on THEN On ELSE Off
    BY <1>2 DEF LightsOf, Matrix
  <2> QED BY <1>2, <2>3, <2>4
<1>3. CASE b = <<"STOP", i>> /\ b[1] = "STOP" /\ i \in 0 .. 3
  <2>1. k \in 79 - 2 * i .. 80 - 2 * i
    BY <1>3 DEF LedBytes
  <2> HIDE DEF i
  <2>2. k >= 73 /\ k # 0 /\ k \in 0 .. 80 /\ 3 - (k - 73) \div 2 = i
    BY <1>3, <2>1
  <2>3. OutputReport(o)[k] = o.stop[i]
    BY <2>2 DEF OutputReport
  <2>4. o.stop[i] = IF <<"STOP", i>> \in on THEN On ELSE Off
    BY <1>3 DEF LightsOf, Stop
  <2> QED BY <1>3, <2>3, <2>4
<1> QED BY <1>1, <1>2, <1>3

(* LightsFollow, for all positions of the controls: a matrix or stop       *)
(* button is bright on the device exactly while it is on.                  *)
THEOREM LightsAreRight == Spec => []LightsFollow
<1>1. LightsInv => LightsFollow
  <2> SUFFICES ASSUME LightsInv, Waiting,
                      NEW b \in Buttons, b[1] # "SPECIAL", NEW k \in LedBytes(b)
               PROVE  device[k] = IF IsOn(b) THEN On ELSE Off
    BY DEF LightsFollow
  <2> DEFINE on == OnAt(position, flips)
  <2>1. device = OutputReport(LightsOf(on))
    BY DEF LightsInv, Waiting
  <2>2. IsOn(b) <=> b \in on
    BY DEF OnAt, IsOn
  <2> HIDE DEF on
  <2>3. device[k] = IF b \in on THEN On ELSE Off
    BY <2>1, OutputLights
  <2> QED BY <2>2, <2>3
<1> QED BY LightsInvariant, <1>1, PTL

(* TypeOK: the variables keep their types for every size of the storage;   *)
(* in particular a brightness fits into seven bits.                        *)
THEOREM TypeCorrect == Spec => []TypeOK
<1> DEFINE Joined == joined \in BOOLEAN
<1>1. Init => Joined
  BY DEF Init
<1>2. Joined /\ [Next]_vars => Joined'
  BY DEF Next, MainStep, Read, Push, Broadcast, SetColors, Process, Join, session, vars
<1>3. Spec => []Joined
  BY <1>1, <1>2, PTL DEF Spec
<1>4. LightsInv /\ HostInv /\ Joined => TypeOK
  BY DEF LightsInv, HostInv, LoopInv, ClientInv, Latches, Lights, TypeOK
<1> QED BY LightsInvariant, HostInvariant, <1>3, <1>4, PTL
=============================================================================
