------------------------------ MODULE F1Device ------------------------------
(***************************************************************************)
(* The Traktor Kontrol F1 as the driver sees it                            *)
(* (driver/src/tkf1/F1Device.cpp): how a 22-byte input report is decoded   *)
(* into the state of the controls, and which input events the difference   *)
(* of two such states gives, in which order.  State and actions are in the *)
(* modules that use these operators.                                       *)
(***************************************************************************)
EXTENDS Integers, Sequences, FiniteSets

INPUT_REPORT_ID == 1
INPUT_REPORT_SIZE == 22
Matrix == 0 .. 15     \* MATRIX_BUTTONS_NUM
Special == 0 .. 8     \* SPECIAL_BUTTONS_NUM
Stop == 0 .. 3        \* STOP_BUTTONS_NUM
Knobs == 0 .. 3       \* KNOBS_NUM
Faders == 0 .. 3      \* FADERS_NUM
FADERS_MAX == 4095    \* KNOBS_MAX too: twelve bits
WheelSteps == 256     \* WHEEL_MAX + 1

Buttons == ({"MATRIX"} \X Matrix) \cup ({"SPECIAL"} \X Special) \cup ({"STOP"} \X Stop)

Byte == 0 .. 255
UInt16 == 0 .. 65535

(* 1 << i, for i from 0.                                                   *)
Mask == <<1, 2, 4, 8, 16, 32, 64, 128>>

Bit(byte, i) == (byte \div Mask[i + 1]) % 2 = 1

(* Two bytes of the report, low byte first.                                *)
Word(report, i) == report[i] + 256 * report[i + 1]

(* The values of InputState when the constructor of Impl ends.  The three  *)
(* bitsets are cleared by their own constructors; nothing initialises the  *)
(* wheel, the knobs and the faders, whose values are whatever the memory   *)
(* held (g).                                                               *)
InitialInputState(g) ==
  [matrix |-> [i \in Matrix |-> FALSE],
   special |-> [i \in Special |-> FALSE],
   stop |-> [i \in Stop |-> FALSE],
   wheel |-> g.wheel,
   knobs |-> g.knobs,
   faders |-> g.faders]

(* A variant that numbers the stop buttons from the low bit up.            *)
StopBitUnreversed(i) == 4 + i

StopBit(i) == 4 + (3 - i)

(* update_in_state(): a report with another id leaves the state alone.     *)
UpdateInState(state, report) ==
  IF report[0] # INPUT_REPORT_ID THEN state ELSE
  [matrix |-> [i \in Matrix |-> Bit(report[1 + i \div 8], 7 - (i % 8))],
   special |-> [i \in Special |-> IF i < 6 THEN Bit(report[3], i + 2)
                                           ELSE Bit(report[4], i - 5)],
   stop |-> [i \in Stop |-> Bit(report[4], StopBit(i))],
   wheel |-> report[5],
   knobs |-> [i \in Knobs |-> Word(report, 6 + 2 * i)],
   faders |-> [i \in Faders |-> Word(report, 14 + 2 * i)]]

ButtonEvent(type, i, press) == [type |-> type, index |-> i, press |-> press]
EncoderEvent(type, i, value) == [type |-> type, index |-> i, value |-> value]
WheelEvent(dir) == [type |-> "WHEEL", index |-> 0, direction |-> dir]

(* The indexes of a set, as a loop from 0 up meets them.                   *)
InOrder(S) ==
  [k \in 1 .. Cardinality(S) |->
     CHOOSE i \in S : Cardinality({j \in S : j <= i}) = k]

(* The indexes of one group of controls whose value differs.               *)
Changed(old, new) == InOrder({i \in DOMAIN new : new[i] # old[i]})

(* A variant that does not narrow the difference to int8_t.                *)
WheelDirectionWide(old, new) == new - old

(* The difference of two wheel positions, as int16_t and then as int8_t.   *)
WheelDirection(old, new) ==
  LET diff == (new - old) % WheelSteps
  IN  IF diff >= WheelSteps \div 2 THEN diff - WheelSteps ELSE diff

(* generate_input_events(): one event for each control that differs, the   *)
(* groups in this order and each group by index.                           *)
GenerateInputEvents(old, new) ==
  LET Presses(type, o, n) ==
        LET c == Changed(o, n)
        IN  [k \in 1 .. Len(c) |-> ButtonEvent(type, c[k], n[c[k]])]
      Encoders(type, o, n) ==
        LET c == Changed(o, n)
        IN  [k \in 1 .. Len(c) |-> EncoderEvent(type, c[k], n[c[k]])]
  IN  Presses("MATRIX", old.matrix, new.matrix)
      \o Presses("SPECIAL", old.special, new.special)
      \o Presses("STOP", old.stop, new.stop)
      \o Encoders("FADER", old.faders, new.faders)
      \o Encoders("KNOB", old.knobs, new.knobs)
      \o IF new.wheel # old.wheel
           THEN <<WheelEvent(WheelDirection(old.wheel, new.wheel))>>
           ELSE <<>>

(* update_out_report(), of a level for each button: three bytes of colour, *)
(* two LEDs for each stop button, none for the first special button.  The  *)
(* display stays dark: nothing in the program writes to it.                *)
OutReport(led) ==
  [k \in 0 .. 80 |->
     IF k = 0 THEN 128
     ELSE IF k \in 17 .. 24 THEN led[<<"SPECIAL", k - 16>>]
     ELSE IF k \in 25 .. 72 THEN led[<<"MATRIX", (k - 25) \div 3>>]
     ELSE IF k \in 73 .. 80 THEN led[<<"STOP", 3 - (k - 73) \div 2>>]
     ELSE 0]
=============================================================================
