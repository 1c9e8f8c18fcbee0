----------------------------- MODULE F1Reports -----------------------------
(***************************************************************************)
(* The F1 itself, from hid-messages/INPUT-PROTOCOL.md and outputs.md: the  *)
(* byte and the bit of a report that a button sets, the report the device  *)
(* sends for a position of its controls, and the bytes of an output report *)
(* that light a button.  Both drivers are tried against it.                *)
(***************************************************************************)
EXTENDS F1Device

(* Where the controls can be: the buttons that are held, the wheel, and    *)
(* the twelve bits of each knob and fader.                                 *)
Position == [held : SUBSET Buttons, wheel : Byte,
             knobs : [Knobs -> 0 .. FADERS_MAX], faders : [Faders -> 0 .. FADERS_MAX]]

ButtonBit(b) ==
  IF b[1] = "MATRIX" THEN <<1 + b[2] \div 8, 7 - (b[2] % 8)>>
  ELSE IF b[1] = "STOP" THEN <<4, 7 - b[2]>>
  ELSE IF b[2] < 6 THEN <<3, 2 + b[2]>> ELSE <<4, b[2] - 5>>

(* Byte k of the buttons: a bit for each one that is held.                 *)
ButtonByte(held, k) ==
  LET B(i) == IF \E b \in held : ButtonBit(b) = <<k, i>> THEN Mask[i + 1] ELSE 0
  IN  B(0) + B(1) + B(2) + B(3) + B(4) + B(5) + B(6) + B(7)

(* The low byte of a word is the one at an even place.                     *)
WordByte(v, k) == IF k % 2 = 0 THEN v % 256 ELSE v \div 256

Report(p) ==
  [k \in 0 .. INPUT_REPORT_SIZE - 1 |->
     IF k = 0 THEN INPUT_REPORT_ID
     ELSE IF k \in 1 .. 4 THEN ButtonByte(p.held, k)
     ELSE IF k = 5 THEN p.wheel
     ELSE IF k \in 6 .. 13 THEN WordByte(p.knobs[(k - 6) \div 2], k)
     ELSE WordByte(p.faders[(k - 14) \div 2], k)]

(* Three colours for a matrix button, two LEDs for a stop button, the stop *)
(* buttons from the right; the wheel, which is the first special button,   *)
(* has no light.                                                           *)
LedBytes(b) ==
  IF b[1] = "MATRIX" THEN 25 + 3 * b[2] .. 27 + 3 * b[2]
  ELSE IF b[1] = "STOP" THEN 79 - 2 * b[2] .. 80 - 2 * b[2]
  ELSE IF b[2] = 0 THEN {} ELSE {16 + b[2]}
=============================================================================
