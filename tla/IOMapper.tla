------------------------------ MODULE IOMapper ------------------------------
(***************************************************************************)
(* The mapping between the controls of the F1 and MIDI                     *)
(* (driver/src/tkf1/IOMapper.{hpp,cpp}): the MIDI event an input event     *)
(* gives, the note each button is toggled to, and what either does to the  *)
(* LEDs.  Pure operators: the mapper's only state is last_input, which     *)
(* they take and return.                                                   *)
(***************************************************************************)
EXTENDS F1Device

CONSTANTS ButtonToggle,   \* the <<group, index>> of the toggle buttons
          MidiNoteMode,   \* the buttons in brightness mode MIDI_NOTE
          MidiCCMode      \* the buttons in brightness mode MIDI_CC

ASSUME ModesAreDisjoint == MidiNoteMode \cap MidiCCMode = {}

Encoders == ({"FADER"} \X Faders) \cup ({"KNOB"} \X Knobs)

MIDI_MAX == 127
OutChannel == 0
InChannel == 1

MidiEvent(type, channel, data1, data2) ==
  [type |-> type, channel |-> channel, data1 |-> data1, data2 |-> data2]

(* The notes are consecutive: C1 .. D#2, E2 .. C3, C#3 .. E3.              *)
Note(b) == IF b[1] = "MATRIX" THEN 24 + b[2]
           ELSE IF b[1] = "SPECIAL" THEN 40 + b[2]
           ELSE 49 + b[2]

Controller(e) == IF e[1] = "KNOB" THEN 33 + e[2] ELSE 37 + e[2]
WheelController == 41

(* 70 .. 85 for the matrix, 86 .. 94, and 102 .. 105 for the stop buttons. *)
BrightnessController(b) == IF b[1] = "MATRIX" THEN 70 + b[2]
                           ELSE IF b[1] = "SPECIAL" THEN 86 + b[2]
                           ELSE 102 + b[2]
wheel_dec_value == 0
wheel_inc_value == 127

(* A variant that truncates.                                               *)
ScaleTruncated(value, inMax, outMax) == (value * outMax) \div inMax

(* scale(): rounded to the nearest integer.                                *)
Scale(value, inMax, outMax) == (2 * value * outMax + inMax) \div (2 * inMax)

(* The brightness of a lit and of a dimmed button, as the byte sent for a  *)
(* full-brightness colour component: matrix buttons take a fraction of     *)
(* their colour (0.2 of 127 is 25), the others brightness_low (0x29).      *)
DARK == 0
High == 127
Low(b) == IF b[1] = "MATRIX" THEN 25 ELSE 41
Brightness(b, on) == IF on THEN High ELSE Low(b)

(* last_input is value-initialised: no button on, every encoder at 0.      *)
InitialLastInput == [b \in Buttons |-> FALSE]
InitialLastValue == [e \in Encoders |-> 0]

(* process_HID_input_button(): a press flips a toggle button, a release of *)
(* one does nothing, and any other button is on while pressed.             *)
ButtonOn(b, press, on) ==
  IF b \in ButtonToggle THEN (IF press THEN ~on ELSE on) ELSE press

(* A variant that sends a note for the release of a toggle button too.     *)
ButtonAlwaysEmits(b, press) == TRUE

ButtonEmits(b, press) == b \in ButtonToggle => press

NoteEvent(b, on) == IF on THEN MidiEvent("NOTE_ON", OutChannel, Note(b), 127)
                          ELSE MidiEvent("NOTE_OFF", OutChannel, Note(b), 0)

(* button_light_*_HID(): nothing for a button in another brightness mode.  *)
LitByHID(b) == b \notin MidiNoteMode \cup MidiCCMode

(* process_HID_input_encoder(): only a change of the scaled value is sent. *)
EncoderEmits(v, last) == v # last

(* process_HID_input(): m is the mapper's last_input and the LEDs, as      *)
(* [on, value, led]; the result adds the MIDI events emitted, none or one. *)
ProcessHIDInput(event, m) ==
  LET c == <<event.type, event.index>>
      on == ButtonOn(c, event.press, m.on[c])
      v == Scale(event.value, FADERS_MAX, MIDI_MAX)
  IN  IF c \in Buttons
        THEN IF ButtonEmits(c, event.press)
               THEN [on |-> [m.on EXCEPT ![c] = on],
                     value |-> m.value,
                     led |-> IF LitByHID(c)
                               THEN [m.led EXCEPT ![c] = Brightness(c, on)]
                               ELSE m.led,
                     midi |-> <<NoteEvent(c, on)>>]
               ELSE [on |-> m.on, value |-> m.value, led |-> m.led, midi |-> <<>>]
      ELSE IF c \in Encoders
        THEN [on |-> m.on,
              value |-> [m.value EXCEPT ![c] = v],
              led |-> m.led,
              midi |-> IF EncoderEmits(v, m.value[c])
                         THEN <<MidiEvent("CONTROL_CHANGE", OutChannel, Controller(c), v)>>
                         ELSE <<>>]
      ELSE [on |-> m.on, value |-> m.value, led |-> m.led,
            midi |-> <<MidiEvent("CONTROL_CHANGE", OutChannel, WheelController,
                                 IF event.direction > 0 THEN wheel_inc_value
                                                        ELSE wheel_dec_value)>>]

-----------------------------------------------------------------------------
(* A note or a controller number meant for button b, in the mode it has.   *)
IsItsNote(event, b) == /\ b \in MidiNoteMode
                       /\ event.type \in {"NOTE_ON", "NOTE_OFF"}
                       /\ event.data1 = Note(b)
IsItsController(event, b) == /\ b \in MidiCCMode
                             /\ event.type = "CONTROL_CHANGE"
                             /\ event.data1 = BrightnessController(b)

(* A variant that listens to the channel it sends on.                      *)
AddressesOutChannel(event, b) ==
  /\ event.channel = OutChannel
  /\ b[1] = "MATRIX"
  /\ IsItsNote(event, b) \/ IsItsController(event, b)

(* process_MIDI_event(): the buttons an event lights.  Its loop goes over  *)
(* the matrix buttons only.                                                *)
Addresses(event, b) ==
  /\ event.channel = InChannel
  /\ b[1] = "MATRIX"
  /\ IsItsNote(event, b) \/ IsItsController(event, b)

(* A controller value v gives trunc((v * (1.0 / 127)) * 127): for these,   *)
(* the product in double precision stays just below v.                     *)
JustBelow == {17, 21, 25, 29, 34, 42, 50, 58, 68, 84, 100, 116}

(* The brightness an event gives the button it is meant for.               *)
MidiBrightness(event, b) ==
  IF event.type = "CONTROL_CHANGE"
    THEN IF event.data2 \in JustBelow THEN event.data2 - 1 ELSE event.data2
    ELSE Brightness(b, event.type = "NOTE_ON")

ProcessMIDIEvent(event, led) ==
  [b \in DOMAIN led |-> IF Addresses(event, b) THEN MidiBrightness(event, b) ELSE led[b]]
=============================================================================
