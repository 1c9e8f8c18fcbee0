---------------------------- MODULE ButtonLights ----------------------------
(***************************************************************************)
(* Who decides how bright a button is (IOMapper::brightness_mode): the     *)
(* presses of its user, the notes of the host, or its controllers.  The    *)
(* input thread runs process_HID_input, the main thread                    *)
(* process_MIDI_event; each changes the LED of a button as a whole, and    *)
(* what write() makes of it is module LedOutput.                           *)
(***************************************************************************)
EXTENDS IOMapper

CONSTANTS Pressed,    \* the buttons the user presses
          HostEvents  \* the MIDI events the host sends

(* MidiEvent::Type, but for the events without a channel.                  *)
MessageTypes == {"NOTE_OFF", "NOTE_ON", "POLYPHONIC_AFTERTOUCH", "CONTROL_CHANGE",
                 "PROGRAM_CHANGE", "MONOPHONIC_AFTERTOUCH", "PITCH_BEND"}
Messages == [type : MessageTypes, channel : 0 .. 15, data1 : 0 .. 127, data2 : 0 .. 127]

ASSUME PressedAssumption == Pressed \subseteq Buttons
ASSUME HostEventsAssumption == HostEvents \subseteq Messages

VARIABLES held,       \* the buttons held down
          mapper,     \* last_input, and the LEDs of output_state
          notes,      \* the last note message for each note, on InChannel
          controllers \* the last value of each controller, on InChannel

lightVars == <<held, mapper, notes, controllers>>

LightsInit == /\ held = {}
              /\ mapper = [on |-> InitialLastInput, value |-> InitialLastValue,
                           led |-> [b \in Buttons |-> DARK]]
              /\ notes = [n \in 0 .. 127 |-> "none"]
              /\ controllers = [c \in 0 .. 127 |-> -1]

(* A button goes down or up: process_HID_input().                          *)
PressOrRelease(b) ==
  LET m == ProcessHIDInput(ButtonEvent(b[1], b[2], b \notin held), mapper)
  IN  /\ held' = IF b \in held THEN held \ {b} ELSE held \cup {b}
      /\ mapper' = [on |-> m.on, value |-> m.value, led |-> m.led]
      /\ UNCHANGED <<notes, controllers>>

(* The host sends an event: process_MIDI_event().                          *)
HostSends(e) ==
  /\ mapper' = [mapper EXCEPT !.led = ProcessMIDIEvent(e, @)]
  /\ notes' = IF e.channel = InChannel /\ e.type \in {"NOTE_ON", "NOTE_OFF"}
                THEN [notes EXCEPT ![e.data1] = e.type] ELSE notes
  /\ controllers' = IF e.channel = InChannel /\ e.type = "CONTROL_CHANGE"
                      THEN [controllers EXCEPT ![e.data1] = e.data2] ELSE controllers
  /\ UNCHANGED held

LightsNext == \/ \E b \in Pressed : PressOrRelease(b)
              \/ \E e \in HostEvents : HostSends(e)

LightsSpec == LightsInit /\ [][LightsNext]_lightVars

-----------------------------------------------------------------------------
(* What the comment of brightness_mode makes of one button's light: in     *)
(* MIDI_NOTE the last message with its note, in MIDI_CC its controller     *)
(* (to within one step, for the rounding), each dark until the first       *)
(* message, in HID whether it is on.                                       *)
LightOf(b) ==
  CASE b \in MidiNoteMode ->
         IF notes[Note(b)] = "none" THEN {DARK}
                                    ELSE {Brightness(b, notes[Note(b)] = "NOTE_ON")}
    [] b \in MidiCCMode ->
         LET v == controllers[BrightnessController(b)]
         IN  IF v = -1 THEN {DARK} ELSE {v, v - 1}
    [] OTHER -> IF mapper.on[b] THEN {High} ELSE {DARK, Low(b)}

(* Two sources, one light: of the matrix buttons, and of every button in   *)
(* mode HID, each is lit by the source its mode names and by no other, in  *)
(* whatever order presses and messages come.  A press of a button in a     *)
(* MIDI mode still sends its note and leaves its light alone.              *)
LightsFollowTheirMode ==
  \A b \in Buttons :
    b[1] = "MATRIX" \/ LitByHID(b) => mapper.led[b] \in LightOf(b)
=============================================================================
