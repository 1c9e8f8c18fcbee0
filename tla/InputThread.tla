----------------------------- MODULE InputThread -----------------------------
(***************************************************************************)
(* From a control of the F1 to a MIDI message of the host: the input       *)
(* thread of driver/src/main.cpp, the queue out_buf of                     *)
(* driver/src/io/JackWrapper.cpp and the JACK thread that empties it.      *)
(*                                                                         *)
(* The input thread loops: read_events() blocks for a report, decodes it,  *)
(* and hands the events it gives one by one to the mapper, whose MIDI      *)
(* event, if any, is queued; then write() sends the LEDs to the device.    *)
(* The JACK thread runs the process callback once a cycle.  Both threads   *)
(* touch out_buf only, through push() and pop(), which are single steps    *)
(* here: module Ringbuffer shows that they behave as if they were.         *)
(*                                                                         *)
(* All buttons are lit by their presses, as main() leaves them.  Then      *)
(* process_MIDI_event() is false for every event, so that the main thread  *)
(* never calls write(), and output_state, out_report and the device are    *)
(* the input thread's alone.  (With a button in a MIDI mode they would be  *)
(* shared, without a lock: module LedOutput.)                              *)
(*                                                                         *)
(* Outside the program are the user's hands (position, flips) and the      *)
(* host that receives the MIDI (host).  The properties compare the two.    *)
(***************************************************************************)
EXTENDS IOMapper, F1Reports, FiniteSetsExt

CONSTANTS Positions,     \* where the controls can be when a report is sent
          OtherIds,      \* ids of reports that are not input reports
          Garbage,       \* what the memory of input_state can hold at first
          OutCapacity,   \* elements out_buf can hold (127 in the driver)
          MaxPerCycle    \* nframes / 3

(* An uint8_t and uint16_t's, whatever the memory held.                    *)
Memory == [wheel : Byte, knobs : [Knobs -> UInt16], faders : [Faders -> UInt16]]

ASSUME OnlyHID == MidiNoteMode = {} /\ MidiCCMode = {}
ASSUME PositionsAssumption == Positions \subseteq Position
ASSUME GarbageAssumption == Garbage \subseteq Memory
ASSUME OutCapacityAssumption == OutCapacity \in Nat \ {0}
ASSUME MaxPerCycleAssumption == MaxPerCycle \in Nat \ {0}

VARIABLES
  position,          \* the controls, as the last report showed them
  flips,             \* the buttons pressed an odd number of times
  turned,            \* the steps of the wheel, up less down, modulo 256
  boot,              \* the memory input_state was built in
  input_state,       \* F1Device::Impl::input_state
  input_events,      \* the events the loop of read_events() has yet to handle
  mapper,            \* last_input of the mapper, and the LEDs of output_state
  pc,                \* where the input thread is
  out_buf,           \* JackWrapper::Impl::out_buf
  client,            \* the process callback: "idle", "writing", or "dropped" by JACK
  budget,            \* messages it may still write
  host,              \* what the MIDI messages received so far amount to
  device             \* the report the LEDs of the device follow

hands == <<position, flips, turned>>
jack == <<client, budget>>
vars == <<hands, boot, input_state, input_events,
          mapper, pc, out_buf, jack, host, device>>

-----------------------------------------------------------------------------
(* What a report shows of the wheel, which stood at w1 and stands at w2:   *)
(* a step up or down, whichever is the shorter way round (half way is a    *)
(* step down).  What it skips is lost, as the wheel has no stop.           *)
Turn(w1, w2) ==
  LET up == (w2 - w1) % WheelSteps
  IN  IF up = 0 THEN 0 ELSE IF 2 * up < WheelSteps THEN 1 ELSE -1

(* The host: which notes sound, the last value of each controller, and     *)
(* how far the wheel has turned, counting one for each of its messages.    *)
NoHost == [on |-> [n \in {Note(b) : b \in Buttons} |-> FALSE],
           cc |-> [c \in {Controller(e) : e \in Encoders} |-> 0],
           turned |-> 0]

Receive(h, midi) ==
  IF midi.type # "CONTROL_CHANGE"
    THEN [h EXCEPT !.on[midi.data1] = (midi.type = "NOTE_ON")]
  ELSE IF midi.data1 # WheelController
    THEN [h EXCEPT !.cc[midi.data1] = midi.data2]
  ELSE [h EXCEPT !.turned = (IF midi.data2 = wheel_inc_value THEN @ + 1 ELSE @ - 1)
                            % WheelSteps]

-----------------------------------------------------------------------------
(* The wheel, of which only turns are reported, counts as standing where   *)
(* the memory says until the first report.                                 *)
Init == /\ boot \in Garbage
        /\ position \in {[p EXCEPT !.held = {}, !.wheel = boot.wheel] : p \in Positions}
        /\ flips = {}
        /\ turned = 0
        /\ input_state = InitialInputState(boot)
        /\ input_events = <<>>
        /\ mapper = [on |-> InitialLastInput, value |-> InitialLastValue,
                     led |-> [b \in Buttons |-> DARK]]
        /\ pc = "read"
        /\ out_buf = <<>>
        /\ client = "idle"
        /\ budget = 0
        /\ host = NoHost
        /\ device = OutReport(mapper.led)

(* A report arrives: read(), update_in_state(), generate_input_events().   *)
(* update_in_state() first copies the state to old_input_state, which is   *)
(* read here only: it is the unprimed input_state.                         *)
Decode(report) ==
  /\ pc = "read"
  /\ input_state' = UpdateInState(input_state, report)
  /\ input_events' = GenerateInputEvents(input_state, input_state')
  /\ pc' = "handle"
  /\ UNCHANGED <<boot, mapper, out_buf, jack, host, device>>

ReadReport == \E p \in Positions :
  /\ position' = p
  /\ flips' = SymDiff(flips, p.held \ position.held)
  /\ turned' = (turned + Turn(position.wheel, p.wheel)) % WheelSteps
  /\ Decode(Report(p))

ReadOther == \E id \in OtherIds :
  /\ UNCHANGED hands
  /\ Decode([Report(position) EXCEPT ![0] = id])

(* A variant that looks for one element too many.                          *)
OutBufOverfull == Len(out_buf) > OutCapacity

OutBufFull == Len(out_buf) = OutCapacity

(* The handler of main(): process_HID_input(), then operator<<, whose      *)
(* assertion ends the process if out_buf is full.                          *)
HandleEvent ==
  /\ pc = "handle"
  /\ input_events # <<>>
  /\ LET m == ProcessHIDInput(Head(input_events), mapper)
     IN  /\ mapper' = [on |-> m.on, value |-> m.value, led |-> m.led]
         /\ IF m.midi # <<>> /\ OutBufFull
              THEN pc' = "aborted" /\ UNCHANGED out_buf
              ELSE pc' = pc /\ out_buf' = out_buf \o m.midi
  /\ input_events' = Tail(input_events)
  /\ UNCHANGED <<hands, boot, input_state, jack, host, device>>

(* A variant that leaves the write() out.                                  *)
LoopWithoutWrite ==
  /\ pc = "handle"
  /\ input_events = <<>>
  /\ pc' = "read"
  /\ UNCHANGED <<hands, boot, input_state,
                 input_events, mapper, out_buf, jack, host, device>>

(* All events handled: dev->write().                                       *)
WriteDevice ==
  /\ pc = "handle"
  /\ input_events = <<>>
  /\ device' = OutReport(mapper.led)
  /\ pc' = "read"
  /\ UNCHANGED <<hands, boot, input_state,
                 input_events, mapper, out_buf, jack, host>>

(* A variant that stops for good after the first message.                  *)
BeginCycleOnce ==
  /\ pc # "aborted" /\ client = "idle"
  /\ host = NoHost
  /\ client' = "writing"
  /\ budget' = MaxPerCycle
  /\ UNCHANGED <<hands, boot, input_state,
                 input_events, mapper, pc, out_buf, host, device>>

(* process_int() calls the write callback: at most nframes / 3 messages.   *)
BeginCycle ==
  /\ pc # "aborted" /\ client = "idle"
  /\ client' = "writing"
  /\ budget' = MaxPerCycle
  /\ UNCHANGED <<hands, boot, input_state,
                 input_events, mapper, pc, out_buf, host, device>>

CanWrite ==
  /\ pc # "aborted" /\ client = "writing"
  /\ budget > 0
  /\ out_buf # <<>>

WriteMidi ==
  /\ CanWrite
  /\ host' = Receive(host, Head(out_buf))
  /\ out_buf' = Tail(out_buf)
  /\ budget' = budget - 1
  /\ UNCHANGED <<hands, boot, input_state,
                 input_events, mapper, pc, client, device>>

(* The port has no space for the message: assert(res == 0).                *)
PortRefuses ==
  /\ CanWrite
  /\ pc' = "aborted"
  /\ UNCHANGED <<hands, boot, input_state,
                 input_events, mapper, out_buf, jack, host, device>>

(* The write callback is done, and process_int() returns what the read     *)
(* callback does: an error if in_buf is full (or an event cannot be read), *)
(* and then JACK drops the client and calls it no more.                    *)
EndCycle ==
  /\ pc # "aborted" /\ client = "writing"
  /\ budget = 0 \/ out_buf = <<>>
  /\ client' \in {"idle", "dropped"}
  /\ budget' = 0
  /\ UNCHANGED <<hands, boot, input_state,
                 input_events, mapper, pc, out_buf, host, device>>

InputStep == ReadReport \/ ReadOther \/ HandleEvent \/ WriteDevice
JackStep == BeginCycle \/ WriteMidi \/ PortRefuses \/ EndCycle

Next == InputStep \/ JackStep

(* JACK calls the process callback every cycle for as long as it returns   *)
(* no error, and the input thread is scheduled; that a report arrives is   *)
(* not assumed.                                                            *)
Spec == Init /\ [][Next]_vars
             /\ WF_vars(JackStep)
             /\ WF_vars(HandleEvent \/ WriteDevice)

-----------------------------------------------------------------------------
Levels == 0 .. 127
Bits(S) == [S -> BOOLEAN]
InputStates == [matrix : Bits(Matrix), special : Bits(Special), stop : Bits(Stop),
                wheel : Byte, knobs : [Knobs -> UInt16], faders : [Faders -> UInt16]]
MidiOut == [type : {"NOTE_ON", "NOTE_OFF", "CONTROL_CHANGE"}, channel : {OutChannel},
            data1 : 0 .. 127, data2 : 0 .. 127]

(* The type of the program's variables: brightness is below 128 (which     *)
(* update_out_report() asserts), MIDI data bytes have seven bits, and      *)
(* out_buf never holds more than it can.                                   *)
TypeOK ==
  /\ input_state \in InputStates
  /\ \A k \in 1 .. Len(input_events) :
        input_events[k].type \in {"MATRIX", "SPECIAL", "STOP", "FADER", "KNOB", "WHEEL"}
  /\ mapper \in [on : Bits(Buttons), value : [Encoders -> Levels], led : [Buttons -> Levels]]
  /\ pc \in {"read", "handle", "aborted"}
  /\ out_buf \in Seq(MidiOut) /\ Len(out_buf) <= OutCapacity
  /\ turned \in 0 .. WheelSteps - 1
  /\ client \in {"idle", "writing", "dropped"}
  /\ budget \in 0 .. MaxPerCycle
  /\ device \in [0 .. 80 -> Byte]

(* What the host will know after the first i elements of out_buf, and once *)
(* it is drained.                                                          *)
After[i \in 0 .. Len(out_buf)] ==
  IF i = 0 THEN host ELSE Receive(After[i - 1], out_buf[i])
Drained == After[Len(out_buf)]

Waiting == pc = "read"

(* The user's view of a button: a toggle button is on after an odd number  *)
(* of presses, any other one while it is held.                             *)
IsOn(b) == IF b \in ButtonToggle THEN b \in flips ELSE b \in position.held

(* End to end, the notes: whatever controls moved in whatever order, the   *)
(* messages sent and still queued leave exactly the notes sounding that    *)
(* the user turned on.  A lost release, a toggle flipped twice, a bit      *)
(* decoded into another button or a note shared by two buttons breaks it.  *)
HostHearsButtons ==
  Waiting => LET known == Drained IN \A b \in Buttons : known.on[Note(b)] <=> IsOn(b)

EncoderPosition(e) ==
  IF e[1] = "FADER" THEN position.faders[e[2]] ELSE position.knobs[e[2]]
EncoderBoot(e) == IF e[1] = "FADER" THEN boot.faders[e[2]] ELSE boot.knobs[e[2]]

Abs(n) == IF n < 0 THEN -n ELSE n

(* Of the 128 values of a controller, v is the closest to position p.      *)
Nearest(v, p) == 2 * Abs(v * FADERS_MAX - p * MIDI_MAX) <= FADERS_MAX

(* End to end, the encoders: the host has the position of each fader and   *)
(* knob to the nearest of 128 values, except for one that stands where the *)
(* uninitialised memory happened to say it stood, which the driver has     *)
(* never had a reason to report, and except for as long as no input report *)
(* has differed from that memory in anything.                              *)
HostHasEncoders ==
  Waiting => LET known == Drained IN \A e \in Encoders :
    \/ Nearest(known.cc[Controller(e)], EncoderPosition(e))
    \/ known.cc[Controller(e)] = 0 /\ EncoderPosition(e) = EncoderBoot(e)
    \/ input_state = InitialInputState(boot)

(* End to end, the wheel: the messages add up to the steps that the        *)
(* reports show, from the first one on (which is compared with what the    *)
(* memory held), each counted the shorter way round, across the wrap from  *)
(* 255 to 0 too.  Where no report skips a step, this is how far the wheel  *)
(* was turned.                                                             *)
HostFollowsWheel == Waiting => Drained.turned = turned

(* The LEDs and the MIDI agree: after write(), a button is bright on the   *)
(* device exactly when its note is on for the host, and has been dark only *)
(* until its first message.  (All buttons are in mode HID, and nobody else *)
(* writes: OnlyHID.)                                                       *)
LedsMatchNotes ==
  Waiting => LET known == Drained IN \A b \in Buttons : \A k \in LedBytes(b) :
    IF known.on[Note(b)] THEN device[k] = High ELSE device[k] \in {DARK, Low(b)}

(* No message is redundant: each one changes what the host knows.  A note  *)
(* is never turned on twice, a controller never sent the value it has.     *)
EveryMessageIsNews == [][WriteMidi => host' # host]_vars

Over == pc = "aborted" \/ client = "dropped"

(* A button turned on or off is heard by the host, unless the process ends *)
(* or JACK drops the client first: however few messages fit a cycle, every *)
(* one in out_buf has its turn.                                            *)
ButtonsAreHeard ==
  \A b \in UNION {p.held : p \in Positions} :
    /\ mapper.on[b] ~> (host.on[Note(b)] \/ Over)
    /\ ~mapper.on[b] ~> (~host.on[Note(b)] \/ Over)
=============================================================================
