--------------------------- MODULE LedOutputProof ---------------------------
(***************************************************************************)
(* Proofs about the lights, for any LEDs, settings and messages.  Of       *)
(* ButtonLights (in the first part): output_state holds for each button    *)
(* what the source says that its brightness mode names.  Of LedOutput: a   *)
(* write() that the other thread keeps out of leaves the device exact.     *)
(***************************************************************************)
EXTENDS LedOutput, ButtonLights, TLAPS

-----------------------------------------------------------------------------
(* The types of ButtonLights: the mapper's memory and the LEDs, and what   *)
(* the host has said last about each note and each controller.             *)
Numbers == 0 .. 127
LightTypes ==
  /\ mapper \in [on : [Buttons -> BOOLEAN], value : [Encoders -> Numbers],
                 led : [Buttons -> Int]]
  /\ notes \in [Numbers -> {"none", "NOTE_ON", "NOTE_OFF"}]
  /\ controllers \in [Numbers -> Numbers \cup {-1}]

LightInv == LightTypes /\ LightsFollowTheirMode

(* Notes and controllers of a button are numbers of MIDI.                  *)
LEMMA NumbersOfButtons ==
  ASSUME NEW b \in Buttons
  PROVE  Note(b) \in Numbers /\ BrightnessController(b) \in Numbers
<1>1. \/ b[1] = "MATRIX" /\ b[2] \in 0 .. 15
      \/ b[1] = "SPECIAL" /\ b[2] \in 0 .. 8
      \/ b[1] = "STOP" /\ b[2] \in 0 .. 3
  BY DEF Buttons, Matrix, Special, Stop
<1>2. CASE b[1] = "MATRIX" /\ b[2] \in 0 .. 15
  <2>1. Note(b) = 24 + b[2] /\ BrightnessController(b) = 70 + b[2]
    BY <1>2 DEF Note, BrightnessController
  <2> QED
    BY <1>2, <2>1 DEF Numbers
<1>3. CASE b[1] = "SPECIAL" /\ b[2] \in 0 .. 8
  <2>1. Note(b) = 40 + b[2] /\ BrightnessController(b) = 86 + b[2]
    BY <1>3 DEF Note, BrightnessController
  <2> QED
    BY <1>3, <2>1 DEF Numbers
<1>4. CASE b[1] = "STOP" /\ b[2] \in 0 .. 3
  <2>1. Note(b) = 49 + b[2] /\ BrightnessController(b) = 102 + b[2]
    BY <1>4 DEF Note, BrightnessController
  <2> QED
    BY <1>4, <2>1 DEF Numbers
<1> QED
  BY <1>1, <1>2, <1>3, <1>4

(* A lit and a dimmed button have a brightness.                            *)
LEMMA BrightnessIsInt ==
  ASSUME NEW b, NEW on \in BOOLEAN
  PROVE  Brightness(b, on) \in Int
  BY DEF Brightness, High, Low

(* What LightOf() says of a button in one of the MIDI modes.               *)
LEMMA LightInNoteMode ==
  ASSUME NEW b \in MidiNoteMode, b \notin MidiCCMode
  PROVE  /\ LightOf(b) = IF notes[Note(b)] = "none" THEN {DARK}
              ELSE {Brightness(b, notes[Note(b)] = "NOTE_ON")}
         /\ LightOf(b)' = IF notes'[Note(b)] = "none" THEN {DARK}
              ELSE {Brightness(b, notes'[Note(b)] = "NOTE_ON")}
  BY DEF LightOf

LEMMA LightInCCMode ==
  ASSUME NEW b \in MidiCCMode, b \notin MidiNoteMode
  PROVE  LET v == controllers[BrightnessController(b)]
         IN  /\ LightOf(b) = IF v = -1 THEN {DARK} ELSE {v, v - 1}
             /\ LightOf(b)' = IF v' = -1 THEN {DARK} ELSE {v', v' - 1}
  BY DEF LightOf

(* All buttons are off and dark at first, and the host has said nothing.   *)
LEMMA LightsStart == LightsInit => LightInv
<1> SUFFICES ASSUME LightsInit PROVE LightInv
  OBVIOUS
<1>1. LightTypes
  BY DEF LightsInit, LightTypes, Numbers, InitialLastInput, InitialLastValue,
         DARK
<1>2. ASSUME NEW b \in Buttons PROVE mapper.led[b] \in LightOf(b)
  <2>1. mapper.led[b] = DARK /\ mapper.on[b] = FALSE
    BY DEF LightsInit, InitialLastInput
  <2>2. notes[Note(b)] = "none" /\ controllers[BrightnessController(b)] = -1
    BY NumbersOfButtons DEF LightsInit, Numbers
  <2> QED
    BY <2>1, <2>2 DEF LightOf
<1> QED
  BY <1>1, <1>2 DEF LightInv, LightsFollowTheirMode

(* A press or a release changes the light of its button only if the mode   *)
(* is HID, and then to what the mapper remembers of it.                    *)
LEMMA PressesKeepLights ==
  ASSUME LightInv, NEW b \in Pressed, PressOrRelease(b)
  PROVE  LightInv'
<1> DEFINE press == b \notin held
           on == ButtonOn(b, press, mapper.on[b])
<1>1. /\ b \in Buttons /\ b = <<b[1], b[2]>>
      /\ mapper.on \in [Buttons -> BOOLEAN]
      /\ mapper.led \in [Buttons -> Int]
      /\ mapper.value \in [Encoders -> Numbers]
  BY PressedAssumption DEF LightInv, LightTypes, Buttons
<1>2. /\ mapper' = IF ButtonEmits(b, press)
                     THEN [on |-> [mapper.on EXCEPT ![b] = on], value |-> mapper.value,
                           led |-> IF LitByHID(b)
                                     THEN [mapper.led EXCEPT ![b] = Brightness(b, on)]
                                     ELSE mapper.led]
                     ELSE [on |-> mapper.on, value |-> mapper.value, led |-> mapper.led]
      /\ notes' = notes /\ controllers' = controllers
  <2> DEFINE e == ButtonEvent(b[1], b[2], press)
  <2>1. <<e.type, e.index>> = b /\ e.press = press
    BY <1>1 DEF ButtonEvent
  <2> HIDE DEF e
  <2> QED
    BY <1>1, <2>1 DEF PressOrRelease, ProcessHIDInput, e
<1>3. on \in BOOLEAN /\ Brightness(b, on) \in Int
  <2>1. mapper.on[b] \in BOOLEAN /\ press \in BOOLEAN
    BY <1>1
  <2>2. on \in BOOLEAN
    <3> HIDE DEF press
    <3> QED
      BY <2>1 DEF ButtonOn
  <2> QED
    BY <2>2, BrightnessIsInt
<1> HIDE DEF press, on
<1>4. LightTypes'
  BY <1>1, <1>2, <1>3 DEF LightInv, LightTypes
<1>5. ASSUME NEW c \in Buttons, c[1] = "MATRIX" \/ LitByHID(c)
      PROVE  mapper'.led[c] \in LightOf(c)'
  <2>1. mapper.led[c] \in LightOf(c)
    BY <1>5 DEF LightInv, LightsFollowTheirMode
  <2>2. CASE mapper'.led[c] = mapper.led[c] /\ mapper'.on[c] = mapper.on[c]
    BY <1>2, <2>1, <2>2 DEF LightOf
  <2>3. CASE c = b /\ ButtonEmits(b, press) /\ LitByHID(b)
    <3>1. mapper'.led[c] = Brightness(b, on) /\ mapper'.on[c] = on
      BY <1>1, <1>2, <2>3
    <3> QED
      BY <2>3, <3>1 DEF LightOf, LitByHID, Brightness
  <2>4. CASE c = b /\ ~LitByHID(b)
    <3>1. mapper'.led[c] = mapper.led[c]
      BY <1>2, <2>4
    <3> QED
      BY <1>2, <2>1, <2>4, <3>1 DEF LightOf, LitByHID
  <2> QED
    BY <1>1, <1>2, <2>2, <2>3, <2>4
<1> QED
  BY <1>4, <1>5 DEF LightInv, LightsFollowTheirMode

(* A message lights the matrix buttons that it is for, and is the last one *)
(* that the host has sent for them; it leaves the others alone.            *)
LEMMA MessagesKeepLights ==
  ASSUME LightInv, NEW e \in HostEvents, HostSends(e)
  PROVE  LightInv'
<1>1. /\ e \in Messages
      /\ mapper.on \in [Buttons -> BOOLEAN]
      /\ mapper.led \in [Buttons -> Int]
      /\ mapper.value \in [Encoders -> Numbers]
  BY HostEventsAssumption DEF LightInv, LightTypes
<1>2. mapper' = [mapper EXCEPT !.led = ProcessMIDIEvent(e, @)]
  BY DEF HostSends
<1>3. /\ mapper'.on = mapper.on /\ mapper'.value = mapper.value
      /\ mapper'.led = [b \in Buttons |->
                         IF Addresses(e, b) THEN MidiBrightness(e, b)
                                                   ELSE mapper.led[b]]
      /\ mapper' = [on |-> mapper'.on, value |-> mapper'.value, led |-> mapper'.led]
  BY <1>1, <1>2 DEF LightInv, LightTypes, ProcessMIDIEvent
<1>4. LightTypes'
  <2>1. ASSUME NEW b \in Buttons PROVE MidiBrightness(e, b) \in Int
    <3>1. CASE e.type = "CONTROL_CHANGE"
      <4>1. e.data2 \in 0 .. 127
        BY <1>1 DEF Messages
      <4>2. e.data2 \in Int /\ e.data2 - 1 \in Int
        BY <4>1
      <4> QED
        BY <3>1, <4>2 DEF MidiBrightness
    <3>2. CASE e.type # "CONTROL_CHANGE"
      BY <3>2, BrightnessIsInt DEF MidiBrightness
    <3> QED
      BY <3>1, <3>2
  <2>2. mapper'.led \in [Buttons -> Int]
    BY <1>1, <1>3, <2>1
  <2>3. notes' \in [Numbers -> {"none", "NOTE_ON", "NOTE_OFF"}]
    BY DEF HostSends, LightInv, LightTypes
  <2>4. controllers' \in [Numbers -> Numbers \cup {-1}]
    BY <1>1 DEF HostSends, LightInv, LightTypes, Messages, Numbers
  <2> QED
    BY <1>1, <1>3, <2>2, <2>3, <2>4 DEF LightTypes
<1>5. ASSUME NEW b \in Buttons, b[1] = "MATRIX" \/ LitByHID(b)
      PROVE  mapper'.led[b] \in LightOf(b)'
  <2> DEFINE n == Note(b)
             c == BrightnessController(b)
  <2>1. mapper.led[b] \in LightOf(b) /\ n \in Numbers /\ c \in Numbers
    BY <1>5, NumbersOfButtons DEF LightInv, LightsFollowTheirMode
  <2>2. CASE b \in MidiNoteMode
    <3>1. b[1] = "MATRIX" /\ b \notin MidiCCMode
      BY <1>5, <2>2, ModesAreDisjoint DEF LitByHID
    <3>2. CASE Addresses(e, b)
      <4>1. e.type \in {"NOTE_ON", "NOTE_OFF"} /\ e.data1 = n /\ e.channel = InChannel
        BY <3>1, <3>2 DEF Addresses, IsItsNote, IsItsController
      <4>2. notes'[n] = e.type
        BY <2>1, <4>1 DEF HostSends, LightInv, LightTypes
      <4>3. mapper'.led[b] = Brightness(b, e.type = "NOTE_ON")
        BY <1>3, <3>2, <4>1 DEF MidiBrightness
      <4> QED
        BY <2>2, <3>1, <4>1, <4>2, <4>3, LightInNoteMode
    <3>3. CASE ~Addresses(e, b)
      <4>1. notes'[n] = notes[n]
        BY <2>1, <2>2, <3>1, <3>3
           DEF Addresses, IsItsNote, HostSends, LightInv, LightTypes
      <4>2. mapper'.led[b] = mapper.led[b]
        BY <1>3, <3>3
      <4> QED
        BY <2>1, <2>2, <3>1, <4>1, <4>2, LightInNoteMode
    <3> QED
      BY <3>2, <3>3
  <2>3. CASE b \in MidiCCMode
    <3>1. b[1] = "MATRIX" /\ b \notin MidiNoteMode
      BY <1>5, <2>3, ModesAreDisjoint DEF LitByHID
    <3>2. CASE Addresses(e, b)
      <4>1. e.type = "CONTROL_CHANGE" /\ e.data1 = c /\ e.channel = InChannel
        BY <3>1, <3>2 DEF Addresses, IsItsNote, IsItsController
      <4>2. controllers'[c] = e.data2 /\ e.data2 # -1
        <5>1. e.data2 \in 0 .. 127
          BY <1>1 DEF Messages
        <5>2. controllers' = [controllers EXCEPT ![c] = e.data2]
          BY <4>1 DEF HostSends
        <5>3. controllers \in [Numbers -> Numbers \cup {-1}]
          BY DEF LightInv, LightTypes
        <5> QED
          BY <2>1, <5>1, <5>2, <5>3
      <4>3. mapper'.led[b] \in {e.data2, e.data2 - 1}
        BY <1>3, <3>2, <4>1 DEF MidiBrightness
      <4> QED
        BY <2>3, <3>1, <4>2, <4>3, LightInCCMode
    <3>3. CASE ~Addresses(e, b)
      <4>1. controllers'[c] = controllers[c]
        BY <2>1, <2>3, <3>1, <3>3
           DEF Addresses, IsItsController, HostSends, LightInv, LightTypes
      <4>2. mapper'.led[b] = mapper.led[b]
        BY <1>3, <3>3
      <4> QED
        BY <2>1, <2>3, <3>1, <4>1, <4>2, LightInCCMode
    <3> QED
      BY <3>2, <3>3
  <2>4. CASE b \notin MidiNoteMode \cup MidiCCMode
    <3>1. ~Addresses(e, b)
      BY <2>4 DEF Addresses, IsItsNote, IsItsController
    <3> QED
      BY <1>3, <2>1, <2>4, <3>1 DEF LightOf
  <2> QED
    BY <2>2, <2>3, <2>4
<1> QED
  BY <1>4, <1>5 DEF LightInv, LightsFollowTheirMode

(* Whatever the user presses and the host sends, in whatever order, each   *)
(* light follows the source that its brightness mode names: what           *)
(* process_HID_input() and process_MIDI_event() write to output_state is   *)
(* disjoint, and each writes what its own source said last.                *)
THEOREM LightsAreTheirs == LightsSpec => []LightsFollowTheirMode
<1>1. LightsInit => LightInv
  BY LightsStart
<1>2. LightInv /\ [LightsNext]_lightVars => LightInv'
  <2> SUFFICES ASSUME LightInv, [LightsNext]_lightVars PROVE LightInv'
    OBVIOUS
  <2>1. ASSUME NEW b \in Pressed, PressOrRelease(b) PROVE LightInv'
    BY <2>1, PressesKeepLights
  <2>2. ASSUME NEW e \in HostEvents, HostSends(e) PROVE LightInv'
    BY <2>2, MessagesKeepLights
  <2>3. CASE UNCHANGED lightVars
    BY <2>3 DEF lightVars, LightInv, LightTypes, LightsFollowTheirMode, LightOf
  <2> QED
    BY <2>1, <2>2, <2>3 DEF LightsNext
<1>3. LightInv => LightsFollowTheirMode
  BY DEF LightInv
<1> QED
  BY <1>1, <1>2, <1>3, PTL DEF LightsSpec

-----------------------------------------------------------------------------
USE LedsAssumption, LevelAssumption, BatchAssumption

(* Where a thread can be, and the types of all variables.                  *)
Pc == {"read", "handle", "batch", "sleep", "load", "store", "send"}
Place == [pc : Pc, k : 1 .. Len(Leds), byte : Level]

Typed == /\ led \in [LedSet -> Level]
         /\ out_report \in [LedSet -> Level]
         /\ device \in [LedSet -> Level]
         /\ thread \in [Threads -> Place]
         /\ write_hid \in BOOLEAN
         /\ handled \in 0 .. BATCH_SIZE
         /\ alone \in [Threads -> BOOLEAN]

(* What thread t has copied so far is what output_state holds.             *)
Copied(t) ==
  /\ \A j \in 1 .. Len(Leds) :
       (thread[t].pc = "send" \/ (thread[t].pc \in {"load", "store"} /\ j < thread[t].k))
          => out_report[Leds[j]] = led[Leds[j]]
  /\ thread[t].pc = "store" => thread[t].byte = led[Leds[thread[t].k]]

(* It stays so as long as the other thread keeps out.                      *)
IInv == Typed /\ \A t \in Threads : alone[t] => Copied(t)

(* The LEDs in their order are all the LEDs, and there is a first one.     *)
LEMMA LedsInOrder ==
  /\ Len(Leds) \in Nat \ {0}
  /\ \A j \in 1 .. Len(Leds) : Leds[j] \in LedSet
  /\ \A l \in LedSet : \E j \in 1 .. Len(Leds) : Leds[j] = l
  BY DEF LedSet

(* There are two threads, and one is the other's other.                    *)
LEMMA TwoThreads ==
  /\ Threads = {"input", "main"}
  /\ \A t \in Threads : Other(t) \in Threads /\ Other(t) # t
  /\ \A t, u \in Threads : u = t \/ u = Other(t)
  BY DEF Threads, Other

(* A batch starts at nothing, and one more event stays within its size.    *)
LEMMA Batches ==
  /\ 0 \in 0 .. BATCH_SIZE
  /\ \A n \in 0 .. BATCH_SIZE : n < BATCH_SIZE => n + 1 \in 0 .. BATCH_SIZE
  BY BatchAssumption

(* Storing the byte of one LED completes the copies up to that LED.        *)
LEMMA StoreCopies ==
  ASSUME out_report \in [LedSet -> Level], led' = led, NEW k \in 1 .. Len(Leds),
         out_report' = [out_report EXCEPT ![Leds[k]] = led[Leds[k]]],
         \A j \in 1 .. Len(Leds) : j < k => out_report[Leds[j]] = led[Leds[j]]
  PROVE  \A j \in 1 .. Len(Leds) : j <= k => out_report'[Leds[j]] = led'[Leds[j]]
<1>1. SUFFICES ASSUME NEW j \in 1 .. Len(Leds), j <= k
      PROVE  out_report'[Leds[j]] = led[Leds[j]]
  OBVIOUS
<1>2. Leds[j] \in LedSet /\ Leds[k] \in LedSet
  BY LedsInOrder
<1>3. CASE Leds[j] = Leds[k]
  BY <1>2, <1>3
<1>4. CASE Leds[j] # Leds[k]
  <2>1. j < k
    BY <1>1, <1>4, LedsInOrder
  <2>2. out_report'[Leds[j]] = out_report[Leds[j]]
    BY <1>2, <1>4
  <2> QED
    BY <2>1, <2>2
<1> QED
  BY <1>3, <1>4

(* Going somewhere keeps the threads at places.                            *)
LEMMA GotoPlace ==
  ASSUME thread \in [Threads -> Place], NEW t \in Threads, NEW pc \in Pc, Goto(t, pc)
  PROVE  thread' \in [Threads -> Place]
<1>1. [pc |-> pc, k |-> 1, byte |-> Dark] \in Place
  BY LedsInOrder DEF Place
<1> QED
  BY <1>1 DEF Goto

(* The program starts with these types ...                                 *)
LEMMA InitTyped == Init => Typed
<1> SUFFICES ASSUME Init PROVE Typed
  OBVIOUS
<1>1. AllDark \in [LedSet -> Level]
  BY DEF AllDark
<1>2. \A pc \in Pc : [pc |-> pc, k |-> 1, byte |-> Dark] \in Place
  BY LedsInOrder DEF Place
<1>3. thread \in [Threads -> Place]
  BY <1>2 DEF Init, Threads, Pc
<1> QED
  BY <1>1, <1>3, Batches DEF Init, Typed

(* ... and no step leaves them.                                            *)
LEMMA StepTyped == Typed /\ [Next]_vars => Typed'
<1> SUFFICES ASSUME Typed, [Next]_vars PROVE Typed'
  OBVIOUS
<1> USE TwoThreads DEF Typed
<1>0. \A pc \in {"read", "handle", "batch", "sleep", "load", "store", "send"} : pc \in Pc
  BY DEF Pc
<1>1. CASE HandleInput
  <2>1. thread' \in [Threads -> Place]
    BY <1>0, <1>1, GotoPlace DEF HandleInput
  <2> QED
    BY <1>1, <2>1 DEF HandleInput, Disturb
<1>2. CASE HandleMidi
  BY <1>2 DEF HandleMidi, MoreEvents, SetWriteHid, Disturb
<1>3. CASE IgnoreMidi
  <2>1. handled' \in 0 .. BATCH_SIZE
    BY <1>3, Batches DEF IgnoreMidi, MoreEvents
  <2> QED
    BY <1>3, <2>1 DEF IgnoreMidi, SetWriteHid
<1>4. CASE EndBatch
  <2>1. thread' \in [Threads -> Place]
    BY <1>0, <1>4, GotoPlace DEF EndBatch
  <2> QED
    BY <1>4, <2>1 DEF EndBatch
<1>5. CASE Wake
  <2>1. thread' \in [Threads -> Place]
    BY <1>0, <1>5, GotoPlace DEF Wake
  <2> QED
    BY <1>5, <2>1, Batches DEF Wake
<1>6. ASSUME NEW t \in Threads, BeginWrite(t) PROVE Typed'
  <2>1. thread' \in [Threads -> Place]
    BY <1>0, <1>6, GotoPlace DEF BeginWrite
  <2> QED
    BY <1>6, <2>1 DEF BeginWrite
<1>7. ASSUME NEW t \in Threads, Load(t) PROVE Typed'
  <2>1. led[Leds[thread[t].k]] \in Level
    BY LedsInOrder DEF Place
  <2>2. thread' \in [Threads -> Place]
    BY <1>0, <1>7, <2>1 DEF Load, Place
  <2> QED
    BY <1>7, <2>2 DEF Load
<1>8. ASSUME NEW t \in Threads, Store(t) PROVE Typed'
  <2>1. thread[t].byte \in Level /\ Leds[thread[t].k] \in LedSet
    BY LedsInOrder DEF Place
  <2>2. out_report' \in [LedSet -> Level]
    BY <1>8, <2>1 DEF Store
  <2>3. CASE IsLast(thread[t].k)
    <3>1. thread' \in [Threads -> Place]
      BY <1>0, <1>8, <2>3, GotoPlace DEF Store
    <3> QED
      BY <1>8, <2>2, <3>1 DEF Store, Disturb
  <2>4. CASE ~IsLast(thread[t].k)
    <3>0. thread[t].k \in 1 .. Len(Leds)
      BY DEF Place
    <3>1. thread[t].k + 1 \in 1 .. Len(Leds)
      BY <2>4, <3>0, LedsInOrder DEF IsLast
    <3>2. thread' \in [Threads -> Place]
      BY <1>0, <1>8, <2>4, <3>1 DEF Store, Place
    <3> QED
      BY <1>8, <2>2, <3>2 DEF Store, Disturb
  <2> QED
    BY <2>3, <2>4
<1>9. ASSUME NEW t \in Threads, Send(t) PROVE Typed'
  <2>1. thread' \in [Threads -> Place]
    BY <1>0, <1>9, GotoPlace DEF Send
  <2> QED
    <3>1. write_hid' \in BOOLEAN /\ handled' \in 0 .. BATCH_SIZE
      BY <1>9, Batches DEF Send
    <3> QED
      BY <1>9, <2>1, <3>1 DEF Send
<1>10. CASE UNCHANGED vars
  BY <1>10 DEF vars
<1> QED
  BY <1>1, <1>2, <1>3, <1>4, <1>5, <1>6, <1>7, <1>8, <1>9, <1>10 DEF Next

(* A step that leaves thread u alone leaves what it has copied exact.      *)
LEMMA StepCopied ==
  ASSUME IInv, [Next]_vars, NEW u \in Threads, alone'[u]
  PROVE  Copied(u)'
<1> USE TwoThreads DEF IInv, Typed, Place, Goto, Disturb, Copied
<1>1. CASE HandleInput
  BY <1>1 DEF HandleInput
<1>2. CASE HandleMidi
  BY <1>2 DEF HandleMidi, MoreEvents, SetWriteHid
<1>3. CASE IgnoreMidi \/ EndBatch \/ Wake
  BY <1>3 DEF IgnoreMidi, EndBatch, Wake, MoreEvents, SetWriteHid
<1>6. ASSUME NEW t \in Threads, BeginWrite(t) PROVE Copied(u)'
  BY <1>6 DEF BeginWrite
<1>7. ASSUME NEW t \in Threads, Load(t) PROVE Copied(u)'
  BY <1>7 DEF Load
<1>8. ASSUME NEW t \in Threads, Store(t) PROVE Copied(u)'
  <2>1. t = u
    BY <1>8 DEF Store
  <2>2. alone[u] /\ thread[t].k \in 1 .. Len(Leds) /\ Leds[thread[t].k] \in LedSet
    BY <1>8, <2>1, LedsInOrder DEF Store
  <2>3. thread[t].byte = led[Leds[thread[t].k]]
    BY <1>8, <2>1, <2>2 DEF Store
  <2>4. \A j \in 1 .. Len(Leds) : j <= thread[t].k => out_report'[Leds[j]] = led'[Leds[j]]
    <3>1. \A j \in 1 .. Len(Leds) : j < thread[t].k => out_report[Leds[j]] = led[Leds[j]]
      BY <1>8, <2>1, <2>2 DEF Store
    <3>2. out_report' = [out_report EXCEPT ![Leds[thread[t].k]] = led[Leds[thread[t].k]]]
      BY <1>8, <2>3 DEF Store
    <3>3. led' = led
      BY <1>8 DEF Store
    <3> QED
      BY <2>2, <3>1, <3>2, <3>3, StoreCopies
  <2>5. CASE IsLast(thread[t].k)
    BY <1>8, <2>1, <2>4, <2>5 DEF Store, IsLast
  <2>6. CASE ~IsLast(thread[t].k)
    BY <1>8, <2>1, <2>2, <2>4, <2>6 DEF Store, IsLast
  <2> QED
    BY <2>5, <2>6
<1>9. ASSUME NEW t \in Threads, Send(t) PROVE Copied(u)'
  BY <1>9 DEF Send
<1>10. CASE UNCHANGED vars
  BY <1>10 DEF vars
<1> QED
  BY <1>1, <1>2, <1>3, <1>6, <1>7, <1>8, <1>9, <1>10 DEF Next

(* In every reachable state: the types, and the copies of undisturbed      *)
(* calls of write().                                                       *)
THEOREM Invariance == Spec => []IInv
<1>1. Init => IInv
  BY InitTyped, TwoThreads DEF Init, IInv, Copied
<1>2. IInv /\ [Next]_vars => IInv'
  BY StepTyped, StepCopied DEF IInv
<1> QED
  BY <1>1, <1>2, PTL DEF Spec

(* Types, and the length of a batch.                                       *)
THEOREM TypeCorrect == Spec => []TypeOK
<1>1. IInv => TypeOK
  BY DEF IInv, Typed, Place, Pc, TypeOK
<1> QED
  BY Invariance, <1>1, PTL

(* A write() nobody overlaps, from its first load to its send, shows on    *)
(* the device what output_state holds.                                     *)
THEOREM QuietWrites == Spec => QuietWriteIsExact
<1>1. IInv => [\A t \in Threads : Send(t) /\ alone[t] => device' = led]_vars
  <2> SUFFICES ASSUME IInv, NEW t \in Threads, Send(t), alone[t] PROVE device' = led
    OBVIOUS
  <2>1. \A j \in 1 .. Len(Leds) : out_report[Leds[j]] = led[Leds[j]]
    BY DEF IInv, Copied, Send
  <2>2. \A l \in LedSet : out_report[l] = led[l]
    BY <2>1, LedsInOrder
  <2>3. out_report = led
    BY <2>2 DEF IInv, Typed
  <2> QED
    BY <2>3 DEF Send
<1> QED
  BY Invariance, <1>1, PTL DEF QuietWriteIsExact
=============================================================================
