------------------------------ MODULE OscInput ------------------------------
(***************************************************************************)
(* From a control of the F1 to JACK, to the peers of the session and to    *)
(* the lights: the main loop of driver-osc/src/exe/osc_driver.cpp with the *)
(* queue and the callback of module JackClient.                            *)
(*                                                                         *)
(* The loop reads a report, latches the stop buttons, pushes the MIDI      *)
(* events (to its JackClient, or through broadcast_input_event(), which    *)
(* also tells the peers), and sets the lights.  The user's hands, and what *)
(* the host and a peer make of what they receive, are outside the program, *)
(* and so is when the peer says hello and gets into the map of peers.      *)
(***************************************************************************)
EXTENDS F1HidDev, F1Reports, JackClient, FiniteSetsExt

CONSTANT Positions   \* where the controls can be when a report is sent

VARIABLES
  position,       \* the controls, as the last report showed them
  flips,          \* the stop buttons pressed an odd number of times
  input,          \* last
  stop_buttons,   \* the latches
  input_diff,     \* the difference being handled
  output,         \* the lights of set_colors()
  pc,             \* where the main loop is
  host,           \* which notes and controllers are on
  joined,         \* whether the peer is in the map of peers
  peer,           \* what it has for each signal of the session
  device          \* the report the lights of the device follow

hands == <<position, flips>>
loop == <<input, stop_buttons, input_diff, output>>
session == <<joined, peer>>
vars == <<hands, loop, pc, host, session, device, clientVars>>

-----------------------------------------------------------------------------
Key(b) == IF b[1] = "MATRIX" THEN MatrixNote(b[2])
          ELSE IF b[1] = "STOP" THEN StopController(b[2])
          ELSE SpecialController(b[2])

Keys == {Key(b) : b \in Buttons}
MidiEvent == [key : Keys, on : BOOLEAN]

ASSUME EventAssumption == Event = MidiEvent
ASSUME PositionsAssumption == Positions \subseteq Position

Receive(h, e) == [h EXCEPT ![e.key] = e.on]

(* What a peer has for a signal: the value it was told last, or nothing,   *)
(* as it has been told none since it joined, when the value was v.         *)
Told(v) == [told |-> TRUE, value |-> v]
Untold(v) == [told |-> FALSE, value |-> v]

(* broadcast_input_event(): the bundle sets the signals of the buttons to  *)
(* 1 or 0, those of knobs and faders to their value (of 4095).  Nothing is *)
(* sent for the wheel, nor for a control that has not changed.             *)
HearBundle(p, diff) ==
  LET In(b, d) == Listed(b[2], IF b[1] = "MATRIX" THEN d.matrix
                               ELSE IF b[1] = "STOP" THEN d.stop ELSE d.special)
      Value(moved, i, old) ==
        IF \E k \in DOMAIN moved : moved[k][1] = i
          THEN Told(moved[CHOOSE k \in DOMAIN moved : moved[k][1] = i][2])
          ELSE old
  IN  [on |-> [b \in Buttons |-> IF In(b, diff.released) THEN Told(FALSE)
                                 ELSE IF In(b, diff.pressed) THEN Told(TRUE) ELSE p.on[b]],
       knobs |-> [i \in Knobs |-> Value(diff.knobs, i, p.knobs[i])],
       faders |-> [i \in Faders |-> Value(diff.faders, i, p.faders[i])]]

(* A stop button is on after an odd number of presses, any other while it  *)
(* is held.                                                                *)
IsOn(b) == IF b[1] = "STOP" THEN b \in flips ELSE b \in position.held

(* A peer that joins now: it is told nothing.                              *)
Newcomer == [on |-> [b \in Buttons |-> Untold(IsOn(b))],
             knobs |-> [i \in Knobs |-> Untold(position.knobs[i])],
             faders |-> [i \in Faders |-> Untold(position.faders[i])]]

-----------------------------------------------------------------------------
NoChange == InputDiff(InitialInput, InitialInput)

(* At rest everything is off and at zero, which is what last{} says, and   *)
(* set_colors(dev) has made the lights dim.                                *)
Init == /\ ClientInit
        /\ position = [held |-> {}, wheel |-> 0, knobs |-> [i \in Knobs |-> 0],
                       faders |-> [i \in Faders |-> 0]]
        /\ flips = {}
        /\ input = InitialInput
        /\ stop_buttons = [i \in Stop |-> FALSE]
        /\ input_diff = NoChange
        /\ output = InitialLights
        /\ pc = "read"
        /\ host = [k \in Keys |-> FALSE]
        /\ joined = FALSE
        /\ peer = Newcomer
        /\ device = OutputReport(InitialLights)

(* A report: read(), operator-, and the latches.                           *)
Read == \E p \in Positions :
  /\ status # "aborted" /\ pc = "read"
  /\ position' = p
  /\ flips' = SymDiff(flips, {b \in p.held \ position.held : b[1] = "STOP"})
  /\ input' = ReadInput(Report(p))
  /\ LET diff == InputDiff(input', input)
     IN  /\ stop_buttons' = Flip(stop_buttons, diff)
         /\ input_diff' = LatchStops(stop_buttons, diff)
  /\ todo' = MidiEvents(input_diff')
  /\ pc' = "push"
  /\ UNCHANGED <<output, host, session, device, pending, input_buf, write_ptr, cycle, last, status>>

(* push_event().                                                           *)
Push == /\ Write \/ WriteRest
        /\ UNCHANGED <<hands, loop, pc, host, session, device>>

(* A peer says hello: from here on it is sent the bundles, and nothing of  *)
(* what was sent before.                                                   *)
Join == /\ status # "aborted" /\ ~joined
        /\ joined' = TRUE
        /\ peer' = Newcomer
        /\ UNCHANGED <<hands, loop, pc, host, device, clientVars>>

(* The rest of broadcast_input_event(), to the peers there are.            *)
Broadcast == /\ status # "aborted" /\ pc = "push"
             /\ todo = <<>> /\ pending = <<>>
             /\ peer' = IF joined THEN HearBundle(peer, input_diff) ELSE peer
             /\ pc' = "lights"
             /\ UNCHANGED <<hands, loop, joined, host, device, clientVars>>

(* set_colors(dev, input_diff), which writes to the device.                *)
SetColors == /\ status # "aborted" /\ pc = "lights"
             /\ output' = SetLights(output, input_diff)
             /\ device' = OutputReport(output')
             /\ input_diff' = NoChange     \* local to the loop
             /\ pc' = "read"
             /\ UNCHANGED <<hands, input, stop_buttons, host, session, clientVars>>

(* The process callback; JACK passes on what it has written.               *)
Sends == cycle.left > 0 /\ status' = "running"

Process == /\ Callback
           /\ host' = IF Sends THEN Receive(host, last') ELSE host
           /\ UNCHANGED <<hands, loop, pc, session, device>>

MainStep == Push \/ Broadcast \/ SetColors

Next == Read \/ MainStep \/ Process \/ Join

(* The main loop goes on when it has read a report, and JACK calls the     *)
(* callback; that a report or a peer comes is not assumed.                 *)
Spec == Init /\ [][Next]_vars /\ WF_vars(MainStep) /\ WF_vars(Process)

-----------------------------------------------------------------------------
(* Types; the lights are brightness values of seven bits.                  *)
TypeOK ==
  /\ ClientTypeOK
  /\ pc \in {"read", "push", "lights"}
  /\ stop_buttons \in [Stop -> BOOLEAN]
  /\ output \in [matrix : [Matrix -> 0 .. 127], stop : [Stop -> 0 .. 127]]
  /\ host \in [Keys -> BOOLEAN]
  /\ joined \in BOOLEAN

(* Whether the host will take key k to be on or off when it has received   *)
(* the events of a queue: the last one about it, or what it knows if there *)
(* is none.                                                                *)
WillHear(queue, k, on) ==
  LET about == {i \in 1 .. Len(queue) : queue[i].key = k}
  IN  /\ about = {} => host[k] = on
      /\ \A i \in about : (\A j \in about : j <= i) => queue[i].on = on

Waiting == pc = "read" /\ status # "aborted"

(* End to end, JACK: as long as the callback runs, what was sent and what  *)
(* is queued leaves exactly the notes and controllers on that the user     *)
(* turned on.                                                              *)
HostHears ==
  (Waiting /\ status = "running") =>
    LET queue == Queued IN \A b \in Buttons : WillHear(queue, Key(b), IsOn(b))

(* End to end, the session: a peer that joined at any time is never wrong  *)
(* about a button, nor about a knob or a fader, of whose 4096 positions it *)
(* has the last, whatever becomes of JACK; and a control of which it has   *)
(* been told nothing stands where it stood when the peer joined.  (It may  *)
(* stay there for ever: only differences are sent, so that a newcomer does *)
(* not learn what is already on.)                                          *)
Follows(has, value) == has = Told(value) \/ has = Untold(value)

PeersFollow ==
  (Waiting /\ joined) =>
     /\ \A b \in Buttons : Follows(peer.on[b], IsOn(b))
     /\ \A i \in Knobs : Follows(peer.knobs[i], position.knobs[i])
     /\ \A i \in Faders : Follows(peer.faders[i], position.faders[i])

(* The lights say what is told to the others: a matrix or stop button is   *)
(* bright exactly while it is on.                                          *)
LightsFollow ==
  Waiting => \A b \in Buttons : b[1] # "SPECIAL" => \A k \in LedBytes(b) :
    device[k] = IF IsOn(b) THEN On ELSE Off

(* "This method only pushes MIDI events for values that actually have      *)
(* changed": every event JACK passes on is news to the host.               *)
EveryEventIsNews ==
  [][Process /\ Sends => host' # host]_vars

(* A button that goes on is heard by the host, unless the callback or the  *)
(* process has ended, or it goes off first.                                *)
PressesReachHost ==
  \A b \in UNION {p.held : p \in Positions} :
    IsOn(b) ~> (host[Key(b)] \/ ~IsOn(b) \/ status # "running")
=============================================================================
