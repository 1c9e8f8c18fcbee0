------------------------------ MODULE F1HidDev ------------------------------
(***************************************************************************)
(* The F1 as driver-osc sees it: decoding (F1HidDev.cpp), the difference   *)
(* of two inputs (F1InputState.cpp), the MIDI events of a difference       *)
(* (JackClient.cpp), and the output report.  Pure operators.  A group of   *)
(* indexes is a sequence, as the vectors of F1InputChange are.             *)
(***************************************************************************)
EXTENDS F1Device

(* input_state and last are value-initialised.                             *)
InitialInput == InitialInputState([wheel |-> 0, knobs |-> [i \in Knobs |-> 0],
                                   faders |-> [i \in Faders |-> 0]])

(* read(): whatever the report's id.                                       *)
ReadInput(raw) ==
  [matrix |-> [i \in Matrix |-> Bit(raw[1 + i \div 8], 7 - (i % 8))],
   special |-> [i \in Special |-> Bit(raw[IF i < 6 THEN 3 ELSE 4], IF i < 6 THEN i + 2 ELSE i - 5)],
   stop |-> [i \in Stop |-> Bit(raw[4], 4 + (3 - i))],
   wheel |-> raw[5],
   knobs |-> [i \in Knobs |-> Word(raw, 6 + 2 * i)],
   faders |-> [i \in Faders |-> Word(raw, 14 + 2 * i)]]

(* The buttons of a group that went down (TRUE) or up.                     *)
Turned(old, new, value) ==
  InOrder({i \in DOMAIN new : new[i] # old[i] /\ new[i] = value})

(* A variant that reports where a knob was.                                *)
MovedStale(old, new) ==
  LET c == Changed(old, new) IN [k \in 1 .. Len(c) |-> <<c[k], old[c[k]]>>]

(* The knobs or faders that moved, and where to.                           *)
Moved(old, new) ==
  LET c == Changed(old, new) IN [k \in 1 .. Len(c) |-> <<c[k], new[c[k]]>>]

(* operator-: which buttons went down and up, and the new values of the    *)
(* knobs and faders that moved.                                            *)
InputDiff(new, old) ==
  LET Groups(value) == [matrix |-> Turned(old.matrix, new.matrix, value),
                        stop |-> Turned(old.stop, new.stop, value),
                        special |-> Turned(old.special, new.special, value)]
  IN  [pressed |-> Groups(TRUE), released |-> Groups(FALSE),
       knobs |-> Moved(old.knobs, new.knobs), faders |-> Moved(old.faders, new.faders)]

Listed(i, indexes) == \E k \in DOMAIN indexes : indexes[k] = i

(* The main loop flips a latch for each stop button that went down, and    *)
(* tells the rest of the program about the latch, never about the button.  *)
Flip(latch, diff) ==
  [i \in Stop |-> IF Listed(i, diff.pressed.stop) THEN ~latch[i] ELSE latch[i]]

(* A variant that keeps the stop buttons that went up.                     *)
LatchStopsTwice(latch, diff) ==
  LET new == Flip(latch, diff)
  IN  [diff EXCEPT !.pressed.stop = InOrder({i \in Stop : Listed(i, @) /\ new[i]}),
                   !.released.stop =
                      InOrder({i \in Stop : Listed(i, diff.pressed.stop \o @) /\ ~new[i]})]

LatchStops(latch, diff) ==
  LET new == Flip(latch, diff)
      Down(value) == InOrder({i \in Stop : Listed(i, diff.pressed.stop) /\ new[i] = value})
  IN  [diff EXCEPT !.pressed.stop = Down(TRUE), !.released.stop = Down(FALSE)]

(* push_event(): notes for the matrix, from C3 up, controllers for the     *)
(* others, as [number, on] with a type.                                    *)
MatrixNote(i) == [type |-> "NOTE", number |-> 48 + i]
StopController(i) == [type |-> "CC", number |-> 112 + i]       \* 0x70

(* A variant whose numbers run into those of the stop buttons.             *)
SpecialControllerShared(i) == [type |-> "CC", number |-> 106 + i]

SpecialController(i) == [type |-> "CC", number |-> 102 + i]    \* 0x66

MidiEvents(diff) ==
  LET Each(indexes, Key(_), on) ==
        [k \in 1 .. Len(indexes) |-> [key |-> Key(indexes[k]), on |-> on]]
  IN  Each(diff.pressed.matrix, MatrixNote, TRUE)
      \o Each(diff.released.matrix, MatrixNote, FALSE)
      \o Each(diff.pressed.stop, StopController, TRUE)
      \o Each(diff.released.stop, StopController, FALSE)
      \o Each(diff.pressed.special, SpecialController, TRUE)
      \o Each(diff.released.special, SpecialController, FALSE)

(* The lights of set_colors(): 0x7f and 0.2 of it.                         *)
On == 127
Off == 25
InitialLights == [matrix |-> [i \in Matrix |-> Off], stop |-> [i \in Stop |-> Off]]

(* A variant that leaves the lights of released matrix buttons on.         *)
SetLightsSticky(lights, diff) ==
  [lights EXCEPT !.matrix = [i \in Matrix |->
     IF Listed(i, diff.pressed.matrix) THEN On ELSE @[i]]]

SetLights(lights, diff) ==
  LET Set(group, on, off) ==
        [i \in DOMAIN group |-> IF Listed(i, off) THEN Off
                                ELSE IF Listed(i, on) THEN On ELSE group[i]]
  IN  [matrix |-> Set(lights.matrix, diff.pressed.matrix, diff.released.matrix),
       stop |-> Set(lights.stop, diff.pressed.stop, diff.released.stop)]

(* write(): the matrix from 0x19, three bytes a button, the stop buttons   *)
(* from the right, two bytes each from 0x49, and nothing else.             *)
OutputReport(lights) ==
  [k \in 0 .. 80 |-> IF k = 0 THEN 128
                     ELSE IF k >= 73 THEN lights.stop[3 - (k - 73) \div 2]
                     ELSE IF k \in 25 .. 72 THEN lights.matrix[(k - 25) \div 3]
                     ELSE 0]
=============================================================================
