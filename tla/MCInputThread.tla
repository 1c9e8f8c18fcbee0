--------------------------- MODULE MCInputThread ---------------------------
(* Small sets of positions for InputThread.  The decoder and the mapper    *)
(* run at their real size; what is small is the set of controls that move. *)
EXTENDS InputThread

At(held, wheel, fader, knob) ==
  [held |-> held, wheel |-> wheel,
   knobs |-> [i \in Knobs |-> IF i = 3 THEN knob ELSE 0],
   faders |-> [i \in Faders |-> IF i = 0 THEN fader ELSE 0]]

Holding(wheel, fader) ==
  [wheel |-> wheel, knobs |-> [i \in Knobs |-> 0],
   faders |-> [i \in Faders |-> IF i = 0 THEN fader ELSE 0]]

(* All matrix buttons toggle, as main() configures them.                   *)
MatrixToggles == {"MATRIX"} \X Matrix

(* A toggle button, and a stop and a special button, which share a byte.   *)
ButtonPositions ==
  {At(h, 0, 0, 0) : h \in {{}, {<<"MATRIX", 0>>, <<"STOP", 0>>}, {<<"STOP", 0>>, <<"SPECIAL", 6>>}}}

(* A fader around the rounding of its value to seven bits, a knob, and the *)
(* wheel on both sides of its wrap.                                        *)
EncoderPositions ==
  {At({}, 255, 0, 0), At({}, 0, 17, 0), At({}, 0, 4095, 2048)}
AllPositions == ButtonPositions \cup EncoderPositions

(* Memory that holds the wheel's position, or half a turn from it, and the *)
(* position of a fader.                                                    *)
SomeMemory == {Holding(0, 0), Holding(128, 17)}
=============================================================================
