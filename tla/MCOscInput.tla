----------------------------- MODULE MCOscInput -----------------------------
(* Small sets of positions for OscInput.  The decoder runs at its real     *)
(* size, and the queue holds five events in sixteen bytes, so that a       *)
(* report fits, two do not, and an event wraps at each of its bytes.       *)
EXTENDS OscInput

At(held, fader, knob) ==
  [held |-> held, wheel |-> 0,
   knobs |-> [i \in Knobs |-> IF i = 3 THEN knob ELSE 0],
   faders |-> [i \in Faders |-> IF i = 0 THEN fader ELSE 0]]

(* The stop button and the special button share a byte of the report; the  *)
(* knob also moves while they are held.                                    *)
SomePositions ==
  {At({}, 0, 0),
   At({<<"MATRIX", 4>>, <<"STOP", 1>>, <<"SPECIAL", 7>>}, 17, 4095),
   At({<<"MATRIX", 4>>, <<"STOP", 1>>, <<"SPECIAL", 7>>}, 17, 0)}

Silence == [key |-> [type |-> "none", number |-> 0], on |-> FALSE]
=============================================================================
