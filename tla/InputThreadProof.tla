-------------------------- MODULE InputThreadProof --------------------------
(***************************************************************************)
(* From a control of the F1 to a MIDI message of the host, for any         *)
(* positions of the controls, any memory input_state was built in, any     *)
(* toggle buttons and any size of out_buf.                                 *)
(*                                                                         *)
(* The argument goes along the events and messages on their way.  A report *)
(* puts an event in input_events for each control that moved, and one only *)
(* (EventsList, ChangesFacts); until it is handled, its control is the one *)
(* thing the mapper may have wrong (InputInv).  Handling it emits just     *)
(* what a host needs that knew what the mapper had before (HandleInv), so  *)
(* that the host, taken through the messages of out_buf one by one, ends   *)
(* with what the mapper has and learns something at each (Informed).       *)
(* Between two reports no event is left, and the mapper has what the user  *)
(* did.                                                                    *)
(***************************************************************************)
EXTENDS InputThread, F1ReportsProof, WellFoundedInduction

(* The notes and controllers of the host, and what it can know.            *)
Notes == {Note(b) : b \in Buttons}
Controllers == {Controller(e) : e \in Encoders}
Hosts == [on : [Notes -> BOOLEAN], cc : [Controllers -> Levels], turned : 0 .. 255]

-----------------------------------------------------------------------------
(* A set of numbers that is not empty has a smallest one.                  *)
LEMMA SmallestOf ==
  ASSUME NEW S \in SUBSET Nat, S # {}
  PROVE  \E n \in S : \A m \in S : n <= m
<1> DEFINE R == OpToRel(<, Nat)
<1>1. IsWellFoundedOn(R, Nat)
  BY NatLessThanWellFounded
<1>2. \A m, n \in Nat : m < n => <<m, n>> \in R
  BY DEF OpToRel
<1> HIDE DEF R
<1>3. PICK n \in S : \A m \in S : ~ (<<m, n>> \in R)
  BY <1>1, WFMin
<1>4. \A m \in S : n <= m
  <2>1. ASSUME NEW m \in S PROVE n <= m
    <3>1. m \in Nat /\ n \in Nat
      OBVIOUS
    <3>2. ~ (m < n)
      BY <1>2, <1>3, <3>1
    <3> QED BY <3>1, <3>2
  <2> QED BY <2>1
<1> QED BY <1>4

(* The recursive function After, once some function satisfies its          *)
(* equation.                                                               *)
LEMMA AfterDef ==
  ASSUME NEW F, F = [i \in 0 .. Len(out_buf) |-> IF i = 0 THEN host ELSE Receive(F[i - 1], out_buf[i])]
  PROVE  After = [i \in 0 .. Len(out_buf) |-> IF i = 0 THEN host ELSE Receive(After[i - 1], out_buf[i])]
<1>1. \E G : G = [i \in 0 .. Len(out_buf) |-> IF i = 0 THEN host ELSE Receive(G[i - 1], out_buf[i])]
  OBVIOUS
<1> QED BY <1>1, Zenon DEF After

(* H goes through what the host will know after each element of out_buf,   *)
(* and each of them is news to it.                                         *)
Chain(H) ==
  /\ H \in Seq(Hosts)
  /\ Len(H) = Len(out_buf) + 1
  /\ H[1] = host
  /\ \A i \in 1 .. Len(out_buf) : H[i + 1] = Receive(H[i], out_buf[i]) /\ H[i + 1] # H[i]

(* Such a chain ends with what the host knows once out_buf is drained.     *)
LEMMA ChainEnd ==
  ASSUME NEW H, Chain(H), Len(out_buf) \in Nat
  PROVE  Drained = H[Len(H)]
<1> DEFINE n == Len(out_buf)
           F == [i \in 0 .. n |-> H[i + 1]]
           Wrong == {i \in 0 .. n : After[i] # F[i]}
<1>1. n \in Nat /\ Len(H) = n + 1 /\ H[1] = host
      /\ \A i \in 1 .. n : H[i + 1] = Receive(H[i], out_buf[i])
  BY DEF Chain
<1> HIDE DEF n
<1>2. \A i \in 0 .. n : F[i] = IF i = 0 THEN host ELSE Receive(F[i - 1], out_buf[i])
  <2>1. ASSUME NEW i \in 1 .. n PROVE F[i] = Receive(F[i - 1], out_buf[i])
    <3>1. i \in 0 .. n /\ i - 1 \in 0 .. n /\ i - 1 + 1 = i
      BY <1>1
    <3>2. F[i] = H[i + 1] /\ F[i - 1] = H[i]
      BY <3>1
    <3> QED BY <1>1, <3>2
  <2>2. F[0] = host
    BY <1>1
  <2>3. \A i \in 0 .. n : i # 0 => i \in 1 .. n
    BY <1>1
  <2> HIDE DEF F
  <2> QED BY <2>1, <2>2, <2>3
<1>3. F = [i \in 0 .. n |-> IF i = 0 THEN host ELSE Receive(F[i - 1], out_buf[i])]
  <2>1. F = [i \in 0 .. n |-> F[i]]
    OBVIOUS
  <2> HIDE DEF F
  <2> QED BY <1>2, <2>1, Zenon
<1>4. \A i \in 0 .. n : After[i] = IF i = 0 THEN host ELSE Receive(After[i - 1], out_buf[i])
  <2> HIDE DEF F
  <2>1. After = [i \in 0 .. n |-> IF i = 0 THEN host ELSE Receive(After[i - 1], out_buf[i])]
    BY <1>3, AfterDef DEF n
  <2> QED BY <2>1, Zenon
<1>5. Wrong = {}
  <2> HIDE DEF F
  <2> SUFFICES ASSUME Wrong # {} PROVE FALSE
    OBVIOUS
  <2>1. Wrong \in SUBSET Nat
    BY <1>1
  <2>2. PICK i \in Wrong : \A j \in Wrong : i <= j
    <3> HIDE DEF Wrong
    <3> QED BY <2>1, SmallestOf
  <2>3. i \in 0 .. n /\ After[i] # F[i]
    OBVIOUS
  <2>4. CASE i = 0
    BY <2>3, <2>4, <1>2, <1>4
  <2>5. CASE i # 0
    <3>1. i - 1 \in 0 .. n /\ ~ (i <= i - 1)
      BY <2>3, <2>5, <1>1
    <3>2. i - 1 \notin Wrong
      BY <2>2, <3>1
    <3>3. After[i - 1] = F[i - 1]
      BY <3>1, <3>2
    <3>4. After[i] = Receive(After[i - 1], out_buf[i]) /\ F[i] = Receive(F[i - 1], out_buf[i])
      BY <2>3, <2>5, <1>2, <1>4
    <3> QED BY <3>3, <3>4, <2>3
  <2> QED BY <2>4, <2>5
<1>6. After[n] = F[n]
  <2>1. n \in 0 .. n
    BY <1>1
  <2> HIDE DEF F
  <2> QED BY <1>5, <2>1
<1>7. F[n] = H[n + 1]
  BY <1>1
<1> QED BY <1>1, <1>6, <1>7 DEF Drained, n

-----------------------------------------------------------------------------
(* What generate_input_events() compares: the indexes that differ, and the *)
(* events of one group of controls.                                        *)
Differs(old, new) == {i \in DOMAIN new : new[i] # old[i]}
Presses(type, old, new) == {ButtonEvent(type, i, new[i]) : i \in Differs(old, new)}
Moves(type, old, new) == {EncoderEvent(type, i, new[i]) : i \in Differs(old, new)}
Turns(old, new) == IF new # old THEN {WheelEvent(WheelDirection(old, new))} ELSE {}

(* The loop over a group of buttons emits each of its events once.         *)
LEMMA PressesList ==
  ASSUME NEW type, NEW n \in Nat, NEW old, NEW new, DOMAIN new = 0 .. n,
         NEW c, c = Changed(old, new),
         NEW q, q = [k \in 1 .. Len(c) |-> ButtonEvent(type, c[k], new[c[k]])]
  PROVE  Lists(q, Presses(type, old, new))
<1> DEFINE X == Differs(old, new)
           f == [i \in X |-> ButtonEvent(type, i, new[i])]
<1>1. X \in SUBSET (0 .. n) /\ c = InOrder(X)
  BY DEF Differs, Changed
<1>2. Lists(c, X)
  <2> HIDE DEF X
  <2> QED BY <1>1, InOrderOf
<1>3. f \in [X -> Presses(type, old, new)]
  BY DEF Presses
<1>4. \A x \in X : f[x] = ButtonEvent(type, x, new[x])
  OBVIOUS
<1>5. \A y \in Presses(type, old, new) : \E x \in X : f[x] = y
  BY <1>4 DEF Presses
<1> HIDE DEF f, X
<1>6. \A x, y \in X : f[x] = f[y] => x = y
  <2>1. \A x, v : ButtonEvent(type, x, v).index = x
    BY DEF ButtonEvent
  <2>2. \A x \in X : f[x].index = x
    BY <1>4, <2>1
  <2> QED BY <2>2
<1>7. \A k \in 1 .. Len(c) : c[k] \in X
  BY <1>2, ElementOfSeq DEF Lists
<1>8. q = [k \in 1 .. Len(c) |-> f[c[k]]]
  BY <1>4, <1>7
<1> QED BY <1>2, <1>3, <1>5, <1>6, <1>8, ListsMap

(* The loop over a group of knobs or faders emits each of its events once. *)
LEMMA MovesList ==
  ASSUME NEW type, NEW n \in Nat, NEW old, NEW new, DOMAIN new = 0 .. n,
         NEW c, c = Changed(old, new),
         NEW q, q = [k \in 1 .. Len(c) |-> EncoderEvent(type, c[k], new[c[k]])]
  PROVE  Lists(q, Moves(type, old, new))
<1> DEFINE X == Differs(old, new)
           f == [i \in X |-> EncoderEvent(type, i, new[i])]
<1>1. X \in SUBSET (0 .. n) /\ c = InOrder(X)
  BY DEF Differs, Changed
<1>2. Lists(c, X)
  <2> HIDE DEF X
  <2> QED BY <1>1, InOrderOf
<1>3. f \in [X -> Moves(type, old, new)]
  BY DEF Moves
<1>4. \A x \in X : f[x] = EncoderEvent(type, x, new[x])
  OBVIOUS
<1>5. \A y \in Moves(type, old, new) : \E x \in X : f[x] = y
  BY <1>4 DEF Moves
<1> HIDE DEF f, X
<1>6. \A x, y \in X : f[x] = f[y] => x = y
  <2>1. \A x, v : EncoderEvent(type, x, v).index = x
    BY DEF EncoderEvent
  <2>2. \A x \in X : f[x].index = x
    BY <1>4, <2>1
  <2> QED BY <2>2
<1>7. \A k \in 1 .. Len(c) : c[k] \in X
  BY <1>2, ElementOfSeq DEF Lists
<1>8. q = [k \in 1 .. Len(c) |-> f[c[k]]]
  BY <1>4, <1>7
<1> QED BY <1>2, <1>3, <1>5, <1>6, <1>8, ListsMap

(* The events of the difference of two states, as a set.                   *)
ChangesBetween(old, new) ==
  ((((Presses("MATRIX", old.matrix, new.matrix)
      \cup Presses("SPECIAL", old.special, new.special))
     \cup Presses("STOP", old.stop, new.stop))
    \cup Moves("FADER", old.faders, new.faders))
   \cup Moves("KNOB", old.knobs, new.knobs))
  \cup Turns(old.wheel, new.wheel)

(* generate_input_events() returns each of them exactly once.              *)
LEMMA EventsList ==
  ASSUME NEW old \in InputStates, NEW new \in InputStates
  PROVE  Lists(GenerateInputEvents(old, new), ChangesBetween(old, new))
<1> DEFINE P(type, o, n) == LET c == Changed(o, n)
                            IN  [k \in 1 .. Len(c) |-> ButtonEvent(type, c[k], n[c[k]])]
           E(type, o, n) == LET c == Changed(o, n)
                            IN  [k \in 1 .. Len(c) |-> EncoderEvent(type, c[k], n[c[k]])]
           q1 == P("MATRIX", old.matrix, new.matrix)
           q2 == P("SPECIAL", old.special, new.special)
           q3 == P("STOP", old.stop, new.stop)
           q4 == E("FADER", old.faders, new.faders)
           q5 == E("KNOB", old.knobs, new.knobs)
           q6 == IF new.wheel # old.wheel
                   THEN <<WheelEvent(WheelDirection(old.wheel, new.wheel))>> ELSE <<>>
           X1 == Presses("MATRIX", old.matrix, new.matrix)
           X2 == Presses("SPECIAL", old.special, new.special)
           X3 == Presses("STOP", old.stop, new.stop)
           X4 == Moves("FADER", old.faders, new.faders)
           X5 == Moves("KNOB", old.knobs, new.knobs)
           X6 == Turns(old.wheel, new.wheel)
<1>1. /\ DOMAIN new.matrix = 0 .. 15 /\ DOMAIN new.special = 0 .. 8 /\ DOMAIN new.stop = 0 .. 3
      /\ DOMAIN new.faders = 0 .. 3 /\ DOMAIN new.knobs = 0 .. 3
  BY DEF InputStates, Bits, Matrix, Special, Stop, Faders, Knobs
<1>2. Lists(q1, X1) /\ Lists(q2, X2) /\ Lists(q3, X3)
  BY <1>1, PressesList
<1>3. Lists(q4, X4) /\ Lists(q5, X5)
  BY <1>1, MovesList
<1>4. Lists(q6, X6)
  <2>1. CASE new.wheel # old.wheel
    <3> DEFINE w == WheelEvent(WheelDirection(old.wheel, new.wheel))
    <3>1. q6 = <<w>> /\ X6 = {w}
      BY <2>1 DEF Turns
    <3> HIDE DEF w, q6, X6
    <3>2. <<w>> \in Seq({w}) /\ Len(<<w>>) = 1 /\ <<w>>[1] = w
      OBVIOUS
    <3> QED BY <3>1, <3>2 DEF Lists
  <2>2. CASE new.wheel = old.wheel
    <3>1. q6 = <<>> /\ X6 = {}
      BY <2>2 DEF Turns
    <3> HIDE DEF q6, X6
    <3>2. <<>> \in Seq({}) /\ Len(<<>>) = 0
      OBVIOUS
    <3> QED BY <3>1, <3>2 DEF Lists
  <2> QED BY <2>1, <2>2
<1>5. /\ \A x \in X1 : x.type = "MATRIX"
      /\ \A x \in X2 : x.type = "SPECIAL"
      /\ \A x \in X3 : x.type = "STOP"
      /\ \A x \in X4 : x.type = "FADER"
      /\ \A x \in X5 : x.type = "KNOB"
      /\ \A x \in X6 : x.type = "WHEEL"
  BY DEF Presses, Moves, Turns, ButtonEvent, EncoderEvent, WheelEvent
<1>6. GenerateInputEvents(old, new) = q1 \o q2 \o q3 \o q4 \o q5 \o q6
  BY DEF GenerateInputEvents
<1>7. ChangesBetween(old, new) = (((((X1 \cup X2) \cup X3) \cup X4) \cup X5) \cup X6)
  BY DEF ChangesBetween
<1> HIDE DEF q1, q2, q3, q4, q5, q6, X1, X2, X3, X4, X5, X6
<1>8. /\ X1 \cap X2 = {}
      /\ (X1 \cup X2) \cap X3 = {}
      /\ ((X1 \cup X2) \cup X3) \cap X4 = {}
      /\ (((X1 \cup X2) \cup X3) \cup X4) \cap X5 = {}
      /\ ((((X1 \cup X2) \cup X3) \cup X4) \cup X5) \cap X6 = {}
  BY <1>5
<1>9. Lists(q1 \o q2, X1 \cup X2)
  BY <1>2, <1>8, ListsConcat
<1>10. Lists((q1 \o q2) \o q3, (X1 \cup X2) \cup X3)
  BY <1>2, <1>8, <1>9, ListsConcat
<1>11. Lists(((q1 \o q2) \o q3) \o q4, ((X1 \cup X2) \cup X3) \cup X4)
  BY <1>3, <1>8, <1>10, ListsConcat
<1>12. Lists((((q1 \o q2) \o q3) \o q4) \o q5, (((X1 \cup X2) \cup X3) \cup X4) \cup X5)
  BY <1>3, <1>8, <1>11, ListsConcat
<1>13. Lists(((((q1 \o q2) \o q3) \o q4) \o q5) \o q6, ((((X1 \cup X2) \cup X3) \cup X4) \cup X5) \cup X6)
  BY <1>4, <1>8, <1>12, ListsConcat
<1> QED BY <1>6, <1>7, <1>13

-----------------------------------------------------------------------------
(* The control an event is about, and where a state has its value.         *)
Control(event) == <<event.type, event.index>>
HeldIn(state, b) == IF b[1] = "MATRIX" THEN state.matrix[b[2]]
                    ELSE IF b[1] = "SPECIAL" THEN state.special[b[2]] ELSE state.stop[b[2]]
ValueIn(state, e) == IF e[1] = "FADER" THEN state.faders[e[2]] ELSE state.knobs[e[2]]

(* The events the mapper can be handed.                                    *)
ButtonEvents == {ButtonEvent(b[1], b[2], press) : b \in Buttons, press \in BOOLEAN}
EncoderEvents == {EncoderEvent(e[1], e[2], value) : e \in Encoders, value \in UInt16}
WheelEvents == {WheelEvent(direction) : direction \in Int}
InputEvent == ButtonEvents \cup EncoderEvents \cup WheelEvents

(* An event is about a button, an encoder or the wheel.                    *)
LEMMA ControlOf ==
  ASSUME NEW x \in InputEvent
  PROVE  \/ /\ Control(x) \in Buttons /\ x.press \in BOOLEAN
            /\ x.type \in {"MATRIX", "SPECIAL", "STOP"}
         \/ Control(x) \in Encoders /\ x.value \in UInt16 /\ x.type \in {"FADER", "KNOB"}
         \/ Control(x) = <<"WHEEL", 0>> /\ x.type = "WHEEL"
<1>1. CASE \E b \in Buttons : \E press \in BOOLEAN : x = ButtonEvent(b[1], b[2], press)
  BY <1>1 DEF ButtonEvent, Control, Buttons
<1>2. CASE \E e \in Encoders : \E value \in UInt16 : x = EncoderEvent(e[1], e[2], value)
  BY <1>2 DEF EncoderEvent, Control, Encoders
<1>3. CASE \E direction \in Int : x = WheelEvent(direction)
  BY <1>3 DEF WheelEvent, Control
<1>4. x \in ButtonEvents => \E b \in Buttons : \E press \in BOOLEAN : x = ButtonEvent(b[1], b[2], press)
  BY DEF ButtonEvents
<1>5. x \in EncoderEvents => \E e \in Encoders : \E value \in UInt16 : x = EncoderEvent(e[1], e[2], value)
  BY DEF EncoderEvents
<1>6. x \in WheelEvents => \E direction \in Int : x = WheelEvent(direction)
  BY DEF WheelEvents
<1> QED BY <1>1, <1>2, <1>3, <1>4, <1>5, <1>6 DEF InputEvent

(* No control is of two of these kinds.                                    *)
LEMMA Disjoint ==
  Buttons \cap Encoders = {} /\ <<"WHEEL", 0>> \notin Buttons /\ <<"WHEEL", 0>> \notin Encoders
BY DEF Buttons, Encoders

(* An event carries the new value of its control, there is one for a       *)
(* control exactly when its value changed, and never two.                  *)
LEMMA ChangesFacts ==
  ASSUME NEW old \in InputStates, NEW new \in InputStates
  PROVE  /\ ChangesBetween(old, new) \subseteq InputEvent
         /\ \A x \in ChangesBetween(old, new) :
              /\ Control(x) \in Buttons => x.press = HeldIn(new, Control(x))
              /\ Control(x) \in Encoders => x.value = ValueIn(new, Control(x))
         /\ \A x, y \in ChangesBetween(old, new) : Control(x) = Control(y) => x = y
         /\ \A b \in Buttons : (\E x \in ChangesBetween(old, new) : Control(x) = b)
                               <=> HeldIn(new, b) # HeldIn(old, b)
         /\ \A e \in Encoders : (\E x \in ChangesBetween(old, new) : Control(x) = e)
                                <=> ValueIn(new, e) # ValueIn(old, e)
<1> DEFINE X == ChangesBetween(old, new)
(* What an event of the difference is about.                               *)
<1>1. ASSUME NEW x \in X
      PROVE  \/ \E b \in Buttons : x = ButtonEvent(b[1], b[2], HeldIn(new, b)) /\ HeldIn(new, b) # HeldIn(old, b)
             \/ \E e \in Encoders : x = EncoderEvent(e[1], e[2], ValueIn(new, e)) /\ ValueIn(new, e) # ValueIn(old, e)
             \/ x = WheelEvent(WheelDirection(old.wheel, new.wheel))
  <2>1. CASE x \in Presses("MATRIX", old.matrix, new.matrix)
    <3>1. PICK i \in DOMAIN new.matrix : x = ButtonEvent("MATRIX", i, new.matrix[i]) /\ new.matrix[i] # old.matrix[i]
      BY <2>1 DEF Presses, Differs
    <3> DEFINE b == <<"MATRIX", i>>
    <3>2. b \in Buttons /\ HeldIn(new, b) = new.matrix[i] /\ HeldIn(old, b) = old.matrix[i]
      BY DEF Buttons, HeldIn, InputStates, Bits
    <3> QED BY <3>1, <3>2
  <2>2. CASE x \in Presses("SPECIAL", old.special, new.special)
    <3>1. PICK i \in DOMAIN new.special : x = ButtonEvent("SPECIAL", i, new.special[i]) /\ new.special[i] # old.special[i]
      BY <2>2 DEF Presses, Differs
    <3> DEFINE b == <<"SPECIAL", i>>
    <3>2. b \in Buttons /\ HeldIn(new, b) = new.special[i] /\ HeldIn(old, b) = old.special[i]
      BY DEF Buttons, HeldIn, InputStates, Bits
    <3> QED BY <3>1, <3>2
  <2>3. CASE x \in Presses("STOP", old.stop, new.stop)
    <3>1. PICK i \in DOMAIN new.stop : x = ButtonEvent("STOP", i, new.stop[i]) /\ new.stop[i] # old.stop[i]
      BY <2>3 DEF Presses, Differs
    <3> DEFINE b == <<"STOP", i>>
    <3>2. b \in Buttons /\ HeldIn(new, b) = new.stop[i] /\ HeldIn(old, b) = old.stop[i]
      BY DEF Buttons, HeldIn, InputStates, Bits
    <3> QED BY <3>1, <3>2
  <2>4. CASE x \in Moves("FADER", old.faders, new.faders)
    <3>1. PICK i \in DOMAIN new.faders : x = EncoderEvent("FADER", i, new.faders[i]) /\ new.faders[i] # old.faders[i]
      BY <2>4 DEF Moves, Differs
    <3> DEFINE e == <<"FADER", i>>
    <3>2. e \in Encoders /\ ValueIn(new, e) = new.faders[i] /\ ValueIn(old, e) = old.faders[i]
      BY DEF Encoders, ValueIn, InputStates
    <3> QED BY <3>1, <3>2
  <2>5. CASE x \in Moves("KNOB", old.knobs, new.knobs)
    <3>1. PICK i \in DOMAIN new.knobs : x = EncoderEvent("KNOB", i, new.knobs[i]) /\ new.knobs[i] # old.knobs[i]
      BY <2>5 DEF Moves, Differs
    <3> DEFINE e == <<"KNOB", i>>
    <3>2. e \in Encoders /\ ValueIn(new, e) = new.knobs[i] /\ ValueIn(old, e) = old.knobs[i]
      BY DEF Encoders, ValueIn, InputStates
    <3> QED BY <3>1, <3>2
  <2>6. CASE x \in Turns(old.wheel, new.wheel)
    BY <2>6 DEF Turns
  <2> QED BY <2>1, <2>2, <2>3, <2>4, <2>5, <2>6 DEF ChangesBetween
<1>2. \A b \in Buttons : HeldIn(new, b) # HeldIn(old, b) => ButtonEvent(b[1], b[2], HeldIn(new, b)) \in X
  <2>1. ASSUME NEW i \in Matrix, HeldIn(new, <<"MATRIX", i>>) # HeldIn(old, <<"MATRIX", i>>)
        PROVE  ButtonEvent("MATRIX", i, HeldIn(new, <<"MATRIX", i>>)) \in X
    <3>1. i \in DOMAIN new.matrix /\ new.matrix[i] # old.matrix[i]
      BY <2>1 DEF HeldIn, InputStates, Bits
    <3>2. HeldIn(new, <<"MATRIX", i>>) = new.matrix[i]
      BY DEF HeldIn
    <3> QED BY <3>1, <3>2 DEF ChangesBetween, Presses, Differs
  <2>2. ASSUME NEW i \in Special, HeldIn(new, <<"SPECIAL", i>>) # HeldIn(old, <<"SPECIAL", i>>)
        PROVE  ButtonEvent("SPECIAL", i, HeldIn(new, <<"SPECIAL", i>>)) \in X
    <3>1. i \in DOMAIN new.special /\ new.special[i] # old.special[i]
      BY <2>2 DEF HeldIn, InputStates, Bits
    <3>2. HeldIn(new, <<"SPECIAL", i>>) = new.special[i]
      BY DEF HeldIn
    <3> QED BY <3>1, <3>2 DEF ChangesBetween, Presses, Differs
  <2>3. ASSUME NEW i \in Stop, HeldIn(new, <<"STOP", i>>) # HeldIn(old, <<"STOP", i>>)
        PROVE  ButtonEvent("STOP", i, HeldIn(new, <<"STOP", i>>)) \in X
    <3>1. i \in DOMAIN new.stop /\ new.stop[i] # old.stop[i]
      BY <2>3 DEF HeldIn, InputStates, Bits
    <3>2. HeldIn(new, <<"STOP", i>>) = new.stop[i]
      BY DEF HeldIn
    <3> QED BY <3>1, <3>2 DEF ChangesBetween, Presses, Differs
  <2> HIDE DEF X
  <2> QED BY <2>1, <2>2, <2>3 DEF Buttons
<1>3. \A e \in Encoders : ValueIn(new, e) # ValueIn(old, e) => EncoderEvent(e[1], e[2], ValueIn(new, e)) \in X
  <2>1. ASSUME NEW i \in Faders, ValueIn(new, <<"FADER", i>>) # ValueIn(old, <<"FADER", i>>)
        PROVE  EncoderEvent("FADER", i, ValueIn(new, <<"FADER", i>>)) \in X
    <3>1. i \in DOMAIN new.faders /\ new.faders[i] # old.faders[i]
      BY <2>1 DEF ValueIn, InputStates
    <3>2. ValueIn(new, <<"FADER", i>>) = new.faders[i]
      BY DEF ValueIn
    <3> QED BY <3>1, <3>2 DEF ChangesBetween, Moves, Differs
  <2>2. ASSUME NEW i \in Knobs, ValueIn(new, <<"KNOB", i>>) # ValueIn(old, <<"KNOB", i>>)
        PROVE  EncoderEvent("KNOB", i, ValueIn(new, <<"KNOB", i>>)) \in X
    <3>1. i \in DOMAIN new.knobs /\ new.knobs[i] # old.knobs[i]
      BY <2>2 DEF ValueIn, InputStates
    <3>2. ValueIn(new, <<"KNOB", i>>) = new.knobs[i]
      BY DEF ValueIn
    <3> QED BY <3>1, <3>2 DEF ChangesBetween, Moves, Differs
  <2> HIDE DEF X
  <2> QED BY <2>1, <2>2 DEF Encoders
<1>4. \A b \in Buttons : \A v : Control(ButtonEvent(b[1], b[2], v)) = b /\ ButtonEvent(b[1], b[2], v).press = v
  BY DEF Control, ButtonEvent, Buttons
<1>5. \A e \in Encoders : \A v : Control(EncoderEvent(e[1], e[2], v)) = e /\ EncoderEvent(e[1], e[2], v).value = v
  BY DEF Control, EncoderEvent, Encoders
<1>6. \A d : Control(WheelEvent(d)) = <<"WHEEL", 0>>
  BY DEF Control, WheelEvent
<1>7. \A b \in Buttons : HeldIn(new, b) \in BOOLEAN
  BY DEF Buttons, HeldIn, InputStates, Bits
<1>8. \A e \in Encoders : ValueIn(new, e) \in UInt16
  BY DEF Encoders, ValueIn, InputStates
<1>9. WheelDirection(old.wheel, new.wheel) \in Int
  <2> DEFINE v == old.wheel
             w == new.wheel
  <2>1. v \in Int /\ w \in Int
    <3>1. v \in Byte /\ w \in Byte
      BY DEF InputStates
    <3> HIDE DEF v, w
    <3> QED BY <3>1 DEF Byte
  <2> HIDE DEF v, w
  <2>2. WheelDirection(v, w) \in Int
    BY <2>1 DEF WheelDirection, WheelSteps
  <2> QED BY <2>2 DEF v, w
<1> HIDE DEF X
<1>10. X \subseteq InputEvent
  <2>1. \A b \in Buttons : \A v \in BOOLEAN : ButtonEvent(b[1], b[2], v) \in ButtonEvents
    BY DEF ButtonEvents
  <2>2. \A e \in Encoders : \A v \in UInt16 : EncoderEvent(e[1], e[2], v) \in EncoderEvents
    BY DEF EncoderEvents
  <2>3. \A d \in Int : WheelEvent(d) \in WheelEvents
    BY DEF WheelEvents
  <2> QED BY <2>1, <2>2, <2>3, <1>1, <1>7, <1>8, <1>9 DEF InputEvent
<1>11. \A x \in X : /\ Control(x) \in Buttons => x.press = HeldIn(new, Control(x))
                    /\ Control(x) \in Encoders => x.value = ValueIn(new, Control(x))
  BY <1>1, <1>4, <1>5, <1>6, Disjoint
<1>12. ASSUME NEW x \in X
       PROVE  \/ LET b == Control(x)
                 IN  b \in Buttons /\ x = ButtonEvent(b[1], b[2], HeldIn(new, b)) /\ HeldIn(new, b) # HeldIn(old, b)
              \/ LET e == Control(x)
                 IN  e \in Encoders /\ x = EncoderEvent(e[1], e[2], ValueIn(new, e)) /\ ValueIn(new, e) # ValueIn(old, e)
              \/ Control(x) = <<"WHEEL", 0>> /\ x = WheelEvent(WheelDirection(old.wheel, new.wheel))
  BY <1>1, <1>4, <1>5, <1>6
<1>13. \A x, y \in X : Control(x) = Control(y) => x = y
  BY <1>12, Disjoint
<1>14. \A b \in Buttons : (\E x \in X : Control(x) = b) <=> HeldIn(new, b) # HeldIn(old, b)
  <2>1. ASSUME NEW x \in X, Control(x) \in Buttons
        PROVE  HeldIn(new, Control(x)) # HeldIn(old, Control(x))
    BY <2>1, <1>12, Disjoint
  <2>2. ASSUME NEW b \in Buttons, HeldIn(new, b) # HeldIn(old, b) PROVE \E x \in X : Control(x) = b
    BY <2>2, <1>2, <1>4
  <2> QED BY <2>1, <2>2
<1>15. \A e \in Encoders : (\E x \in X : Control(x) = e) <=> ValueIn(new, e) # ValueIn(old, e)
  <2>1. ASSUME NEW x \in X, Control(x) \in Encoders
        PROVE  ValueIn(new, Control(x)) # ValueIn(old, Control(x))
    BY <2>1, <1>12, Disjoint
  <2>2. ASSUME NEW e \in Encoders, ValueIn(new, e) # ValueIn(old, e) PROVE \E x \in X : Control(x) = e
    BY <2>2, <1>3, <1>5
  <2> QED BY <2>1, <2>2
<1> QED BY <1>10, <1>11, <1>13, <1>14, <1>15 DEF X

-----------------------------------------------------------------------------
(* No two buttons share a note and no two encoders a controller.           *)
LEMMA NumbersFacts ==
  /\ \A b \in Buttons : Note(b) \in Notes /\ Note(b) \in 24 .. 52
  /\ \A b, c \in Buttons : Note(b) = Note(c) => b = c
  /\ \A e \in Encoders : Controller(e) \in Controllers /\ Controller(e) \in 33 .. 40
  /\ \A e, f \in Encoders : Controller(e) = Controller(f) => e = f
<1>1. ASSUME NEW b \in Buttons
      PROVE  \/ \E i \in 0 .. 15 : b = <<"MATRIX", i>> /\ Note(b) = 24 + i
             \/ \E i \in 0 .. 8 : b = <<"SPECIAL", i>> /\ Note(b) = 40 + i
             \/ \E i \in 0 .. 3 : b = <<"STOP", i>> /\ Note(b) = 49 + i
  BY DEF Buttons, Note, Matrix, Special, Stop
<1>2. ASSUME NEW e \in Encoders
      PROVE  \/ \E i \in 0 .. 3 : e = <<"KNOB", i>> /\ Controller(e) = 33 + i
             \/ \E i \in 0 .. 3 : e = <<"FADER", i>> /\ Controller(e) = 37 + i
  BY DEF Encoders, Controller, Knobs, Faders
<1>3. \A b \in Buttons : Note(b) \in 24 .. 52
  BY <1>1
<1>4. \A b, c \in Buttons : Note(b) = Note(c) => b = c
  BY <1>1
<1>5. \A e \in Encoders : Controller(e) \in 33 .. 40
  BY <1>2
<1>6. \A e, f \in Encoders : Controller(e) = Controller(f) => e = f
  BY <1>2
<1> QED BY <1>3, <1>4, <1>5, <1>6 DEF Notes, Controllers

(* A note changes what the host has of its own button, and nothing else.   *)
LEMMA ReceiveNote ==
  ASSUME NEW h \in Hosts, NEW b \in Buttons, NEW v \in BOOLEAN
  PROVE  LET g == Receive(h, NoteEvent(b, v))
         IN  /\ g \in Hosts
             /\ \A c \in Buttons : g.on[Note(c)] = IF c = b THEN v ELSE h.on[Note(c)]
             /\ g.cc = h.cc /\ g.turned = h.turned
<1> DEFINE x == NoteEvent(b, v)
           g == Receive(h, x)
<1>1. x.type # "CONTROL_CHANGE" /\ x.data1 = Note(b) /\ (x.type = "NOTE_ON") = v
  <2>1. CASE v = TRUE
    BY <2>1 DEF NoteEvent, MidiEvent
  <2>2. CASE v = FALSE
    BY <2>2 DEF NoteEvent, MidiEvent
  <2> QED BY <2>1, <2>2
<1> HIDE DEF x
<1>2. g = [h EXCEPT !.on[Note(b)] = v]
  BY <1>1 DEF Receive
<1>3. /\ h.on \in [Notes -> BOOLEAN] /\ h.cc \in [Controllers -> Levels] /\ h.turned \in 0 .. 255
      /\ h = [on |-> h.on, cc |-> h.cc, turned |-> h.turned]
  BY DEF Hosts
<1>4. g = [on |-> [h.on EXCEPT ![Note(b)] = v], cc |-> h.cc, turned |-> h.turned]
  BY <1>2, <1>3
<1>5. \A n \in Notes : g.on[n] = IF n = Note(b) THEN v ELSE h.on[n]
  <2>1. \A n \in Notes : [h.on EXCEPT ![Note(b)] = v][n] = IF n = Note(b) THEN v ELSE h.on[n]
    BY <1>3, Zenon
  <2> QED BY <1>4, <2>1
<1>6. g \in Hosts /\ g.cc = h.cc /\ g.turned = h.turned
  <2>1. [h.on EXCEPT ![Note(b)] = v] \in [Notes -> BOOLEAN]
    BY <1>3
  <2> QED BY <1>3, <1>4, <2>1 DEF Hosts
<1>7. \A c \in Buttons : g.on[Note(c)] = IF c = b THEN v ELSE h.on[Note(c)]
  BY <1>5, NumbersFacts
<1> QED BY <1>6, <1>7 DEF x

(* A control change changes what the host has of its own encoder, and      *)
(* nothing else.                                                           *)
LEMMA ReceiveValue ==
  ASSUME NEW h \in Hosts, NEW e \in Encoders, NEW v \in Levels
  PROVE  LET g == Receive(h, MidiEvent("CONTROL_CHANGE", OutChannel, Controller(e), v))
         IN  /\ g \in Hosts
             /\ \A f \in Encoders : g.cc[Controller(f)] = IF f = e THEN v ELSE h.cc[Controller(f)]
             /\ g.on = h.on /\ g.turned = h.turned
<1> DEFINE x == MidiEvent("CONTROL_CHANGE", OutChannel, Controller(e), v)
           g == Receive(h, x)
<1>1. x.type = "CONTROL_CHANGE" /\ x.data1 = Controller(e) /\ x.data2 = v /\ x.data1 # WheelController
  BY NumbersFacts DEF MidiEvent, WheelController
<1> HIDE DEF x
<1>2. g = [h EXCEPT !.cc[Controller(e)] = v]
  BY <1>1 DEF Receive
<1>3. /\ h.on \in [Notes -> BOOLEAN] /\ h.cc \in [Controllers -> Levels] /\ h.turned \in 0 .. 255
      /\ h = [on |-> h.on, cc |-> h.cc, turned |-> h.turned]
  BY DEF Hosts
<1>4. g = [on |-> h.on, cc |-> [h.cc EXCEPT ![Controller(e)] = v], turned |-> h.turned]
  BY <1>2, <1>3
<1>5. \A n \in Controllers : g.cc[n] = IF n = Controller(e) THEN v ELSE h.cc[n]
  BY <1>3, <1>4
<1>6. g \in Hosts /\ g.on = h.on /\ g.turned = h.turned
  <2>1. [h.cc EXCEPT ![Controller(e)] = v] \in [Controllers -> Levels]
    BY <1>3
  <2> QED BY <1>3, <1>4, <2>1 DEF Hosts
<1>7. \A f \in Encoders : g.cc[Controller(f)] = IF f = e THEN v ELSE h.cc[Controller(f)]
  BY <1>5, NumbersFacts
<1> QED BY <1>6, <1>7 DEF x

(* A message of the wheel moves what the host has by one step, always.     *)
LEMMA ReceiveTurn ==
  ASSUME NEW h \in Hosts, NEW v
  PROVE  LET g == Receive(h, MidiEvent("CONTROL_CHANGE", OutChannel, WheelController, v))
         IN  /\ g \in Hosts /\ g.on = h.on /\ g.cc = h.cc /\ g # h
             /\ g.turned = (IF v = wheel_inc_value THEN h.turned + 1 ELSE h.turned - 1) % WheelSteps
<1> DEFINE x == MidiEvent("CONTROL_CHANGE", OutChannel, WheelController, v)
           g == Receive(h, x)
           t == h.turned
           u == (IF v = wheel_inc_value THEN t + 1 ELSE t - 1) % WheelSteps
<1>1. x.type = "CONTROL_CHANGE" /\ x.data1 = WheelController /\ x.data2 = v
  BY DEF MidiEvent
<1> HIDE DEF x
<1>2. /\ h.on \in [Notes -> BOOLEAN] /\ h.cc \in [Controllers -> Levels] /\ t \in 0 .. 255
      /\ h = [on |-> h.on, cc |-> h.cc, turned |-> t]
  BY DEF Hosts
<1>3. g = [h EXCEPT !.turned = u]
  BY <1>1 DEF Receive
<1> HIDE DEF t
<1>4. u \in 0 .. 255 /\ u # t
  BY <1>2 DEF WheelSteps
<1> HIDE DEF u
<1>5. g = [on |-> h.on, cc |-> h.cc, turned |-> u]
  BY <1>2, <1>3
<1>6. g \in Hosts /\ g.on = h.on /\ g.cc = h.cc /\ g.turned = u
  BY <1>2, <1>4, <1>5 DEF Hosts
<1>7. g # h
  <2>1. g.turned = u /\ h.turned = t
    BY <1>5 DEF t
  <2> QED BY <2>1, <1>4
<1> QED BY <1>6, <1>7 DEF x, u, t

-----------------------------------------------------------------------------
(* The state of the mapper; its LEDs show its buttons; a host that knows   *)
(* what the mapper sent last.                                              *)
Mappers == [on : Bits(Buttons), value : [Encoders -> Levels], led : [Buttons -> Levels]]
LedsRight(m) == \A b \in Buttons : LitByHID(b) =>
                  IF m.on[b] THEN m.led[b] = High ELSE m.led[b] \in {DARK, Low(b)}
Knows(h, m) == /\ h \in Hosts
               /\ \A b \in Buttons : h.on[Note(b)] = m.on[b]
               /\ \A e \in Encoders : h.cc[Controller(e)] = m.value[e]

(* process_HID_input_button() for an event that emits: the LED follows the *)
(* button, and the message tells its new state.                            *)
LEMMA ProcessButton ==
  ASSUME NEW x \in InputEvent, NEW b \in Buttons, Control(x) = b,
         NEW m \in Mappers, LedsRight(m),
         NEW r, r = ProcessHIDInput(x, m),
         NEW n, n = [on |-> r.on, value |-> r.value, led |-> r.led],
         NEW v, v = ButtonOn(b, x.press, m.on[b]), ButtonEmits(b, x.press)
  PROVE  /\ n \in Mappers /\ LedsRight(n)
         /\ r.midi = <<NoteEvent(b, v)>> /\ v \in BOOLEAN
         /\ n.on = [m.on EXCEPT ![b] = v] /\ n.value = m.value
<1>1. x.press \in BOOLEAN
  BY ControlOf, Disjoint
<1>2. m.on \in [Buttons -> BOOLEAN] /\ m.value \in [Encoders -> Levels] /\ m.led \in [Buttons -> Levels]
  BY DEF Mappers, Bits
<1>3. v \in BOOLEAN
  <2>1. m.on[b] \in BOOLEAN
    BY <1>2
  <2> QED BY <2>1, <1>1 DEF ButtonOn
<1> DEFINE led == IF LitByHID(b) THEN [m.led EXCEPT ![b] = Brightness(b, v)] ELSE m.led
<1>4. r = [on |-> [m.on EXCEPT ![b] = v], value |-> m.value, led |-> led, midi |-> <<NoteEvent(b, v)>>]
  BY DEF ProcessHIDInput, Control
<1>5. led \in [Buttons -> Levels]
  <2>1. Brightness(b, v) \in Levels
    BY DEF Brightness, High, Low, Levels
  <2> HIDE DEF Levels
  <2> QED BY <1>2, <2>1
<1>6. \A c \in Buttons : led[c] = IF c = b /\ LitByHID(b) THEN Brightness(b, v) ELSE m.led[c]
  BY <1>2
<1> HIDE DEF led
<1>7. n = [on |-> [m.on EXCEPT ![b] = v], value |-> m.value, led |-> led]
  BY <1>4
<1>8. \A c \in Buttons : n.on[c] = IF c = b THEN v ELSE m.on[c]
  BY <1>2, <1>7
<1>9. n \in Mappers
  <2>1. [m.on EXCEPT ![b] = v] \in [Buttons -> BOOLEAN]
    BY <1>2, <1>3
  <2> QED BY <2>1, <1>2, <1>5, <1>7 DEF Mappers, Bits
<1>10. LedsRight(n)
  <2> SUFFICES ASSUME NEW c \in Buttons, LitByHID(c)
               PROVE  IF n.on[c] THEN n.led[c] = High ELSE n.led[c] \in {DARK, Low(c)}
    BY DEF LedsRight
  <2>1. n.led[c] = led[c]
    BY <1>7
  <2>2. CASE c # b
    BY <2>1, <2>2, <1>6, <1>8 DEF LedsRight
  <2>3. CASE c = b /\ v = TRUE
    BY <2>1, <2>3, <1>6, <1>8 DEF Brightness
  <2>4. CASE c = b /\ v = FALSE
    BY <2>1, <2>4, <1>6, <1>8 DEF Brightness
  <2> QED BY <2>2, <2>3, <2>4, <1>3
<1> QED BY <1>3, <1>4, <1>7, <1>9, <1>10

(* The release of a toggle button does nothing.                            *)
LEMMA ProcessRelease ==
  ASSUME NEW x, NEW b \in Buttons, Control(x) = b, NEW m, ~ButtonEmits(b, x.press),
         NEW r, r = ProcessHIDInput(x, m)
  PROVE  r.midi = <<>> /\ r.on = m.on /\ r.value = m.value /\ r.led = m.led
BY DEF ProcessHIDInput, Control

(* scale() to seven bits rounds to the nearest level.                      *)
LEMMA ScaleLevel ==
  ASSUME NEW p \in 0 .. FADERS_MAX, NEW v, v = Scale(p, FADERS_MAX, MIDI_MAX)
  PROVE  v \in 0 .. 127 /\ 2 * (v * 4095 - p * 127) <= 4095 /\ 2 * (p * 127 - v * 4095) <= 4095
BY DEF Scale, FADERS_MAX, MIDI_MAX

(* process_HID_input_encoder(): a message exactly when the scaled value    *)
(* changed.                                                                *)
LEMMA ProcessEncoder ==
  ASSUME NEW x, NEW e \in Encoders, Control(x) = e, x.value \in 0 .. FADERS_MAX,
         NEW m \in Mappers, LedsRight(m),
         NEW r, r = ProcessHIDInput(x, m),
         NEW n, n = [on |-> r.on, value |-> r.value, led |-> r.led],
         NEW v, v = Scale(x.value, FADERS_MAX, MIDI_MAX)
  PROVE  /\ n \in Mappers /\ LedsRight(n) /\ v \in Levels
         /\ r.midi = IF v # m.value[e]
                       THEN <<MidiEvent("CONTROL_CHANGE", OutChannel, Controller(e), v)>> ELSE <<>>
         /\ n.on = m.on /\ n.value = [m.value EXCEPT ![e] = v]
<1>1. e \notin Buttons
  BY Disjoint
<1>2. m.on \in [Buttons -> BOOLEAN] /\ m.value \in [Encoders -> Levels] /\ m.led \in [Buttons -> Levels]
  BY DEF Mappers, Bits
<1>3. v \in Levels
  BY ScaleLevel DEF Levels
<1>4. r = [on |-> m.on, value |-> [m.value EXCEPT ![e] = v], led |-> m.led,
           midi |-> IF v # m.value[e]
                      THEN <<MidiEvent("CONTROL_CHANGE", OutChannel, Controller(e), v)>> ELSE <<>>]
  BY <1>1 DEF ProcessHIDInput, Control, EncoderEmits
<1>5. n = [on |-> m.on, value |-> [m.value EXCEPT ![e] = v], led |-> m.led]
  BY <1>4
<1>6. n \in Mappers
  <2>1. [m.value EXCEPT ![e] = v] \in [Encoders -> Levels]
    BY <1>2, <1>3
  <2> QED BY <2>1, <1>2, <1>5 DEF Mappers, Bits
<1>7. LedsRight(n)
  BY <1>5 DEF LedsRight
<1> QED BY <1>3, <1>4, <1>5, <1>6, <1>7

(* process_HID_input_wheel(): one of two messages, and no state.           *)
LEMMA ProcessWheel ==
  ASSUME NEW x, Control(x) = <<"WHEEL", 0>>, NEW m, NEW r, r = ProcessHIDInput(x, m)
  PROVE  /\ r.on = m.on /\ r.value = m.value /\ r.led = m.led
         /\ \E v \in {wheel_inc_value, wheel_dec_value} :
              r.midi = <<MidiEvent("CONTROL_CHANGE", OutChannel, WheelController, v)>>
BY Disjoint DEF ProcessHIDInput, Control

-----------------------------------------------------------------------------
(* The loop over the events still has one of control c to handle, or one   *)
(* of a button that will change what the mapper has.                       *)
About(c) == \E i \in 1 .. Len(input_events) : Control(input_events[i]) = c
ToCome(b) == About(b) /\ ButtonEmits(b, b \in position.held)

(* The types the input thread keeps.                                       *)
Typed ==
  /\ position \in Position /\ flips \subseteq Buttons /\ turned \in 0 .. WheelSteps - 1
  /\ boot \in Memory
  /\ input_state \in InputStates /\ input_events \in Seq(InputEvent) /\ mapper \in Mappers
  /\ pc \in {"read", "handle", "aborted"}
  /\ pc = "read" => input_events = <<>>

(* The events still to handle: one for a control, with where the control   *)
(* is.                                                                     *)
EventsRight ==
  /\ \A i, j \in 1 .. Len(input_events) :
        Control(input_events[i]) = Control(input_events[j]) => i = j
  /\ \A i \in 1 .. Len(input_events) : LET c == Control(input_events[i]) IN
        /\ c \in Buttons => input_events[i].press = (c \in position.held)
        /\ c \in Encoders => input_events[i].value = ValueIn(position, c)

(* The mapper has each button as the user left it, or the event that will  *)
(* flip it is still to come.                                               *)
ButtonsRight == \A b \in Buttons :
  /\ HeldIn(input_state, b) = (b \in position.held)
  /\ ToCome(b) => mapper.on[b] # IsOn(b)
  /\ ~ToCome(b) => mapper.on[b] = IsOn(b)

(* The mapper has an encoder's level, or has never had a reason to set it: *)
(* the encoder stands where the memory said.                               *)
ValueRight(v, e) ==
  \/ v = Scale(ValueIn(position, e), FADERS_MAX, MIDI_MAX)
  \/ v = 0 /\ ValueIn(position, e) = ValueIn(boot, e)

(* No input report has been decoded yet.                                   *)
NothingMoved ==
  /\ input_state = InitialInputState(boot)
  /\ \A e \in Encoders : mapper.value[e] = 0 /\ ~About(e)

(* From the first report on, each encoder's level is right, or its event   *)
(* is still to come.                                                       *)
EncodersRight ==
  \/ NothingMoved
  \/ \A e \in Encoders : /\ ValueIn(input_state, e) = ValueIn(position, e)
                         /\ About(e) \/ ValueRight(mapper.value[e], e)

(* The invariant of the input thread.                                      *)
InputInv == Typed /\ EventsRight /\ ButtonsRight /\ EncodersRight /\ LedsRight(mapper)

(* A decoded report shows where the controls are.                          *)
LEMMA DecodedFacts ==
  ASSUME NEW p \in Position
  PROVE  /\ Decoded(p) \in InputStates
         /\ \A b \in Buttons : HeldIn(Decoded(p), b) = (b \in p.held)
         /\ \A e \in Encoders : ValueIn(Decoded(p), e) = ValueIn(p, e)
<1>1. Decoded(p) \in InputStates
  <2>1. p.wheel \in Byte /\ p.knobs \in [Knobs -> 0 .. FADERS_MAX] /\ p.faders \in [Faders -> 0 .. FADERS_MAX]
    BY DEF Position
  <2>2. \A v \in 0 .. FADERS_MAX : v \in UInt16
    BY DEF FADERS_MAX, UInt16
  <2>3. p.knobs \in [Knobs -> UInt16] /\ p.faders \in [Faders -> UInt16]
    BY <2>1, <2>2
  <2>4. /\ [i \in Matrix |-> <<"MATRIX", i>> \in p.held] \in [Matrix -> BOOLEAN]
        /\ [i \in Special |-> <<"SPECIAL", i>> \in p.held] \in [Special -> BOOLEAN]
        /\ [i \in Stop |-> <<"STOP", i>> \in p.held] \in [Stop -> BOOLEAN]
    OBVIOUS
  <2> QED BY <2>1, <2>3, <2>4 DEF Decoded, InputStates, Bits
<1>2. \A b \in Buttons : HeldIn(Decoded(p), b) = (b \in p.held)
  <2>1. \A i \in Matrix : Decoded(p).matrix[i] = (<<"MATRIX", i>> \in p.held)
    BY DEF Decoded
  <2>2. \A i \in Special : Decoded(p).special[i] = (<<"SPECIAL", i>> \in p.held)
    BY DEF Decoded
  <2>3. \A i \in Stop : Decoded(p).stop[i] = (<<"STOP", i>> \in p.held)
    BY DEF Decoded
  <2> QED BY <2>1, <2>2, <2>3 DEF HeldIn, Buttons
<1>3. \A e \in Encoders : ValueIn(Decoded(p), e) = ValueIn(p, e)
  BY DEF ValueIn, Decoded
<1> QED BY <1>1, <1>2, <1>3

(* The first state shows no button, and what the memory held.              *)
LEMMA InitialFacts ==
  ASSUME NEW g \in Memory
  PROVE  /\ InitialInputState(g) \in InputStates
         /\ \A b \in Buttons : HeldIn(InitialInputState(g), b) = FALSE
         /\ \A e \in Encoders : ValueIn(InitialInputState(g), e) = ValueIn(g, e)
<1>1. InitialInputState(g) \in InputStates
  BY DEF InitialInputState, InputStates, Memory, Bits
<1>2. \A b \in Buttons : HeldIn(InitialInputState(g), b) = FALSE
  BY DEF HeldIn, Buttons, InitialInputState
<1>3. \A e \in Encoders : ValueIn(InitialInputState(g), e) = ValueIn(g, e)
  BY DEF ValueIn, InitialInputState
<1> QED BY <1>1, <1>2, <1>3

(* With no event left there is nothing to come.                            *)
LEMMA NoEvents == input_events = <<>> => \A c : ~About(c)
BY EmptySeq DEF About

(* It holds at first.                                                      *)
LEMMA InputInvInit == Init => InputInv
<1> SUFFICES ASSUME Init PROVE InputInv
  OBVIOUS
<1>1. PICK p \in Positions : position = [p EXCEPT !.held = {}, !.wheel = boot.wheel]
  BY DEF Init
<1>2. position \in Position /\ position.held = {} /\ boot \in Memory
  <2>1. p \in Position
    BY PositionsAssumption
  <2>2. boot \in Memory
    BY GarbageAssumption DEF Init
  <2>3. boot.wheel \in Byte
    BY <2>2 DEF Memory
  <2> DEFINE q == [p EXCEPT !.held = {}, !.wheel = boot.wheel]
  <2>4. q \in Position /\ q.held = {}
    BY <2>1, <2>3 DEF Position
  <2> QED BY <1>1, <2>2, <2>4
<1>3. /\ flips = {} /\ turned = 0 /\ input_state = InitialInputState(boot) /\ input_events = <<>>
      /\ pc = "read" /\ mapper.on = InitialLastInput /\ mapper.value = InitialLastValue
      /\ mapper.led = [b \in Buttons |-> DARK]
      /\ mapper = [on |-> mapper.on, value |-> mapper.value, led |-> mapper.led]
  BY DEF Init
<1>4. mapper \in Mappers
  <2>1. mapper.on \in [Buttons -> BOOLEAN]
    BY <1>3 DEF InitialLastInput
  <2>2. mapper.value \in [Encoders -> Levels] /\ mapper.led \in [Buttons -> Levels]
    <3>1. 0 \in Levels
      BY DEF Levels
    <3> HIDE DEF Levels
    <3> QED BY <1>3, <3>1 DEF InitialLastValue, DARK
  <2> QED BY <1>3, <2>1, <2>2 DEF Mappers, Bits
<1>5. Typed
  <2>1. turned \in 0 .. WheelSteps - 1
    BY <1>3 DEF WheelSteps
  <2> QED BY <1>2, <1>3, <1>4, <2>1, InitialFacts, EmptySeq DEF Typed
<1>6. EventsRight
  BY <1>3, EmptySeq DEF EventsRight
<1>7. \A c : ~About(c)
  BY <1>3, NoEvents
<1>8. ButtonsRight
  <2> SUFFICES ASSUME NEW b \in Buttons
               PROVE  HeldIn(input_state, b) = (b \in position.held) /\ mapper.on[b] = IsOn(b)
    BY <1>7 DEF ButtonsRight, ToCome
  <2>1. (b \in position.held) = FALSE /\ (b \in flips) = FALSE
    BY <1>2, <1>3
  <2>2. mapper.on[b] = FALSE
    BY <1>3 DEF InitialLastInput
  <2>3. IsOn(b) = FALSE
    BY <2>1 DEF IsOn
  <2>4. HeldIn(input_state, b) = FALSE
    BY <1>2, <1>3, InitialFacts
  <2> QED BY <2>1, <2>2, <2>3, <2>4
<1>9. EncodersRight
  BY <1>3, <1>7 DEF EncodersRight, NothingMoved, InitialLastValue
<1>10. LedsRight(mapper)
  BY <1>3 DEF LedsRight, InitialLastInput
<1> QED BY <1>5, <1>6, <1>8, <1>9, <1>10 DEF InputInv

-----------------------------------------------------------------------------
(* What reading a report does, whether its id is the one of an input       *)
(* report or another.                                                      *)
LEMMA ReadFacts ==
  ASSUME Typed, ReadReport \/ ReadOther
  PROVE  /\ UNCHANGED <<boot, mapper, out_buf, client, budget, host, device>>
         /\ pc = "read" /\ pc' = "handle" /\ position' \in Position
         /\ flips' = SymDiff(flips, position'.held \ position.held)
         /\ turned' \in 0 .. WheelSteps - 1
         /\ \/ input_state' = Decoded(position')
            \/ input_state' = input_state /\ position' = position
         /\ input_events' = GenerateInputEvents(input_state, input_state')
<1>1. CASE ReadReport
  <2>1. PICK p \in Positions : /\ position' = p
                               /\ flips' = SymDiff(flips, p.held \ position.held)
                               /\ turned' = (turned + Turn(position.wheel, p.wheel)) % WheelSteps
                               /\ Decode(Report(p))
    BY <1>1 DEF ReadReport
  <2>2. p \in Position
    BY PositionsAssumption
  <2>3. input_state' = Decoded(p)
    BY <2>1, <2>2, UpdateDecodes DEF Decode
  <2>4. turned' \in 0 .. WheelSteps - 1
    <3> DEFINE d == Turn(position.wheel, p.wheel)
    <3>1. turned \in Int /\ d \in Int
      BY DEF Typed, Turn
    <3> HIDE DEF d
    <3> QED BY <2>1, <3>1 DEF WheelSteps, d
  <2> QED BY <2>1, <2>2, <2>3, <2>4 DEF Decode, jack
<1>2. CASE ReadOther
  <2>1. PICK id \in OtherIds : UNCHANGED hands /\ Decode([Report(position) EXCEPT ![0] = id])
    BY <1>2 DEF ReadOther
  <2> DEFINE r == [Report(position) EXCEPT ![0] = id]
  <2>2. position \in Position /\ turned \in 0 .. WheelSteps - 1
    BY DEF Typed
  <2>3. r[0] = id /\ Report(position)[0] = INPUT_REPORT_ID
    BY DEF Report, INPUT_REPORT_SIZE
  <2>4. CASE id = INPUT_REPORT_ID
    <3>1. r = Report(position)
      <4> DEFINE f == Report(position)
      <4>1. f = [k \in 0 .. INPUT_REPORT_SIZE - 1 |-> f[k]] /\ f[0] = id
        BY <2>3, <2>4 DEF Report
      <4> HIDE DEF f
      <4>2. [f EXCEPT ![0] = id] = f
        BY <4>1
      <4> QED BY <4>2 DEF f
    <3> QED BY <2>1, <2>2, <3>1, UpdateDecodes DEF Decode, hands, jack, SymDiff
  <2>5. CASE id # INPUT_REPORT_ID
    <3>1. UpdateInState(input_state, r) = input_state
      BY <2>3, <2>5 DEF UpdateInState
    <3> QED BY <2>1, <2>2, <3>1 DEF Decode, hands, jack, SymDiff
  <2> QED BY <2>4, <2>5
<1> QED BY <1>1, <1>2

(* Reading a report keeps it: where a control moved there is an event to   *)
(* come, where it did not, the mapper is right already.                    *)
LEMMA ReadInv ==
  ASSUME InputInv, ReadReport \/ ReadOther
  PROVE  InputInv'
<1>1. Typed /\ EventsRight /\ ButtonsRight /\ EncodersRight /\ LedsRight(mapper)
  BY DEF InputInv
<1>2. /\ UNCHANGED <<boot, mapper, out_buf, client, budget, host, device>>
      /\ pc = "read" /\ pc' = "handle" /\ position' \in Position
      /\ flips' = SymDiff(flips, position'.held \ position.held)
      /\ turned' \in 0 .. WheelSteps - 1
      /\ input_events' = GenerateInputEvents(input_state, input_state')
  BY <1>1, ReadFacts
<1>3. \/ input_state' = Decoded(position')
      \/ input_state' = input_state /\ position' = position
  BY <1>1, ReadFacts
<1>4. /\ position \in Position /\ flips \subseteq Buttons /\ boot \in Memory
      /\ input_state \in InputStates /\ mapper \in Mappers /\ input_events = <<>>
  BY <1>1, <1>2 DEF Typed
<1>5. input_state' \in InputStates
  BY <1>2, <1>3, <1>4, DecodedFacts
<1>6. \A b \in Buttons : /\ HeldIn(input_state, b) = (b \in position.held)
                         /\ HeldIn(input_state', b) = (b \in position'.held)
  BY <1>1, <1>2, <1>3, DecodedFacts DEF ButtonsRight
<1> DEFINE X == ChangesBetween(input_state, input_state')
           s == input_events'
<1>7. Lists(s, X)
  BY <1>2, <1>4, <1>5, EventsList
<1>8. /\ X \subseteq InputEvent
      /\ \A x \in X : /\ Control(x) \in Buttons => x.press = HeldIn(input_state', Control(x))
                      /\ Control(x) \in Encoders => x.value = ValueIn(input_state', Control(x))
      /\ \A x, y \in X : Control(x) = Control(y) => x = y
      /\ \A b \in Buttons : (\E x \in X : Control(x) = b) <=> HeldIn(input_state', b) # HeldIn(input_state, b)
      /\ \A e \in Encoders : (\E x \in X : Control(x) = e) <=> ValueIn(input_state', e) # ValueIn(input_state, e)
  BY <1>4, <1>5, ChangesFacts
<1>9. s \in Seq(X) /\ \A i \in 1 .. Len(s) : s[i] \in X
  BY <1>7, ElementOfSeq DEF Lists
<1>10. \A c : About(c)' <=> \E x \in X : Control(x) = c
  <2>1. \A c : (\E i \in 1 .. Len(s) : Control(s[i]) = c) <=> \E x \in X : Control(x) = c
    <3> HIDE DEF s, X
    <3> QED BY <1>7, <1>9 DEF Lists
  <2> QED BY <2>1 DEF About, Control
<1>11. Typed'
  <2>1. flips' \subseteq Buttons
    BY <1>2, <1>4 DEF SymDiff, Position
  <2>2. s \in Seq(InputEvent)
    <3> HIDE DEF s, X
    <3> QED BY <1>8, <1>9, SeqMonotonic
  <2> QED BY <1>2, <1>4, <1>5, <2>1, <2>2 DEF Typed
(* Where an encoder's event comes from, the state shows the position.      *)
<1>12. \A e \in Encoders : ValueIn(input_state', e) # ValueIn(input_state, e)
                           => ValueIn(input_state', e) = ValueIn(position', e)
  BY <1>2, <1>3, DecodedFacts
<1>13. EventsRight'
  <2>1. \A i, j \in 1 .. Len(s) : Control(s[i]) = Control(s[j]) => i = j
    <3> HIDE DEF s, X
    <3>1. \A i, j \in 1 .. Len(s) : s[i] = s[j] => i = j
      BY <1>7 DEF Lists
    <3> QED BY <3>1, <1>8, <1>9
  <2>2. ASSUME NEW i \in 1 .. Len(s), Control(s[i]) \in Buttons
        PROVE  s[i].press = (Control(s[i]) \in position'.held)
    <3> HIDE DEF s, X
    <3> QED BY <2>2, <1>6, <1>8, <1>9
  <2>3. ASSUME NEW i \in 1 .. Len(s), Control(s[i]) \in Encoders
        PROVE  s[i].value = ValueIn(position', Control(s[i]))
    <3> HIDE DEF s, X
    <3>1. s[i] \in X
      BY <1>9
    <3> QED BY <2>3, <3>1, <1>8, <1>12
  <2> QED BY <2>1, <2>2, <2>3 DEF EventsRight, Control, ValueIn
<1>14. ButtonsRight'
  <2> SUFFICES ASSUME NEW b \in Buttons
               PROVE  /\ HeldIn(input_state', b) = (b \in position'.held)
                      /\ ToCome(b)' => mapper'.on[b] # IsOn(b)'
                      /\ ~ToCome(b)' => mapper'.on[b] = IsOn(b)'
    BY DEF ButtonsRight, HeldIn
  <2>1. About(b)' <=> (b \in position'.held) # (b \in position.held)
    BY <1>6, <1>8, <1>10
  <2>2. mapper'.on[b] = IsOn(b)
    <3>1. ~ToCome(b)
      BY <1>4, NoEvents DEF ToCome
    <3> QED BY <3>1, <1>1, <1>2 DEF ButtonsRight
  <2>3. ToCome(b)' <=> /\ (b \in position'.held) # (b \in position.held)
                       /\ b \in ButtonToggle => b \in position'.held
    BY <2>1 DEF ToCome, ButtonEmits
  <2>4. b \in flips' <=> (b \in flips) # (b \in position'.held /\ b \notin position.held)
    BY <1>2 DEF SymDiff
  <2>5. CASE b \in ButtonToggle
    <3>1. IsOn(b) = (b \in flips) /\ IsOn(b)' = (b \in flips')
      BY <2>5 DEF IsOn
    <3>2. ToCome(b)' <=> b \in position'.held /\ b \notin position.held
      BY <2>3, <2>5
    <3> QED BY <1>6, <2>2, <2>4, <3>1, <3>2
  <2>6. CASE b \notin ButtonToggle
    <3>1. IsOn(b) = (b \in position.held) /\ IsOn(b)' = (b \in position'.held)
      BY <2>6 DEF IsOn
    <3>2. ToCome(b)' <=> (b \in position'.held) # (b \in position.held)
      BY <2>3, <2>6
    <3> QED BY <1>6, <2>2, <3>1, <3>2
  <2> QED BY <2>5, <2>6
<1>15. EncodersRight'
  <2>1. \A e \in Encoders : ~About(e)
    BY <1>4, NoEvents
  <2>2. \A e \in Encoders : About(e)' <=> ValueIn(input_state', e) # ValueIn(input_state, e)
    BY <1>8, <1>10
  <2>3. \A e \in Encoders :
          \/ ValueIn(input_state, e) = ValueIn(boot, e) /\ mapper.value[e] = 0
          \/ ValueIn(input_state, e) = ValueIn(position, e) /\ ValueRight(mapper.value[e], e)
    <3>1. CASE NothingMoved
      <4>1. input_state = InitialInputState(boot) /\ \A e \in Encoders : mapper.value[e] = 0
        BY <3>1 DEF NothingMoved
      <4> QED BY <4>1, <1>4, InitialFacts
    <3>2. CASE ~NothingMoved
      BY <1>1, <2>1, <3>2 DEF EncodersRight
    <3> QED BY <3>1, <3>2
  <2>4. CASE input_state' = Decoded(position')
    <3> SUFFICES ASSUME NEW e \in Encoders
                 PROVE  /\ ValueIn(input_state', e) = ValueIn(position', e)
                        /\ About(e)' \/ ValueRight(mapper.value[e], e)'
      BY <1>2 DEF EncodersRight, ValueIn, ValueRight
    <3>1. ValueIn(input_state', e) = ValueIn(position', e)
      BY <1>2, <2>4, DecodedFacts
    <3>2. CASE ValueIn(position', e) # ValueIn(input_state, e)
      BY <2>2, <3>1, <3>2
    <3>3. CASE ValueIn(position', e) = ValueIn(input_state, e)
      <4>1. CASE ValueIn(input_state, e) = ValueIn(boot, e) /\ mapper.value[e] = 0
        BY <1>2, <3>1, <3>3, <4>1 DEF ValueRight, ValueIn
      <4>2. CASE ValueIn(input_state, e) = ValueIn(position, e) /\ ValueRight(mapper.value[e], e)
        <5>1. ValueIn(position', e) = ValueIn(position, e)
          BY <3>3, <4>2
        <5>2. ValueIn(boot, e)' = ValueIn(boot, e)
          BY <1>2 DEF ValueIn
        <5>3. mapper.value[e]' = mapper.value[e]
          BY <1>2
        <5>4. ValueIn(position, e)' = ValueIn(position, e)
          BY <5>1 DEF ValueIn
        <5>5. ValueRight(mapper.value[e], e)'
          BY <4>2, <5>2, <5>3, <5>4 DEF ValueRight
        <5> QED BY <3>1, <5>5
      <4> QED BY <2>3, <4>1, <4>2
    <3> QED BY <3>1, <3>2, <3>3
  <2>5. CASE input_state' = input_state /\ position' = position
    <3>1. \A e \in Encoders : ~About(e)'
      BY <2>2, <2>5
    <3>2. CASE NothingMoved
      <4>1. NothingMoved'
        BY <1>2, <2>5, <3>1, <3>2 DEF NothingMoved, InitialInputState
      <4> QED BY <4>1 DEF EncodersRight
    <3>3. CASE \A e \in Encoders : ValueIn(input_state, e) = ValueIn(position, e) /\ ValueRight(mapper.value[e], e)
      <4>1. \A e \in Encoders : ValueIn(input_state, e)' = ValueIn(position, e)' /\ ValueRight(mapper.value[e], e)'
        BY <1>2, <2>5, <3>3 DEF ValueIn, ValueRight
      <4> QED BY <4>1 DEF EncodersRight
    <3> QED BY <1>1, <2>1, <3>2, <3>3 DEF EncodersRight
  <2> QED BY <1>3, <2>4, <2>5
<1>16. LedsRight(mapper')
  BY <1>1, <1>2
<1> QED BY <1>11, <1>13, <1>14, <1>15, <1>16 DEF InputInv, LedsRight

-----------------------------------------------------------------------------
(* A message, or none, that takes a host which knows what mapper m sent to *)
(* one which knows what mapper n sent, and is news to it.                  *)
Informs(midi, m, n) ==
  \/ midi = <<>> /\ \A h : Knows(h, m) => Knows(h, n)
  \/ \E y \in MidiOut : /\ midi = <<y>>
                        /\ \A h : Knows(h, m) => Receive(h, y) # h /\ Knows(Receive(h, y), n)

(* A note does, when the button changes.                                   *)
LEMMA InformsNote ==
  ASSUME NEW b \in Buttons, NEW v \in BOOLEAN, NEW m \in Mappers, NEW n \in Mappers,
         n.on = [m.on EXCEPT ![b] = v], n.value = m.value, m.on[b] # v
  PROVE  Informs(<<NoteEvent(b, v)>>, m, n)
<1> DEFINE y == NoteEvent(b, v)
<1>1. y \in MidiOut
  <2>1. Note(b) \in 24 .. 52
    BY NumbersFacts
  <2>2. Note(b) \in 0 .. 127
    BY <2>1
  <2>3. CASE v = TRUE
    BY <2>2, <2>3 DEF NoteEvent, MidiEvent, MidiOut
  <2>4. CASE v = FALSE
    BY <2>2, <2>4 DEF NoteEvent, MidiEvent, MidiOut
  <2> QED BY <2>3, <2>4
<1>2. \A c \in Buttons : n.on[c] = IF c = b THEN v ELSE m.on[c]
  BY DEF Mappers, Bits
<1>3. ASSUME NEW h, Knows(h, m) PROVE Receive(h, y) # h /\ Knows(Receive(h, y), n)
  <2> DEFINE g == Receive(h, y)
  <2>1. /\ h \in Hosts
        /\ \A c \in Buttons : h.on[Note(c)] = m.on[c]
        /\ \A e \in Encoders : h.cc[Controller(e)] = m.value[e]
    BY <1>3 DEF Knows
  <2>2. /\ g \in Hosts
        /\ \A c \in Buttons : g.on[Note(c)] = IF c = b THEN v ELSE h.on[Note(c)]
        /\ g.cc = h.cc
    BY <2>1, ReceiveNote
  <2> HIDE DEF g
  <2>3. Knows(g, n)
    BY <1>2, <2>1, <2>2 DEF Knows
  <2>4. g # h
    BY <2>1, <2>2
  <2> QED BY <2>3, <2>4 DEF g
<1> QED BY <1>1, <1>3 DEF Informs

(* A control change does, when the level changes.                          *)
LEMMA InformsValue ==
  ASSUME NEW e \in Encoders, NEW v \in Levels, NEW m \in Mappers, NEW n \in Mappers,
         n.on = m.on, n.value = [m.value EXCEPT ![e] = v], m.value[e] # v
  PROVE  Informs(<<MidiEvent("CONTROL_CHANGE", OutChannel, Controller(e), v)>>, m, n)
<1> DEFINE y == MidiEvent("CONTROL_CHANGE", OutChannel, Controller(e), v)
<1>1. y \in MidiOut
  <2>1. Controller(e) \in 33 .. 40
    BY NumbersFacts
  <2>2. Controller(e) \in 0 .. 127
    BY <2>1
  <2>3. v \in 0 .. 127
    BY DEF Levels
  <2> QED BY <2>2, <2>3 DEF MidiEvent, MidiOut
<1>2. \A f \in Encoders : n.value[f] = IF f = e THEN v ELSE m.value[f]
  BY DEF Mappers
<1>3. ASSUME NEW h, Knows(h, m) PROVE Receive(h, y) # h /\ Knows(Receive(h, y), n)
  <2> DEFINE g == Receive(h, y)
  <2>1. /\ h \in Hosts
        /\ \A c \in Buttons : h.on[Note(c)] = m.on[c]
        /\ \A f \in Encoders : h.cc[Controller(f)] = m.value[f]
    BY <1>3 DEF Knows
  <2>2. /\ g \in Hosts
        /\ \A f \in Encoders : g.cc[Controller(f)] = IF f = e THEN v ELSE h.cc[Controller(f)]
        /\ g.on = h.on
    BY <2>1, ReceiveValue
  <2> HIDE DEF g
  <2>3. Knows(g, n)
    BY <1>2, <2>1, <2>2 DEF Knows
  <2>4. g # h
    BY <2>1, <2>2
  <2> QED BY <2>3, <2>4 DEF g
<1> QED BY <1>1, <1>3 DEF Informs

(* A message of the wheel does, whatever the mapper has.                   *)
LEMMA InformsTurn ==
  ASSUME NEW v \in {wheel_inc_value, wheel_dec_value}, NEW m, NEW n,
         n.on = m.on, n.value = m.value
  PROVE  Informs(<<MidiEvent("CONTROL_CHANGE", OutChannel, WheelController, v)>>, m, n)
<1> DEFINE y == MidiEvent("CONTROL_CHANGE", OutChannel, WheelController, v)
<1>1. y \in MidiOut
  BY DEF MidiEvent, MidiOut, WheelController, wheel_inc_value, wheel_dec_value
<1>2. ASSUME NEW h, Knows(h, m) PROVE Receive(h, y) # h /\ Knows(Receive(h, y), n)
  BY <1>2, ReceiveTurn DEF Knows
<1> QED BY <1>1, <1>2 DEF Informs

(* No message does, when the mapper stays as it is.                        *)
LEMMA InformsNothing ==
  ASSUME NEW m, NEW n, n.on = m.on, n.value = m.value
  PROVE  Informs(<<>>, m, n)
BY DEF Informs, Knows

-----------------------------------------------------------------------------
(* Handling the first event leaves those of the other controls.            *)
LEMMA TailEvents ==
  ASSUME Typed, EventsRight, input_events # <<>>, UNCHANGED position,
         input_events' = Tail(input_events)
  PROVE  /\ Head(input_events) \in InputEvent /\ input_events' \in Seq(InputEvent)
         /\ LET x == Head(input_events)
                c == Control(x)
            IN  /\ c \in Buttons => x.press = (c \in position.held)
                /\ c \in Encoders => x.value = ValueIn(position, c)
                /\ \A d : About(d)' <=> About(d) /\ d # c
                /\ About(c)
         /\ EventsRight'
<1> DEFINE s == input_events
           n == Len(s)
           t == Tail(s)
<1>1. s \in Seq(InputEvent) /\ n \in Nat /\ n # 0
  BY EmptySeq, LenProperties DEF Typed
<1>2. /\ t \in Seq(InputEvent) /\ Len(t) = n - 1 /\ Head(s) = s[1] /\ Head(s) \in InputEvent
      /\ \A i \in 1 .. n - 1 : t[i] = s[i + 1]
  BY <1>1, HeadTailProperties
<1> HIDE DEF t, n
<1>3. /\ \A i, j \in 1 .. n : Control(s[i]) = Control(s[j]) => i = j
      /\ \A i \in 1 .. n : LET c == Control(s[i]) IN
            /\ c \in Buttons => s[i].press = (c \in position.held)
            /\ c \in Encoders => s[i].value = ValueIn(position, c)
  BY DEF EventsRight, n
<1>4. 1 \in 1 .. n
  BY <1>1
<1>5. \A i \in 1 .. n - 1 : i + 1 \in 1 .. n /\ i + 1 # 1
  BY <1>1
<1>6. \A i \in 1 .. n : i # 1 => i - 1 \in 1 .. n - 1 /\ i - 1 + 1 = i
  BY <1>1
<1>7. \A d : About(d) <=> \E i \in 1 .. n : Control(s[i]) = d
  BY DEF About, n
<1>8. \A d : About(d)' <=> \E i \in 1 .. n - 1 : Control(t[i]) = d
  BY <1>2 DEF About, Control, t
<1>9. \A d : About(d)' <=> About(d) /\ d # Control(s[1])
  <2>1. ASSUME NEW i \in 1 .. n - 1
        PROVE  About(Control(t[i])) /\ Control(t[i]) # Control(s[1])
    BY <1>2, <1>3, <1>4, <1>5, <1>7
  <2>2. ASSUME NEW i \in 1 .. n, Control(s[i]) # Control(s[1])
        PROVE  \E j \in 1 .. n - 1 : Control(t[j]) = Control(s[i])
    <3>1. i - 1 \in 1 .. n - 1 /\ i - 1 + 1 = i
      BY <2>2, <1>6
    <3>2. t[i - 1] = s[i]
      BY <3>1, <1>2
    <3> QED BY <3>1, <3>2
  <2> QED BY <2>1, <2>2, <1>7, <1>8
<1>10. EventsRight'
  <2>1. \A i, j \in 1 .. n - 1 : Control(t[i]) = Control(t[j]) => i = j
    <3> SUFFICES ASSUME NEW i \in 1 .. n - 1, NEW j \in 1 .. n - 1, Control(t[i]) = Control(t[j])
                 PROVE  i = j
      OBVIOUS
    <3>1. i + 1 \in 1 .. n /\ j + 1 \in 1 .. n /\ t[i] = s[i + 1] /\ t[j] = s[j + 1]
      BY <1>2, <1>5
    <3>2. i + 1 = j + 1
      BY <3>1, <1>3
    <3> QED BY <3>2, <1>1
  <2>2. ASSUME NEW i \in 1 .. n - 1
        PROVE  LET c == Control(t[i]) IN
            /\ c \in Buttons => t[i].press = (c \in position.held)
            /\ c \in Encoders => t[i].value = ValueIn(position, c)
    <3>1. i + 1 \in 1 .. n /\ t[i] = s[i + 1]
      BY <1>2, <1>5
    <3> QED BY <3>1, <1>3
  <2> QED BY <2>1, <2>2, <1>2 DEF EventsRight, Control, ValueIn, t
<1> QED BY <1>2, <1>3, <1>4, <1>7, <1>9, <1>10 DEF t

(* Handling an event keeps the invariant, and what it emits informs the    *)
(* host of what the mapper has become.                                     *)
LEMMA HandleInv ==
  ASSUME InputInv, HandleEvent,
         NEW r, r = ProcessHIDInput(Head(input_events), mapper)
  PROVE  InputInv' /\ Informs(r.midi, mapper, mapper')
<1> DEFINE x == Head(input_events)
           c == Control(x)
<1>1. Typed /\ EventsRight /\ ButtonsRight /\ EncodersRight /\ LedsRight(mapper)
  BY DEF InputInv
<1>2. /\ pc = "handle" /\ pc' \in {"handle", "aborted"} /\ input_events # <<>>
      /\ input_events' = Tail(input_events)
      /\ UNCHANGED <<position, flips, turned, boot, input_state>>
      /\ mapper' = [on |-> r.on, value |-> r.value, led |-> r.led]
  BY DEF HandleEvent, hands
<1>3. /\ x \in InputEvent /\ input_events' \in Seq(InputEvent)
      /\ c \in Buttons => x.press = (c \in position.held)
      /\ c \in Encoders => x.value = ValueIn(position, c)
      /\ \A d : About(d)' <=> About(d) /\ d # c
      /\ About(c)
      /\ EventsRight'
  BY <1>1, <1>2, TailEvents
<1>4. mapper \in Mappers /\ position \in Position
  BY <1>1 DEF Typed
<1>5. ASSUME mapper' \in Mappers PROVE Typed'
  BY <1>1, <1>2, <1>3, <1>5 DEF Typed
<1>6. \A b \in Buttons : IsOn(b)' = IsOn(b) /\ HeldIn(input_state', b) = HeldIn(input_state, b)
                         /\ (ToCome(b)' <=> ToCome(b) /\ b # c)
  BY <1>2, <1>3 DEF IsOn, ToCome
<1>7. ASSUME ButtonsRight', EncodersRight', mapper' \in Mappers, LedsRight(mapper') PROVE InputInv'
  BY <1>3, <1>5, <1>7 DEF InputInv, LedsRight
(* What is left of ButtonsRight and EncodersRight when the mapper changes  *)
(* at most at the control of the event.                                    *)
<1>8. ASSUME \A b \in Buttons : b # c => mapper'.on[b] = mapper.on[b],
             c \in Buttons => mapper'.on[c] = IsOn(c)
      PROVE  ButtonsRight'
  <2> SUFFICES ASSUME NEW b \in Buttons
               PROVE  /\ HeldIn(input_state', b) = (b \in position'.held)
                      /\ ToCome(b)' => mapper'.on[b] # IsOn(b)'
                      /\ ~ToCome(b)' => mapper'.on[b] = IsOn(b)'
    BY DEF ButtonsRight, HeldIn
  <2>1. /\ HeldIn(input_state, b) = (b \in position.held)
        /\ ToCome(b) => mapper.on[b] # IsOn(b)
        /\ ~ToCome(b) => mapper.on[b] = IsOn(b)
    BY <1>1 DEF ButtonsRight
  <2>2. CASE b = c
    BY <2>1, <2>2, <1>2, <1>6, <1>8
  <2>3. CASE b # c
    BY <2>1, <2>3, <1>2, <1>6, <1>8
  <2> QED BY <2>2, <2>3
<1>9. ASSUME \A e \in Encoders : e # c => mapper'.value[e] = mapper.value[e],
             c \in Encoders => ValueRight(mapper'.value[c], c)
      PROVE  EncodersRight'
  <2>1. \A e \in Encoders : /\ ValueIn(input_state, e)' = ValueIn(input_state, e)
                            /\ ValueIn(position, e)' = ValueIn(position, e)
                            /\ ValueIn(boot, e)' = ValueIn(boot, e)
    BY <1>2 DEF ValueIn
  <2>2. CASE NothingMoved
    <3>1. c \notin Encoders
      BY <2>2, <1>3 DEF NothingMoved
    <3>2. \A e \in Encoders : mapper'.value[e] = 0 /\ ~About(e)'
      BY <2>2, <3>1, <1>3, <1>9 DEF NothingMoved
    <3>3. NothingMoved'
      BY <2>2, <3>2, <1>2 DEF NothingMoved, InitialInputState
    <3> QED BY <3>3 DEF EncodersRight
  <2>3. CASE \A e \in Encoders : /\ ValueIn(input_state, e) = ValueIn(position, e)
                                 /\ About(e) \/ ValueRight(mapper.value[e], e)
    <3>1. ASSUME NEW e \in Encoders
          PROVE  ValueIn(input_state, e)' = ValueIn(position, e)' /\ (About(e)' \/ ValueRight(mapper.value[e], e)')
      <4>1. ValueIn(input_state, e) = ValueIn(position, e) /\ (About(e) \/ ValueRight(mapper.value[e], e))
        BY <2>3
      <4>2. CASE e = c
        BY <4>1, <4>2, <2>1, <1>9 DEF ValueRight
      <4>3. CASE e # c /\ About(e)
        BY <4>1, <4>3, <2>1, <1>3
      <4>4. CASE e # c /\ ValueRight(mapper.value[e], e)
        BY <4>1, <4>4, <2>1, <1>9 DEF ValueRight
      <4> QED BY <4>1, <4>2, <4>3, <4>4
    <3> QED BY <3>1 DEF EncodersRight
  <2> QED BY <1>1, <2>2, <2>3 DEF EncodersRight
<1>10. \A e \in Encoders : ValueIn(position, e) \in 0 .. FADERS_MAX
  BY <1>4 DEF ValueIn, Encoders, Position
<1>11. CASE c \in Buttons /\ ButtonEmits(c, x.press)
  <2> DEFINE v == ButtonOn(c, x.press, mapper.on[c])
  <2>1. /\ mapper' \in Mappers /\ LedsRight(mapper')
        /\ r.midi = <<NoteEvent(c, v)>> /\ v \in BOOLEAN
        /\ mapper'.on = [mapper.on EXCEPT ![c] = v] /\ mapper'.value = mapper.value
    <3> HIDE DEF v, c
    <3> QED BY <1>1, <1>2, <1>3, <1>4, <1>11, ProcessButton DEF v, c
  <2>2. c \notin Encoders
    BY <1>11, Disjoint
  <2>3. \A b \in Buttons : mapper'.on[b] = IF b = c THEN v ELSE mapper.on[b]
    <3>1. mapper.on \in [Buttons -> BOOLEAN]
      BY <1>4 DEF Mappers, Bits
    <3> HIDE DEF v, c
    <3> QED BY <2>1, <3>1
  <2>4. ToCome(c)
    BY <1>3, <1>11 DEF ToCome
  <2>5. mapper.on[c] # IsOn(c) /\ mapper.on[c] \in BOOLEAN /\ IsOn(c) \in BOOLEAN
    <3>1. mapper.on[c] \in BOOLEAN
      <4> HIDE DEF c
      <4> QED BY <1>4, <1>11 DEF Mappers, Bits
    <3>2. IsOn(c) \in BOOLEAN
      <4> HIDE DEF c
      <4>1. CASE c \in ButtonToggle
        <5>1. IsOn(c) = (c \in flips)
          BY <4>1 DEF IsOn
        <5> QED BY <5>1
      <4>2. CASE c \notin ButtonToggle
        <5>1. IsOn(c) = (c \in position.held)
          BY <4>2 DEF IsOn
        <5> QED BY <5>1
      <4> QED BY <4>1, <4>2
    <3> QED BY <3>1, <3>2, <2>4, <1>1, <1>11 DEF ButtonsRight
  <2>6. v = IsOn(c)
    <3>1. CASE c \in ButtonToggle
      <4>1. x.press = TRUE
        BY <3>1, <1>3, <1>11 DEF ButtonEmits
      <4>2. v = ~mapper.on[c]
        BY <3>1, <4>1 DEF ButtonOn
      <4> QED BY <4>2, <2>5
    <3>2. CASE c \notin ButtonToggle
      <4>1. v = x.press /\ IsOn(c) = (c \in position.held)
        BY <3>2 DEF ButtonOn, IsOn
      <4> QED BY <4>1, <1>3, <1>11
    <3> QED BY <3>1, <3>2
  <2> HIDE DEF v, c
  <2>7. Informs(r.midi, mapper, mapper')
    BY <2>1, <2>5, <2>6, <1>4, <1>11, InformsNote
  <2>8. ButtonsRight'
    BY <2>3, <2>6, <1>8, <1>11
  <2>9. EncodersRight'
    BY <2>1, <2>2, <1>9
  <2> QED BY <2>1, <2>7, <2>8, <2>9, <1>7
<1>12. CASE c \in Buttons /\ ~ButtonEmits(c, x.press)
  <2>1. r.midi = <<>> /\ r.on = mapper.on /\ r.value = mapper.value /\ r.led = mapper.led
    BY <1>12, ProcessRelease
  <2>2. mapper' = mapper
    <3>1. mapper = [on |-> mapper.on, value |-> mapper.value, led |-> mapper.led]
      BY <1>4 DEF Mappers
    <3> QED BY <2>1, <3>1, <1>2
  <2>3. c \notin Encoders
    BY <1>12, Disjoint
  <2>4. mapper.on[c] = IsOn(c)
    <3>1. ~ToCome(c)
      BY <1>3, <1>12 DEF ToCome
    <3> QED BY <3>1, <1>1, <1>12 DEF ButtonsRight
  <2> HIDE DEF c
  <2>5. ButtonsRight' /\ EncodersRight'
    BY <2>2, <2>3, <2>4, <1>8, <1>9
  <2>6. Informs(r.midi, mapper, mapper')
    BY <2>1, <2>2, InformsNothing
  <2> QED BY <2>2, <2>5, <2>6, <1>1, <1>4, <1>7
<1>13. CASE c \in Encoders
  <2> DEFINE v == Scale(x.value, FADERS_MAX, MIDI_MAX)
  <2>1. x.value \in 0 .. FADERS_MAX /\ x.value = ValueIn(position, c)
    BY <1>3, <1>10, <1>13
  <2>2. /\ mapper' \in Mappers /\ LedsRight(mapper') /\ v \in Levels
        /\ r.midi = IF v # mapper.value[c]
                      THEN <<MidiEvent("CONTROL_CHANGE", OutChannel, Controller(c), v)>> ELSE <<>>
        /\ mapper'.on = mapper.on /\ mapper'.value = [mapper.value EXCEPT ![c] = v]
    <3> HIDE DEF v, c
    <3> QED BY <1>1, <1>2, <1>4, <1>13, <2>1, ProcessEncoder DEF v, c
  <2>3. c \notin Buttons
    BY <1>13, Disjoint
  <2>4. v = Scale(ValueIn(position, c), FADERS_MAX, MIDI_MAX)
    BY <2>1
  <2> HIDE DEF v, c
  <2>5. /\ mapper.value \in [Encoders -> Levels]
        /\ \A e \in Encoders : mapper'.value[e] = IF e = c THEN v ELSE mapper.value[e]
    <3>1. mapper.value \in [Encoders -> Levels]
      BY <1>4 DEF Mappers
    <3> QED BY <2>2, <3>1
  <2>6. ValueRight(mapper'.value[c], c)
    BY <2>4, <2>5, <1>13 DEF ValueRight
  <2>7. ButtonsRight' /\ EncodersRight'
    BY <2>2, <2>3, <2>5, <2>6, <1>8, <1>9
  <2>8. CASE v # mapper.value[c]
    BY <2>2, <2>7, <2>8, <1>4, <1>7, <1>13, InformsValue
  <2>9. CASE v = mapper.value[c]
    <3>1. mapper'.value = mapper.value
      BY <2>2, <2>5, <2>9, <1>13
    <3> QED BY <2>2, <2>7, <2>9, <3>1, <1>7, InformsNothing
  <2> QED BY <2>8, <2>9
<1>14. CASE c = <<"WHEEL", 0>>
  <2>1. /\ r.on = mapper.on /\ r.value = mapper.value /\ r.led = mapper.led
        /\ \E v \in {wheel_inc_value, wheel_dec_value} :
             r.midi = <<MidiEvent("CONTROL_CHANGE", OutChannel, WheelController, v)>>
    BY <1>14, ProcessWheel
  <2>2. mapper' = mapper
    <3>1. mapper = [on |-> mapper.on, value |-> mapper.value, led |-> mapper.led]
      BY <1>4 DEF Mappers
    <3> QED BY <2>1, <3>1, <1>2
  <2>3. c \notin Encoders /\ c \notin Buttons
    BY <1>14, Disjoint
  <2> HIDE DEF c
  <2>4. ButtonsRight' /\ EncodersRight'
    BY <2>2, <2>3, <1>8, <1>9
  <2>5. Informs(r.midi, mapper, mapper')
    BY <2>1, <2>2, InformsTurn
  <2> QED BY <2>2, <2>4, <2>5, <1>1, <1>4, <1>7
<1> QED BY <1>3, <1>11, <1>12, <1>13, <1>14, ControlOf

-----------------------------------------------------------------------------
(* The types of the queue and of the process callback.                     *)
OutTyped == /\ out_buf \in Seq(MidiOut) /\ Len(out_buf) <= OutCapacity
            /\ client \in {"idle", "writing", "dropped"} /\ budget \in 0 .. MaxPerCycle

(* Drained in order, with every message news, out_buf leaves the host with *)
(* what the mapper has.                                                    *)
Informed == \E H : Chain(H) /\ Knows(H[Len(H)], mapper)

(* The inductive invariant.  After an abort nothing is owed to the host:   *)
(* the last change was not queued.                                         *)
IInv == /\ InputInv /\ OutTyped
        /\ pc # "aborted" => Informed
        /\ pc = "read" => device = OutReport(mapper.led)
        /\ \E led \in [Buttons -> Levels] : device = OutReport(led)

(* The chain of an empty out_buf.                                          *)
LEMMA ChainStart ==
  ASSUME out_buf = <<>>, host \in Hosts
  PROVE  Chain(<<host>>) /\ <<host>>[Len(<<host>>)] = host
<1> DEFINE H == <<host>>
<1>1. H \in Seq(Hosts) /\ Len(H) = 1 /\ H[1] = host
  OBVIOUS
<1>2. Len(out_buf) = 0
  BY EmptySeq
<1> HIDE DEF H
<1>3. Chain(H)
  BY <1>1, <1>2 DEF Chain
<1> QED BY <1>1, <1>3 DEF H

(* operator<< makes the chain longer.                                      *)
LEMMA ChainPush ==
  ASSUME NEW H, Chain(H), out_buf \in Seq(MidiOut), NEW y \in MidiOut, UNCHANGED host,
         out_buf' = out_buf \o <<y>>,
         NEW g \in Hosts, g = Receive(H[Len(H)], y), g # H[Len(H)]
  PROVE  Chain(Append(H, g))' /\ Append(H, g)[Len(Append(H, g))] = g
<1> DEFINE n == Len(out_buf)
           G == Append(H, g)
<1>1. /\ H \in Seq(Hosts) /\ Len(H) = n + 1 /\ H[1] = host /\ n \in Nat
      /\ \A i \in 1 .. n : H[i + 1] = Receive(H[i], out_buf[i]) /\ H[i + 1] # H[i]
  BY LenProperties DEF Chain
<1>2. /\ G \in Seq(Hosts) /\ Len(G) = n + 1 + 1 /\ G[n + 1 + 1] = g
      /\ \A i \in 1 .. n + 1 : G[i] = H[i]
  BY <1>1, AppendProperties
<1>3. out_buf' = Append(out_buf, y)
  BY AppendIsConcat
<1>4. /\ Len(out_buf') = n + 1 /\ out_buf'[n + 1] = y
      /\ \A i \in 1 .. n : out_buf'[i] = out_buf[i]
  BY <1>3, AppendProperties
<1>5. g = Receive(H[n + 1], y) /\ g # H[n + 1]
  BY <1>1
<1> HIDE DEF n, G
<1>6. ASSUME NEW i \in 1 .. n + 1
      PROVE  G[i + 1] = Receive(G[i], out_buf'[i]) /\ G[i + 1] # G[i]
  <2>1. CASE i = n + 1
    BY <2>1, <1>1, <1>2, <1>4, <1>5
  <2>2. CASE i # n + 1
    <3>1. i \in 1 .. n /\ i + 1 \in 1 .. n + 1
      BY <2>2, <1>1
    <3> QED BY <3>1, <1>1, <1>2, <1>4
  <2> QED BY <2>1, <2>2
<1>7. G[1] = host'
  BY <1>1, <1>2
<1>8. Chain(G)'
  BY <1>2, <1>4, <1>6, <1>7 DEF Chain, Receive, Hosts
<1> QED BY <1>2, <1>8 DEF G

(* The process callback takes the first message: the chain starts one      *)
(* later, and the host has changed.                                        *)
LEMMA ChainPop ==
  ASSUME NEW H, Chain(H), out_buf \in Seq(MidiOut), out_buf # <<>>,
         host' = Receive(host, Head(out_buf)), out_buf' = Tail(out_buf)
  PROVE  Chain(Tail(H))' /\ Tail(H)[Len(Tail(H))] = H[Len(H)] /\ host' # host
<1> DEFINE n == Len(out_buf)
           G == Tail(H)
<1>1. /\ H \in Seq(Hosts) /\ Len(H) = n + 1 /\ H[1] = host /\ n \in Nat /\ n # 0
      /\ \A i \in 1 .. n : H[i + 1] = Receive(H[i], out_buf[i]) /\ H[i + 1] # H[i]
  BY LenProperties, EmptySeq DEF Chain
<1>2. H # <<>>
  BY <1>1, EmptySeq
<1>3. /\ G \in Seq(Hosts) /\ Len(G) = Len(H) - 1 /\ \A i \in 1 .. Len(H) - 1 : G[i] = H[i + 1]
  BY <1>1, <1>2, HeadTailProperties
<1>4. /\ Len(out_buf') = n - 1 /\ Head(out_buf) = out_buf[1]
      /\ \A i \in 1 .. n - 1 : out_buf'[i] = out_buf[i + 1]
  BY HeadTailProperties
<1> HIDE DEF n, G
<1>5. Len(G) = n /\ \A i \in 1 .. n : G[i] = H[i + 1]
  BY <1>1, <1>3
<1>6. 1 \in 1 .. n /\ n \in 1 .. n
  BY <1>1
<1>7. G[1] = host' /\ host' # host
  BY <1>1, <1>4, <1>5, <1>6
<1>8. ASSUME NEW i \in 1 .. n - 1
      PROVE  G[i + 1] = Receive(G[i], out_buf'[i]) /\ G[i + 1] # G[i]
  <2>1. i \in 1 .. n /\ i + 1 \in 1 .. n
    BY <1>1
  <2> QED BY <2>1, <1>1, <1>4, <1>5
<1>9. Len(G) = Len(out_buf') + 1
  BY <1>1, <1>4, <1>5
<1>10. Chain(G)'
  BY <1>3, <1>4, <1>7, <1>8, <1>9 DEF Chain, Receive, Hosts
<1>11. G[Len(G)] = H[Len(H)]
  BY <1>1, <1>5, <1>6
<1> QED BY <1>7, <1>10, <1>11 DEF G

-----------------------------------------------------------------------------
(* At first neither the host nor the mapper has anything.                  *)
LEMMA NoHostKnows == Init => Knows(host, mapper)
<1> SUFFICES ASSUME Init PROVE Knows(host, mapper)
  OBVIOUS
<1>1. /\ host = [on |-> [n \in Notes |-> FALSE], cc |-> [c \in Controllers |-> 0], turned |-> 0]
      /\ mapper.on = [b \in Buttons |-> FALSE] /\ mapper.value = [e \in Encoders |-> 0]
  BY DEF Init, NoHost, Notes, Controllers, InitialLastInput, InitialLastValue
<1>2. 0 \in Levels
  BY DEF Levels
<1>3. host \in Hosts
  BY <1>1, <1>2 DEF Hosts
<1> QED BY <1>1, <1>3, NumbersFacts DEF Knows

(* The inductive invariant holds at first.                                 *)
LEMMA IInvInit == Init => IInv
<1> SUFFICES ASSUME Init PROVE IInv
  OBVIOUS
<1>1. InputInv
  BY InputInvInit
<1>2. out_buf = <<>> /\ client = "idle" /\ budget = 0 /\ device = OutReport(mapper.led)
  BY DEF Init
<1>3. OutTyped
  BY <1>2, EmptySeq, OutCapacityAssumption, MaxPerCycleAssumption DEF OutTyped
<1>4. Informed
  <2> DEFINE H == <<host>>
  <2>1. Knows(host, mapper)
    BY NoHostKnows
  <2>2. Chain(H) /\ H[Len(H)] = host
    BY <1>2, <2>1, ChainStart DEF Knows
  <2> HIDE DEF H
  <2> QED BY <2>1, <2>2 DEF Informed
<1>5. mapper.led \in [Buttons -> Levels]
  BY <1>1 DEF InputInv, Typed, Mappers
<1> QED BY <1>1, <1>2, <1>3, <1>4, <1>5 DEF IInv

(* A step that leaves the queue alone keeps the host informed.             *)
LEMMA InformedKept ==
  ASSUME Informed, UNCHANGED <<out_buf, host>>,
         \A h : Knows(h, mapper) => Knows(h, mapper')
  PROVE  Informed'
<1>1. PICK H : Chain(H) /\ Knows(H[Len(H)], mapper)
  BY DEF Informed
<1>2. Chain(H)'
  BY <1>1 DEF Chain, Receive, Hosts
<1>3. Knows(H[Len(H)], mapper')
  BY <1>1
<1> QED BY <1>2, <1>3 DEF Informed, Knows, Hosts

(* It survives an event, whether it is queued, emits nothing or finds the  *)
(* queue full.                                                             *)
LEMMA IInvHandle == IInv /\ HandleEvent => IInv'
<1> SUFFICES ASSUME IInv, HandleEvent PROVE IInv'
  OBVIOUS
<1> DEFINE r == ProcessHIDInput(Head(input_events), mapper)
<1>1. InputInv' /\ Informs(r.midi, mapper, mapper')
  BY HandleInv DEF IInv
<1>2. /\ pc = "handle" /\ UNCHANGED <<client, budget, host, device>>
      /\ IF r.midi # <<>> /\ OutBufFull
           THEN pc' = "aborted" /\ UNCHANGED out_buf
           ELSE pc' = pc /\ out_buf' = out_buf \o r.midi
  BY DEF HandleEvent, jack
<1>3. OutTyped /\ Informed /\ \E led \in [Buttons -> Levels] : device = OutReport(led)
  BY <1>2 DEF IInv
<1>4. /\ out_buf \in Seq(MidiOut) /\ Len(out_buf) <= OutCapacity /\ Len(out_buf) \in Nat
      /\ client \in {"idle", "writing", "dropped"} /\ budget \in 0 .. MaxPerCycle
  BY <1>3, LenProperties DEF OutTyped
<1>5. pc' # "read" /\ \E led \in [Buttons -> Levels] : device' = OutReport(led)
  BY <1>2, <1>3
<1> HIDE DEF r
<1>6. CASE r.midi # <<>> /\ OutBufFull
  <2>1. pc' = "aborted" /\ UNCHANGED <<out_buf, client, budget>>
    BY <1>2, <1>6
  <2>2. OutTyped'
    BY <1>3, <2>1 DEF OutTyped
  <2> QED BY <1>1, <1>5, <2>1, <2>2 DEF IInv, OutReport
<1>7. CASE r.midi = <<>>
  <2>1. out_buf' = out_buf
    BY <1>2, <1>4, <1>7, ConcatEmptySeq
  <2>2. \A h : Knows(h, mapper) => Knows(h, mapper')
    BY <1>1, <1>7 DEF Informs
  <2>3. Informed'
    BY <1>2, <1>3, <2>1, <2>2, InformedKept
  <2>4. OutTyped'
    BY <1>2, <1>3, <2>1 DEF OutTyped
  <2> QED BY <1>1, <1>5, <2>3, <2>4 DEF IInv, OutReport
<1>8. CASE r.midi # <<>> /\ ~OutBufFull
  <2>1. PICK y \in MidiOut : /\ r.midi = <<y>>
                             /\ \A h : Knows(h, mapper) => Receive(h, y) # h /\ Knows(Receive(h, y), mapper')
    BY <1>1, <1>8 DEF Informs
  <2>2. out_buf' = out_buf \o <<y>>
    BY <1>2, <1>8, <2>1
  <2>3. PICK H : Chain(H) /\ Knows(H[Len(H)], mapper)
    BY <1>3 DEF Informed
  <2> DEFINE g == Receive(H[Len(H)], y)
             G == Append(H, g)
  <2>4. Knows(g, mapper') /\ g # H[Len(H)] /\ g \in Hosts
    BY <2>1, <2>3 DEF Knows
  <2>5. Chain(G)' /\ G[Len(G)] = g
    BY <1>2, <1>4, <2>2, <2>3, <2>4, ChainPush
  <2>6. Informed'
    <3> HIDE DEF g, G
    <3> QED BY <2>4, <2>5 DEF Informed, Knows, Hosts
  <2>7. OutTyped'
    <3>1. out_buf' = Append(out_buf, y)
      BY <1>4, <2>2, AppendIsConcat
    <3>2. out_buf' \in Seq(MidiOut) /\ Len(out_buf') = Len(out_buf) + 1
      BY <1>4, <3>1, AppendProperties
    <3>3. Len(out_buf') <= OutCapacity
      BY <1>4, <1>8, <3>2, OutCapacityAssumption DEF OutBufFull
    <3> QED BY <1>2, <1>4, <3>2, <3>3 DEF OutTyped
  <2> QED BY <1>1, <1>5, <2>6, <2>7 DEF IInv, OutReport
<1> QED BY <1>6, <1>7, <1>8

(* The invariant of the input thread survives the steps of the JACK thread *)
(* and the end of the loop over the events.                                *)
LEMMA SameInput ==
  ASSUME InputInv, UNCHANGED <<position, flips, turned, boot, input_state, input_events, mapper>>,
         pc' \in {pc, "aborted"} \/ (pc' = "read" /\ input_events = <<>>)
  PROVE  InputInv'
<1>1. Typed'
  BY DEF InputInv, Typed
<1>2. EventsRight'
  BY DEF InputInv, EventsRight, Control, ValueIn
<1>3. \A c : About(c)' <=> About(c)
  BY DEF About, Control
<1>4. ButtonsRight'
  <2> SUFFICES ASSUME NEW b \in Buttons
               PROVE  /\ HeldIn(input_state', b) = (b \in position'.held)
                      /\ ToCome(b)' => mapper'.on[b] # IsOn(b)'
                      /\ ~ToCome(b)' => mapper'.on[b] = IsOn(b)'
    BY DEF ButtonsRight, HeldIn
  <2>1. IsOn(b)' = IsOn(b) /\ (ToCome(b)' <=> ToCome(b))
    BY <1>3 DEF IsOn, ToCome
  <2> QED BY <2>1 DEF InputInv, ButtonsRight
<1>5. EncodersRight'
  <2>1. \A e \in Encoders : /\ ValueIn(input_state, e)' = ValueIn(input_state, e)
                            /\ ValueIn(position, e)' = ValueIn(position, e)
                            /\ ValueIn(boot, e)' = ValueIn(boot, e)
    BY DEF ValueIn
  <2>2. NothingMoved => NothingMoved'
    BY <1>3 DEF NothingMoved, InitialInputState
  <2>3. \A e \in Encoders : ValueRight(mapper.value[e], e) => ValueRight(mapper.value[e], e)'
    BY <2>1 DEF ValueRight
  <2> QED BY <1>3, <2>1, <2>2, <2>3 DEF InputInv, EncodersRight
<1>6. LedsRight(mapper)'
  BY DEF InputInv, LedsRight
<1> QED BY <1>1, <1>2, <1>4, <1>5, <1>6 DEF InputInv

(* It survives a report.                                                   *)
LEMMA IInvRead == IInv /\ (ReadReport \/ ReadOther) => IInv'
<1> SUFFICES ASSUME IInv, ReadReport \/ ReadOther PROVE IInv'
  OBVIOUS
<1>1. /\ UNCHANGED <<boot, mapper, out_buf, client, budget, host, device>>
      /\ pc = "read" /\ pc' = "handle"
  BY ReadFacts DEF IInv, InputInv
<1>2. InputInv'
  BY ReadInv DEF IInv
<1>3. OutTyped'
  BY <1>1 DEF IInv, OutTyped
<1>4. Informed'
  BY <1>1, InformedKept DEF IInv
<1>5. \E led \in [Buttons -> Levels] : device' = OutReport(led)
  BY <1>1 DEF IInv
<1> QED BY <1>1, <1>2, <1>3, <1>4, <1>5 DEF IInv, OutReport

(* It survives write(), which shows the LEDs of the mapper on the device.  *)
LEMMA IInvWriteDevice == IInv /\ WriteDevice => IInv'
<1> SUFFICES ASSUME IInv, WriteDevice PROVE IInv'
  OBVIOUS
<1>1. /\ pc = "handle" /\ input_events = <<>> /\ pc' = "read" /\ device' = OutReport(mapper.led)
      /\ UNCHANGED <<position, flips, turned, boot, input_state, input_events, mapper, out_buf, client, budget, host>>
  BY DEF WriteDevice, hands, jack
<1>2. InputInv'
  BY <1>1, SameInput DEF IInv
<1>3. OutTyped'
  BY <1>1 DEF IInv, OutTyped
<1>4. Informed'
  BY <1>1, InformedKept DEF IInv
<1>5. mapper.led \in [Buttons -> Levels]
  BY DEF IInv, InputInv, Typed, Mappers
<1>6. device' = OutReport(mapper'.led)
  BY <1>1
<1>7. \E led \in [Buttons -> Levels] : device' = OutReport(led)
  BY <1>1, <1>5
<1> QED BY <1>2, <1>3, <1>4, <1>6, <1>7 DEF IInv, OutReport

(* It survives the start and the end of a cycle.                           *)
LEMMA IInvCycle == IInv /\ (BeginCycle \/ EndCycle) => IInv'
<1> SUFFICES ASSUME IInv, BeginCycle \/ EndCycle PROVE IInv'
  OBVIOUS
<1>1. /\ pc # "aborted" /\ client' \in {"idle", "writing", "dropped"} /\ budget' \in {0, MaxPerCycle}
      /\ UNCHANGED <<position, flips, turned, boot, input_state, input_events, mapper, pc, out_buf, host, device>>
  BY DEF BeginCycle, EndCycle, hands
<1>2. InputInv'
  BY <1>1, SameInput DEF IInv
<1>3. OutTyped'
  BY <1>1, MaxPerCycleAssumption DEF IInv, OutTyped
<1>4. Informed'
  BY <1>1, InformedKept DEF IInv
<1>5. pc' = "read" => device' = OutReport(mapper'.led)
  BY <1>1 DEF IInv
<1>6. \E led \in [Buttons -> Levels] : device' = OutReport(led)
  BY <1>1 DEF IInv
<1> QED BY <1>2, <1>3, <1>4, <1>5, <1>6 DEF IInv, OutReport

(* It survives a port that takes no message, which ends the process.       *)
LEMMA IInvRefused == IInv /\ PortRefuses => IInv'
<1> SUFFICES ASSUME IInv, PortRefuses PROVE IInv'
  OBVIOUS
<1>1. /\ pc' = "aborted"
      /\ UNCHANGED <<position, flips, turned, boot, input_state, input_events, mapper,
                     out_buf, client, budget, host, device>>
  BY DEF PortRefuses, hands, jack
<1>2. InputInv'
  BY <1>1, SameInput DEF IInv
<1>3. OutTyped'
  BY <1>1 DEF IInv, OutTyped
<1> QED BY <1>1, <1>2, <1>3 DEF IInv, OutReport

(* It survives a message to the host, which is news.                       *)
LEMMA IInvWriteMidi == IInv /\ WriteMidi => IInv' /\ host' # host
<1> SUFFICES ASSUME IInv, WriteMidi PROVE IInv' /\ host' # host
  OBVIOUS
<1>1. /\ pc # "aborted" /\ budget > 0 /\ out_buf # <<>> /\ budget' = budget - 1
      /\ host' = Receive(host, Head(out_buf)) /\ out_buf' = Tail(out_buf)
      /\ UNCHANGED <<position, flips, turned, boot, input_state, input_events, mapper, pc, client, device>>
  BY DEF WriteMidi, CanWrite, hands
<1>2. /\ out_buf \in Seq(MidiOut) /\ Len(out_buf) <= OutCapacity
      /\ client \in {"idle", "writing", "dropped"} /\ budget \in 0 .. MaxPerCycle
  BY DEF IInv, OutTyped
<1>3. PICK H : Chain(H) /\ Knows(H[Len(H)], mapper)
  BY <1>1 DEF IInv, Informed
<1> DEFINE G == Tail(H)
<1>4. Chain(G)' /\ G[Len(G)] = H[Len(H)] /\ host' # host
  BY <1>1, <1>2, <1>3, ChainPop
<1>5. Informed'
  <2> HIDE DEF G
  <2> QED BY <1>1, <1>3, <1>4 DEF Informed, Knows, Hosts
<1>6. OutTyped'
  <2>1. out_buf' \in Seq(MidiOut) /\ Len(out_buf') = Len(out_buf) - 1 /\ Len(out_buf) \in Nat
    BY <1>1, <1>2, HeadTailProperties, LenProperties
  <2>2. budget' \in 0 .. MaxPerCycle /\ Len(out_buf') <= OutCapacity
    BY <1>1, <1>2, <2>1, MaxPerCycleAssumption, OutCapacityAssumption
  <2> QED BY <1>1, <1>2, <2>1, <2>2 DEF OutTyped
<1>7. InputInv'
  BY <1>1, SameInput DEF IInv
<1> QED BY <1>1, <1>4, <1>5, <1>6, <1>7 DEF IInv, OutReport

(* It survives every step.                                                 *)
LEMMA IInvNext == IInv /\ [Next]_vars => IInv'
<1> SUFFICES ASSUME IInv, [Next]_vars PROVE IInv'
  OBVIOUS
<1>1. CASE ReadReport \/ ReadOther
  BY <1>1, IInvRead
<1>2. CASE HandleEvent
  BY <1>2, IInvHandle
<1>3. CASE WriteDevice
  BY <1>3, IInvWriteDevice
<1>4. CASE BeginCycle \/ EndCycle
  BY <1>4, IInvCycle
<1>5. CASE WriteMidi
  BY <1>5, IInvWriteMidi
<1>6. CASE PortRefuses
  BY <1>6, IInvRefused
<1>7. CASE UNCHANGED vars
  <2>1. UNCHANGED <<position, flips, turned, boot, input_state, input_events, mapper, pc, out_buf, client, budget, host, device>>
    BY <1>7 DEF vars, hands, jack
  <2>2. InputInv'
    BY <2>1, SameInput DEF IInv
  <2>3. OutTyped'
    BY <2>1 DEF IInv, OutTyped
  <2>4. pc' # "aborted" => Informed'
    BY <2>1, InformedKept DEF IInv
  <2> QED BY <2>1, <2>2, <2>3, <2>4 DEF IInv, OutReport
<1> QED BY <1>1, <1>2, <1>3, <1>4, <1>5, <1>6, <1>7 DEF Next, InputStep, JackStep

(* The inductive invariant holds in every reachable state, for any         *)
(* positions, any memory, any toggle buttons and any capacity.             *)
THEOREM Invariant == Spec => []IInv
BY IInvInit, IInvNext, PTL DEF Spec

-----------------------------------------------------------------------------
(* update_out_report(): the LED bytes of a button have its level.          *)
LEMMA OutReportOf ==
  ASSUME NEW led \in [Buttons -> Levels]
  PROVE  /\ OutReport(led) \in [0 .. 80 -> Byte]
         /\ \A b \in Buttons : \A k \in LedBytes(b) : OutReport(led)[k] = led[b]
<1>1. \A v \in Levels : v \in Byte
  BY DEF Levels, Byte
<1>2. 0 \in Byte /\ 128 \in Byte
  BY DEF Byte
<1>3. \A b \in Buttons : led[b] \in Byte
  BY <1>1
<1>4. \A k \in 0 .. 80 :
        /\ k \in 17 .. 24 => <<"SPECIAL", k - 16>> \in Buttons
        /\ k \in 25 .. 72 => <<"MATRIX", (k - 25) \div 3>> \in Buttons
        /\ k \in 73 .. 80 => <<"STOP", 3 - ((k - 73) \div 2)>> \in Buttons
  BY DEF Buttons, Matrix, Special, Stop
<1>5. \A k \in 0 .. 80 : OutReport(led)[k] \in Byte
  BY <1>2, <1>3, <1>4 DEF OutReport
<1>6. OutReport(led) \in [0 .. 80 -> Byte]
  BY <1>5 DEF OutReport
<1>7. ASSUME NEW b \in Buttons, NEW k \in LedBytes(b) PROVE OutReport(led)[k] = led[b]
  <2>1. CASE b[1] = "MATRIX"
    <3>1. PICK i \in 0 .. 15 : b = <<"MATRIX", i>>
      BY <2>1 DEF Buttons, Matrix
    <3>2. k \in 25 + 3 * i .. 27 + 3 * i
      BY <3>1, <1>7 DEF LedBytes
    <3>3. k \in 0 .. 80 /\ k \in 25 .. 72 /\ k \notin 17 .. 24 /\ k # 0 /\ (k - 25) \div 3 = i
      BY <3>2
    <3> QED BY <3>1, <3>3 DEF OutReport
  <2>2. CASE b[1] = "SPECIAL"
    <3>1. PICK i \in 0 .. 8 : b = <<"SPECIAL", i>>
      BY <2>2 DEF Buttons, Special
    <3>2. k = 16 + i /\ i # 0
      BY <3>1, <1>7 DEF LedBytes
    <3>3. k \in 0 .. 80 /\ k \in 17 .. 24 /\ k # 0 /\ k - 16 = i
      BY <3>1, <3>2
    <3> QED BY <3>1, <3>3 DEF OutReport
  <2>3. CASE b[1] = "STOP"
    <3>1. PICK i \in 0 .. 3 : b = <<"STOP", i>>
      BY <2>3 DEF Buttons, Stop
    <3>2. k \in 79 - 2 * i .. 80 - 2 * i
      BY <3>1, <1>7 DEF LedBytes
    <3>3. /\ k \in 0 .. 80 /\ k \in 73 .. 80 /\ k \notin 17 .. 24 /\ k \notin 25 .. 72 /\ k # 0
          /\ 3 - ((k - 73) \div 2) = i
      BY <3>2
    <3> QED BY <3>1, <3>3 DEF OutReport
  <2> QED BY <2>1, <2>2, <2>3 DEF Buttons
<1> QED BY <1>6, <1>7

(* Between two reports the drained host has what the mapper has, and no    *)
(* event is left.                                                          *)
LEMMA DrainedKnows ==
  ASSUME IInv, Waiting
  PROVE  /\ \A b \in Buttons : Drained.on[Note(b)] = mapper.on[b]
         /\ \A e \in Encoders : Drained.cc[Controller(e)] = mapper.value[e]
         /\ \A c : ~About(c)
<1>1. pc = "read" /\ OutTyped /\ Informed
  BY DEF IInv, Waiting
<1>2. PICK H : Chain(H) /\ Knows(H[Len(H)], mapper)
  BY <1>1 DEF Informed
<1>3. Len(out_buf) \in Nat
  BY <1>1, LenProperties DEF OutTyped
<1>4. Drained = H[Len(H)]
  BY <1>2, <1>3, ChainEnd
<1>5. input_events = <<>>
  BY <1>1 DEF IInv, InputInv, Typed
<1> QED BY <1>2, <1>4, <1>5, NoEvents DEF Knows

(* The program's variables keep their types: no level and no MIDI data     *)
(* byte has more than seven bits, and out_buf holds no more than it can.   *)
THEOREM TypeCorrect == Spec => []TypeOK
<1>1. IInv => TypeOK
  <2> SUFFICES ASSUME IInv PROVE TypeOK
    OBVIOUS
  <2>1. Typed /\ OutTyped
    BY DEF IInv, InputInv
  <2>2. ASSUME NEW k \in 1 .. Len(input_events)
        PROVE  input_events[k].type \in {"MATRIX", "SPECIAL", "STOP", "FADER", "KNOB", "WHEEL"}
    <3>1. input_events[k] \in InputEvent
      BY <2>1, ElementOfSeq DEF Typed
    <3> QED BY <3>1, ControlOf
  <2>3. device \in [0 .. 80 -> Byte]
    BY OutReportOf DEF IInv
  <2>4. mapper \in [on : Bits(Buttons), value : [Encoders -> Levels], led : [Buttons -> Levels]]
    BY <2>1 DEF Typed, Mappers
  <2> QED BY <2>1, <2>2, <2>3, <2>4 DEF TypeOK, Typed, OutTyped
<1> QED BY Invariant, <1>1, PTL

(* Whatever buttons are pressed in whatever order and however the two      *)
(* threads interleave: what was sent and what is queued leave exactly the  *)
(* notes sounding that the user turned on, with any toggle buttons.        *)
THEOREM HostHearsTheButtons == Spec => []HostHearsButtons
<1>1. IInv => HostHearsButtons
  <2> SUFFICES ASSUME IInv, Waiting, NEW b \in Buttons PROVE Drained.on[Note(b)] <=> IsOn(b)
    BY DEF HostHearsButtons
  <2>1. Drained.on[Note(b)] = mapper.on[b] /\ ~ToCome(b)
    BY DrainedKnows DEF ToCome
  <2>2. mapper.on[b] = IsOn(b)
    BY <2>1 DEF IInv, InputInv, ButtonsRight
  <2> QED BY <2>1, <2>2
<1> QED BY Invariant, <1>1, PTL

(* Whatever the positions: the host has each fader and knob to the nearest *)
(* of 128 values, except for one that never left the place the memory      *)
(* happened to hold.                                                       *)
THEOREM HostHasTheEncoders == Spec => []HostHasEncoders
<1>1. IInv => HostHasEncoders
  <2> SUFFICES ASSUME IInv, Waiting, NEW e \in Encoders
               PROVE  \/ Nearest(Drained.cc[Controller(e)], EncoderPosition(e))
                      \/ Drained.cc[Controller(e)] = 0 /\ EncoderPosition(e) = EncoderBoot(e)
                      \/ input_state = InitialInputState(boot)
    BY DEF HostHasEncoders
  <2> DEFINE v == mapper.value[e]
             p == ValueIn(position, e)
  <2>1. Drained.cc[Controller(e)] = v /\ ~About(e)
    BY DrainedKnows
  <2>2. EncoderPosition(e) = p /\ EncoderBoot(e) = ValueIn(boot, e)
    BY DEF EncoderPosition, EncoderBoot, ValueIn
  <2>3. NothingMoved \/ ValueRight(v, e)
    BY <2>1 DEF IInv, InputInv, EncodersRight
  <2>4. CASE NothingMoved
    BY <2>4 DEF NothingMoved
  <2>5. CASE v = Scale(p, FADERS_MAX, MIDI_MAX)
    <3>1. p \in 0 .. FADERS_MAX
      BY DEF IInv, InputInv, Typed, Position, ValueIn, Encoders
    <3> HIDE DEF v, p
    <3>2. Nearest(v, p)
      <4>1. v \in 0 .. 127 /\ 2 * (v * 4095 - p * 127) <= 4095 /\ 2 * (p * 127 - v * 4095) <= 4095
        BY <2>5, <3>1, ScaleLevel
      <4> QED BY <4>1, <3>1 DEF Nearest, Abs, FADERS_MAX, MIDI_MAX
    <3> QED BY <2>1, <2>2, <3>2
  <2>6. CASE v = 0 /\ p = ValueIn(boot, e)
    BY <2>1, <2>2, <2>6
  <2> QED BY <2>3, <2>4, <2>5, <2>6 DEF ValueRight
<1> QED BY Invariant, <1>1, PTL

(* With no button in a MIDI mode, as main() leaves them (OnlyHID), so that *)
(* nothing but the input thread writes to the device: after its write() a  *)
(* button is bright exactly when its note is on for the host.              *)
THEOREM LedsShowTheNotes == Spec => []LedsMatchNotes
<1>1. IInv => LedsMatchNotes
  <2> SUFFICES ASSUME IInv, Waiting, NEW b \in Buttons, NEW k \in LedBytes(b)
               PROVE  IF Drained.on[Note(b)] THEN device[k] = High ELSE device[k] \in {DARK, Low(b)}
    BY DEF LedsMatchNotes
  <2>1. Drained.on[Note(b)] = mapper.on[b]
    BY DrainedKnows
  <2>2. mapper.led \in [Buttons -> Levels] /\ device = OutReport(mapper.led)
    BY DEF IInv, InputInv, Typed, Mappers, Waiting
  <2>3. device[k] = mapper.led[b]
    BY <2>2, OutReportOf
  <2>4. IF mapper.on[b] THEN mapper.led[b] = High ELSE mapper.led[b] \in {DARK, Low(b)}
    <3>1. LitByHID(b)
      BY OnlyHID DEF LitByHID
    <3> QED BY <3>1 DEF IInv, InputInv, LedsRight
  <2> QED BY <2>1, <2>3, <2>4
<1> QED BY Invariant, <1>1, PTL

(* No message the process callback writes is one the host did not need.    *)
THEOREM NoRedundantMessage == Spec => EveryMessageIsNews
<1>1. IInv /\ [Next]_vars => [WriteMidi => host' # host]_vars
  BY IInvWriteMidi
<1> QED BY Invariant, <1>1, PTL DEF Spec, EveryMessageIsNews

-----------------------------------------------------------------------------
(* The wheel, and the step the host counts for a direction.                *)
Wheel == <<"WHEEL", 0>>
Step(direction) == IF direction > 0 THEN 1 ELSE -1

(* There is an event of the wheel exactly when it turned, with the         *)
(* difference of the two positions as its direction.                       *)
LEMMA WheelChanges ==
  ASSUME NEW old \in InputStates, NEW new \in InputStates
  PROVE  /\ (\E x \in ChangesBetween(old, new) : Control(x) = Wheel) <=> new.wheel # old.wheel
         /\ \A x \in ChangesBetween(old, new) :
              Control(x) = Wheel => x.direction = WheelDirection(old.wheel, new.wheel)
<1> DEFINE X == ChangesBetween(old, new)
           T == Turns(old.wheel, new.wheel)
<1>1. \A x \in X : Control(x) = Wheel => x \in T
  BY DEF ChangesBetween, Presses, Moves, Turns, ButtonEvent, EncoderEvent, Control, Wheel
<1>2. \A x \in T : x \in X
  BY DEF ChangesBetween
<1>3. \A x \in T : x.direction = WheelDirection(old.wheel, new.wheel) /\ Control(x) = Wheel
  BY DEF Turns, WheelEvent, Control, Wheel
<1>4. (\E x \in T : TRUE) <=> new.wheel # old.wheel
  BY DEF Turns
<1> HIDE DEF X, T
<1> QED BY <1>1, <1>2, <1>3, <1>4 DEF X

(* Remainders of the numbers below 256 and their neighbours.               *)
LEMMA Modulo ==
  /\ \A v, w \in 0 .. 255 : (v - w) % 256 = IF v >= w THEN v - w ELSE v - w + 256
  /\ \A t \in 0 .. 255 : /\ (t + 1) % 256 = IF t = 255 THEN 0 ELSE t + 1
                         /\ (t + (-1)) % 256 = IF t = 0 THEN 255 ELSE t - 1
                         /\ (t - 1) % 256 = IF t = 0 THEN 255 ELSE t - 1
<1>1. \A v, w \in 0 .. 255 : (v - w) % 256 = IF v >= w THEN v - w ELSE v - w + 256
  OBVIOUS
<1>2. \A t \in 0 .. 255 : (t + 1) % 256 = IF t = 255 THEN 0 ELSE t + 1
  OBVIOUS
<1>3. \A t \in 0 .. 255 : (t + (-1)) % 256 = IF t = 0 THEN 255 ELSE t - 1
  OBVIOUS
<1>4. \A t \in 0 .. 255 : (t - 1) % 256 = IF t = 0 THEN 255 ELSE t - 1
  OBVIOUS
<1> QED BY <1>1, <1>2, <1>3, <1>4

(* The sign of the direction is the way round that is shorter.             *)
LEMMA StepIsTurn ==
  ASSUME NEW v \in Byte, NEW w \in Byte, v # w
  PROVE  Step(WheelDirection(v, w)) = Turn(v, w)
<1> DEFINE d == (w - v) % 256
<1>1. v \in 0 .. 255 /\ w \in 0 .. 255
  BY DEF Byte
<1>2. d \in 1 .. 255
  <2>1. d = IF w >= v THEN w - v ELSE w - v + 256
    BY <1>1, Modulo
  <2> HIDE DEF d
  <2> QED BY <1>1, <2>1
<1>3. WheelDirection(v, w) = IF d >= 128 THEN d - 256 ELSE d
  BY DEF WheelDirection, WheelSteps
<1>4. Turn(v, w) = IF d = 0 THEN 0 ELSE IF 2 * d < 256 THEN 1 ELSE -1
  BY DEF Turn, WheelSteps
<1> HIDE DEF d
<1> QED BY <1>2, <1>3, <1>4 DEF Step

(* ChainEnd as a fact about every chain.                                   *)
ChainsEndDrained == \A H : Chain(H) /\ out_buf \in Seq(MidiOut) => Drained = H[Len(H)]

(* It holds of every state.                                                *)
LEMMA ChainEnds == ChainsEndDrained
BY ChainEnd, LenProperties DEF ChainsEndDrained

(* Only a queued message changes what the drained host will have.          *)
LEMMA DrainedStays ==
  ASSUME IInv, Next, ~HandleEvent, pc' # "aborted"
  PROVE  Drained' = Drained
<1>1. /\ ReadReport \/ ReadOther \/ WriteDevice \/ BeginCycle \/ EndCycle \/ WriteMidi
      /\ pc # "aborted"
  <2>1. CASE ReadReport \/ ReadOther
    BY <2>1 DEF ReadReport, ReadOther, Decode
  <2>2. CASE WriteDevice \/ BeginCycle \/ EndCycle \/ WriteMidi
    BY <2>2 DEF WriteDevice, BeginCycle, EndCycle, WriteMidi, CanWrite
  <2>3. ~PortRefuses
    BY DEF PortRefuses
  <2> QED BY <2>1, <2>2, <2>3 DEF Next, InputStep, JackStep
<1>2. PICK H : Chain(H) /\ Knows(H[Len(H)], mapper)
  BY <1>1 DEF IInv, Informed
<1>3. out_buf \in Seq(MidiOut)
  BY DEF IInv, OutTyped
<1>4. out_buf' \in Seq(MidiOut)
  BY IInvNext DEF IInv, OutTyped
<1>5. \E G : Chain(G)' /\ G[Len(G)] = H[Len(H)]
  <2>1. CASE WriteMidi
    BY <2>1, <1>2, <1>3, ChainPop DEF WriteMidi, CanWrite
  <2>2. CASE ~WriteMidi
    <3>1. UNCHANGED <<out_buf, host>>
      BY <1>1, <2>2 DEF ReadReport, ReadOther, Decode, WriteDevice, BeginCycle, EndCycle
    <3>2. Chain(H)'
      BY <1>2, <3>1 DEF Chain, Receive, Hosts
    <3> QED BY <3>2
  <2> QED BY <2>1, <2>2
<1>6. ChainsEndDrained'
  BY ChainEnds, PTL
<1>7. PICK G : Chain(G)' /\ G[Len(G)] = H[Len(H)]
  BY <1>5
<1>8. Drained' = G[Len(G)]
  BY <1>4, <1>6, <1>7 DEF ChainsEndDrained, Chain
<1> QED BY <1>2, <1>3, <1>7, <1>8, ChainEnds DEF ChainsEndDrained

(* A queued message is received after those before it.                     *)
LEMMA DrainedGrows ==
  ASSUME IInv, HandleEvent, pc' # "aborted",
         NEW r, r = ProcessHIDInput(Head(input_events), mapper)
  PROVE  /\ Drained \in Hosts
         /\ \/ r.midi = <<>> /\ Drained' = Drained
            \/ \E y \in MidiOut : r.midi = <<y>> /\ Drained' = Receive(Drained, y)
<1>1. Informs(r.midi, mapper, mapper')
  BY HandleInv DEF IInv
<1>2. pc # "aborted" /\ UNCHANGED host /\ out_buf' = out_buf \o r.midi
  BY DEF HandleEvent
<1>3. PICK H : Chain(H) /\ Knows(H[Len(H)], mapper)
  BY <1>2 DEF IInv, Informed
<1>4. out_buf \in Seq(MidiOut) /\ out_buf' \in Seq(MidiOut)
  BY IInvHandle DEF IInv, OutTyped
<1>5. Drained = H[Len(H)] /\ Drained \in Hosts
  BY <1>3, <1>4, ChainEnds DEF Knows, ChainsEndDrained
<1>6. ChainsEndDrained'
  BY ChainEnds, PTL
<1>7. CASE r.midi = <<>>
  <2>1. UNCHANGED <<out_buf, host>>
    BY <1>2, <1>4, <1>7, ConcatEmptySeq
  <2>2. Chain(H)'
    BY <1>3, <2>1 DEF Chain, Receive, Hosts
  <2>3. Drained' = H[Len(H)]
    BY <1>4, <1>6, <2>2 DEF ChainsEndDrained
  <2> QED BY <1>5, <1>7, <2>3
<1>8. CASE r.midi # <<>>
  <2>1. PICK y \in MidiOut : /\ r.midi = <<y>>
                             /\ \A h : Knows(h, mapper) => Receive(h, y) # h /\ Knows(Receive(h, y), mapper')
    BY <1>1, <1>8 DEF Informs
  <2> DEFINE g == Receive(H[Len(H)], y)
             G == Append(H, g)
  <2>2. g # H[Len(H)] /\ g \in Hosts
    BY <1>3, <2>1 DEF Knows
  <2>3. out_buf' = out_buf \o <<y>>
    BY <1>2, <2>1
  <2>4. Chain(G)' /\ G[Len(G)] = g
    BY <1>2, <1>3, <1>4, <2>2, <2>3, ChainPush
  <2>5. Drained' = g
    <3> HIDE DEF G, g
    <3> QED BY <1>4, <1>6, <2>4 DEF ChainsEndDrained
  <2> QED BY <1>5, <2>1, <2>5
<1> QED BY <1>5, <1>7, <1>8

-----------------------------------------------------------------------------
(* The wheel: the drained host has counted all its steps, or all but the   *)
(* one of the event still to come.                                         *)
WheelInv ==
  /\ IInv
  /\ input_state.wheel = position.wheel
  /\ pc # "aborted" =>
       /\ ~About(Wheel) => Drained.turned = turned
       /\ \A i \in 1 .. Len(input_events) : Control(input_events[i]) = Wheel =>
            (Drained.turned + Step(input_events[i].direction)) % WheelSteps = turned

(* It holds at first.                                                      *)
LEMMA WheelInvInit == Init => WheelInv
<1> SUFFICES ASSUME Init PROVE WheelInv
  OBVIOUS
<1>1. IInv
  BY IInvInit
<1>2. /\ host.turned = 0 /\ turned = 0 /\ out_buf = <<>> /\ input_events = <<>>
      /\ input_state.wheel = boot.wheel
  BY DEF Init, NoHost, InitialInputState
<1>3. Drained = host
  <2> DEFINE H == <<host>>
  <2>1. host \in Hosts
    BY NoHostKnows DEF Knows
  <2>2. Chain(H) /\ H[Len(H)] = host
    BY <1>2, <2>1, ChainStart
  <2>3. out_buf \in Seq(MidiOut)
    BY <1>1 DEF IInv, OutTyped
  <2> HIDE DEF H
  <2> QED BY <2>2, <2>3, ChainEnds DEF ChainsEndDrained
<1>4. position.wheel = boot.wheel
  <2>1. PICK p \in Positions : position = [p EXCEPT !.held = {}, !.wheel = boot.wheel]
    BY DEF Init
  <2>2. p \in Position
    BY PositionsAssumption
  <2> QED BY <2>1, <2>2 DEF Position
<1>5. Len(input_events) = 0
  BY <1>2, EmptySeq
<1> QED BY <1>1, <1>2, <1>3, <1>4, <1>5 DEF WheelInv

(* It survives a report.                                                   *)
LEMMA WheelRead ==
  ASSUME WheelInv, ReadReport \/ ReadOther
  PROVE  WheelInv'
<1>1. IInv /\ InputInv /\ Typed /\ InputInv' /\ Typed'
  BY ReadInv DEF WheelInv, IInv, InputInv
<1>2. /\ pc = "read" /\ pc' = "handle"
      /\ input_events' = GenerateInputEvents(input_state, input_state')
      /\ input_events = <<>>
  BY <1>1, ReadFacts DEF Typed
<1>3. input_state'.wheel = position'.wheel /\ input_state.wheel = position.wheel
  <2>1. Decoded(position').wheel = position'.wheel
    BY DEF Decoded
  <2> QED BY <1>1, <2>1, ReadFacts DEF WheelInv
<1>4. IInv'
  BY <1>1, IInvRead
<1>5. Drained' = Drained
  BY <1>1, <1>2, DrainedStays DEF Next, InputStep, HandleEvent
<1> DEFINE v == position.wheel
           w == position'.wheel
           t == Drained.turned
<1>6. v \in Byte /\ w \in Byte /\ turned \in 0 .. 255
  BY <1>1 DEF Typed, Position, WheelSteps
<1>7. turned' = (turned + Turn(v, w)) % WheelSteps \/ (v = w /\ turned' = turned)
  BY DEF ReadReport, ReadOther, hands
<1>8. t = turned
  <2>1. ~About(Wheel)
    BY <1>2, NoEvents
  <2> QED BY <1>2, <2>1 DEF WheelInv
<1>9. v = w => turned' = turned
  <2>1. Turn(v, v) = 0
    <3>1. (v - v) % WheelSteps = 0
      BY <1>6 DEF Byte, WheelSteps
    <3> QED BY <3>1 DEF Turn
  <2> HIDE DEF v, w
  <2>2. (turned + 0) % WheelSteps = turned
    BY <1>6 DEF WheelSteps
  <2> QED BY <1>7, <2>1, <2>2
<1> DEFINE X == ChangesBetween(input_state, input_state')
           s == input_events'
<1>10. Lists(s, X)
  BY <1>1, <1>2, EventsList DEF Typed
<1>11. /\ (\E x \in X : Control(x) = Wheel) <=> w # v
       /\ \A x \in X : Control(x) = Wheel => x.direction = WheelDirection(v, w)
  BY <1>1, <1>3, WheelChanges DEF Typed
<1>12. (w # v => \E i \in 1 .. Len(s) : Control(s[i]) = Wheel)
       /\ \A i \in 1 .. Len(s) : Control(s[i]) = Wheel => w # v /\ s[i].direction = WheelDirection(v, w)
  <2> HIDE DEF s, X, v, w
  <2>1. \A i \in 1 .. Len(s) : s[i] \in X
    BY <1>10, ElementOfSeq DEF Lists
  <2> QED BY <1>10, <1>11, <2>1 DEF Lists
<1>13. w # v => (t + Step(WheelDirection(v, w))) % WheelSteps = turned'
  <2> HIDE DEF v, w, t
  <2> QED BY <1>6, <1>7, <1>8, StepIsTurn
<1>14. (~About(Wheel))' => Drained'.turned = turned'
  <2>1. (~About(Wheel))' => w = v
    BY <1>12 DEF About, Control
  <2> QED BY <2>1, <1>5, <1>8, <1>9
<1>15. \A i \in 1 .. Len(input_events') : Control(input_events'[i]) = Wheel =>
         (Drained'.turned + Step(input_events'[i].direction)) % WheelSteps = turned'
  BY <1>5, <1>12, <1>13
<1> QED BY <1>3, <1>4, <1>14, <1>15 DEF WheelInv, Control, Wheel

(* The message of the wheel depends on the sign of the direction only.     *)
LEMMA ProcessTurn ==
  ASSUME NEW x, Control(x) = Wheel, NEW m, NEW r, r = ProcessHIDInput(x, m)
  PROVE  r.midi = <<MidiEvent("CONTROL_CHANGE", OutChannel, WheelController,
                              IF x.direction > 0 THEN wheel_inc_value ELSE wheel_dec_value)>>
BY Disjoint DEF ProcessHIDInput, Control, Wheel

(* No other event emits a message of the wheel.                            *)
LEMMA OthersDoNotTurn ==
  ASSUME InputInv, NEW x \in InputEvent, Control(x) # Wheel,
         Control(x) \in Encoders => x.value = ValueIn(position, Control(x)),
         NEW r, r = ProcessHIDInput(x, mapper), NEW y, r.midi = <<y>>, NEW h \in Hosts
  PROVE  Receive(h, y).turned = h.turned
<1> DEFINE c == Control(x)
<1>1. mapper \in Mappers /\ LedsRight(mapper) /\ position \in Position
  BY DEF InputInv, Typed
<1>2. <<y>>[1] = y /\ <<y>> # <<>>
  OBVIOUS
<1>3. CASE c \in Buttons
  <2> DEFINE v == ButtonOn(c, x.press, mapper.on[c])
  <2>1. ButtonEmits(c, x.press)
    BY <1>2, <1>3, ProcessRelease
  <2>2. r.midi = <<NoteEvent(c, v)>> /\ v \in BOOLEAN
    <3>1. mapper.on[c] \in BOOLEAN /\ x.press \in BOOLEAN
      BY <1>1, <1>3, ControlOf, Disjoint DEF Mappers, Bits
    <3>2. v \in BOOLEAN
      <4> HIDE DEF c
      <4> QED BY <3>1 DEF ButtonOn
    <3>3. r.midi = <<NoteEvent(c, v)>>
      BY <1>3, <2>1 DEF ProcessHIDInput, Control
    <3> QED BY <3>2, <3>3
  <2> HIDE DEF v, c
  <2>3. y = NoteEvent(c, v)
    BY <2>2, <1>2
  <2> QED BY <1>3, <2>2, <2>3, ReceiveNote
<1>4. CASE c \in Encoders
  <2> DEFINE v == Scale(x.value, FADERS_MAX, MIDI_MAX)
             m == MidiEvent("CONTROL_CHANGE", OutChannel, Controller(c), v)
  <2>1. x.value \in 0 .. FADERS_MAX
    BY <1>1, <1>4 DEF ValueIn, Encoders, Position
  <2>2. v \in Levels /\ r.midi = IF v # mapper.value[c] THEN <<m>> ELSE <<>>
    <3>1. v \in Levels
      BY <2>1, ScaleLevel DEF Levels
    <3>2. c \notin Buttons
      BY <1>4, Disjoint
    <3>3. r.midi = IF v # mapper.value[c] THEN <<m>> ELSE <<>>
      BY <1>4, <3>2 DEF ProcessHIDInput, Control, EncoderEmits
    <3> QED BY <3>1, <3>3
  <2> HIDE DEF v, c, m
  <2>3. y = m
    BY <2>2, <1>2
  <2> QED BY <1>4, <2>2, <2>3, ReceiveValue DEF m
<1> QED BY <1>3, <1>4, ControlOf DEF Wheel

(* It survives an event: the one of the wheel is the step that was         *)
(* missing.                                                                *)
LEMMA WheelHandle ==
  ASSUME WheelInv, HandleEvent
  PROVE  WheelInv'
<1> DEFINE x == Head(input_events)
           c == Control(x)
           r == ProcessHIDInput(x, mapper)
           t == Drained.turned
<1>1. IInv /\ InputInv /\ Typed /\ EventsRight /\ IInv'
  BY IInvHandle DEF WheelInv, IInv, InputInv
<1>2. /\ pc = "handle" /\ input_events # <<>> /\ input_events' = Tail(input_events)
      /\ UNCHANGED <<position, flips, turned, boot, input_state>>
  BY DEF HandleEvent, hands
<1>3. input_state'.wheel = position'.wheel /\ turned' = turned
  BY <1>2 DEF WheelInv
<1>4. /\ x \in InputEvent
      /\ c \in Encoders => x.value = ValueIn(position, c)
      /\ \A d : About(d)' <=> About(d) /\ d # c
      /\ About(c)
  BY <1>1, <1>2, TailEvents
<1>5. /\ Len(input_events) \in Nat /\ Len(input_events) # 0 /\ Len(input_events') = Len(input_events) - 1
      /\ x = input_events[1]
      /\ \A i \in 1 .. Len(input_events) - 1 : input_events'[i] = input_events[i + 1]
  <2>1. input_events \in Seq(InputEvent)
    BY <1>1 DEF Typed
  <2> QED BY <2>1, <1>2, HeadTailProperties, LenProperties, EmptySeq
<1>6. /\ ~About(Wheel) => t = turned
      /\ \A i \in 1 .. Len(input_events) : Control(input_events[i]) = Wheel =>
           (t + Step(input_events[i].direction)) % WheelSteps = turned
  BY <1>2 DEF WheelInv
<1>7. ASSUME pc' # "aborted"
      PROVE  /\ (~About(Wheel))' => Drained'.turned = turned
             /\ \A i \in 1 .. Len(input_events') : Control(input_events'[i]) = Wheel =>
                  (Drained'.turned + Step(input_events'[i].direction)) % WheelSteps = turned
  <2>1. /\ Drained \in Hosts
        /\ \/ r.midi = <<>> /\ Drained' = Drained
           \/ \E y \in MidiOut : r.midi = <<y>> /\ Drained' = Receive(Drained, y)
    BY <1>1, <1>7, DrainedGrows
  <2>2. CASE c = Wheel
    <3> DEFINE d == x.direction
               v == IF d > 0 THEN wheel_inc_value ELSE wheel_dec_value
               m == MidiEvent("CONTROL_CHANGE", OutChannel, WheelController, v)
    <3>1. r.midi = <<m>>
      BY <2>2, ProcessTurn
    <3>2. Drained' = Receive(Drained, m)
      <4> HIDE DEF m, r
      <4>1. <<m>> # <<>> /\ \A y : <<m>> = <<y>> => m = y
        OBVIOUS
      <4> QED BY <2>1, <3>1, <4>1
    <3>3. Drained'.turned = (IF v = wheel_inc_value THEN t + 1 ELSE t - 1) % WheelSteps
      <4> HIDE DEF v
      <4> QED BY <2>1, <3>2, ReceiveTurn
    <3>4. t \in Int
      <4>1. \A h \in Hosts : h.turned \in 0 .. 255
        BY DEF Hosts
      <4>2. t \in 0 .. 255
        BY <2>1, <4>1
      <4> HIDE DEF t
      <4> QED BY <4>2
    <3>5. (IF v = wheel_inc_value THEN t + 1 ELSE t - 1) = t + Step(d)
      <4> HIDE DEF t, d
      <4> QED BY <3>4 DEF Step, wheel_inc_value, wheel_dec_value
    <3>6. (t + Step(d)) % WheelSteps = turned
      <4>1. 1 \in 1 .. Len(input_events)
        BY <1>5
      <4> QED BY <2>2, <4>1, <1>5, <1>6
    <3>7. (~About(Wheel))' /\ \A i \in 1 .. Len(input_events') : Control(input_events'[i]) # Wheel
      <4>1. ~ (About(Wheel)')
        <5> HIDE DEF c
        <5> QED BY <2>2, <1>4
      <4> QED BY <4>1 DEF About, Control
    <3> QED BY <3>3, <3>5, <3>6, <3>7
  <2>3. CASE c # Wheel
    <3>1. Drained'.turned = t
      <4>1. ASSUME NEW y \in MidiOut, r.midi = <<y>> PROVE Receive(Drained, y).turned = t
        BY <1>1, <1>4, <2>1, <2>3, <4>1, OthersDoNotTurn
      <4> QED BY <2>1, <4>1
    <3>2. About(Wheel)' <=> About(Wheel)
      <4> HIDE DEF c
      <4> QED BY <2>3, <1>4
    <3>3. \A i \in 1 .. Len(input_events') : /\ i + 1 \in 1 .. Len(input_events)
                                             /\ input_events'[i] = input_events[i + 1]
      BY <1>5
    <3> HIDE DEF t
    <3> QED BY <3>1, <3>2, <3>3, <1>6
  <2> QED BY <2>2, <2>3
<1> QED BY <1>1, <1>3, <1>7 DEF WheelInv, Control, Wheel

(* It survives every step.                                                 *)
LEMMA WheelNext == WheelInv /\ [Next]_vars => WheelInv'
<1> SUFFICES ASSUME WheelInv, [Next]_vars PROVE WheelInv'
  OBVIOUS
<1>1. IInv /\ IInv'
  BY IInvNext DEF WheelInv
<1>2. CASE ReadReport \/ ReadOther
  BY <1>2, WheelRead
<1>3. CASE HandleEvent
  BY <1>3, WheelHandle
<1> DEFINE Aside == WriteDevice \/ BeginCycle \/ EndCycle \/ WriteMidi \/ PortRefuses
<1>4. CASE Aside \/ UNCHANGED vars
  <2>1. /\ UNCHANGED <<position, turned, input_state, input_events>>
        /\ pc' = pc \/ pc # "aborted"
    BY <1>4 DEF WriteDevice, BeginCycle, EndCycle, WriteMidi, CanWrite, PortRefuses, vars, hands
  <2>2. About(Wheel)' <=> About(Wheel)
    BY <2>1 DEF About, Control, Wheel
  <2>3. ASSUME pc' # "aborted" PROVE Drained' = Drained /\ pc # "aborted"
    <3>1. CASE UNCHANGED vars
      BY <2>3, <3>1 DEF vars, Drained, After, Receive
    <3>2. CASE Aside
      <4>1. ~HandleEvent
        BY <3>2, <2>3 DEF WriteDevice, BeginCycle, EndCycle, WriteMidi, CanWrite, PortRefuses, HandleEvent
      <4> QED BY <1>1, <2>1, <2>3, <3>2, <4>1, DrainedStays DEF Next, InputStep, JackStep
    <3> QED BY <1>4, <3>1, <3>2
  <2> QED BY <1>1, <2>1, <2>2, <2>3 DEF WheelInv, Control, Wheel
<1> QED BY <1>2, <1>3, <1>4 DEF Next, InputStep, JackStep

(* Whatever the memory held and however far the wheel turns between two    *)
(* reports: what was sent and what is queued add up to the steps that the  *)
(* reports show, each counted the shorter way round.                       *)
THEOREM HostFollowsTheWheel == Spec => []HostFollowsWheel
<1>1. WheelInv => HostFollowsWheel
  <2> SUFFICES ASSUME WheelInv, Waiting PROVE Drained.turned = turned
    BY DEF HostFollowsWheel
  <2>1. ~About(Wheel)
    BY DrainedKnows DEF WheelInv
  <2> QED BY <2>1 DEF WheelInv, Waiting
<1> QED BY WheelInvInit, WheelNext, <1>1, PTL DEF Spec

=============================================================================
