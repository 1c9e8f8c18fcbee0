-------------------------- MODULE F1ReportsProof --------------------------
(***************************************************************************)
(* What the reports of the device decode to, for every position of its     *)
(* controls (modules F1Device and F1Reports), and the order of the lists   *)
(* both drivers make of what changed. Both drivers' proofs rest on it.     *)
(***************************************************************************)
EXTENDS F1Reports, FiniteSetTheorems, FunctionTheorems, SequenceTheorems, TLAPS

(* Sequence s lists the set X: each of its elements, once.                 *)
Lists(s, X) ==
  /\ s \in Seq(X)
  /\ \A x \in X : \E k \in 1 .. Len(s) : s[k] = x
  /\ \A j, k \in 1 .. Len(s) : s[j] = s[k] => j = k

(* InOrder() lists a finite set of numbers: the rank of an index in it,    *)
(* which is what InOrder() counts, is a bijection.                         *)
LEMMA InOrderLists ==
  ASSUME NEW S \in SUBSET Nat, IsFiniteSet(S)
  PROVE  Lists(InOrder(S), S)
<1> DEFINE Upto(i) == {j \in S : j <= i}
           n == Cardinality(S)
           rank == [i \in S |-> Cardinality(Upto(i))]
<1>1. n \in Nat
  BY FS_CardinalityType
<1>2. ASSUME NEW i \in S
      PROVE  IsFiniteSet(Upto(i)) /\ Cardinality(Upto(i)) \in 1 .. n
  <2>1. IsFiniteSet(Upto(i)) /\ Cardinality(Upto(i)) <= n
    BY FS_Subset, Upto(i) \in SUBSET S
  <2>2. Cardinality(Upto(i)) \in Nat
    BY <2>1, FS_CardinalityType
  <2>3. i \in Upto(i)
    OBVIOUS
  <2>4. Cardinality(Upto(i)) # 0
    <3> HIDE DEF Upto
    <3> QED BY <2>1, <2>3, FS_EmptySet
  <2> HIDE DEF n, Upto
  <2> QED BY <2>1, <2>2, <2>4, <1>1
<1>3. ASSUME NEW i \in S, NEW j \in S, i < j
      PROVE  Cardinality(Upto(i)) < Cardinality(Upto(j))
  <2>1. Upto(i) \in SUBSET Upto(j) /\ j \in Upto(j) /\ j \notin Upto(i)
    <3>1. i \in Nat /\ j \in Nat /\ S \subseteq Nat
      OBVIOUS
    <3>2. \A x \in S : x <= i => x <= j
      BY <3>1, <1>3
    <3>3. ~(j <= i) /\ j <= j
      BY <3>1, <1>3
    <3> QED BY <3>2, <3>3
  <2>2. IsFiniteSet(Upto(j)) /\ Cardinality(Upto(i)) \in Nat /\ Cardinality(Upto(j)) \in Nat
    BY <1>2
  <2> HIDE DEF Upto
  <2>3. /\ Cardinality(Upto(i)) <= Cardinality(Upto(j))
        /\ Cardinality(Upto(j)) = Cardinality(Upto(i)) => Upto(j) = Upto(i)
    BY <2>1, <2>2, FS_Subset
  <2> QED BY <2>1, <2>2, <2>3
<1>4. rank \in Injection(S, 1 .. n)
  <2>1. rank \in [S -> 1 .. n]
    BY <1>2
  <2>2. ASSUME NEW i \in S, NEW j \in S, rank[i] = rank[j] PROVE i = j
    <3>1. Cardinality(Upto(i)) = Cardinality(Upto(j)) /\ Cardinality(Upto(i)) \in Nat
      BY <2>2, <1>2
    <3> HIDE DEF rank, Upto, n
    <3>2. ~(i < j) /\ ~(j < i)
      BY <3>1, <1>3
    <3> QED BY <3>2
  <2> HIDE DEF rank, n
  <2> QED BY <2>1, <2>2 DEF Injection, IsInjective
<1>5. rank \in Surjection(S, 1 .. n)
  <2>1. IsFiniteSet(1 .. n) /\ Cardinality(1 .. n) = n
    <3> HIDE DEF n
    <3> QED BY <1>1, FS_Interval
  <2> HIDE DEF rank, n
  <2>2. Cardinality(S) = n
    BY DEF n
  <2> QED BY <2>1, <2>2, <1>4, FS_Injection
<1>6. \A k \in 1 .. n : InOrder(S)[k] \in S /\ rank[InOrder(S)[k]] = k
  <2>1. ASSUME NEW k \in 1 .. n PROVE InOrder(S)[k] \in S /\ rank[InOrder(S)[k]] = k
    <3>1. \E i \in S : rank[i] = k
      <4> HIDE DEF rank, n
      <4> QED BY <1>5 DEF Surjection
    <3>2. \E i \in S : Cardinality({j \in S : j <= i}) = k
      BY <3>1
    <3>3. InOrder(S)[k] = CHOOSE i \in S : Cardinality({j \in S : j <= i}) = k
      BY DEF InOrder
    <3>4. InOrder(S)[k] \in S /\ Cardinality({j \in S : j <= InOrder(S)[k]}) = k
      BY <3>2, <3>3
    <3> QED BY <3>4
  <2> QED BY <2>1
<1>7. InOrder(S) \in Seq(S) /\ Len(InOrder(S)) = n
  <2> DEFINE e(k) == CHOOSE i \in S : Cardinality({j \in S : j <= i}) = k
  <2>1. InOrder(S) = [k \in 1 .. n |-> e(k)]
    BY DEF InOrder
  <2> HIDE DEF n, e
  <2>2. \A k \in 1 .. n : e(k) \in S
    BY <2>1, <1>6
  <2> QED BY <2>1, <2>2, <1>1
<1>8. \A i \in S : \E k \in 1 .. n : InOrder(S)[k] = i
  <2>1. ASSUME NEW i \in S PROVE \E k \in 1 .. n : InOrder(S)[k] = i
    <3> DEFINE k == rank[i]
    <3>1. k \in 1 .. n
      <4> HIDE DEF rank, n
      <4> QED BY <1>4 DEF Injection
    <3>2. InOrder(S)[k] \in S /\ rank[InOrder(S)[k]] = rank[i]
      BY <3>1, <1>6
    <3>3. InOrder(S)[k] = i
      <4> HIDE DEF rank, n
      <4> QED BY <3>2, <1>4 DEF Injection, IsInjective
    <3> QED BY <3>1, <3>3
  <2> QED BY <2>1
<1>9. \A j, k \in 1 .. n : InOrder(S)[j] = InOrder(S)[k] => j = k
  <2> HIDE DEF rank, n
  <2> QED BY <1>6
<1> HIDE DEF n, rank
<1> QED BY <1>6, <1>7, <1>8, <1>9 DEF Lists

(* ... and so any set of indexes of a group of controls.                   *)
LEMMA InOrderOf ==
  ASSUME NEW n \in Nat, NEW S \in SUBSET (0 .. n)
  PROVE  Lists(InOrder(S), S)
<1>1. IsFiniteSet(0 .. n)
  BY FS_Interval
<1>2. IsFiniteSet(S)
  BY <1>1, FS_Subset
<1>3. S \in SUBSET Nat
  OBVIOUS
<1> QED BY <1>2, <1>3, InOrderLists

(* Two lists of sets that share nothing make a list of both.               *)
LEMMA ListsConcat ==
  ASSUME NEW X, NEW Y, X \cap Y = {}, NEW s, NEW t, Lists(s, X), Lists(t, Y)
  PROVE  Lists(s \o t, X \cup Y)
<1> DEFINE m == Len(s)
           n == Len(t)
           q == s \o t
<1>1. s \in Seq(X \cup Y) /\ t \in Seq(X \cup Y) /\ s \in Seq(X) /\ t \in Seq(Y)
  BY SeqMonotonic DEF Lists
<1>2. m \in Nat /\ n \in Nat
  BY <1>1, LenProperties
<1>3. /\ q \in Seq(X \cup Y) /\ Len(q) = m + n
      /\ \A i \in 1 .. m + n : q[i] = IF i <= m THEN s[i] ELSE t[i - m]
  BY <1>1, ConcatProperties
<1>4. /\ \A i \in 1 .. m : s[i] \in X
      /\ \A i \in 1 .. n : t[i] \in Y
  BY <1>1, ElementOfSeq
<1>5. /\ \A x \in X : \E k \in 1 .. m : s[k] = x
      /\ \A x \in Y : \E k \in 1 .. n : t[k] = x
      /\ \A j, k \in 1 .. m : s[j] = s[k] => j = k
      /\ \A j, k \in 1 .. n : t[j] = t[k] => j = k
  BY DEF Lists
<1> HIDE DEF m, n, q
<1>6. \A x \in X \cup Y : \E k \in 1 .. m + n : q[k] = x
  <2>1. ASSUME NEW x \in X PROVE \E k \in 1 .. m + n : q[k] = x
    <3>1. PICK k \in 1 .. m : s[k] = x
      BY <1>5
    <3>2. k \in 1 .. m + n /\ k <= m
      BY <1>2
    <3> QED BY <3>1, <3>2, <1>3
  <2>2. ASSUME NEW x \in Y PROVE \E k \in 1 .. m + n : q[k] = x
    <3>1. PICK k \in 1 .. n : t[k] = x
      BY <1>5
    <3> DEFINE j == m + k
    <3>2. j \in 1 .. m + n /\ ~(j <= m) /\ j - m = k
      BY <1>2
    <3> HIDE DEF j
    <3> QED BY <3>1, <3>2, <1>3
  <2> QED BY <2>1, <2>2
<1>7. \A j, k \in 1 .. m + n : q[j] = q[k] => j = k
  <2>1. ASSUME NEW j \in 1 .. m + n, NEW k \in 1 .. m + n, q[j] = q[k] PROVE j = k
    <3>1. CASE j <= m /\ k <= m
      <4>1. j \in 1 .. m /\ k \in 1 .. m
        BY <1>2, <3>1
      <4> QED BY <4>1, <3>1, <2>1, <1>3, <1>5
    <3>2. CASE ~(j <= m) /\ ~(k <= m)
      <4>1. j - m \in 1 .. n /\ k - m \in 1 .. n
        BY <1>2, <3>2
      <4>2. t[j - m] = t[k - m]
        BY <3>2, <2>1, <1>3
      <4>3. j - m = k - m
        BY <4>1, <4>2, <1>5
      <4> QED BY <4>3, <1>2
    <3>3. CASE j <= m /\ ~(k <= m)
      <4>1. j \in 1 .. m /\ k - m \in 1 .. n
        BY <1>2, <3>3
      <4>2. s[j] = t[k - m]
        BY <3>3, <2>1, <1>3
      <4> QED BY <4>1, <4>2, <1>4
    <3>4. CASE ~(j <= m) /\ k <= m
      <4>1. j - m \in 1 .. n /\ k \in 1 .. m
        BY <1>2, <3>4
      <4>2. s[k] = t[j - m]
        BY <3>4, <2>1, <1>3
      <4> QED BY <4>1, <4>2, <1>4
    <3> QED BY <3>1, <3>2, <3>3, <3>4
  <2> QED BY <2>1
<1> QED BY <1>3, <1>6, <1>7 DEF Lists, q

(* A list of X, taken through a bijection, is a list of its image.         *)
LEMMA ListsMap ==
  ASSUME NEW X, NEW Y, NEW s, Lists(s, X), NEW f \in [X -> Y],
         \A x, y \in X : f[x] = f[y] => x = y,
         \A y \in Y : \E x \in X : f[x] = y,
         NEW q, q = [k \in 1 .. Len(s) |-> f[s[k]]]
  PROVE  Lists(q, Y)
<1> DEFINE n == Len(s)
<1>1. n \in Nat /\ \A k \in 1 .. n : s[k] \in X
  BY LenProperties, ElementOfSeq DEF Lists
<1>2. /\ \A x \in X : \E k \in 1 .. n : s[k] = x
      /\ \A j, k \in 1 .. n : s[j] = s[k] => j = k
  BY DEF Lists
<1> HIDE DEF n
<1>3. \A k \in 1 .. n : q[k] = f[s[k]] /\ q[k] \in Y
  BY <1>1 DEF n
<1>4. q \in Seq(Y) /\ Len(q) = n
  BY <1>1, <1>3 DEF n
<1>5. \A y \in Y : \E k \in 1 .. n : q[k] = y
  BY <1>2, <1>3
<1>6. \A j, k \in 1 .. n : q[j] = q[k] => j = k
  BY <1>1, <1>2, <1>3
<1> QED BY <1>4, <1>5, <1>6 DEF Lists

-----------------------------------------------------------------------------
(* Bit j of a byte of the buttons is set by the buttons that have it, and  *)
(* by them alone: the sum has no carries.                                  *)
LEMMA BitOfButtonByte ==
  ASSUME NEW held, NEW k, NEW j \in 0 .. 7
  PROVE  Bit(ButtonByte(held, k), j) <=> \E b \in held : ButtonBit(b) = <<k, j>>
<1> DEFINE c(i) == IF \E b \in held : ButtonBit(b) = <<k, i>> THEN 1 ELSE 0
           n == ButtonByte(held, k)
<1>1. n = c(0) + 2 * c(1) + 4 * c(2) + 8 * c(3) + 16 * c(4) + 32 * c(5) + 64 * c(6) + 128 * c(7)
  <2>1. \A i \in 0 .. 7 : (IF \E b \in held : ButtonBit(b) = <<k, i>> THEN Mask[i + 1] ELSE 0)
                            = c(i) * Mask[i + 1]
    BY DEF Mask
  <2> QED BY <2>1 DEF ButtonByte, Mask
<1>2. \A i \in 0 .. 7 : c(i) \in 0 .. 1
  OBVIOUS
<1>3. c(j) = 1 <=> \E b \in held : ButtonBit(b) = <<k, j>>
  OBVIOUS
<1> HIDE DEF c, n
<1>4. /\ (n \div 1) % 2 = c(0) /\ (n \div 2) % 2 = c(1)
      /\ (n \div 4) % 2 = c(2) /\ (n \div 8) % 2 = c(3)
      /\ (n \div 16) % 2 = c(4) /\ (n \div 32) % 2 = c(5)
      /\ (n \div 64) % 2 = c(6) /\ (n \div 128) % 2 = c(7)
  <2>0. /\ c(0) \in 0 .. 1 /\ c(1) \in 0 .. 1 /\ c(2) \in 0 .. 1 /\ c(3) \in 0 .. 1
        /\ c(4) \in 0 .. 1 /\ c(5) \in 0 .. 1 /\ c(6) \in 0 .. 1 /\ c(7) \in 0 .. 1
    BY <1>2
  <2>1. (n \div 1) % 2 = c(0)
    BY <1>1, <2>0
  <2>2. (n \div 2) % 2 = c(1)
    BY <1>1, <2>0
  <2>3. (n \div 4) % 2 = c(2)
    BY <1>1, <2>0
  <2>4. (n \div 8) % 2 = c(3)
    BY <1>1, <2>0
  <2>5. (n \div 16) % 2 = c(4)
    BY <1>1, <2>0
  <2>6. (n \div 32) % 2 = c(5)
    BY <1>1, <2>0
  <2>7. (n \div 64) % 2 = c(6)
    BY <1>1, <2>0
  <2>8. (n \div 128) % 2 = c(7)
    BY <1>1, <2>0
  <2> QED BY <2>1, <2>2, <2>3, <2>4, <2>5, <2>6, <2>7, <2>8
<1>5. (n \div Mask[j + 1]) % 2 = c(j)
  <2>1. j \in {0, 1, 2, 3, 4, 5, 6, 7}
    OBVIOUS
  <2> QED BY <2>1, <1>4 DEF Mask
<1> QED BY <1>3, <1>5 DEF Bit, n

(* What a report from position p should decode to.                         *)
Decoded(p) ==
  [matrix |-> [i \in Matrix |-> <<"MATRIX", i>> \in p.held],
   special |-> [i \in Special |-> <<"SPECIAL", i>> \in p.held],
   stop |-> [i \in Stop |-> <<"STOP", i>> \in p.held],
   wheel |-> p.wheel, knobs |-> p.knobs, faders |-> p.faders]

(* No two buttons share a bit of the report.                               *)
LEMMA ButtonBitInjective ==
  ASSUME NEW b \in Buttons, NEW c \in Buttons, ButtonBit(b) = ButtonBit(c)
  PROVE  b = c
<1> DEFINE g == b[1]
           i == b[2]
           h == c[1]
           j == c[2]
<1>1. /\ b = <<g, i>> /\ c = <<h, j>>
      /\ g \in {"MATRIX", "SPECIAL", "STOP"} /\ h \in {"MATRIX", "SPECIAL", "STOP"}
      /\ i \in 0 .. 15 /\ j \in 0 .. 15
      /\ g = "STOP" => i \in 0 .. 3
      /\ g = "SPECIAL" => i \in 0 .. 8
      /\ h = "STOP" => j \in 0 .. 3
      /\ h = "SPECIAL" => j \in 0 .. 8
  BY DEF Buttons, Matrix, Special, Stop
<1>2. ButtonBit(b)[1] = ButtonBit(c)[1] /\ ButtonBit(b)[2] = ButtonBit(c)[2]
  OBVIOUS
<1>4. /\ ButtonBit(b)[1] = IF g = "MATRIX" THEN 1 + i \div 8
                           ELSE IF g = "STOP" THEN 4 ELSE IF i < 6 THEN 3 ELSE 4
      /\ ButtonBit(b)[2] = IF g = "MATRIX" THEN 7 - (i % 8)
                           ELSE IF g = "STOP" THEN 7 - i ELSE IF i < 6 THEN 2 + i ELSE i - 5
  BY DEF ButtonBit
<1>5. /\ ButtonBit(c)[1] = IF h = "MATRIX" THEN 1 + j \div 8
                           ELSE IF h = "STOP" THEN 4 ELSE IF j < 6 THEN 3 ELSE 4
      /\ ButtonBit(c)[2] = IF h = "MATRIX" THEN 7 - (j % 8)
                           ELSE IF h = "STOP" THEN 7 - j ELSE IF j < 6 THEN 2 + j ELSE j - 5
  BY DEF ButtonBit
<1> HIDE DEF g, h, i, j
<1>6. g = h /\ i = j
  BY <1>1, <1>2, <1>4, <1>5
<1> QED BY <1>1, <1>6

(* The bit of a button says whether it is held.                            *)
LEMMA HeldBits ==
  ASSUME NEW p \in Position, NEW b \in Buttons, NEW k \in 1 .. 4, NEW j \in 0 .. 7,
         ButtonBit(b) = <<k, j>>
  PROVE  Bit(Report(p)[k], j) <=> b \in p.held
<1>1. p.held \subseteq Buttons
  BY DEF Position
<1>2. Report(p)[k] = ButtonByte(p.held, k)
  BY DEF Report, INPUT_REPORT_SIZE
<1>3. (\E c \in p.held : ButtonBit(c) = <<k, j>>) <=> b \in p.held
  BY <1>1, ButtonBitInjective
<1> QED BY <1>2, <1>3, BitOfButtonByte

(* A value is made of its low byte and its high byte.                      *)
LEMMA BytesOfWord ==
  ASSUME NEW v \in 0 .. FADERS_MAX
  PROVE  (v % 256) + 256 * (v \div 256) = v
BY DEF FADERS_MAX

(* The two bytes of a knob or fader give back its value.                   *)
LEMMA ReportWords ==
  ASSUME NEW p \in Position, NEW i \in 0 .. 3
  PROVE  /\ Word(Report(p), 6 + 2 * i) = p.knobs[i]
         /\ Word(Report(p), 14 + 2 * i) = p.faders[i]
<1>2. /\ Report(p)[6 + 2 * i] = p.knobs[i] % 256
      /\ Report(p)[6 + 2 * i + 1] = p.knobs[i] \div 256
  <2>1. /\ 6 + 2 * i \in 6 .. 13 /\ (6 + 2 * i - 6) \div 2 = i /\ (6 + 2 * i) % 2 = 0
        /\ 6 + 2 * i + 1 \in 6 .. 13 /\ (6 + 2 * i + 1 - 6) \div 2 = i /\ (6 + 2 * i + 1) % 2 = 1
    OBVIOUS
  <2>2. \A k \in 6 .. 13 : Report(p)[k] = WordByte(p.knobs[(k - 6) \div 2], k)
    BY DEF Report, INPUT_REPORT_SIZE
  <2> QED BY <2>1, <2>2 DEF WordByte
<1>3. /\ Report(p)[14 + 2 * i] = p.faders[i] % 256
      /\ Report(p)[14 + 2 * i + 1] = p.faders[i] \div 256
  <2>1. /\ 14 + 2 * i \in 14 .. 21 /\ (14 + 2 * i - 14) \div 2 = i /\ (14 + 2 * i) % 2 = 0
        /\ 14 + 2 * i + 1 \in 14 .. 21 /\ (14 + 2 * i + 1 - 14) \div 2 = i /\ (14 + 2 * i + 1) % 2 = 1
    OBVIOUS
  <2>2. \A k \in 14 .. 21 : Report(p)[k] = WordByte(p.faders[(k - 14) \div 2], k)
    BY DEF Report, INPUT_REPORT_SIZE
  <2> QED BY <2>1, <2>2 DEF WordByte
<1>5. /\ (p.knobs[i] % 256) + 256 * (p.knobs[i] \div 256) = p.knobs[i]
      /\ (p.faders[i] % 256) + 256 * (p.faders[i] \div 256) = p.faders[i]
  <2> DEFINE v == p.knobs[i]
             w == p.faders[i]
  <2>1. v \in 0 .. FADERS_MAX /\ w \in 0 .. FADERS_MAX
    BY DEF Position, Knobs, Faders
  <2> HIDE DEF v, w
  <2>2. (v % 256) + 256 * (v \div 256) = v
    BY <2>1, BytesOfWord
  <2>3. (w % 256) + 256 * (w \div 256) = w
    BY <2>1, BytesOfWord
  <2> QED BY <2>2, <2>3 DEF v, w
<1>6. Word(Report(p), 6 + 2 * i) = p.knobs[i]
  BY <1>2, <1>5 DEF Word
<1>7. Word(Report(p), 14 + 2 * i) = p.faders[i]
  BY <1>3, <1>5 DEF Word
<1> QED BY <1>6, <1>7

(* update_in_state() takes from a report exactly the position it was sent  *)
(* from, for each of the positions of all controls: whatever the state     *)
(* was, whichever buttons are held together.                               *)
LEMMA UpdateDecodes ==
  ASSUME NEW p \in Position, NEW state
  PROVE  UpdateInState(state, Report(p)) = Decoded(p)
<1> DEFINE r == Report(p)
<1>1. r[0] = INPUT_REPORT_ID /\ r[5] = p.wheel
  BY DEF Report, INPUT_REPORT_SIZE
<1>2. \A i \in Matrix : Bit(r[1 + i \div 8], 7 - (i % 8)) <=> <<"MATRIX", i>> \in p.held
  <2>1. ASSUME NEW i \in Matrix
        PROVE  Bit(r[1 + i \div 8], 7 - (i % 8)) <=> <<"MATRIX", i>> \in p.held
    <3>1. 1 + i \div 8 \in 1 .. 4 /\ 7 - (i % 8) \in 0 .. 7
      BY DEF Matrix
    <3>2. <<"MATRIX", i>> \in Buttons
      BY DEF Buttons
    <3>3. ButtonBit(<<"MATRIX", i>>) = <<1 + i \div 8, 7 - (i % 8)>>
      BY DEF ButtonBit
    <3> QED BY <3>1, <3>2, <3>3, HeldBits
  <2> QED BY <2>1
<1>3. \A i \in Special : (IF i < 6 THEN Bit(r[3], i + 2) ELSE Bit(r[4], i - 5))
                            <=> <<"SPECIAL", i>> \in p.held
  <2>1. ASSUME NEW i \in Special
        PROVE  (IF i < 6 THEN Bit(r[3], i + 2) ELSE Bit(r[4], i - 5))
               <=> <<"SPECIAL", i>> \in p.held
    <3>1. <<"SPECIAL", i>> \in Buttons
      BY DEF Buttons
    <3>2. CASE i < 6
      <4>1. i + 2 \in 0 .. 7 /\ 3 \in 1 .. 4
        BY <3>2 DEF Special
      <4>2. ButtonBit(<<"SPECIAL", i>>) = <<3, i + 2>>
        BY <3>2 DEF ButtonBit, Special
      <4>3. Bit(r[3], i + 2) <=> <<"SPECIAL", i>> \in p.held
        BY <3>1, <4>1, <4>2, HeldBits
      <4> QED BY <4>3, <3>2
    <3>3. CASE ~(i < 6)
      <4>1. i - 5 \in 0 .. 7 /\ 4 \in 1 .. 4
        BY <3>3 DEF Special
      <4>2. ButtonBit(<<"SPECIAL", i>>) = <<4, i - 5>>
        BY <3>3 DEF ButtonBit, Special
      <4>3. Bit(r[4], i - 5) <=> <<"SPECIAL", i>> \in p.held
        BY <3>1, <4>1, <4>2, HeldBits
      <4> QED BY <4>3, <3>3
    <3> QED BY <3>2, <3>3
  <2> QED BY <2>1
<1>4. \A i \in Stop : Bit(r[4], StopBit(i)) <=> <<"STOP", i>> \in p.held
  <2>1. ASSUME NEW i \in Stop
        PROVE  Bit(r[4], StopBit(i)) <=> <<"STOP", i>> \in p.held
    <3>1. StopBit(i) \in 0 .. 7 /\ 4 \in 1 .. 4
      BY DEF Stop, StopBit
    <3>2. <<"STOP", i>> \in Buttons
      BY DEF Buttons
    <3>3. ButtonBit(<<"STOP", i>>) = <<4, StopBit(i)>>
      BY DEF ButtonBit, StopBit, Stop
    <3> QED BY <3>1, <3>2, <3>3, HeldBits
  <2> QED BY <2>1
<1>5. /\ [i \in Knobs |-> Word(r, 6 + 2 * i)] = p.knobs
      /\ [i \in Faders |-> Word(r, 14 + 2 * i)] = p.faders
  <2>1. p.knobs \in [Knobs -> 0 .. FADERS_MAX] /\ p.faders \in [Faders -> 0 .. FADERS_MAX]
    BY DEF Position
  <2>2. /\ \A i \in Knobs : Word(r, 6 + 2 * i) = p.knobs[i]
        /\ \A i \in Faders : Word(r, 14 + 2 * i) = p.faders[i]
    BY ReportWords DEF Knobs, Faders
  <2> QED BY <2>1, <2>2
<1> HIDE DEF r
<1>6. [i \in Matrix |-> Bit(r[1 + i \div 8], 7 - (i % 8))] = [i \in Matrix |-> <<"MATRIX", i>> \in p.held]
  BY <1>2 DEF Bit
<1>7. [i \in Special |-> IF i < 6 THEN Bit(r[3], i + 2) ELSE Bit(r[4], i - 5)]
      = [i \in Special |-> <<"SPECIAL", i>> \in p.held]
  BY <1>3 DEF Bit
<1>8. [i \in Stop |-> Bit(r[4], StopBit(i))] = [i \in Stop |-> <<"STOP", i>> \in p.held]
  BY <1>4 DEF Bit
<1>9. UpdateInState(state, r) = Decoded(p)
  BY <1>1, <1>5, <1>6, <1>7, <1>8 DEF UpdateInState, Decoded
<1> QED BY <1>9 DEF r
=============================================================================
