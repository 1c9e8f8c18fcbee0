------------------------- MODULE DeviceSearchProof -------------------------
(***************************************************************************)
(* Proofs about DeviceSearch for every number of paths and every limit:    *)
(* who owns the open descriptor, and which devices a search can miss.      *)
(***************************************************************************)
EXTENDS DeviceSearch, FiniteSetTheorems, TLAPS

USE PathsAssumption

(* Nobody holds a descriptor; the search holds that of the path it tries;  *)
(* the device object holds that of the F1.                                 *)
Free == fd = None /\ dev = None /\ table = [f \in {} |-> None]
Trying == fd = 3 /\ dev = None /\ table = [f \in {3} |-> i] /\ Opens(i)
Taken == fd = None /\ dev = 3 /\ table = [f \in {3} |-> i] /\ KindOf(i) = "f1"

(* Where the search is in its paths, and why it stopped there.             *)
Progress ==
  /\ i \in Nat
  /\ \A p \in 0 .. i - 1 : KindOf(p) # "f1"
  /\ program = "driver" => /\ i <= MAX_HIDRAW_DEVICE_IDX
                           /\ pc \in {"opened", "leave none", "leave try"} => HasNext
  /\ program = "driver-osc" => i <= Paths
  /\ pc = "leave try" => KindOf(i) # "f1"
  /\ pc = "leave none" => KindOf(i) = "mute"
  /\ pc = "none" => Obstacle(i) \/ (program = "driver" /\ ~HasNext)

(* What is held in each state.                                             *)
Held ==
  /\ pc = "try" => Free
  /\ pc \in {"opened", "leave none", "leave try", "terminated"} => Trying
  /\ pc \in {"leave found", "found"} => Taken
  /\ pc = "none" => Free \/ Trying

IInv == /\ program \in {"driver", "driver-osc"}
        /\ kind \in [0 .. Paths - 1 -> Kind]
        /\ pc \in Ended \cup {"try", "opened", "leave found", "leave none", "leave try"}
        /\ Progress
        /\ Held

(* A process with no descriptor of its own gets the first one.             *)
LEMMA FirstFd == ASSUME Free PROVE FreeFd = 3
<1>1. DOMAIN table = {} /\ Cardinality({}) = 0
  BY FS_EmptySet DEF Free
<1>2. (3 .. 3 + Cardinality(DOMAIN table)) \ DOMAIN table = {3}
  BY <1>1
<1>3. Min({3}) = 3
  BY DEF Min
<1> QED
  BY <1>2, <1>3 DEF FreeFd

(* Closing the only descriptor leaves none.                                *)
LEMMA CloseFrees ==
  ASSUME Trying
  PROVE  fd # None /\ Closed(fd) = [f \in {} |-> None]
<1>1. DOMAIN table \ {fd} = {}
  BY DEF Trying
<1>2. fd # None
  BY DEF Trying, None
<1> QED
  BY <1>1, <1>2 DEF Closed

(* Every path is of one of the kinds.                                      *)
LEMMA KindRange ==
  ASSUME kind \in [0 .. Paths - 1 -> Kind], NEW p \in Nat
  PROVE  KindOf(p) \in Kind /\ (p >= Paths => KindOf(p) = "ENOENT")
  BY DEF KindOf, Kind

(* A path that is passed over is one more path without an F1.              *)
LEMMA PassOver ==
  ASSUME Progress, KindOf(i) # "f1", i' = i + 1, kind' = kind
  PROVE  /\ i' \in Nat
         /\ (\A p \in 0 .. i - 1 : KindOf(p) # "f1")'
         /\ HasNext => i' <= MAX_HIDRAW_DEVICE_IDX
<1>1. i \in Nat /\ \A p \in 0 .. i - 1 : KindOf(p) # "f1"
  BY DEF Progress
<1>2. \A p \in 0 .. i : p \in 0 .. i - 1 \/ p = i
  BY <1>1
<1>3. \A p \in 0 .. i : KindOf(p) # "f1"
  BY <1>1, <1>2
<1>4. HasNext => i' <= MAX_HIDRAW_DEVICE_IDX
  BY <1>1 DEF HasNext
<1> QED
  BY <1>1, <1>3, <1>4 DEF KindOf

(* The initial states, and every step of either program.                   *)
LEMMA InitIInv == Init => IInv
  BY DEF Init, IInv, Progress, Held, Free, Ended

LEMMA StepIInv == IInv /\ [Next]_vars => IInv'
<1> SUFFICES ASSUME IInv, [Next]_vars PROVE IInv'
  OBVIOUS
<1> USE DEF IInv, Ended, In
<1>k. KindOf(i) \in Kind /\ (i >= Paths => KindOf(i) = "ENOENT")
  BY KindRange DEF Progress
<1>1. CASE PathDenied
  <2>1. Progress'
    BY <1>1, PassOver DEF PathDenied, Progress, IsDenied, HasNext
  <2>2. Held'
    BY <1>1 DEF PathDenied, Held, Free
  <2> QED
    BY <1>1, <2>1, <2>2 DEF PathDenied
<1>2. CASE PathFails
  <2>1. Progress'
    BY <1>2, <1>k DEF PathFails, Progress, IsDenied, HasNext, Opens, Kind, Obstacle, KindOf
  <2>2. Held'
    BY <1>2 DEF PathFails, Held, Free
  <2> QED
    BY <1>2, <2>1, <2>2 DEF PathFails
<1>3. CASE PathsExhausted
  <2>1. Progress'
    BY <1>3 DEF PathsExhausted, Progress, HasNext, KindOf
  <2>2. Held'
    BY <1>3 DEF PathsExhausted, Held, Free
  <2> QED
    BY <1>3, <2>1, <2>2 DEF PathsExhausted
<1>4. CASE PathOpens \/ OscPathOpens
  <2>1. Progress'
    BY <1>4 DEF PathOpens, OscPathOpens, Progress, HasNext, KindOf
  <2>2. Held'
    BY <1>4, FirstFd DEF PathOpens, OscPathOpens, Held, Free, Trying, Opened, Opens, KindOf
  <2> QED
    BY <1>4, <2>1, <2>2 DEF PathOpens, OscPathOpens
<1>5. CASE Match \/ OscMatch
  <2>1. Progress'
    BY <1>5 DEF Match, OscMatch, Progress, HasNext, KindOf
  <2>2. Held'
    BY <1>5 DEF Match, OscMatch, Held, Trying, Taken, IsF1, KindOf
  <2> QED
    BY <1>5, <2>1, <2>2 DEF Match, OscMatch
<1>6. CASE NoMatch
  <2>1. Progress'
    BY <1>6 DEF NoMatch, Progress, HasNext, KindOf, IsF1
  <2>2. Held'
    BY <1>6 DEF NoMatch, Held, Trying, Opens, KindOf
  <2> QED
    BY <1>6, <2>1, <2>2 DEF NoMatch
<1>7. CASE Leave
  <2>1. CASE pc = "leave try"
    <3>0. Trying /\ pc' = "try" /\ i' = i + 1 /\ fd' = None /\ table' = Closed(fd)
          /\ UNCHANGED <<program, kind, dev>>
      <4>1. Trying
        BY <2>1 DEF Held
      <4>2. fd # None
        BY <4>1, CloseFrees
      <4> QED
        BY <1>7, <2>1, <4>1, <4>2 DEF Leave, Leaving
    <3>1. Progress'
      <4>1. i \in Nat /\ KindOf(i) # "f1" /\ (program = "driver" => HasNext)
        BY <2>1 DEF Progress
      <4>2. i' \in Nat /\ (\A p \in 0 .. i - 1 : KindOf(p) # "f1")'
        BY <3>0, <4>1, PassOver
      <4>3. program = "driver"
        BY <1>7 DEF Leave, Leaving
      <4>4. i' <= MAX_HIDRAW_DEVICE_IDX
        BY <3>0, <4>1, <4>3, PassOver
      <4> QED
        BY <3>0, <4>2, <4>3, <4>4 DEF Progress
    <3>2. Held'
      BY <3>0, CloseFrees DEF Held, Free, Trying
    <3> QED
      BY <1>7, <2>1, <3>1, <3>2 DEF Leave
  <2>2. CASE pc = "leave none"
    <3>0. Trying /\ pc' = "none" /\ i' = i /\ fd' = None /\ table' = Closed(fd)
          /\ UNCHANGED <<program, kind, dev>>
      <4>1. Trying
        BY <2>2 DEF Held
      <4>2. fd # None
        BY <4>1, CloseFrees
      <4> QED
        BY <1>7, <2>2, <4>1, <4>2 DEF Leave, Leaving
    <3>1. Progress'
      BY <2>2, <3>0 DEF Progress, HasNext, KindOf, Obstacle
    <3>2. Held'
      BY <3>0, CloseFrees DEF Held, Free, Trying
    <3> QED
      BY <1>7, <2>2, <3>1, <3>2 DEF Leave
  <2>3. CASE pc = "leave found"
    <3>1. Progress'
      BY <1>7, <2>3 DEF Leave, Leaving, Progress, HasNext, KindOf
    <3>2. Held'
      BY <1>7, <2>3 DEF Leave, Leaving, Held, Taken, KindOf
    <3> QED
      BY <1>7, <2>3, <3>1, <3>2 DEF Leave
  <2> QED
    BY <1>7, <2>1, <2>2, <2>3 DEF Leave, Leaving
<1>8. CASE CloseFails
  <2>1. Progress'
    BY <1>8 DEF CloseFails, Leaving, Progress, HasNext, KindOf
  <2>2. Held'
    BY <1>8 DEF CloseFails, Leaving, Held, Trying, Taken, Opens, KindOf
  <2> QED
    BY <1>8, <2>1, <2>2 DEF CloseFails
<1>9. CASE OscPathRefused
  <2>1. Progress'
    <3>1. CASE KindOf(i) = "EACCES"
      BY <1>9, <3>1, <1>k, PassOver DEF OscPathRefused, Progress
    <3>2. CASE KindOf(i) # "EACCES"
      BY <1>9, <3>2, <1>k DEF OscPathRefused, Progress, Opens, Kind, Obstacle, KindOf
    <3> QED
      BY <3>1, <3>2
  <2>2. Held'
    BY <1>9 DEF OscPathRefused, Held, Free
  <2> QED
    BY <1>9, <2>1, <2>2 DEF OscPathRefused
<1>10. CASE OscMute
  <2>1. Progress'
    BY <1>10 DEF OscMute, Progress, KindOf, Obstacle
  <2>2. Held'
    BY <1>10 DEF OscMute, Held, Trying, Opens, KindOf
  <2> QED
    BY <1>10, <2>1, <2>2 DEF OscMute
<1>11. CASE OscMismatch
  <2>1. Progress'
    BY <1>11, <1>k, PassOver DEF OscMismatch, Progress, IsF1, Held, Trying, Opens
  <2>2. Held'
    BY <1>11 DEF OscMismatch, Held, Trying, Free, Closed
  <2> QED
    BY <1>11, <2>1, <2>2 DEF OscMismatch
<1>12. CASE UNCHANGED vars
  BY <1>12 DEF vars, Progress, Held, Free, Trying, Taken, HasNext, Obstacle, KindOf, Opens
<1> QED
  BY <1>1, <1>2, <1>3, <1>4, <1>5, <1>6, <1>7, <1>8, <1>9, <1>10, <1>11, <1>12
     DEF Next, Driver, Osc

(* The bookkeeping above holds in every reachable state.                   *)
THEOREM Invariance == Spec => []IInv
  BY InitIInv, StepIInv, PTL DEF Spec

(* Each open descriptor has one owner, whatever the paths are and wherever *)
(* the search stops.                                                       *)
THEOREM DescriptorsAreOwned == Spec => []OneOwner
<1>1. IInv => OneOwner
  <2>1. Free => OneOwner
    BY DEF Free, OneOwner, None
  <2>2. Trying /\ pc # "try" => OneOwner
    BY DEF Trying, OneOwner, None
  <2>3. Taken => OneOwner
    BY DEF Taken, OneOwner, None
  <2> QED
    BY <2>1, <2>2, <2>3 DEF IInv, Held, Ended
<1> QED
  BY Invariance, <1>1, PTL

(* A search that succeeds ends on the first F1 and holds that alone.       *)
THEOREM TheFirstIsFound == Spec => []FindsTheFirst
<1>1. IInv => FindsTheFirst
  BY DEF IInv, Progress, Held, Taken, FindsTheFirst, None
<1> QED
  BY Invariance, <1>1, PTL

(* A search that fails has met an obstacle in front of every F1 within its *)
(* range.                                                                  *)
THEOREM OnlyObstaclesHide == Spec => []MissesBehindObstacles
<1>1. IInv => MissesBehindObstacles
  <2> SUFFICES ASSUME IInv, pc = "none", NEW p \in 0 .. Paths - 1, KindOf(p) = "f1"
               PROVE  \/ \E q \in 0 .. p - 1 : Obstacle(q)
                      \/ (program = "driver" /\ p >= MAX_HIDRAW_DEVICE_IDX)
    BY DEF MissesBehindObstacles
  <2>1. i <= p
    BY DEF IInv, Progress
  <2>2. CASE program = "driver" /\ ~HasNext
    BY <2>1, <2>2 DEF HasNext, IInv, Progress
  <2>3. CASE Obstacle(i)
    BY <2>1, <2>3 DEF Obstacle, IInv, Progress
  <2> QED
    BY <2>2, <2>3 DEF IInv, Progress
<1> QED
  BY Invariance, <1>1, PTL

(* Types, and the limits of both loops.                                    *)
THEOREM TypeCorrect == Spec => []TypeOK
<1>1. Free \/ Trying \/ Taken => /\ DOMAIN table \subseteq 3 .. 4
                                /\ fd \in {None, 3, 4} /\ dev \in {None, 3, 4}
  BY DEF Free, Trying, Taken
<1>2. IInv => Free \/ Trying \/ Taken
  BY DEF IInv, Held, Ended
<1>3. Progress => /\ i \in Nat
                  /\ program = "driver" => i <= MAX_HIDRAW_DEVICE_IDX
                  /\ program = "driver-osc" => i <= Paths
  BY DEF Progress
<1>4. ASSUME IInv PROVE TypeOK
  <2>1. pc \in Ended \cup {"try", "opened", "leave found", "leave none", "leave try"}
    BY <1>4 DEF IInv
  <2>2. Progress /\ program \in {"driver", "driver-osc"}
    BY <1>4 DEF IInv
  <2>3. CASE program = "driver"
    <3>1. i \in 0 .. MAX_HIDRAW_DEVICE_IDX
      BY <1>3, <2>2, <2>3
    <3> QED
      BY <1>1, <1>2, <1>4, <2>1, <2>3, <3>1 DEF TypeOK
  <2>4. CASE program = "driver-osc"
    <3>1. i \in 0 .. Paths
      BY <1>3, <2>2, <2>4
    <3> QED
      BY <1>1, <1>2, <1>4, <2>1, <2>4, <3>1 DEF TypeOK
  <2> QED
    BY <2>2, <2>3, <2>4
<1> QED
  BY Invariance, <1>4, PTL
=============================================================================
