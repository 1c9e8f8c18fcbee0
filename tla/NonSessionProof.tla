-------------------------- MODULE NonSessionProof --------------------------
(***************************************************************************)
(* Proofs about NonSession for any set of peers, any lists of signals and  *)
(* any number of answers and opens, however the threads, the session       *)
(* manager and the peers interleave: its types, one hello, no peer counted *)
(* twice, no way out of a failure but one, and, while no list is asked for *)
(* twice, signals that are their peer's and all there when it is counted.  *)
(***************************************************************************)
EXTENDS NonSession, FiniteSetTheorems, SequenceTheorems, WellFoundedInduction, TLAPS

(* The states behind the hello, which lead to one another only.            *)
Late == {"RUNNING", "PEER_AWAIT_SIGNAL_LIST", "FAILED"}

Label == {"start", "step", "body", "poll", "check", "read", "push", "gone",
          "idle", "refuse", "accept", "fail", "opening", "count"}

Typed == /\ session_state \in State
         /\ pc \in [Thread -> Label]
         /\ loaded \in [Thread -> State]
         /\ project_opened \in BOOLEAN
         /\ hellos \in {0, 1}

(* The mutex of step_state_machine.                                        *)
Mutex == \A t, u \in Thread : pc[t] = "body" /\ pc[u] = "body" => t = u

(* Before start_session nothing is announced, asked or received.           *)
BeforeStart ==
  pc["main"] = "start" =>
    /\ session_state = "NO_SESSION" /\ ~handshake_complete /\ hellos = 0
    /\ pc["server"] = "idle"
    /\ ~registered
    /\ \A s \in {NSM} \cup Peer : inbox[s] = <<>>
    /\ \A p \in Peer : listed[p] = 0 /\ asked[p] = 0

(* The hello is due only once the project is open.                         *)
Opened ==
  /\ session_state = "HELLO_START" => project_opened
  /\ \A t \in Thread : pc[t] = "body" /\ loaded[t] = "HELLO_START" => project_opened

(* Once the hello is out, no thread is or acts in a state before it.       *)
AfterHello ==
  hellos = 1 => /\ project_opened
                /\ session_state \in Late
                /\ \A t \in Thread : pc[t] = "body" => loaded[t] \in Late

(* Only the server thread fails a session, so that it has seen a failure   *)
(* when it steps the machine.                                              *)
FailureSeen ==
  pc["server"] = "body" /\ session_state = "FAILED" => loaded["server"] = "FAILED"

IInv == Typed /\ Mutex /\ BeforeStart /\ Opened /\ AfterHello /\ FailureSeen

USE DEF IInv, Typed, Mutex, BeforeStart, Opened, AfterHello, FailureSeen,
        Thread, Label, State, Late, Alive, Goto, Caller,
        handler, flags, exchange, threads, world, sent

(* The iterations of step_state_machine, by either thread.                 *)
LEMMA StepKeepsIInv ==
  ASSUME IInv, NEW t \in Thread, Step(t)
  PROVE  IInv'
<1> USE DEF In
<1>1. CASE Load(t)
  BY <1>1 DEF Load
<1>2. CASE SendAnnounce(t)
  BY <1>2 DEF SendAnnounce
<1>3. CASE AwaitReply(t)
  BY <1>3 DEF AwaitReply
<1>4. CASE AwaitOpen(t)
  BY <1>4 DEF AwaitOpen
<1>5. CASE SendHello(t)
  BY <1>5 DEF SendHello
<1>6. CASE SendSignalList(t)
  BY <1>6 DEF SendSignalList
<1>7. CASE PickPeer(t)
  BY <1>7 DEF PickPeer
<1>8. CASE StayFailed(t)
  BY <1>8 DEF StayFailed
<1> QED
  BY <1>1, <1>2, <1>3, <1>4, <1>5, <1>6, <1>7, <1>8 DEF Step

(* The handlers of the server thread: before start_session there is no     *)
(* message to handle.                                                      *)
LEMMA HandlerKeepsIInv ==
  ASSUME IInv, Server, ~Step("server")
  PROVE  IInv'
<1> USE DEF Receives
<1>1. CASE HandleReply
  BY <1>1 DEF HandleReply
<1>2. CASE Refuse \/ Accept
  BY <1>2 DEF Refuse, Accept
<1>3. CASE HandleError \/ Fail
  BY <1>3 DEF HandleError, Fail
<1>4. CASE HandleOpen
  BY <1>4 DEF HandleOpen
<1>5. CASE OpenSucceeds
  BY <1>5 DEF OpenSucceeds
<1>6. CASE OpenFails
  BY <1>6 DEF OpenFails
<1>7. CASE CountPeer
  BY <1>7 DEF CountPeer
<1>8. ASSUME NEW p \in Peer, HandleHello(p) PROVE IInv'
  BY <1>8 DEF HandleHello
<1>9. ASSUME NEW p \in Peer, HandleSignal(p) PROVE IInv'
  BY <1>9 DEF HandleSignal
<1>10. ASSUME NEW p \in Peer, DropSignal(p) PROVE IInv'
  BY <1>10 DEF DropSignal
<1>11. ASSUME NEW p \in Peer, HandleListEnd(p) PROVE IInv'
  BY <1>11 DEF HandleListEnd
<1> QED
  BY <1>1, <1>2, <1>3, <1>4, <1>5, <1>6, <1>7, <1>8, <1>9, <1>10, <1>11 DEF Server

(* The main thread outside the state machine.                              *)
LEMMA MainKeepsIInv ==
  ASSUME IInv, Main, ~Step("main")
  PROVE  IInv'
<1>1. CASE StartSession
  BY <1>1 DEF StartSession
<1>2. CASE Poll
  BY <1>2 DEF Poll
<1>3. CASE CheckFailed
  BY <1>3 DEF CheckFailed
<1>4. CASE StartPush
  BY <1>4 DEF StartPush
<1>5. CASE SendEvent
  BY <1>5 DEF SendEvent
<1> QED
  BY <1>1, <1>2, <1>3, <1>4, <1>5 DEF Main

(* The session manager and the peers wait for the announce.                *)
LEMMA WorldKeepsIInv ==
  ASSUME IInv, World
  PROVE  IInv'
<1> USE DEF Sends
<1>1. CASE NsmAnswers
  BY <1>1 DEF NsmAnswers, Announced
<1>2. CASE NsmOpens
  BY <1>2 DEF NsmOpens
<1>3. CASE NsmLoaded
  BY <1>3 DEF NsmLoaded
<1>4. ASSUME NEW p \in Peer, PeerHello(p) PROVE IInv'
  BY <1>4 DEF PeerHello
<1>5. ASSUME NEW p \in Peer, PeerLists(p) PROVE IInv'
  BY <1>5 DEF PeerLists
<1> QED
  BY <1>1, <1>2, <1>3, <1>4, <1>5 DEF World

(* The program starts with the invariant, and no step breaks it.           *)
LEMMA InitIInv == Init => IInv
<1> SUFFICES ASSUME Init PROVE IInv
  OBVIOUS
<1>1. /\ pc \in [Thread -> Label]
      /\ pc["main"] = "start" /\ pc["server"] = "idle"
  BY DEF Init
<1>2. Typed
  BY <1>1 DEF Init
<1>3. Mutex /\ Opened /\ AfterHello
  BY <1>1 DEF Init
<1>4. BeforeStart
  BY DEF Init
<1>5. FailureSeen
  BY <1>1 DEF Init
<1> QED
  BY <1>2, <1>3, <1>4, <1>5

LEMMA NextKeepsIInv == IInv /\ [Next]_vars => IInv'
<1> SUFFICES ASSUME IInv, [Next]_vars PROVE IInv'
  OBVIOUS
<1>1. CASE Server
  BY <1>1, StepKeepsIInv, HandlerKeepsIInv
<1>2. CASE Main
  BY <1>2, StepKeepsIInv, MainKeepsIInv
<1>3. CASE World
  BY <1>3, WorldKeepsIInv
<1>4. CASE UNCHANGED vars
  BY <1>4 DEF vars
<1> QED
  BY <1>1, <1>2, <1>3, <1>4 DEF Next

(* The invariant holds in every reachable state.                           *)
THEOREM Invariance == Spec => []IInv
<1> QED
  BY InitIInv, NextKeepsIInv, PTL DEF Spec

(* However the main thread, the server thread, the session manager and the *)
(* peers interleave, at most one hello is broadcast, and none before the   *)
(* project is open.                                                        *)
THEOREM HelloIsSentOnce == Spec => []OneHello
<1>1. IInv => OneHello
  BY DEF OneHello
<1> QED
  BY Invariance, <1>1, PTL

(* A failed session stays failed, but for an iteration of start_session()  *)
(* on the main thread that had read the state before the failure: whatever *)
(* the server thread handles, no iteration of its own writes over one.     *)
THEOREM FailuresStay == Spec => FailureIsFinal
<1>1. IInv /\ [Next]_vars =>
        [session_state = "FAILED" =>
           session_state' = "FAILED" \/ (pc["main"] = "body" /\ loaded["main"] # "FAILED")]_vars
  <2> SUFFICES ASSUME IInv, Next, session_state = "FAILED"
               PROVE  session_state' = "FAILED" \/ (pc["main"] = "body" /\ loaded["main"] # "FAILED")
    BY DEF vars
  <2>1. ASSUME NEW t \in Thread, Step(t)
        PROVE  session_state' = "FAILED" \/ (pc["main"] = "body" /\ loaded["main"] # "FAILED")
    BY <2>1 DEF Step, Load, SendAnnounce, AwaitReply, AwaitOpen, SendHello,
                SendSignalList, PickPeer, StayFailed, In
  <2>2. CASE Server
    BY <2>1, <2>2 DEF Server, HandleReply, Refuse, Accept, HandleError, Fail,
         HandleOpen, OpenSucceeds, OpenFails, CountPeer, HandleHello, HandleSignal,
         DropSignal, HandleListEnd
  <2>3. CASE Main
    BY <2>1, <2>3 DEF Main, StartSession, Poll, CheckFailed, StartPush, SendEvent
  <2>4. CASE World
    BY <2>4 DEF World, NsmAnswers, NsmOpens, NsmLoaded, PeerHello, PeerLists
  <2> QED
    BY <2>2, <2>3, <2>4 DEF Next
<1> QED
  BY Invariance, <1>1, PTL DEF Spec, FailureIsFinal

-----------------------------------------------------------------------------
(* The other types: a peer that is current or told is one of the map's.    *)
OtherTypes ==
  /\ peers \subseteq Peer /\ greeted \subseteq Peer /\ told \subseteq Peer
  /\ handshake_complete \in BOOLEAN /\ handshaked_peers \in Nat
  /\ current \in Peer \cup {End} /\ target \in Peer \cup {End}
  /\ signals \in [Peer -> Seq(Peer)] /\ format \in [Peer -> Formats]
  /\ jack \in {"none", "new", "connected"}
  /\ pc["main"] \in {"start", "step", "body", "poll", "check", "read", "push", "gone"}
  /\ pc["server"] \in {"idle", "step", "body", "refuse", "accept", "fail", "opening", "count"}

(* The peers up to the current one.                                        *)
Passed == {q \in peers : q <= current}

(* A list has ended and is not counted yet; a list is awaited.             *)
Due == IF pc["server"] = "count" THEN 1 ELSE 0
Awaited == IF session_state = "PEER_AWAIT_SIGNAL_LIST" THEN 1 ELSE 0

(* The iterator has run past the last peer: the next list dies.            *)
Over == /\ session_state \in {"PEER_AWAIT_SIGNAL_LIST", "FAILED"}
        /\ \A t \in Thread : pc[t] = "body" => loaded[t] \in {"PEER_AWAIT_SIGNAL_LIST", "FAILED"}

(* Each peer the iterator has passed is counted, or due, or awaited, once  *)
(* at most.                                                                *)
Counted ==
  /\ pc["main"] = "start" => handshaked_peers = 0 /\ current = End
  /\ current # End => handshaked_peers + Due + Awaited <= Cardinality(Passed)
  /\ current = End => \/ handshaked_peers + Due = 0
                      \/ handshaked_peers + Due <= Cardinality(peers) /\ Over

CountInv == IInv /\ OtherTypes /\ Counted

(* No more peers are passed than are known, nor known than there are.      *)
LEMMA PassedFacts ==
  ASSUME OtherTypes
  PROVE  /\ IsFiniteSet(peers) /\ Cardinality(peers) \in Nat /\ Cardinality(peers) <= Cardinality(Peer)
         /\ IsFiniteSet(Passed) /\ Cardinality(Passed) \in Nat /\ Cardinality(Passed) <= Cardinality(peers)
         /\ Cardinality(Peer) \in Nat
<1>1. IsFiniteSet(Peer) /\ peers \in SUBSET Peer /\ Passed \in SUBSET peers
  BY PeerAssumption DEF OtherTypes, Passed
<1>2. IsFiniteSet(peers) /\ Cardinality(peers) <= Cardinality(Peer)
  BY <1>1, FS_Subset
<1>3. IsFiniteSet(Passed) /\ Cardinality(Passed) <= Cardinality(peers)
  BY <1>1, <1>2, FS_Subset
<1> QED BY <1>1, <1>2, <1>3, FS_CardinalityType

(* The sets of a step are finite after it, too.                            *)
LEMMA PassedIsFinite ==
  ASSUME OtherTypes, OtherTypes'
  PROVE  IsFiniteSet(Passed) /\ IsFiniteSet(Passed')
<1>1. IsFiniteSet(Peer)
  BY PeerAssumption
<1>2. Passed \in SUBSET Peer /\ Passed' \in SUBSET Peer
  BY DEF OtherTypes, Passed
<1> QED
  BY <1>1, <1>2, FS_Subset

(* A set of numbers has a smallest.                                        *)
LEMMA SmallestNat ==
  ASSUME NEW S \in SUBSET Nat, S # {}
  PROVE  \E n \in S : \A m \in S : n <= m
<1> DEFINE R == OpToRel(<, Nat)
<1>1. IsWellFoundedOn(R, Nat)
  BY NatLessThanWellFounded
<1>2. \A m, n \in Nat : m < n => <<m, n>> \in R
  BY DEF OpToRel
<1> HIDE DEF R
<1>3. PICK n \in S : \A m \in S : ~ (<<m, n>> \in R)
  BY <1>1, WFMin
<1>4. \A m \in S : n <= m
  <2>1. ASSUME NEW m \in S PROVE n <= m
    <3>1. m \in Nat /\ n \in Nat
      OBVIOUS
    <3>2. ~ (m < n)
      BY <1>2, <1>3, <3>1
    <3> QED BY <3>1, <3>2
  <2> QED BY <2>1
<1> QED BY <1>4

(* The element after another one is a later key of the map, or end(),      *)
(* and then there is none.                                                 *)
LEMMA AfterFacts ==
  ASSUME OtherTypes, NEW p
  PROVE  LET n == After(p)
         IN  /\ n \in peers \cup {End}
             /\ n # End => n > p
             /\ n = End => \A q \in peers : ~(q > p)
<1> DEFINE later == {q \in peers : q > p}
<1>1. \A q \in peers : q \in Nat
  BY PeerAssumption DEF OtherTypes
<1>2. CASE later = {}
  BY <1>2 DEF After
<1>3. CASE later # {}
  <2>1. later \in SUBSET Nat
    BY <1>1
  <2> HIDE DEF later
  <2>2. \E x \in later : \A y \in later : x <= y
    BY <1>3, <2>1, SmallestNat
  <2>3. Min(later) \in later
    BY <2>2 DEF Min
  <2>4. After(p) = Min(later)
    BY <1>3 DEF After, later
  <2> QED BY <2>1, <2>3, <2>4 DEF later, End
<1> QED BY <1>2, <1>3

(* A step that neither moves the iterator nor counts, and calls off no     *)
(* awaited list but in a failure, changes nothing of the count.            *)
LEMMA Quiet ==
  ASSUME OtherTypes, Counted, UNCHANGED <<peers, current, handshaked_peers>>,
         pc'["main"] = "start" => pc["main"] = "start",
         Due' = Due, Awaited' <= Awaited, Over => Over'
  PROVE  Counted'
<1>1. Passed' = Passed
  BY DEF Passed
<1>2. Due \in {0, 1} /\ Awaited \in {0, 1} /\ Awaited' \in {0, 1}
  BY DEF Due, Awaited
<1>3. handshaked_peers \in Nat /\ Cardinality(Passed) \in Nat
  BY PassedFacts DEF OtherTypes
<1> HIDE DEF Due, Awaited, Over, Passed
<1>4. current # End => handshaked_peers + Due + Awaited' <= Cardinality(Passed)
  BY <1>2, <1>3 DEF Counted
<1> QED BY <1>1, <1>4 DEF Counted

-----------------------------------------------------------------------------
(* The other types, step by step: the iterations, the handlers, the rest.  *)
LEMMA StepKeepsTypes ==
  ASSUME CountInv, NEW t \in Thread, Step(t)
  PROVE  OtherTypes'
<1> USE DEF CountInv, OtherTypes, In
<1>1. CASE Load(t)
  BY <1>1 DEF Load
<1>2. CASE SendAnnounce(t)
  BY <1>2 DEF SendAnnounce
<1>3. CASE AwaitReply(t)
  BY <1>3 DEF AwaitReply
<1>4. CASE AwaitOpen(t)
  BY <1>4 DEF AwaitOpen
<1>5. CASE SendHello(t)
  BY <1>5 DEF SendHello
<1>6. CASE SendSignalList(t)
  BY <1>6 DEF SendSignalList
<1>7. CASE PickPeer(t)
  <2>1. After(current) \in Peer \cup {End}
    BY AfterFacts
  <2> QED
    BY <1>7, <2>1 DEF PickPeer
<1>8. CASE StayFailed(t)
  BY <1>8 DEF StayFailed
<1> QED
  BY <1>1, <1>2, <1>3, <1>4, <1>5, <1>6, <1>7, <1>8 DEF Step

(* A registered signal is a peer's, and a count a number.                  *)
LEMMA HandlerKeepsTypes ==
  ASSUME CountInv, Server, ~Step("server")
  PROVE  OtherTypes'
<1> USE DEF CountInv, OtherTypes, Receives
<1>1. CASE HandleReply
  BY <1>1 DEF HandleReply
<1>2. CASE Refuse \/ Accept
  BY <1>2 DEF Refuse, Accept
<1>3. CASE HandleError \/ Fail
  BY <1>3 DEF HandleError, Fail
<1>4. CASE HandleOpen
  BY <1>4 DEF HandleOpen
<1>5. CASE OpenSucceeds
  BY <1>5 DEF OpenSucceeds
<1>6. CASE OpenFails
  BY <1>6 DEF OpenFails
<1>7. CASE CountPeer
  BY <1>7 DEF CountPeer
<1>8. ASSUME NEW p \in Peer, HandleHello(p) PROVE OtherTypes'
  BY <1>8 DEF HandleHello
<1>9. ASSUME NEW p \in Peer, HandleSignal(p) PROVE OtherTypes'
  <2>1. current # End => Append(signals[current], p) \in Seq(Peer)
    OBVIOUS
  <2>2. signals' \in [Peer -> Seq(Peer)]
    BY <1>9, <2>1 DEF HandleSignal
  <2> QED
    BY <1>9, <2>2 DEF HandleSignal
<1>10. ASSUME NEW p \in Peer, DropSignal(p) PROVE OtherTypes'
  BY <1>10 DEF DropSignal
<1>11. ASSUME NEW p \in Peer, HandleListEnd(p) PROVE OtherTypes'
  BY <1>11 DEF HandleListEnd
<1> QED
  BY <1>1, <1>2, <1>3, <1>4, <1>5, <1>6, <1>7, <1>8, <1>9, <1>10, <1>11 DEF Server

(* The input events go to peers of the map.                                *)
LEMMA OthersKeepTypes ==
  ASSUME CountInv, Main \/ World, ~Step("main")
  PROVE  OtherTypes'
<1> USE DEF CountInv, OtherTypes
<1>1. CASE StartSession
  BY <1>1 DEF StartSession
<1>2. CASE Poll
  BY <1>2 DEF Poll
<1>3. CASE CheckFailed
  BY <1>3 DEF CheckFailed
<1>4. CASE StartPush
  <2>1. After(End) \in Peer \cup {End}
    BY AfterFacts
  <2> QED
    BY <1>4, <2>1 DEF StartPush
<1>5. CASE SendEvent
  <2>1. After(target) \in Peer \cup {End}
    BY AfterFacts
  <2> QED
    BY <1>5, <2>1 DEF SendEvent
<1>6. CASE World
  BY <1>6 DEF World, NsmAnswers, NsmOpens, NsmLoaded, PeerHello, PeerLists
<1> QED
  BY <1>1, <1>2, <1>3, <1>4, <1>5, <1>6 DEF Main

(* The next peer is one more to count.                                     *)
LEMMA PickKeepsCount ==
  ASSUME CountInv, NEW t \in Thread, PickPeer(t)
  PROVE  Counted'
<1> DEFINE n == After(current)
           C == Cardinality(Passed)
           H == handshaked_peers
<1>1. OtherTypes /\ Counted
  BY DEF CountInv
<1>2. PICK picks \in BOOLEAN : picks <=> H < Cardinality(peers)
  OBVIOUS
<1>3. CASE ~picks
  <2>1. /\ UNCHANGED <<peers, current, handshaked_peers>>
        /\ pc'["main"] = "start" => pc["main"] = "start"
        /\ Due' = Due /\ Awaited' <= Awaited /\ (Over => Over')
    BY <1>2, <1>3 DEF PickPeer, In, CountInv, OtherTypes, Due, Awaited, Over
  <2> QED
    BY <1>1, <2>1, Quiet
<1>4. CASE picks
  <2>1. /\ peers' = peers /\ handshaked_peers' = H /\ current' = n
        /\ session_state' = "PEER_AWAIT_SIGNAL_LIST"
        /\ pc' = [pc EXCEPT ![t] = "step"] /\ loaded' = loaded
    BY <1>2, <1>4 DEF PickPeer
  <2>2. Due' = Due /\ Due \in {0, 1} /\ Awaited' = 1 /\ Awaited \in {0, 1}
    BY <2>1 DEF PickPeer, In, CountInv, Due, Awaited
  <2>3. pc'["main"] # "start"
    BY <2>1 DEF PickPeer, In, CountInv
  <2>4. ~Over
    BY DEF PickPeer, In, Over
  <2>5. Over'
    BY <2>1 DEF PickPeer, In, CountInv, Over
  <2>6. /\ n \in peers \cup {End} /\ (n # End => n > current)
        /\ (n = End => \A q \in peers : ~(q > current))
    BY <1>1, AfterFacts
  <2>7. /\ H \in Nat /\ H < Cardinality(peers) /\ C \in Nat /\ Cardinality(peers) \in Nat
        /\ C <= Cardinality(peers)
        /\ current \in Nat \cup {End} /\ \A q \in peers : q \in Nat
    BY <1>1, <1>2, <1>4, PassedFacts, PeerAssumption DEF OtherTypes
  <2>8. H + Due <= C
    BY <1>1, <2>2, <2>4, <2>7 DEF Counted
  <2>9. CASE n = End
    BY <2>1, <2>2, <2>3, <2>5, <2>7, <2>8, <2>9 DEF Counted
  <2>10. CASE n # End
    <3>1. n \in peers /\ n > current /\ n \in Nat
      BY <2>6, <2>7, <2>10
    <3>2. Passed \cup {n} \subseteq Passed' /\ n \notin Passed
      BY <2>1, <2>7, <3>1 DEF Passed, End
    <3>3. IsFiniteSet(Passed) /\ IsFiniteSet(Passed')
      <4>1. OtherTypes'
        BY StepKeepsTypes DEF Step
      <4> QED
        BY <1>1, <4>1, PassedIsFinite
    <3>4. Cardinality(Passed \cup {n}) = C + 1
      BY <3>2, <3>3, FS_AddElement
    <3>5. Cardinality(Passed \cup {n}) <= Cardinality(Passed') /\ Cardinality(Passed') \in Nat
      BY <3>2, <3>3, FS_Subset, FS_CardinalityType
    <3> QED
      BY <2>1, <2>2, <2>3, <2>7, <2>8, <2>10, <3>4, <3>5 DEF Counted
  <2> QED
    BY <2>9, <2>10
<1> QED
  BY <1>3, <1>4

(* The count, step by step: of the iterations only the choice of a peer    *)
(* moves it.                                                               *)
LEMMA StepKeepsCount ==
  ASSUME CountInv, NEW t \in Thread, Step(t)
  PROVE  Counted'
<1> USE DEF In
<1>0. OtherTypes /\ Counted
  BY DEF CountInv
<1> DEFINE Silent == /\ UNCHANGED <<peers, current, handshaked_peers>>
                     /\ pc'["main"] = "start" => pc["main"] = "start"
                     /\ Due' = Due /\ Awaited' <= Awaited
                     /\ Over => Over'
<1>1. CASE Load(t)
  <2>1. Silent
    BY <1>1 DEF Load, CountInv, OtherTypes, Due, Awaited, Over
  <2> QED BY <1>0, <2>1, Quiet
<1>2. CASE SendAnnounce(t)
  <2>1. Silent
    BY <1>2 DEF SendAnnounce, CountInv, OtherTypes, Due, Awaited, Over
  <2> QED BY <1>0, <2>1, Quiet
<1>3. CASE AwaitReply(t)
  <2>1. Silent
    BY <1>3 DEF AwaitReply, CountInv, OtherTypes, Due, Awaited, Over
  <2> QED BY <1>0, <2>1, Quiet
<1>4. CASE AwaitOpen(t)
  <2>1. Silent
    BY <1>4 DEF AwaitOpen, CountInv, OtherTypes, Due, Awaited, Over
  <2> QED BY <1>0, <2>1, Quiet
<1>5. CASE SendHello(t)
  <2>1. Silent
    BY <1>5 DEF SendHello, CountInv, OtherTypes, Due, Awaited, Over
  <2> QED BY <1>0, <2>1, Quiet
<1>6. CASE SendSignalList(t)
  <2>1. /\ UNCHANGED <<session_state, peers, current, handshaked_peers, loaded>>
        /\ pc[t] = "body" /\ (pc' = pc \/ pc' = [pc EXCEPT ![t] = Caller(t)])
    BY <1>6 DEF SendSignalList
  <2>2. Silent
    BY <2>1 DEF CountInv, OtherTypes, Due, Awaited, Over
  <2> QED BY <1>0, <2>2, Quiet
<1>7. CASE PickPeer(t)
  BY <1>0, <1>7, PickKeepsCount
<1>8. CASE StayFailed(t)
  <2>1. Silent
    BY <1>8 DEF StayFailed, CountInv, OtherTypes, Due, Awaited, Over
  <2> QED BY <1>0, <2>1, Quiet
<1> QED
  BY <1>1, <1>2, <1>3, <1>4, <1>5, <1>6, <1>7, <1>8 DEF Step

(* Of the handlers a hello, the end of an awaited list and the count that  *)
(* follows it; past the last peer no list ends any more.                   *)
LEMMA HandlerKeepsCount ==
  ASSUME CountInv, Server, ~Step("server")
  PROVE  Counted'
<1> USE DEF Receives
<1>0. OtherTypes /\ Counted /\ OtherTypes'
  BY HandlerKeepsTypes DEF CountInv
<1> DEFINE Silent == /\ UNCHANGED <<peers, current, handshaked_peers>>
                     /\ pc'["main"] = "start" => pc["main"] = "start"
                     /\ Due' = Due /\ Awaited' <= Awaited
                     /\ Over => Over'
<1>1. CASE HandleReply
  <2>1. Silent
    BY <1>1 DEF HandleReply, CountInv, OtherTypes, Due, Awaited, Over
  <2> QED BY <1>0, <2>1, Quiet
<1>2. CASE Refuse \/ Accept
  <2>1. Silent
    BY <1>2 DEF Refuse, Accept, CountInv, OtherTypes, Due, Awaited, Over
  <2> QED BY <1>0, <2>1, Quiet
<1>3. CASE HandleError \/ Fail
  <2>1. Silent
    BY <1>3 DEF HandleError, Fail, CountInv, OtherTypes, Due, Awaited, Over
  <2> QED BY <1>0, <2>1, Quiet
<1>4. CASE HandleOpen
  <2>1. /\ UNCHANGED <<session_state, peers, current, handshaked_peers, loaded>>
        /\ pc["server"] = "idle"
        /\ pc' = pc \/ pc' = [pc EXCEPT !["server"] = "opening"]
    BY <1>4 DEF HandleOpen
  <2>2. Silent
    BY <2>1 DEF CountInv, OtherTypes, Due, Awaited, Over
  <2> QED BY <1>0, <2>2, Quiet
<1>5. CASE OpenSucceeds
  <2>1. Silent
    BY <1>5 DEF OpenSucceeds, CountInv, OtherTypes, Due, Awaited, Over
  <2> QED BY <1>0, <2>1, Quiet
<1>6. CASE OpenFails
  <2>1. Silent
    BY <1>6 DEF OpenFails, CountInv, OtherTypes, Due, Awaited, Over
  <2> QED BY <1>0, <2>1, Quiet
<1>7. CASE CountPeer
  <2>1. /\ handshaked_peers' = handshaked_peers + 1 /\ handshaked_peers \in Nat
        /\ UNCHANGED <<peers, current, session_state>>
        /\ Due = 1 /\ Due' = 0 /\ Awaited' = Awaited /\ Awaited \in {0, 1}
        /\ pc'["main"] = pc["main"] /\ pc["main"] # "start"
        /\ (Over => Over')
    BY <1>7 DEF CountPeer, CountInv, OtherTypes, Due, Awaited, Over
  <2>2. Passed' = Passed /\ Cardinality(Passed) \in Nat /\ Cardinality(peers) \in Nat
    BY <1>0, <2>1, PassedFacts DEF Passed
  <2> QED
    BY <1>0, <2>1, <2>2 DEF Counted
<1>8. ASSUME NEW p \in Peer, HandleHello(p) PROVE Counted'
  <2>1. /\ UNCHANGED <<current, handshaked_peers, session_state>> /\ handshaked_peers \in Nat
        /\ Due' = Due /\ Due = 0 /\ Awaited' = Awaited /\ Awaited \in {0, 1}
        /\ pc'["main"] = pc["main"]
        /\ (Over => Over')
        /\ peers \subseteq peers'
    BY <1>8 DEF HandleHello, CountInv, OtherTypes, Due, Awaited, Over
  <2>2. /\ IsFiniteSet(peers) /\ IsFiniteSet(peers')
    BY <1>0, PeerAssumption, FS_Subset DEF OtherTypes
  <2>3. /\ Cardinality(peers) <= Cardinality(peers')
        /\ Cardinality(peers) \in Nat /\ Cardinality(peers') \in Nat
    BY <2>1, <2>2, FS_Subset, FS_CardinalityType
  <2>4. Passed \subseteq Passed'
    BY <2>1 DEF Passed
  <2>5. /\ Cardinality(Passed) <= Cardinality(Passed')
        /\ Cardinality(Passed) \in Nat /\ Cardinality(Passed') \in Nat
    BY <1>0, <2>4, PassedIsFinite, FS_Subset, FS_CardinalityType
  <2> QED
    BY <1>0, <2>1, <2>3, <2>5 DEF Counted
<1>9. ASSUME NEW p \in Peer, HandleSignal(p) PROVE Counted'
  <2>1. UNCHANGED <<session_state, peers, current, handshaked_peers, pc, loaded>>
    BY <1>9 DEF HandleSignal
  <2>2. Silent
    BY <2>1 DEF Due, Awaited, Over
  <2> QED BY <1>0, <2>2, Quiet
<1>10. ASSUME NEW p \in Peer, DropSignal(p) PROVE Counted'
  <2>1. Silent
    BY <1>10 DEF DropSignal, CountInv, OtherTypes, Due, Awaited, Over
  <2> QED BY <1>0, <2>1, Quiet
<1>11. ASSUME NEW p \in Peer, HandleListEnd(p) PROVE Counted'
  <2>1. CASE session_state # "PEER_AWAIT_SIGNAL_LIST" \/ current = End
    <3>1. UNCHANGED <<session_state, peers, current, handshaked_peers, pc, loaded>>
      BY <1>11, <2>1 DEF HandleListEnd
    <3>2. Silent
      BY <3>1 DEF Due, Awaited, Over
    <3> QED BY <1>0, <3>2, Quiet
  <2>2. CASE session_state = "PEER_AWAIT_SIGNAL_LIST" /\ current # End
    <3>1. /\ UNCHANGED <<peers, current, handshaked_peers>> /\ handshaked_peers \in Nat
          /\ Due = 0 /\ Due' = 1 /\ Awaited = 1 /\ Awaited' = 0
          /\ pc'["main"] = pc["main"]
      BY <1>11, <2>2 DEF HandleListEnd, CountInv, OtherTypes, Due, Awaited
    <3>2. Passed' = Passed /\ Cardinality(Passed) \in Nat
      BY <1>0, <3>1, PassedFacts DEF Passed
    <3> QED
      BY <1>0, <2>2, <3>1, <3>2 DEF Counted
  <2> QED BY <2>1, <2>2
<1> QED
  BY <1>1, <1>2, <1>3, <1>4, <1>5, <1>6, <1>7, <1>8, <1>9, <1>10, <1>11 DEF Server

(* The rest of the main thread, the session manager and the peers: none.   *)
LEMMA OthersKeepCount ==
  ASSUME CountInv, Main \/ World, ~Step("main")
  PROVE  Counted'
<1>0. OtherTypes /\ Counted
  BY DEF CountInv
<1> DEFINE Silent == /\ UNCHANGED <<peers, current, handshaked_peers>>
                     /\ pc'["main"] = "start" => pc["main"] = "start"
                     /\ Due' = Due /\ Awaited' <= Awaited
                     /\ Over => Over'
<1>1. CASE StartSession
  <2>1. Silent
    BY <1>1 DEF StartSession, CountInv, OtherTypes, Due, Awaited, Over
  <2> QED BY <1>0, <2>1, Quiet
<1>2. CASE Poll
  <2>1. Silent
    BY <1>2 DEF Poll, CountInv, OtherTypes, Due, Awaited, Over
  <2> QED BY <1>0, <2>1, Quiet
<1>3. CASE CheckFailed
  <2>1. Silent
    BY <1>3 DEF CheckFailed, CountInv, OtherTypes, Due, Awaited, Over
  <2> QED BY <1>0, <2>1, Quiet
<1>4. CASE StartPush
  <2>1. Silent
    BY <1>4 DEF StartPush, CountInv, OtherTypes, Due, Awaited, Over
  <2> QED BY <1>0, <2>1, Quiet
<1>5. CASE SendEvent
  <2>1. Silent
    BY <1>5 DEF SendEvent, CountInv, OtherTypes, Due, Awaited, Over
  <2> QED BY <1>0, <2>1, Quiet
<1>6. CASE World
  <2>1. UNCHANGED <<session_state, peers, current, handshaked_peers, pc, loaded>>
    BY <1>6 DEF World, NsmAnswers, NsmOpens, NsmLoaded, PeerHello, PeerLists
  <2>2. Silent
    BY <2>1 DEF Due, Awaited, Over
  <2> QED BY <1>0, <2>2, Quiet
<1> QED
  BY <1>1, <1>2, <1>3, <1>4, <1>5, <1>6 DEF Main

-----------------------------------------------------------------------------
(* The program starts with the invariant, and no step breaks it.           *)
LEMMA InitCountInv == Init => CountInv
<1> SUFFICES ASSUME Init PROVE CountInv
  OBVIOUS
<1>1. OtherTypes
  <2>1. signals \in [Peer -> Seq(Peer)]
    BY DEF Init
  <2>2. pc["main"] = "start" /\ pc["server"] = "idle"
    BY DEF Init
  <2> QED
    BY <2>1, <2>2 DEF Init, OtherTypes
<1>2. Counted
  BY DEF Init, Counted, Due, End
<1> QED
  BY <1>1, <1>2, InitIInv DEF CountInv

LEMMA NextKeepsCountInv == CountInv /\ [Next]_vars => CountInv'
<1> SUFFICES ASSUME CountInv, [Next]_vars PROVE CountInv'
  OBVIOUS
<1>1. IInv'
  BY NextKeepsIInv DEF CountInv
<1>2. CASE Server
  <2>1. CASE Step("server")
    BY <1>1, <2>1, StepKeepsTypes, StepKeepsCount DEF CountInv
  <2>2. CASE ~Step("server")
    BY <1>1, <1>2, <2>2, HandlerKeepsTypes, HandlerKeepsCount DEF CountInv
  <2> QED BY <2>1, <2>2
<1>3. CASE Main \/ World
  <2>1. CASE Step("main")
    BY <1>1, <2>1, StepKeepsTypes, StepKeepsCount DEF CountInv
  <2>2. CASE ~Step("main")
    BY <1>1, <1>3, <2>2, OthersKeepTypes, OthersKeepCount DEF CountInv
  <2> QED BY <2>1, <2>2
<1>4. CASE UNCHANGED vars
  <2>1. OtherTypes' /\ Counted'
    BY <1>4 DEF vars, CountInv, OtherTypes, Counted, Due, Awaited, Passed, Over
  <2> QED
    BY <1>1, <2>1 DEF CountInv
<1> QED
  BY <1>2, <1>3, <1>4 DEF Next

(* The counts are right in every reachable state.                          *)
LEMMA CountInvariance == Spec => []CountInv
<1> QED
  BY InitCountInv, NextKeepsCountInv, PTL DEF Spec

(* However messages, iterations and answers interleave, no more peers are  *)
(* counted as handshaked than are known: an awaited list is one of a peer  *)
(* not counted yet, even when the iterator has been moved while a list     *)
(* was under way, or past the last peer.                                   *)
THEOREM CountsArePeers == Spec => []HandshakesAreCounted
<1>1. CountInv => HandshakesAreCounted
  <2> SUFFICES ASSUME CountInv PROVE HandshakesAreCounted
    OBVIOUS
  <2>1. OtherTypes /\ Counted
    BY DEF CountInv
  <2>2. Due \in {0, 1} /\ Awaited \in {0, 1}
    BY DEF Due, Awaited
  <2>3. handshaked_peers \in Nat
    BY <2>1 DEF OtherTypes
  <2> HIDE DEF Due, Awaited
  <2> QED
    BY <2>1, <2>2, <2>3, PassedFacts DEF Counted, HandshakesAreCounted
<1> QED
  BY CountInvariance, <1>1, PTL

(* The variables keep their types: the iterator is a peer or end(), and    *)
(* the count never exceeds the number of peers there are.                  *)
THEOREM TypeCorrect == Spec => []TypeOK
<1>1. CountInv /\ HandshakesAreCounted => TypeOK
  <2> SUFFICES ASSUME CountInv, HandshakesAreCounted PROVE TypeOK
    OBVIOUS
  <2>1. OtherTypes /\ IInv
    BY DEF CountInv
  <2>2. handshaked_peers \in 0 .. Cardinality(Peer)
    BY <2>1, PassedFacts DEF OtherTypes, HandshakesAreCounted
  <2>3. \A p \in Peer : signals[p] \in Seq(Peer)
    BY <2>1 DEF OtherTypes
  <2> QED
    BY <2>1, <2>2, <2>3 DEF OtherTypes, TypeOK
<1> QED
  BY CountInvariance, CountsArePeers, <1>1, PTL

-----------------------------------------------------------------------------
(* The exchange of signal lists, whatever order the peers come in: the     *)
(* invariant behind SignalsFromTheirPeer and ListsAreComplete.             *)
HIDE DEF IInv, Typed, Mutex, BeforeStart, Opened, AfterHello, FailureSeen,
         Label, State, Late, Goto, Caller

(* The messages of the session manager and of the peers.                   *)
Message == {"announced", "incapable", "error", "open", "hello", "ssfff", "sssfff", "end"}

ExchangeTypes ==
  /\ inbox \in [{NSM} \cup Peer -> Seq(Message)]
  /\ asked \in [Peer -> Nat]
  /\ listed \in [Peer -> Nat]

(* Before the hello no peer is picked.                                     *)
NotYet == hellos = 0 =>
            /\ current = End /\ handshaked_peers = 0 /\ Due = 0
            /\ session_state \notin {"RUNNING", "PEER_AWAIT_SIGNAL_LIST"}
            /\ \A t \in Thread : pc[t] = "body" =>
                 loaded[t] \notin {"RUNNING", "PEER_AWAIT_SIGNAL_LIST"}
            /\ \A p \in Peer : asked[p] = 0

(* All that p has sent is received.                                        *)
Done(p) == listed[p] = 1 /\ inbox[p] = <<>>

DonePeers == {p \in peers : Done(p)}

(* Under way of p's list: k signals and the end.                           *)
Rest(p, k) == /\ Len(inbox[p]) = k + 1 /\ inbox[p][k + 1] = "end"
              /\ \A i \in 1 .. k : inbox[p][i] = format[p]

(* Registered are the signals no longer under way, if they are handled.    *)
Got(p, k) == Len(signals[p]) = IF format[p] = "ssfff" THEN SignalCount - k ELSE 0

Listed(p) == \/ inbox[p] = <<>> /\ Got(p, 0)
             \/ p = current /\ \E k \in 0 .. SignalCount : Rest(p, k) /\ Got(p, k)

(* Where p is in the exchange: hello, list asked for, list sent.  The list *)
(* of a peer that is not the current one has not been asked for or is in.  *)
PeerInv(p) ==
  /\ p \in peers => p \in greeted
  /\ p \notin greeted => inbox[p] = <<>>
  /\ p \in greeted /\ p \notin peers => inbox[p] = <<"hello">>
  /\ asked[p] = 1 => p \in peers /\ (current # End => p <= current)
  /\ asked[p] = 1 /\ p # current => Done(p)
  /\ listed[p] \in {0, asked[p]}
  /\ listed[p] = 0 => signals[p] = <<>> /\ (p \in peers => inbox[p] = <<>>)
  /\ listed[p] = 1 => Listed(p)
  /\ \A i \in 1 .. Len(signals[p]) : signals[p][i] = p

(* The next peer is picked when the list of the last one is in.            *)
Settling == \/ session_state = "RUNNING"
            \/ \E t \in Thread : pc[t] = "body" /\ loaded[t] = "RUNNING"

CurrentInv ==
  /\ current = End \/ current \in peers
  /\ Settling => current = End \/ Done(current)
  /\ current = End => Over \/ \A p \in Peer : asked[p] = 0

(* Counted, or about to be, are no more than are done.                     *)
AllCounted == handshaked_peers + Due <= Cardinality(DonePeers)

Exchange == (\A p \in Peer : PeerInv(p)) /\ CurrentInv /\ AllCounted

ExchangeInv == CountInv /\ ExchangeTypes /\ NotYet /\ (Once => Exchange)

-----------------------------------------------------------------------------
(* A step that is none of the exchange's.                                  *)
Elsewhere ==
  /\ UNCHANGED <<peers, greeted, asked, listed, signals, format, current, handshaked_peers>>
  /\ \A p \in Peer : inbox'[p] = inbox[p]
  /\ Due' = Due
  /\ Settling' => Settling \/ current = End
  /\ Over => Over'

LEMMA DoneFacts ==
  ASSUME OtherTypes
  PROVE  /\ IsFiniteSet(DonePeers) /\ Cardinality(DonePeers) \in Nat
         /\ IsFiniteSet(peers) /\ Cardinality(peers) \in Nat
         /\ Cardinality(DonePeers) <= Cardinality(peers)
<1>1. IsFiniteSet(peers)
  BY PassedFacts
<1>2. DonePeers \in SUBSET peers
  BY DEF DonePeers
<1> QED BY <1>1, <1>2, FS_Subset, FS_CardinalityType

LEMMA ElsewhereKeepsExchange ==
  ASSUME OtherTypes, Exchange, Elsewhere
  PROVE  Exchange'
<1>1. ASSUME NEW p \in Peer PROVE PeerInv(p)' /\ (Done(p)' <=> Done(p))
  <2>1. PeerInv(p) /\ inbox'[p] = inbox[p]
    BY <1>1 DEF Exchange, Elsewhere
  <2>2. Done(p)' <=> Done(p)
    BY <2>1 DEF Elsewhere, Done
  <2>3. Listed(p)' <=> Listed(p)
    BY <2>1 DEF Elsewhere, Listed, Rest, Got
  <2> QED
    BY <2>1, <2>2, <2>3 DEF Elsewhere, PeerInv
<1>2. current \in Peer \cup {End} /\ current' = current
  BY DEF OtherTypes, Elsewhere
<1>3. CurrentInv'
  <2>1. current = End \/ (Done(current)' <=> Done(current))
    BY <1>1, <1>2
  <2>2. /\ current' = End \/ current' \in peers'
        /\ current' = End => Over' \/ \A p \in Peer : asked'[p] = 0
    BY DEF Exchange, CurrentInv, Elsewhere
  <2>3. Settling' => current' = End \/ Done(current)'
    BY <1>2, <2>1 DEF Exchange, CurrentInv, Elsewhere
  <2>4. Done(current)' <=> listed'[current'] = 1 /\ inbox'[current'] = <<>>
    BY DEF Done
  <2> QED
    BY <1>2, <2>2, <2>3, <2>4 DEF CurrentInv
<1>4. DonePeers' = DonePeers
  BY <1>1 DEF OtherTypes, DonePeers, Elsewhere
<1>5. AllCounted'
  BY <1>4 DEF Exchange, AllCounted, Elsewhere
<1> QED
  BY <1>1, <1>3, <1>5 DEF Exchange

(* A list asked for twice stays one.                                       *)
LEMMA OnceBefore ==
  ASSUME ExchangeTypes, [Next]_vars, Once'
  PROVE  Once
<1>1. ASSUME NEW p \in Peer PROVE asked'[p] = asked[p] \/ asked'[p] = asked[p] + 1
  <2>1. CASE UNCHANGED asked
    BY <2>1
  <2>2. ASSUME NEW t \in Thread, SendSignalList(t) PROVE asked'[p] = asked[p] \/ asked'[p] = asked[p] + 1
    <3>1. asked' = asked \/ asked' = [asked EXCEPT ![current] = @ + 1]
      BY <2>2 DEF SendSignalList
    <3> QED
      BY <3>1 DEF ExchangeTypes
  <2>3. UNCHANGED asked \/ \E t \in Thread : SendSignalList(t)
    BY DEF Next, Server, Main, World, Step, Load, SendAnnounce, AwaitReply, AwaitOpen,
           SendHello, PickPeer, StayFailed, HandleReply, Refuse, Accept, HandleError,
           Fail, HandleOpen, OpenSucceeds, OpenFails, CountPeer, HandleHello,
           HandleSignal, DropSignal, HandleListEnd, StartSession, Poll, CheckFailed,
           StartPush, SendEvent, NsmAnswers, NsmOpens, NsmLoaded, PeerHello, PeerLists, vars
  <2> QED BY <2>1, <2>2, <2>3
<1>2. ASSUME NEW p \in Peer PROVE asked[p] <= 1
  <2>1. asked'[p] <= 1 /\ asked[p] \in Nat
    BY DEF Once, ExchangeTypes
  <2> QED
    BY <1>1, <2>1
<1> QED BY <1>2 DEF Once

-----------------------------------------------------------------------------
(* The messages keep their types, and before the hello no peer is picked.  *)
LEMMA IterationKeepsTypes ==
  ASSUME ExchangeInv, NEW t \in Thread, Step(t)
  PROVE  ExchangeTypes' /\ NotYet'
<1> USE DEF In, Goto
<1>1. /\ ExchangeTypes /\ NotYet /\ OtherTypes
      /\ pc \in [Thread -> Label] /\ loaded \in [Thread -> State] /\ hellos \in {0, 1}
  BY DEF ExchangeInv, CountInv, IInv, Typed
<1>2. CASE Load(t)
  BY <1>1, <1>2 DEF Load, ExchangeTypes, NotYet, Due
<1>3. CASE SendAnnounce(t) \/ AwaitReply(t) \/ AwaitOpen(t) \/ StayFailed(t)
  <2>1. /\ UNCHANGED <<inbox, asked, listed, hellos, current, handshaked_peers, loaded>>
        /\ session_state' = session_state \/ session_state' \notin {"RUNNING", "PEER_AWAIT_SIGNAL_LIST"}
        /\ pc' \in {[pc EXCEPT ![t] = "step"], [pc EXCEPT ![t] = Caller(t)]}
    BY <1>3 DEF SendAnnounce, AwaitReply, AwaitOpen, StayFailed
  <2>2. Due' = Due \/ Due' = 0
    BY <1>1, <2>1 DEF Due, Caller
  <2> QED
    BY <1>1, <2>1, <2>2 DEF ExchangeTypes, NotYet, Caller
<1>4. CASE SendHello(t)
  BY <1>1, <1>4 DEF SendHello, ExchangeTypes, NotYet
<1>5. CASE SendSignalList(t)
  <2>1. hellos # 0 /\ hellos' = hellos
    BY <1>1, <1>5 DEF SendSignalList, NotYet
  <2>2. asked' \in [Peer -> Nat]
    <3>1. current # End => current \in Peer /\ asked[current] + 1 \in Nat
      BY <1>1 DEF OtherTypes, ExchangeTypes
    <3> QED
      BY <1>1, <1>5, <3>1 DEF SendSignalList, ExchangeTypes
  <2> QED
    BY <1>1, <1>5, <2>1, <2>2 DEF SendSignalList, ExchangeTypes, NotYet
<1>6. CASE PickPeer(t)
  BY <1>1, <1>6 DEF PickPeer, ExchangeTypes, NotYet
<1> QED
  BY <1>2, <1>3, <1>4, <1>5, <1>6 DEF Step

LEMMA OtherStepsKeepTypes ==
  ASSUME ExchangeInv, Server \/ Main \/ World, ~Step("server"), ~Step("main")
  PROVE  ExchangeTypes' /\ NotYet'
<1> USE DEF Goto
<1>1. /\ ExchangeTypes /\ NotYet /\ OtherTypes
      /\ pc \in [Thread -> Label] /\ loaded \in [Thread -> State] /\ hellos \in {0, 1}
  BY DEF ExchangeInv, CountInv, IInv, Typed
<1>2. ASSUME NEW s \in {NSM} \cup Peer, NEW type, Receives(s, type)
      PROVE  inbox' \in [{NSM} \cup Peer -> Seq(Message)]
  <2>1. Tail(inbox[s]) \in Seq(Message)
    BY <1>1, <1>2, HeadTailProperties DEF ExchangeTypes, Receives
  <2> QED
    BY <1>1, <1>2, <2>1 DEF ExchangeTypes, Receives
<1>3. CASE HandleReply \/ HandleError \/ HandleOpen
  <2>1. inbox' \in [{NSM} \cup Peer -> Seq(Message)]
    BY <1>2, <1>3 DEF HandleReply, HandleError, HandleOpen
  <2>2. /\ UNCHANGED <<asked, listed, hellos, current, handshaked_peers, loaded, session_state>>
        /\ pc'["main"] = pc["main"]
        /\ pc'["server"] \in {pc["server"], "fail", "refuse", "accept", "opening"}
    BY <1>1, <1>3 DEF HandleReply, HandleError, HandleOpen
  <2> QED
    BY <1>1, <2>1, <2>2 DEF ExchangeTypes, NotYet, Due
<1>4. CASE Refuse \/ Accept \/ Fail \/ OpenSucceeds \/ OpenFails
  <2>1. /\ UNCHANGED <<inbox, asked, listed, hellos, current, handshaked_peers, loaded>>
        /\ session_state' \in {session_state, "FAILED"}
        /\ pc'["main"] = pc["main"] /\ pc'["server"] \in {"accept", "step", "idle"}
    BY <1>1, <1>4 DEF Refuse, Accept, Fail, OpenSucceeds, OpenFails
  <2> QED
    BY <1>1, <2>1 DEF ExchangeTypes, NotYet, Due
<1>5. CASE CountPeer
  BY <1>1, <1>5 DEF CountPeer, ExchangeTypes, NotYet, Due
<1>6. ASSUME NEW p \in Peer, HandleHello(p) \/ HandleSignal(p) \/ DropSignal(p) \/ HandleListEnd(p)
      PROVE  ExchangeTypes' /\ NotYet'
  <2>1. inbox' \in [{NSM} \cup Peer -> Seq(Message)]
    BY <1>2, <1>6 DEF HandleHello, HandleSignal, DropSignal, HandleListEnd
  <2>2. /\ UNCHANGED <<asked, listed, hellos, current, handshaked_peers, loaded>>
        /\ session_state' = session_state \/ session_state = "PEER_AWAIT_SIGNAL_LIST"
        /\ pc'["main"] = pc["main"]
        /\ \/ pc'["server"] \in {pc["server"], "step"}
           \/ session_state = "PEER_AWAIT_SIGNAL_LIST" /\ pc'["server"] = "count"
    BY <1>1, <1>6 DEF HandleHello, HandleSignal, DropSignal, HandleListEnd
  <2> QED
    BY <1>1, <2>1, <2>2 DEF ExchangeTypes, NotYet, Due
<1>7. CASE StartSession \/ Poll \/ CheckFailed \/ StartPush \/ SendEvent
  <2>1. /\ UNCHANGED <<inbox, asked, listed, hellos, current, handshaked_peers, loaded>>
        /\ session_state' \in {session_state, "HELLO_START", "HANDSHAKE_START"}
        /\ pc'["server"] = pc["server"]
        /\ pc'["main"] \in {pc["main"], "step", "check", "gone", "read", "push"}
    BY <1>1, <1>7 DEF StartSession, Poll, CheckFailed, StartPush, SendEvent
  <2> QED
    BY <1>1, <2>1 DEF ExchangeTypes, NotYet, Due
<1>8. CASE World
  <2>1. UNCHANGED <<asked, hellos, current, handshaked_peers, loaded, session_state, pc>>
    BY <1>8 DEF World, NsmAnswers, NsmOpens, NsmLoaded, PeerHello, PeerLists
  <2>2. ASSUME NEW s \in {NSM} \cup Peer, NEW m \in Seq(Message), Sends(s, m)
        PROVE  inbox' \in [{NSM} \cup Peer -> Seq(Message)]
    <3>1. inbox[s] \o m \in Seq(Message)
      BY <1>1, <2>2 DEF ExchangeTypes
    <3> QED
      BY <1>1, <2>2, <3>1 DEF ExchangeTypes, Sends
  <2>3. ASSUME NEW m \in Message PROVE <<m>> \in Seq(Message)
    OBVIOUS
  <2>4. CASE NsmAnswers \/ NsmOpens \/ NsmLoaded
    <3>1. \/ \E m \in Message : Sends(NSM, <<m>>)
          \/ inbox' = inbox
      BY <2>4, BoundsAssumption DEF NsmAnswers, NsmOpens, NsmLoaded, Message
    <3>2. listed' = listed
      BY <2>4 DEF NsmAnswers, NsmOpens, NsmLoaded
    <3> QED
      BY <1>1, <2>1, <2>2, <2>3, <3>1, <3>2 DEF ExchangeTypes, NotYet, Due
  <2>5. ASSUME NEW p \in Peer, PeerHello(p) PROVE ExchangeTypes' /\ NotYet'
    <3>1. "hello" \in Message /\ Sends(p, <<"hello">>) /\ listed' = listed
      BY <2>5 DEF PeerHello, Message
    <3> QED
      BY <1>1, <2>1, <2>2, <2>3, <3>1 DEF ExchangeTypes, NotYet, Due
  <2>6. ASSUME NEW p \in Peer, PeerLists(p) PROVE ExchangeTypes' /\ NotYet'
    <3>1. format[p] \in Message /\ "end" \in Message /\ SignalCount \in Nat
      BY <1>1, BoundsAssumption DEF OtherTypes, Message
    <3>2. [i \in 1 .. SignalCount |-> format[p]] \in Seq(Message)
      BY <3>1
    <3>3. [i \in 1 .. SignalCount |-> format[p]] \o <<"end">> \in Seq(Message)
      BY <2>3, <3>1, <3>2
    <3>4. inbox' \in [{NSM} \cup Peer -> Seq(Message)]
      BY <2>2, <2>6, <3>3 DEF PeerLists
    <3>5. listed' \in [Peer -> Nat]
      BY <1>1, <2>6 DEF PeerLists, ExchangeTypes
    <3> QED
      BY <1>1, <2>1, <3>4, <3>5 DEF ExchangeTypes, NotYet, Due
  <2> QED
    BY <1>8, <2>4, <2>5, <2>6 DEF World
<1> QED
  BY <1>3, <1>4, <1>5, <1>6, <1>7, <1>8 DEF Server, Main

-----------------------------------------------------------------------------
(* The iterations, while no list is asked for twice.                       *)
LEMMA QuietIterations ==
  ASSUME ExchangeInv, Exchange, NEW t \in Thread,
         \/ Load(t) \/ SendAnnounce(t) \/ AwaitReply(t) \/ AwaitOpen(t)
         \/ SendHello(t) \/ StayFailed(t)
  PROVE  Exchange'
<1> USE DEF In, Goto, Caller
<1>1. /\ OtherTypes /\ NotYet
      /\ pc \in [Thread -> Label] /\ loaded \in [Thread -> State] /\ hellos \in {0, 1}
      /\ pc["server"] # "count" \/ t = "main"
  BY DEF ExchangeInv, CountInv, IInv, Typed, Load, SendAnnounce, AwaitReply, AwaitOpen,
         SendHello, StayFailed
<1>2. UNCHANGED <<peers, greeted, asked, listed, signals, format, current, handshaked_peers, inbox>>
  BY DEF Load, SendAnnounce, AwaitReply, AwaitOpen, SendHello, StayFailed
<1>3. CASE Load(t)
  BY <1>1, <1>2, <1>3, ElsewhereKeepsExchange DEF Load, Elsewhere, Due, Over, Settling
<1>4. CASE SendAnnounce(t) \/ AwaitReply(t) \/ AwaitOpen(t)
  <2>1. /\ pc[t] = "body" /\ loaded[t] \notin {"PEER_AWAIT_SIGNAL_LIST", "FAILED"}
        /\ session_state' = session_state \/ session_state' # "RUNNING"
        /\ pc' \in {[pc EXCEPT ![t] = "step"], [pc EXCEPT ![t] = Caller(t)]}
        /\ loaded' = loaded
    BY <1>4 DEF SendAnnounce, AwaitReply, AwaitOpen
  <2>2. ~Over
    BY <2>1 DEF Over
  <2>3. Settling' => Settling
    BY <1>1, <2>1 DEF Settling
  <2>4. Due' = Due
    BY <1>1, <2>1 DEF Due
  <2> QED
    BY <1>1, <1>2, <2>2, <2>3, <2>4, ElsewhereKeepsExchange DEF Elsewhere
<1>5. CASE SendHello(t)
  <2>1. current = End
    BY <1>1, <1>5 DEF SendHello, NotYet, ExchangeInv, CountInv, IInv, AfterHello, Late
  <2>2. ~Over
    BY <1>5 DEF SendHello, Over
  <2>3. Due' = Due
    BY <1>1, <1>5 DEF SendHello, Due
  <2> QED
    BY <1>1, <1>2, <2>1, <2>2, <2>3, ElsewhereKeepsExchange DEF Elsewhere
<1>6. CASE StayFailed(t)
  BY <1>1, <1>2, <1>6, ElsewhereKeepsExchange DEF StayFailed, Elsewhere, Due, Over, Settling
<1> QED
  BY <1>3, <1>4, <1>5, <1>6

(* The peer that is asked had not been: it is the current one, whose list  *)
(* is now awaited.                                                         *)
LEMMA SendSignalListKeepsExchange ==
  ASSUME ExchangeInv, Exchange, Once', NEW t \in Thread, SendSignalList(t)
  PROVE  Exchange'
<1> USE DEF In, Goto, Caller
<1>1. /\ OtherTypes /\ ExchangeTypes /\ pc \in [Thread -> Label]
  BY DEF ExchangeInv, CountInv, IInv, Typed
<1>2. /\ UNCHANGED <<peers, greeted, listed, signals, format, current, handshaked_peers,
                     inbox, session_state, loaded>>
      /\ pc' = pc \/ pc' = [pc EXCEPT ![t] = Caller(t)]
      /\ pc[t] = "body"
  BY DEF SendSignalList
<1>3. /\ Due' = Due /\ (Settling' => Settling) /\ (Over => Over')
  BY <1>1, <1>2 DEF Due, Settling, Over
<1>4. CASE current = End
  <2>1. asked' = asked
    BY <1>4 DEF SendSignalList
  <2> QED
    BY <1>1, <1>2, <1>3, <2>1, ElsewhereKeepsExchange DEF Elsewhere
<1>5. CASE current # End
  <2>1. current \in Peer /\ current \in peers /\ current \in Nat
    BY <1>1, <1>5, PeerAssumption DEF Exchange, CurrentInv, OtherTypes
  <2>2. asked' = [asked EXCEPT ![current] = @ + 1]
    BY <1>5 DEF SendSignalList
  <2>3. asked'[current] = asked[current] + 1 /\ \A p \in Peer : p # current => asked'[p] = asked[p]
    BY <1>1, <2>1, <2>2 DEF ExchangeTypes
  <2>4. asked[current] = 0 /\ asked'[current] = 1
    BY <1>1, <2>1, <2>3 DEF Once, ExchangeTypes
  <2>5. ~Done(current)
    BY <2>1, <2>4 DEF Exchange, PeerInv, Done
  <2>6. ASSUME NEW p \in Peer PROVE PeerInv(p)' /\ (Done(p)' <=> Done(p))
    <3>1. PeerInv(p) /\ (Done(p)' <=> Done(p))
      BY <1>2 DEF Exchange, Done
    <3>2. Listed(p)' <=> Listed(p)
      BY <1>2 DEF Listed, Rest, Got
    <3>3. CASE p = current
      BY <1>2, <2>1, <2>4, <3>1, <3>2, <3>3 DEF PeerInv
    <3>4. CASE p # current
      BY <1>2, <2>3, <3>1, <3>2, <3>4 DEF PeerInv
    <3> QED BY <3>1, <3>3, <3>4
  <2>7. CurrentInv'
    BY <1>2, <1>3, <1>5, <2>1, <2>5 DEF Exchange, CurrentInv
  <2>8. DonePeers' = DonePeers
    BY <1>1, <1>2, <2>6 DEF DonePeers, OtherTypes
  <2>9. AllCounted'
    BY <1>2, <1>3, <2>8 DEF Exchange, AllCounted
  <2> QED
    BY <2>6, <2>7, <2>9 DEF Exchange
<1> QED BY <1>4, <1>5

(* The next peer is picked when nothing of the others is under way.        *)
LEMMA PickPeerKeepsExchange ==
  ASSUME ExchangeInv, Exchange, Once, NEW t \in Thread, PickPeer(t)
  PROVE  Exchange'
<1> USE DEF In, Goto, Caller
<1> DEFINE n == After(current)
<1>1. /\ OtherTypes /\ ExchangeTypes /\ pc \in [Thread -> Label] /\ Mutex
      /\ pc[t] = "body" /\ loaded[t] = "RUNNING"
  BY DEF ExchangeInv, CountInv, IInv, Typed, PickPeer
<1>2. /\ UNCHANGED <<peers, greeted, asked, listed, signals, format, handshaked_peers, inbox, loaded>>
      /\ pc' \in {[pc EXCEPT ![t] = "step"], [pc EXCEPT ![t] = Caller(t)]}
  BY DEF PickPeer
<1>3. Due' = Due
  BY <1>1, <1>2 DEF Due
<1>4. CASE ~(handshaked_peers < Cardinality(peers))
  <2>1. UNCHANGED <<current, session_state>>
    BY <1>4 DEF PickPeer
  <2>2. ~Over
    BY <1>1 DEF Over
  <2>3. Settling' => Settling
    BY <1>1, <1>2, <2>1 DEF Settling
  <2> QED
    BY <1>1, <1>2, <1>3, <2>1, <2>2, <2>3, ElsewhereKeepsExchange DEF Elsewhere
<1>5. CASE handshaked_peers < Cardinality(peers)
  <2>1. current' = n /\ session_state' = "PEER_AWAIT_SIGNAL_LIST"
    BY <1>5 DEF PickPeer
  <2>2. ~Settling' /\ Over' /\ ~Over
    BY <1>1, <1>2, <2>1 DEF Settling, Over, Mutex
  <2>3. current = End \/ Done(current)
    BY <1>1 DEF Settling, Exchange, CurrentInv
  <2>4. current = End => \A p \in Peer : asked[p] = 0
    BY <2>2 DEF Exchange, CurrentInv
  <2>5. n \in peers \cup {End} /\ (n # End => n > current)
    BY <1>1, AfterFacts
  <2>6. /\ \A q \in peers : q \in Peer /\ q \in Nat
        /\ current \in Nat \cup {-1} /\ current \in Peer \cup {End}
    BY <1>1, PeerAssumption DEF OtherTypes, End
  <2> HIDE DEF n
  <2>7. ASSUME NEW p \in Peer PROVE PeerInv(p)' /\ (Done(p)' <=> Done(p))
    <3>1. PeerInv(p) /\ (Done(p)' <=> Done(p))
      BY <1>2 DEF Exchange, Done
    <3>2. asked[p] = 1 => Done(p)
      BY <2>3, <2>4, <3>1 DEF PeerInv
    <3>3. asked[p] = 1 => p \in peers /\ (n # End => p <= n)
      <4>1. SUFFICES ASSUME asked[p] = 1, n # End PROVE p \in peers /\ p <= n
        BY <3>1 DEF PeerInv
      <4>2. current # End
        BY <2>4, <4>1
      <4>3. p \in peers /\ p <= current
        BY <3>1, <4>1, <4>2 DEF PeerInv
      <4>4. p \in Nat /\ current \in Nat /\ n \in Nat /\ n > current
        BY <2>5, <2>6, <4>1, <4>2, <4>3 DEF End
      <4> QED BY <4>3, <4>4
    <3>4. listed[p] = 1 => Listed(p)'
      <4>1. SUFFICES ASSUME listed[p] = 1 PROVE Listed(p)'
        OBVIOUS
      <4>2. asked[p] = 1 /\ Listed(p)
        BY <3>1, <4>1 DEF PeerInv
      <4>3. inbox[p] = <<>>
        BY <3>2, <4>2 DEF Done
      <4>4. Got(p, 0)
        BY <4>2, <4>3 DEF Listed, Rest
      <4> QED
        BY <1>2, <4>3, <4>4 DEF Listed, Got
    <3>5. p # n => (asked[p] = 1 => Done(p)')
      BY <3>1, <3>2
    <3> QED
      BY <1>2, <2>1, <3>1, <3>2, <3>3, <3>4 DEF PeerInv
  <2>8. CurrentInv'
    BY <1>2, <2>1, <2>2, <2>5 DEF CurrentInv
  <2>9. DonePeers' = DonePeers
    BY <1>2, <2>6, <2>7 DEF DonePeers
  <2>10. AllCounted'
    BY <1>2, <1>3, <2>9 DEF Exchange, AllCounted
  <2> QED
    BY <2>7, <2>8, <2>10 DEF Exchange
<1> QED BY <1>4, <1>5

(* The answers of the session manager, projects and JACK.                  *)
LEMMA NsmHandlersKeepExchange ==
  ASSUME ExchangeInv, Exchange,
         \/ HandleReply \/ Refuse \/ Accept \/ HandleError \/ Fail
         \/ HandleOpen \/ OpenSucceeds \/ OpenFails
  PROVE  Exchange'
<1> USE DEF Goto
<1>1. OtherTypes /\ ExchangeTypes /\ pc \in [Thread -> Label]
  BY DEF ExchangeInv, CountInv, IInv, Typed
<1>2. \A p \in Peer : p # NSM
  BY PeerAssumption DEF NSM
<1>3. \A p \in Peer : inbox'[p] = inbox[p]
  BY <1>1, <1>2 DEF HandleReply, Refuse, Accept, HandleError, Fail, HandleOpen, OpenSucceeds,
     OpenFails, Receives, ExchangeTypes
<1>4. /\ UNCHANGED <<peers, greeted, asked, listed, signals, format, current, handshaked_peers, loaded>>
      /\ session_state' \in {session_state, "FAILED"}
      /\ pc["server"] \in {"idle", "refuse", "accept", "fail", "opening"}
      /\ pc' = pc \/ \E l \in {"fail", "refuse", "accept", "opening", "step", "idle"} :
                        pc' = [pc EXCEPT !["server"] = l]
  BY DEF HandleReply, Refuse, Accept, HandleError, Fail, HandleOpen, OpenSucceeds,
     OpenFails, Receives
<1>5. Due' = Due
  BY <1>1, <1>4 DEF Due
<1>6. Settling' => Settling
  BY <1>1, <1>4 DEF Settling
<1>7. Over => Over'
  BY <1>1, <1>4 DEF Over
<1> QED
  BY <1>1, <1>3, <1>4, <1>5, <1>6, <1>7, ElsewhereKeepsExchange DEF Elsewhere

(* The main thread outside the state machine, and what NSM sends.          *)
LEMMA MainAndNsmKeepExchange ==
  ASSUME ExchangeInv, Exchange,
         \/ StartSession \/ Poll \/ CheckFailed \/ StartPush \/ SendEvent
         \/ NsmAnswers \/ NsmOpens \/ NsmLoaded
  PROVE  Exchange'
<1> USE DEF Goto
<1>1. OtherTypes /\ ExchangeTypes /\ pc \in [Thread -> Label] /\ BeforeStart
  BY DEF ExchangeInv, CountInv, IInv, Typed
<1>2. UNCHANGED <<peers, greeted, asked, listed, signals, format, current, handshaked_peers, loaded>>
  BY DEF StartSession, Poll, CheckFailed, StartPush, SendEvent, NsmAnswers, NsmOpens, NsmLoaded
<1>3. CASE StartSession \/ Poll \/ CheckFailed \/ StartPush \/ SendEvent
  <2>1. /\ inbox' = inbox
        /\ session_state' = session_state \/ (~Over /\ session_state' # "RUNNING")
        /\ pc' = pc \/ \E l \in {"step", "check", "gone", "read", "push"} :
                          pc' = [pc EXCEPT !["main"] = l]
        /\ pc["main"] # "body"
    <3>1. CASE StartSession
      <4>1. session_state = "NO_SESSION"
        BY <1>1, <3>1 DEF StartSession, BeforeStart
      <4> QED
        BY <3>1, <4>1 DEF StartSession, Over
    <3>2. CASE Poll
      BY <3>2 DEF Poll
    <3>3. CASE CheckFailed
      <4>1. pc' = [pc EXCEPT !["main"] = "gone"] \/ pc' = [pc EXCEPT !["main"] = "read"]
        <5>1. CASE session_state = "FAILED"
          BY <3>3, <5>1 DEF CheckFailed
        <5>2. CASE session_state # "FAILED"
          BY <3>3, <5>2 DEF CheckFailed
        <5> QED BY <5>1, <5>2
      <4> QED
        BY <3>3, <4>1 DEF CheckFailed
    <3>4. CASE StartPush
      BY <3>4 DEF StartPush
    <3>5. CASE SendEvent
      BY <3>5 DEF SendEvent
    <3> QED BY <1>3, <3>1, <3>2, <3>3, <3>4, <3>5
  <2>2. Due' = Due
    BY <1>1, <2>1 DEF Due
  <2>3. Settling' => Settling
    BY <1>1, <1>2, <2>1 DEF Settling
  <2>4. Over => Over'
    BY <1>1, <1>2, <2>1 DEF Over
  <2> QED
    BY <1>1, <1>2, <2>1, <2>2, <2>3, <2>4, ElsewhereKeepsExchange DEF Elsewhere
<1>4. CASE NsmAnswers \/ NsmOpens \/ NsmLoaded
  <2>1. UNCHANGED <<session_state, pc>>
    BY <1>4 DEF NsmAnswers, NsmOpens, NsmLoaded
  <2>2. \A p \in Peer : p # NSM
    BY PeerAssumption DEF NSM
  <2>3. \A p \in Peer : inbox'[p] = inbox[p]
    BY <1>1, <1>4, <2>2 DEF NsmAnswers, NsmOpens, NsmLoaded, Sends, ExchangeTypes
  <2>4. Due' = Due /\ (Settling' => Settling) /\ (Over => Over')
    BY <1>2, <2>1 DEF Due, Settling, Over
  <2> QED
    BY <1>1, <1>2, <2>3, <2>4, ElsewhereKeepsExchange DEF Elsewhere
<1> QED BY <1>3, <1>4

-----------------------------------------------------------------------------
(* A message from a peer tells where the peer is.                          *)
LEMMA FromPeer ==
  ASSUME OtherTypes, ExchangeTypes, Exchange, Once, NEW s \in Peer, NEW type, Receives(s, type)
  PROVE  /\ pc["server"] = "idle"
         /\ inbox' \in [{NSM} \cup Peer -> Seq(Message)]
         /\ inbox[s] # <<>> /\ inbox'[s] = Tail(inbox[s])
         /\ Len(inbox'[s]) = Len(inbox[s]) - 1
         /\ \A i \in 1 .. Len(inbox'[s]) : inbox'[s][i] = inbox[s][i + 1]
         /\ \A p \in Peer : p # s => inbox'[p] = inbox[p]
         /\ \/ /\ type = "hello" /\ s \in greeted /\ s \notin peers
               /\ inbox'[s] = <<>>
            \/ /\ s \in peers /\ s = current /\ listed[s] = 1
               /\ \E k \in 0 .. SignalCount :
                    /\ Rest(s, k) /\ Got(s, k)
                    /\ type = (IF k = 0 THEN "end" ELSE format[s])
<1> USE DEF Receives
<1>2. inbox[s] # <<>> /\ inbox[s] \in Seq(Message)
  BY DEF ExchangeTypes
<1>3. /\ Tail(inbox[s]) \in Seq(Message)
      /\ Len(Tail(inbox[s])) = Len(inbox[s]) - 1
      /\ \A i \in 1 .. Len(Tail(inbox[s])) : Tail(inbox[s])[i] = inbox[s][i + 1]
  BY <1>2, HeadTailProperties
<1>4. /\ inbox' \in [{NSM} \cup Peer -> Seq(Message)]
      /\ inbox'[s] = Tail(inbox[s])
      /\ \A p \in Peer : p # s => inbox'[p] = inbox[p]
  BY <1>3 DEF ExchangeTypes
<1>5. PeerInv(s)
  BY DEF Exchange
<1>6. Head(inbox[s]) = inbox[s][1] /\ type = inbox[s][1]
  BY <1>2
<1>7. CASE s \notin peers
  <2>1. s \in greeted /\ inbox[s] = <<"hello">>
    BY <1>2, <1>5, <1>7 DEF PeerInv
  <2> QED
    BY <1>2, <1>3, <1>4, <1>6, <1>7, <2>1
<1>8. CASE s \in peers
  <2>1. asked[s] \in {0, 1}
    BY DEF Once, ExchangeTypes
  <2>2. listed[s] = 1 /\ Listed(s)
    BY <1>2, <1>5, <1>8, <2>1 DEF PeerInv
  <2>3. PICK k \in 0 .. SignalCount : Rest(s, k) /\ Got(s, k)
    BY <1>2, <2>2 DEF Listed
  <2>4. s = current
    BY <1>2, <2>2 DEF Listed
  <2>5. type = (IF k = 0 THEN "end" ELSE format[s])
    BY <1>6, <2>3, BoundsAssumption DEF Rest
  <2> QED
    BY <1>2, <1>3, <1>4, <1>8, <2>2, <2>3, <2>4, <2>5
<1> QED
  BY <1>7, <1>8

(* A new peer has not been asked; it may come before the current one in    *)
(* the order of the map, and while that one's list is under way.           *)
LEMMA HandleHelloKeepsExchange ==
  ASSUME ExchangeInv, Exchange, Once, NEW s \in Peer, HandleHello(s)
  PROVE  Exchange'
<1> USE DEF Goto
<1>1. OtherTypes /\ ExchangeTypes /\ pc \in [Thread -> Label] /\ Receives(s, "hello")
  BY DEF ExchangeInv, CountInv, IInv, Typed, HandleHello
<1>2. /\ pc["server"] = "idle"
      /\ inbox'[s] = <<>>
      /\ \A p \in Peer : p # s => inbox'[p] = inbox[p]
      /\ s \in greeted /\ s \notin peers
  <2>1. \A k \in 0 .. SignalCount : "hello" # (IF k = 0 THEN "end" ELSE format[s])
    BY <1>1, BoundsAssumption DEF OtherTypes
  <2>2. \/ s \in greeted /\ s \notin peers /\ inbox'[s] = <<>>
        \/ \E k \in 0 .. SignalCount : "hello" = (IF k = 0 THEN "end" ELSE format[s])
    BY <1>1, FromPeer
  <2>3. pc["server"] = "idle" /\ \A p \in Peer : p # s => inbox'[p] = inbox[p]
    BY <1>1, FromPeer
  <2> QED
    BY <2>1, <2>2, <2>3
<1>3. /\ peers' = peers \cup {s}
      /\ pc' = [pc EXCEPT !["server"] = "step"]
      /\ UNCHANGED <<session_state, current, signals, format, handshaked_peers, greeted, asked,
                     listed, loaded>>
  BY <1>2 DEF HandleHello
<1>4. /\ Due' = Due /\ (Settling' => Settling) /\ (Over => Over')
  BY <1>1, <1>2, <1>3 DEF Due, Settling, Over
<1>5. PeerInv(s) /\ asked[s] = 0 /\ listed[s] = 0
  <2>1. PeerInv(s) /\ asked[s] \in {0, 1}
    BY <1>1 DEF Exchange, Once, ExchangeTypes
  <2> QED
    BY <1>2, <2>1 DEF PeerInv
<1>6. ASSUME NEW p \in Peer PROVE PeerInv(p)' /\ (Done(p)' <=> Done(p))
  <2>1. CASE p = s
    BY <1>2, <1>3, <1>5, <2>1 DEF PeerInv, Done
  <2>2. CASE p # s
    <3>1. PeerInv(p) /\ inbox'[p] = inbox[p]
      BY <1>2, <2>2 DEF Exchange
    <3>2. (Listed(p)' <=> Listed(p)) /\ (Done(p)' <=> Done(p))
      BY <1>3, <3>1 DEF Listed, Rest, Got, Done
    <3> QED
      BY <1>3, <2>2, <3>1, <3>2 DEF PeerInv
  <2> QED BY <2>1, <2>2
<1>7. current \in Peer \cup {End}
  BY <1>1 DEF OtherTypes
<1>8. CurrentInv'
  <2>1. /\ current' = End \/ current' \in peers'
        /\ current' = End => Over' \/ \A p \in Peer : asked'[p] = 0
    BY <1>3, <1>4 DEF Exchange, CurrentInv
  <2>2. Settling' => current = End \/ Done(current)
    BY <1>4 DEF Exchange, CurrentInv
  <2>3. current # End => (Done(current) => listed[current] = 1 /\ inbox'[current] = <<>>)
    BY <1>6, <1>7, <1>3 DEF Done
  <2> QED
    BY <1>3, <2>1, <2>2, <2>3 DEF CurrentInv, Done
<1>9. DonePeers' = DonePeers
  <2>1. \A p \in peers' : p \in Peer
    BY <1>1, <1>3 DEF OtherTypes
  <2>2. ~Done(s)
    BY <1>5 DEF Done
  <2> QED
    BY <1>3, <1>6, <2>1, <2>2 DEF DonePeers
<1>10. AllCounted'
  BY <1>3, <1>4, <1>9 DEF Exchange, AllCounted
<1> QED
  BY <1>6, <1>8, <1>10 DEF Exchange

(* A signal, of either format, is one less under way; the current peer is  *)
(* the one that sent it.                                                   *)
LEMMA SignalsKeepExchange ==
  ASSUME ExchangeInv, Exchange, Once, NEW s \in Peer, HandleSignal(s) \/ DropSignal(s)
  PROVE  Exchange'
<1>1. /\ OtherTypes /\ ExchangeTypes
  BY DEF ExchangeInv, CountInv
<1>2. PICK t \in {"ssfff", "sssfff"} : Receives(s, t)
  BY DEF HandleSignal, DropSignal
<1>3. /\ Len(inbox'[s]) = Len(inbox[s]) - 1
      /\ \A i \in 1 .. Len(inbox'[s]) : inbox'[s][i] = inbox[s][i + 1]
      /\ \A p \in Peer : p # s => inbox'[p] = inbox[p]
      /\ s \in peers /\ s = current /\ listed[s] = 1
  BY <1>1, <1>2, FromPeer
<1>4. PICK k \in 0 .. SignalCount :
         Rest(s, k) /\ Got(s, k) /\ t = (IF k = 0 THEN "end" ELSE format[s])
  BY <1>1, <1>2, FromPeer
<1>5. k > 0 /\ k - 1 \in 0 .. SignalCount /\ t = format[s] /\ k \in Nat /\ k <= SignalCount
  BY <1>4, BoundsAssumption
<1>6. UNCHANGED <<session_state, peers, current, handshaked_peers, pc, loaded, greeted, asked,
                  listed, format>>
  BY DEF HandleSignal, DropSignal
<1>7. /\ signals \in [Peer -> Seq(Peer)]
      /\ \/ t = "ssfff" /\ signals' = [signals EXCEPT ![s] = Append(@, s)]
         \/ t # "ssfff" /\ signals' = signals
  <2>1. current # End
    BY <1>3, PeerAssumption DEF End
  <2>2. CASE HandleSignal(s)
    BY <1>1, <1>2, <1>3, <2>1, <2>2 DEF HandleSignal, OtherTypes, Receives
  <2>3. CASE DropSignal(s)
    BY <1>1, <1>2, <2>3 DEF DropSignal, OtherTypes, Receives
  <2> QED BY <2>2, <2>3
<1>8. inbox[s] # <<>> /\ inbox'[s] # <<>>
  <2>1. Len(inbox[s]) > 0 /\ Len(inbox'[s]) > 0
    BY <1>3, <1>4, <1>5 DEF Rest
  <2> QED BY <2>1
<1>9. \A q \in Peer : (Done(q)' <=> Done(q))
  BY <1>3, <1>6, <1>8 DEF Done
<1>10. Rest(s, k - 1)'
  <2>1. Len(inbox'[s]) = (k - 1) + 1
    BY <1>3, <1>4, <1>5 DEF Rest
  <2>2. inbox'[s][(k - 1) + 1] = "end"
    BY <1>3, <1>4, <1>5, <2>1 DEF Rest
  <2>3. ASSUME NEW i \in 1 .. k - 1 PROVE inbox'[s][i] = format'[s]
    <3>1. i + 1 \in 1 .. k /\ i \in 1 .. Len(inbox'[s])
      BY <1>5, <2>1
    <3>2. inbox'[s][i] = inbox[s][i + 1]
      BY <1>3, <3>1
    <3> QED
      BY <1>4, <1>6, <3>1, <3>2 DEF Rest
  <2> QED BY <2>1, <2>2, <2>3 DEF Rest
<1>11. Got(s, k - 1)' /\ \A i \in 1 .. Len(signals'[s]) : signals'[s][i] = s
  <2>1. PeerInv(s) /\ Len(signals[s]) \in Nat /\ SignalCount \in Nat
    BY <1>7, BoundsAssumption DEF Exchange
  <2>2. CASE t = "ssfff"
    <3>1. signals'[s] = Append(signals[s], s) /\ signals[s] \in Seq(Peer)
      BY <1>7, <2>2
    <3>2. /\ Len(signals'[s]) = Len(signals[s]) + 1
          /\ \A i \in 1 .. Len(signals'[s]) : signals'[s][i] = s
      BY <2>1, <3>1 DEF PeerInv
    <3>3. Len(signals'[s]) = SignalCount - (k - 1)
      <4>1. Len(signals[s]) = SignalCount - k
        BY <1>4, <1>5, <2>2 DEF Got
      <4>2. Len(signals'[s]) = (SignalCount - k) + 1
        BY <3>2, <4>1
      <4>3. SignalCount \in Int /\ k \in Int
        BY <1>5, <2>1
      <4> QED BY <4>2, <4>3
    <3> QED
      BY <1>5, <1>6, <2>2, <3>2, <3>3 DEF Got
  <2>3. CASE t # "ssfff"
    BY <1>4, <1>5, <1>6, <1>7, <2>1, <2>3 DEF Got, PeerInv
  <2> QED BY <2>2, <2>3
<1>12. ASSUME NEW p \in Peer PROVE PeerInv(p)'
  <2>1. PeerInv(p) /\ (Done(p)' <=> Done(p))
    BY <1>9 DEF Exchange
  <2>2. CASE p = s
    <3>1. Listed(s)'
      BY <1>3, <1>5, <1>6, <1>10, <1>11 DEF Listed
    <3> QED
      BY <1>3, <1>6, <1>11, <2>1, <2>2, <3>1 DEF PeerInv
  <2>3. CASE p # s
    <3>1. inbox'[p] = inbox[p] /\ signals'[p] = signals[p]
      BY <1>3, <1>7, <2>3
    <3>2. Listed(p)' <=> Listed(p)
      BY <1>6, <3>1 DEF Listed, Rest, Got
    <3> QED
      BY <1>6, <2>1, <2>3, <3>1, <3>2 DEF PeerInv
  <2> QED BY <2>2, <2>3
<1>13. Due' = Due /\ (Settling' <=> Settling) /\ (Over' <=> Over)
  BY <1>6 DEF Due, Settling, Over
<1>14. CurrentInv'
  <2>1. Settling => Done(current)
    BY <1>3, PeerAssumption DEF Exchange, CurrentInv, End
  <2>2. ~Done(current)
    BY <1>3, <1>8 DEF Done
  <2> QED
    BY <1>3, <1>6, <1>13, <2>1, <2>2 DEF Exchange, CurrentInv
<1>15. DonePeers' = DonePeers
  BY <1>1, <1>6, <1>9 DEF DonePeers, OtherTypes
<1>16. AllCounted'
  BY <1>6, <1>13, <1>15 DEF Exchange, AllCounted
<1> QED
  BY <1>12, <1>14, <1>16 DEF Exchange
(* The end of a list, if awaited, makes its peer due.                      *)
LEMMA HandleListEndKeepsExchange ==
  ASSUME ExchangeInv, Exchange, Once, NEW s \in Peer, HandleListEnd(s)
  PROVE  Exchange'
<1> USE DEF Goto
<1>1. OtherTypes /\ ExchangeTypes /\ pc \in [Thread -> Label] /\ Receives(s, "end")
  BY DEF ExchangeInv, CountInv, IInv, Typed, HandleListEnd
<1>2. /\ pc["server"] = "idle"
      /\ inbox' \in [{NSM} \cup Peer -> Seq(Message)]
      /\ Len(inbox'[s]) = Len(inbox[s]) - 1
      /\ inbox[s] # <<>>
      /\ \A p \in Peer : p # s => inbox'[p] = inbox[p]
  BY <1>1, FromPeer
<1>3. /\ s \in peers /\ s = current /\ listed[s] = 1
       /\ \E k \in 0 .. SignalCount :
            Rest(s, k) /\ Got(s, k) /\ "end" = (IF k = 0 THEN "end" ELSE format[s])
  <2>1. "end" # "hello"
    OBVIOUS
  <2> QED
    BY <1>1, <2>1, FromPeer
<1>4. PICK k \in 0 .. SignalCount :
         Rest(s, k) /\ Got(s, k) /\ "end" = (IF k = 0 THEN "end" ELSE format[s])
  BY <1>3
<1>5. k = 0 /\ inbox'[s] = <<>>
  <2>1. format[s] # "end"
    BY <1>1, BoundsAssumption DEF OtherTypes
  <2>2. k = 0
    BY <1>4, <2>1
  <2>3. inbox'[s] \in Seq(Message) /\ Len(inbox'[s]) = 0
    BY <1>2, <1>4, <2>2 DEF Rest
  <2> QED BY <2>2, <2>3
<1>6. current # End
  BY <1>3, PeerAssumption DEF End
<1>7. /\ \/ /\ session_state # "PEER_AWAIT_SIGNAL_LIST"
            /\ session_state' = session_state /\ pc' = pc
         \/ /\ session_state = "PEER_AWAIT_SIGNAL_LIST"
            /\ session_state' = "RUNNING" /\ pc' = [pc EXCEPT !["server"] = "count"]
      /\ UNCHANGED <<peers, current, signals, format, handshaked_peers, greeted, asked, listed, loaded>>
  BY <1>6 DEF HandleListEnd
<1>8. Done(s)' /\ ~Done(s) /\ \A q \in Peer : q # s => (Done(q)' <=> Done(q))
  BY <1>2, <1>3, <1>5, <1>7 DEF Done
<1>9. ASSUME NEW p \in Peer PROVE PeerInv(p)'
  <2>1. PeerInv(p)
    BY DEF Exchange
  <2>2. CASE p = s
    <3>1. Listed(p)'
      BY <1>4, <1>5, <1>7, <2>2 DEF Listed, Got
    <3> QED
      BY <1>3, <1>7, <1>8, <2>1, <2>2, <3>1 DEF PeerInv
  <2>3. CASE p # s
    <3>1. inbox'[p] = inbox[p]
      BY <1>2, <2>3
    <3>2. Listed(p)' <=> Listed(p)
      BY <1>7, <3>1 DEF Listed, Rest, Got
    <3> QED
      BY <1>7, <1>8, <2>1, <2>3, <3>1, <3>2 DEF PeerInv
  <2> QED BY <2>2, <2>3
<1>10. CurrentInv'
  BY <1>3, <1>6, <1>7, <1>8 DEF CurrentInv
<1>11. DonePeers' = DonePeers \cup {s} /\ s \notin DonePeers
  BY <1>1, <1>3, <1>7, <1>8 DEF DonePeers, OtherTypes
<1>12. Cardinality(DonePeers') = Cardinality(DonePeers) + 1
  BY <1>1, <1>11, DoneFacts, FS_AddElement
<1>13. AllCounted'
  <2>1. /\ handshaked_peers + Due <= Cardinality(DonePeers)
        /\ handshaked_peers \in Nat /\ Cardinality(DonePeers) \in Nat
        /\ handshaked_peers' = handshaked_peers
    BY <1>1, <1>7, DoneFacts DEF Exchange, AllCounted, OtherTypes
  <2>2. Due = 0 /\ Due' \in {0, 1}
    BY <1>2 DEF Due
  <2> QED
    BY <1>12, <2>1, <2>2 DEF AllCounted
<1> QED
  BY <1>9, <1>10, <1>13 DEF Exchange

(* The peer that was due is counted.                                       *)
LEMMA CountPeerKeepsExchange ==
  ASSUME ExchangeInv, Exchange, CountPeer
  PROVE  Exchange'
<1>1. OtherTypes /\ pc \in [Thread -> Label] /\ pc["server"] = "count"
  BY DEF ExchangeInv, CountInv, IInv, Typed, CountPeer
<1>2. /\ handshaked_peers' = handshaked_peers + 1
      /\ pc' = [pc EXCEPT !["server"] = "idle"]
      /\ UNCHANGED <<session_state, peers, current, signals, format, inbox, greeted, asked,
                     listed, loaded>>
  BY DEF CountPeer, Goto
<1>3. ASSUME NEW p \in Peer PROVE PeerInv(p)' /\ (Done(p)' <=> Done(p))
  <2>1. PeerInv(p) /\ (Listed(p)' <=> Listed(p))
    BY <1>2 DEF Exchange, Listed, Rest, Got
  <2> QED
    BY <1>2, <2>1 DEF PeerInv, Done
<1>4. (Settling' => Settling) /\ (Over => Over')
  BY <1>1, <1>2 DEF Settling, Over
<1>5. CurrentInv'
  BY <1>2, <1>4 DEF Exchange, CurrentInv, Done
<1>6. DonePeers' = DonePeers
  BY <1>2 DEF DonePeers, Done
<1>7. Due = 1 /\ Due' = 0 /\ handshaked_peers \in Nat
  BY <1>1, <1>2 DEF Due, OtherTypes
<1>8. AllCounted'
  BY <1>2, <1>6, <1>7 DEF Exchange, AllCounted
<1> QED
  BY <1>3, <1>5, <1>8 DEF Exchange

-----------------------------------------------------------------------------
(* A peer that says hello has not been asked.                              *)
LEMMA PeerHelloKeepsExchange ==
  ASSUME ExchangeInv, Exchange, Once, NEW s \in Peer, PeerHello(s)
  PROVE  Exchange'
<1>1. OtherTypes /\ ExchangeTypes /\ \A q \in Peer : PeerInv(q)
  BY DEF ExchangeInv, CountInv, Exchange
<1>2. s \notin greeted /\ inbox[s] = <<>> /\ s \notin peers
  BY <1>1 DEF PeerHello, PeerInv
<1>3. /\ greeted' = greeted \cup {s}
      /\ UNCHANGED <<peers, asked, listed, signals, format, current, handshaked_peers, pc,
                     loaded, session_state>>
  BY DEF PeerHello
<1>4. /\ inbox'[s] = <<"hello">>
      /\ \A p \in Peer : p # s => inbox'[p] = inbox[p]
  <2>1. inbox' = [inbox EXCEPT ![s] = inbox[s] \o <<"hello">>]
    BY DEF PeerHello, Sends
  <2>2. "hello" \in Message
    BY DEF Message
  <2>3. inbox[s] \o <<"hello">> = <<"hello">>
    BY <1>2, <2>2
  <2> QED
    BY <1>1, <2>1, <2>3 DEF ExchangeTypes
<1>5. asked[s] = 0 /\ listed[s] = 0
  <2>1. PeerInv(s) /\ asked[s] \in {0, 1}
    BY <1>1 DEF Once, ExchangeTypes
  <2> QED
    BY <1>2, <2>1 DEF PeerInv
<1>6. \A q \in Peer : Done(q)' <=> Done(q)
  BY <1>3, <1>4, <1>5 DEF Done
<1>7. ASSUME NEW p \in Peer PROVE PeerInv(p)'
  <2>1. PeerInv(p)
    BY <1>1
  <2>2. CASE p = s
    BY <1>2, <1>3, <1>4, <1>5, <2>1, <2>2 DEF PeerInv
  <2>3. CASE p # s
    <3>1. inbox'[p] = inbox[p]
      BY <1>4, <2>3
    <3>2. Listed(p)' <=> Listed(p)
      BY <1>3, <3>1 DEF Listed, Rest, Got
    <3> QED
      BY <1>3, <1>6, <2>1, <2>3, <3>1, <3>2 DEF PeerInv
  <2> QED BY <2>2, <2>3
<1>8. Due' = Due /\ (Settling' => Settling) /\ (Over => Over')
  BY <1>3 DEF Due, Settling, Over
<1>9. current = End \/ current \in Peer
  BY <1>1 DEF OtherTypes
<1>10. CurrentInv'
  <2>1. Settling' => current = End \/ Done(current)
    BY <1>8 DEF Exchange, CurrentInv
  <2>2. current # End => (Done(current) => listed'[current] = 1 /\ inbox'[current] = <<>>)
    BY <1>6, <1>9 DEF Done
  <2> QED
    BY <1>3, <1>8, <2>1, <2>2 DEF Exchange, CurrentInv, Done
<1>11. DonePeers' = DonePeers
  BY <1>1, <1>3, <1>6 DEF DonePeers, OtherTypes
<1>12. AllCounted'
  BY <1>3, <1>8, <1>11 DEF Exchange, AllCounted
<1> QED
  BY <1>7, <1>10, <1>12 DEF Exchange

(* The peer that sends its list is the current one.                        *)
LEMMA PeerListsKeepsExchange ==
  ASSUME ExchangeInv, Exchange, Once, NEW s \in Peer, PeerLists(s)
  PROVE  Exchange'
<1>1. OtherTypes /\ ExchangeTypes /\ \A q \in Peer : PeerInv(q)
  BY DEF ExchangeInv, CountInv, Exchange
<1>2. asked[s] = 1 /\ listed[s] = 0
  <2>1. asked[s] \in {0, 1} /\ listed[s] \in {0, asked[s]} /\ listed[s] < asked[s]
    BY <1>1 DEF Once, ExchangeTypes, PeerLists, PeerInv
  <2> QED BY <2>1
<1>3. /\ s \in peers /\ inbox[s] = <<>> /\ signals[s] = <<>> /\ s = current /\ ~Done(s)
  BY <1>1, <1>2 DEF PeerInv, Done
<1>4. current # End
  BY <1>3, PeerAssumption DEF End
<1>5. /\ listed' = [listed EXCEPT ![s] = @ + 1]
      /\ UNCHANGED <<peers, greeted, asked, signals, format, current, handshaked_peers, pc,
                     loaded, session_state>>
  BY DEF PeerLists
<1>6. Sends(s, [i \in 1 .. SignalCount |-> format[s]] \o <<"end">>)
  BY DEF PeerLists
<1> DEFINE list == [i \in 1 .. SignalCount |-> format[s]]
<1>8. /\ format[s] \in Message /\ "end" \in Message /\ SignalCount \in Nat
  BY <1>1, BoundsAssumption DEF Message, OtherTypes
<1>9. list \in Seq(Message) /\ Len(list) = SignalCount /\ \A i \in 1 .. SignalCount : list[i] = format[s]
  BY <1>8
<1> HIDE DEF list
<1>10. /\ <<"end">> \in Seq(Message)
       /\ list \o <<"end">> \in Seq(Message)
       /\ Len(list \o <<"end">>) = SignalCount + 1
       /\ \A i \in 1 .. SignalCount : (list \o <<"end">>)[i] = format[s]
       /\ (list \o <<"end">>)[SignalCount + 1] = "end"
  BY <1>8, <1>9
<1>11. inbox' = [inbox EXCEPT ![s] = <<>> \o (list \o <<"end">>)]
  BY <1>3, <1>6 DEF Sends, list
<1>12. inbox' = [inbox EXCEPT ![s] = list \o <<"end">>]
  BY <1>10, <1>11
<1>13. /\ inbox'[s] = list \o <<"end">>
       /\ \A p \in Peer : p # s => inbox'[p] = inbox[p]
  BY <1>1, <1>10, <1>12 DEF ExchangeTypes
<1>14. listed'[s] = 1 /\ \A p \in Peer : p # s => listed'[p] = listed[p]
  BY <1>1, <1>2, <1>5 DEF ExchangeTypes
<1>15. Rest(s, SignalCount)' /\ Got(s, SignalCount)'
  BY <1>3, <1>5, <1>8, <1>10, <1>13 DEF Rest, Got
<1>16. inbox'[s] # <<>>
  BY <1>10, <1>13, <1>8
<1>17. \A q \in Peer : Done(q)' <=> Done(q)
  BY <1>2, <1>13, <1>14, <1>16 DEF Done
<1>18. ASSUME NEW p \in Peer PROVE PeerInv(p)'
  <2>1. PeerInv(p)
    BY <1>1
  <2>2. CASE p = s
    <3>1. Listed(s)'
      BY <1>3, <1>5, <1>8, <1>15 DEF Listed
    <3> QED
      BY <1>2, <1>3, <1>5, <1>14, <2>1, <2>2, <3>1 DEF PeerInv
  <2>3. CASE p # s
    <3>1. inbox'[p] = inbox[p] /\ listed'[p] = listed[p]
      BY <1>13, <1>14, <2>3
    <3>2. Listed(p)' <=> Listed(p)
      BY <1>5, <3>1 DEF Listed, Rest, Got
    <3> QED
      BY <1>5, <1>17, <2>1, <2>3, <3>1, <3>2 DEF PeerInv
  <2> QED BY <2>2, <2>3
<1>19. Due' = Due /\ (Settling' => Settling)
  BY <1>5 DEF Due, Settling
<1>20. ~Settling
  BY <1>3, <1>4 DEF Exchange, CurrentInv
<1>21. CurrentInv'
  BY <1>4, <1>5, <1>19, <1>20 DEF Exchange, CurrentInv
<1>22. DonePeers' = DonePeers
  BY <1>1, <1>5, <1>17 DEF DonePeers, OtherTypes
<1>23. AllCounted'
  BY <1>5, <1>19, <1>22 DEF Exchange, AllCounted
<1> QED
  BY <1>18, <1>21, <1>23 DEF Exchange

-----------------------------------------------------------------------------
(* The exchange starts with its invariant, and no step breaks it.          *)
LEMMA InitExchangeInv == Init => ExchangeInv
<1> SUFFICES ASSUME Init PROVE ExchangeInv
  OBVIOUS
<1>1. CountInv /\ OtherTypes
  BY InitCountInv DEF CountInv
<1>2. /\ pc["main"] = "start" /\ pc["server"] = "idle" /\ pc \in [Thread -> {"start", "idle"}]
      /\ \A p \in Peer : inbox[p] = <<>> /\ asked[p] = 0 /\ listed[p] = 0 /\ signals[p] = <<>>
      /\ session_state = "NO_SESSION" /\ hellos = 0 /\ handshaked_peers = 0
      /\ peers = {} /\ greeted = {} /\ current = End
  BY DEF Init
<1>3. ExchangeTypes
  BY DEF Init, ExchangeTypes
<1>4. Due = 0
  BY <1>2 DEF Due
<1>5. NotYet
  BY <1>2, <1>4 DEF NotYet
<1>6. ASSUME NEW p \in Peer PROVE PeerInv(p)
  BY <1>2 DEF PeerInv
<1>7. CurrentInv
  BY <1>2 DEF CurrentInv
<1>8. DonePeers = {}
  BY <1>2 DEF DonePeers
<1>9. AllCounted
  BY <1>2, <1>4, <1>8, FS_EmptySet DEF AllCounted
<1> QED
  BY <1>1, <1>3, <1>5, <1>6, <1>7, <1>9 DEF ExchangeInv, Exchange

(* Each step is an iteration's, a handler's, the main thread's or one of   *)
(* the session manager and the peers.                                      *)
LEMMA NextKeepsExchange ==
  ASSUME ExchangeInv, Once, Once', Next
  PROVE  Exchange'
<1>1. Exchange
  BY DEF ExchangeInv
<1>2. ASSUME NEW t \in Thread, Step(t) PROVE Exchange'
  BY <1>1, <1>2, QuietIterations, SendSignalListKeepsExchange, PickPeerKeepsExchange DEF Step
<1>3. CASE Server
  <2>1. ASSUME NEW p \in Peer, HandleHello(p) \/ HandleSignal(p) \/ DropSignal(p) \/ HandleListEnd(p)
        PROVE  Exchange'
    BY <1>1, <2>1, HandleHelloKeepsExchange, SignalsKeepExchange, HandleListEndKeepsExchange
  <2>2. CASE \/ HandleReply \/ Refuse \/ Accept \/ HandleError \/ Fail
             \/ HandleOpen \/ OpenSucceeds \/ OpenFails
    BY <1>1, <2>2, NsmHandlersKeepExchange
  <2>3. CASE CountPeer
    BY <1>1, <2>3, CountPeerKeepsExchange
  <2> QED
    BY <1>2, <1>3, <2>1, <2>2, <2>3 DEF Server
<1>4. CASE Main
  BY <1>1, <1>2, <1>4, MainAndNsmKeepExchange DEF Main
<1>5. CASE World
  BY <1>1, <1>5, PeerHelloKeepsExchange, PeerListsKeepsExchange, MainAndNsmKeepExchange DEF World
<1> QED
  BY <1>3, <1>4, <1>5 DEF Next

LEMMA NextKeepsExchangeInv == ExchangeInv /\ [Next]_vars => ExchangeInv'
<1> SUFFICES ASSUME ExchangeInv, [Next]_vars PROVE ExchangeInv'
  OBVIOUS
<1>1. CountInv'
  BY NextKeepsCountInv DEF ExchangeInv
<1>2. CASE Next
  <2>1. ExchangeTypes' /\ NotYet'
    <3>1. ASSUME NEW t \in Thread, Step(t) PROVE ExchangeTypes' /\ NotYet'
      BY <3>1, IterationKeepsTypes
    <3> QED
      BY <1>2, <3>1, OtherStepsKeepTypes DEF Next
  <2>2. ASSUME Once' PROVE Exchange'
    <3>1. Once
      BY <2>2, OnceBefore DEF ExchangeInv
    <3> QED
      BY <1>2, <2>2, <3>1, NextKeepsExchange
  <2> QED
    BY <1>1, <2>1, <2>2 DEF ExchangeInv
<1>3. CASE UNCHANGED vars
  <2>1. /\ ExchangeTypes' /\ NotYet' /\ (Once' => Once)
    BY <1>3 DEF vars, ExchangeInv, ExchangeTypes, NotYet, Due, Once
  <2>2. Elsewhere
    BY <1>3 DEF vars, Elsewhere, Due, Settling, Over
  <2>3. Once' => Exchange'
    BY <2>1, <2>2, ElsewhereKeepsExchange DEF ExchangeInv, CountInv
  <2> QED
    BY <1>1, <2>1, <2>3 DEF ExchangeInv
<1> QED
  BY <1>2, <1>3

(* The exchange is where its invariant says in every reachable state.      *)
LEMMA ExchangeInvariance == Spec => []ExchangeInv
  BY InitExchangeInv, NextKeepsExchangeInv, PTL DEF Spec

(* The signals handle_signal_list_reply() registers for the current peer   *)
(* are those that peer has sent, no more than it lists, as long as no list *)
(* has been asked for twice: in whatever order and however fast the peers  *)
(* say hello, and in whatever format they write.                           *)
THEOREM SignalsAreTheirs == Spec => []SignalsFromTheirPeer
<1>1. ExchangeInv => SignalsFromTheirPeer
  <2> SUFFICES ASSUME ExchangeInv, Once, NEW p \in Peer
               PROVE  /\ \A i \in DOMAIN signals[p] : signals[p][i] = p
                      /\ Len(signals[p]) <= SignalCount
    BY DEF SignalsFromTheirPeer
  <2>1. PeerInv(p) /\ ExchangeTypes /\ signals[p] \in Seq(Peer)
    BY DEF ExchangeInv, CountInv, OtherTypes, Exchange
  <2>2. DOMAIN signals[p] = 1 .. Len(signals[p]) /\ Len(signals[p]) \in Nat
    BY <2>1
  <2>3. \A i \in DOMAIN signals[p] : signals[p][i] = p
    BY <2>1, <2>2 DEF PeerInv
  <2>4. listed[p] \in {0, 1}
    BY <2>1 DEF PeerInv, Once, ExchangeTypes
  <2>5. CASE listed[p] = 0
    BY <2>1, <2>3, <2>5, BoundsAssumption DEF PeerInv
  <2>6. CASE listed[p] = 1
    <3>1. PICK k \in 0 .. SignalCount : Got(p, k)
      BY <2>1, <2>6, BoundsAssumption DEF PeerInv, Listed
    <3>2. Len(signals[p]) <= SignalCount
      BY <2>2, <3>1, BoundsAssumption DEF Got
    <3> QED
      BY <2>3, <3>2
  <2> QED
    BY <2>4, <2>5, <2>6
<1> QED
  BY ExchangeInvariance, <1>1, PTL

(* When handshaked_peers is the number of peers, each peer's list has been *)
(* received to its end: all its signals are registered, or none if it      *)
(* writes them in the documented format, which no handler takes.  Lists    *)
(* asked for twice are excepted.                                           *)
THEOREM CountedListsAreComplete == Spec => []ListsAreComplete
<1>1. ExchangeInv => ListsAreComplete
  <2> SUFFICES ASSUME ExchangeInv, Once, handshaked_peers = Cardinality(peers), NEW p \in peers
               PROVE  Len(signals[p]) = Handled(p)
    BY DEF ListsAreComplete
  <2>1. OtherTypes /\ Exchange /\ p \in Peer /\ PeerInv(p)
    BY DEF ExchangeInv, CountInv, OtherTypes, Exchange
  <2>2. /\ Cardinality(peers) + Due <= Cardinality(DonePeers)
        /\ Due \in {0, 1}
    BY <2>1 DEF Exchange, AllCounted, Due
  <2>3. /\ IsFiniteSet(peers) /\ Cardinality(peers) \in Nat
        /\ Cardinality(DonePeers) \in Nat /\ Cardinality(DonePeers) <= Cardinality(peers)
    BY <2>1, DoneFacts
  <2>4. Cardinality(DonePeers) = Cardinality(peers)
    BY <2>2, <2>3
  <2>5. DonePeers = peers
    BY <2>3, <2>4, FS_Subset DEF DonePeers
  <2>6. Done(p)
    BY <2>5 DEF DonePeers
  <2>7. Listed(p) /\ inbox[p] = <<>>
    BY <2>1, <2>6 DEF PeerInv, Done
  <2>8. Got(p, 0)
    BY <2>7 DEF Listed, Rest
  <2> QED
    BY <2>8, BoundsAssumption DEF Got, Handled
<1> QED
  BY ExchangeInvariance, <1>1, PTL
=============================================================================
