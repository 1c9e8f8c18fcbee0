----------------------------- MODULE NonSession -----------------------------
(***************************************************************************)
(* The session state machine of driver-osc: NonSessionHandler, the main    *)
(* thread of exec_driver that starts it and then feeds it input events,    *)
(* and the programs it talks to: the session manager (NSM) and the peers,  *)
(* other clients of the session.                                           *)
(*                                                                         *)
(* Two threads run the handler.  The main thread calls start_session once  *)
(* and polls; liblo's server thread runs one message handler at a time.    *)
(* Both call step_state_machine, whose iterations hold a mutex, and whose  *)
(* recursion releases it in between; the handlers write session_state      *)
(* without the mutex.                                                      *)
(***************************************************************************)
EXTENDS Integers, Sequences, FiniteSets, FiniteSetsExt

CONSTANTS
    Peer,        \* client ids of the peers, numbers in the order of the map's keys
    SignalCount, \* signals a peer lists
    Formats,     \* how peers may write a signal: "ssfff", "sssfff"
    Answers,     \* NSM's answers to the announce: "announced", "incapable", "error"
    MaxAnswers,  \* times NSM's answer is delivered
    MaxOpens,    \* projects NSM opens, one after the other
    JackFails,   \* whether JACK may refuse a client
    Orderly      \* peers arrive one at a time in the order of their ids

ASSUME PeerAssumption == Peer \subseteq Nat \ {0} /\ IsFiniteSet(Peer)
ASSUME BoundsAssumption ==
    /\ SignalCount \in Nat /\ MaxAnswers \in Nat /\ MaxOpens \in Nat
    /\ Formats \subseteq {"ssfff", "sssfff"}
    /\ Answers \subseteq {"announced", "incapable", "error"}
    /\ JackFails \in BOOLEAN /\ Orderly \in BOOLEAN

VARIABLES
    session_state, handshake_complete, project_opened,
    peers,             \* keys of the map
    handshaked_peers,
    current,           \* current_handshaking_peer
    signals,           \* for each peer, who sent the signals registered for it
    jack,              \* the JackClient: "none", "new" or "connected"
    pc, loaded,        \* of each thread; the state its iteration has read
    target,            \* the peer an input event is sent to next
    crash,             \* why the program died
    inbox,             \* messages under way, by sender
    hellos, asked,     \* broadcasts sent; signal lists asked for
    answers, opens,    \* what NSM has sent
    registered,        \* NSM has taken the client into the session
    session_is_loaded, \* NSM has told its clients so
    greeted, listed,   \* peers that said hello; signal lists they have sent
    format,            \* how each peer writes its signals
    told               \* peers that an input event was sent to

flags == <<handshake_complete, project_opened>>
exchange == <<handshaked_peers, current, signals>>
handler == <<session_state, flags, peers, exchange, jack>>
threads == <<pc, loaded, target, crash>>
world == <<answers, opens, registered, session_is_loaded, greeted, listed, format>>
sent == <<hellos, asked, told>>
vars == <<handler, threads, world, sent, inbox>>

Thread == {"main", "server"}
NSM == 0     \* NSM as a sender; peers are above it
End == -1    \* peers.end()

State == {"NO_SESSION", "HANDSHAKE_START", "HANDSHAKE_AWAIT_REPLY",
          "SESSION_AWAIT_OPEN", "HELLO_START", "PEER_AWAIT_SIGNAL_LIST",
          "RUNNING", "FAILED"}

Init ==
    /\ session_state = "NO_SESSION"
    /\ handshake_complete = FALSE /\ project_opened = FALSE
    /\ peers = {} /\ handshaked_peers = 0 /\ current = End
    /\ signals = [p \in Peer |-> <<>>]
    /\ jack = "none"
    /\ pc = [main |-> "start", server |-> "idle"]
    /\ loaded = [t \in Thread |-> "NO_SESSION"]
    /\ target = End /\ crash = "none"
    /\ inbox = [s \in {NSM} \cup Peer |-> <<>>]
    /\ hellos = 0 /\ asked = [p \in Peer |-> 0]
    /\ answers = 0 /\ opens = 0 /\ registered = FALSE /\ session_is_loaded = FALSE
    /\ greeted = {} /\ listed = [p \in Peer |-> 0]
    /\ format \in [Peer -> Formats]
    /\ told = {}

(* The program runs: it has not died, and exec_driver has not returned. *)
Alive == crash = "none" /\ pc["main"] # "gone"

Goto(t, label) == pc' = [pc EXCEPT ![t] = label]

(* Where a thread goes on when step_state_machine returns. *)
Caller(t) == IF t = "main" THEN "poll" ELSE "idle"

-----------------------------------------------------------------------------
(* step_state_machine: one iteration locks, loads the state (Load) and      *)
(* then acts on what it loaded and unlocks.                                 *)

LoadUnlocked(t) ==
    /\ Alive /\ pc[t] = "step"
    /\ loaded' = [loaded EXCEPT ![t] = session_state]
    /\ Goto(t, "body")
    /\ UNCHANGED <<handler, target, crash, world, sent, inbox>>

Load(t) ==
    /\ Alive /\ pc[t] = "step"
    /\ \A u \in Thread : pc[u] # "body"
    /\ loaded' = [loaded EXCEPT ![t] = session_state]
    /\ Goto(t, "body")
    /\ UNCHANGED <<handler, target, crash, world, sent, inbox>>

In(t, state) == Alive /\ pc[t] = "body" /\ loaded[t] = state

SendAnnounce(t) ==
    /\ In(t, "HANDSHAKE_START")
    /\ session_state' = "HANDSHAKE_AWAIT_REPLY"
    /\ Goto(t, "step")
    /\ UNCHANGED <<flags, peers, exchange, jack, loaded, target, crash, world, sent, inbox>>

AwaitReply(t) ==
    /\ In(t, "HANDSHAKE_AWAIT_REPLY")
    /\ IF handshake_complete
       THEN session_state' = "SESSION_AWAIT_OPEN" /\ Goto(t, "step")
       ELSE UNCHANGED session_state /\ Goto(t, Caller(t))
    /\ UNCHANGED <<flags, peers, exchange, jack, loaded, target, crash, world, sent, inbox>>

AwaitOpen(t) ==
    /\ In(t, "SESSION_AWAIT_OPEN")
    /\ IF project_opened
       THEN session_state' = "HELLO_START" /\ Goto(t, "step")
       ELSE UNCHANGED session_state /\ Goto(t, Caller(t))
    /\ UNCHANGED <<flags, peers, exchange, jack, loaded, target, crash, world, sent, inbox>>

SendHello(t) ==
    /\ In(t, "HELLO_START")
    /\ hellos' = hellos + 1
    /\ session_state' = "RUNNING"
    /\ Goto(t, "step")
    /\ UNCHANGED <<flags, peers, exchange, jack, loaded, target, crash, world, asked, told, inbox>>

(* send_signal_list dereferences the iterator, valid or not. *)
SendSignalList(t) ==
    /\ In(t, "PEER_AWAIT_SIGNAL_LIST")
    /\ IF current = End
       THEN crash' = "dereferenced end()" /\ UNCHANGED <<asked, pc>>
       ELSE /\ asked' = [asked EXCEPT ![current] = @ + 1]
            /\ Goto(t, Caller(t))
            /\ UNCHANGED crash
    /\ UNCHANGED <<handler, loaded, target, world, hellos, told, inbox>>

(* The element after key p in the map; after End, which is below all, the first. *)
After(p) == LET later == {q \in peers : q > p}
            IN IF later = {} THEN End ELSE Min(later)

PickPeer(t) ==
    /\ In(t, "RUNNING")
    /\ IF handshaked_peers < Cardinality(peers)
       THEN /\ current' = After(current)     \* After(End) is the first
            /\ session_state' = "PEER_AWAIT_SIGNAL_LIST"
            /\ Goto(t, "step")
       ELSE UNCHANGED <<current, session_state>> /\ Goto(t, Caller(t))
    /\ UNCHANGED <<flags, peers, handshaked_peers, signals, jack, loaded, target, crash,
                   world, sent, inbox>>

StayFailed(t) ==
    /\ In(t, "FAILED")
    /\ Goto(t, Caller(t))
    /\ UNCHANGED <<handler, loaded, target, crash, world, sent, inbox>>

Step(t) == \/ Load(t) \/ SendAnnounce(t) \/ AwaitReply(t) \/ AwaitOpen(t)
           \/ SendHello(t) \/ SendSignalList(t) \/ PickPeer(t) \/ StayFailed(t)

-----------------------------------------------------------------------------
(* The message handlers, run one at a time by the server thread.            *)

(* The server thread takes a message of the given type from sender s; it    *)
(* runs from the constructor on.                                            *)
Receives(s, type) ==
    /\ Alive /\ pc["server"] = "idle"
    /\ inbox[s] # <<>> /\ Head(inbox[s]) = type
    /\ inbox' = [inbox EXCEPT ![s] = Tail(@)]

(* handle_reply "ssss": an awaited one completes the handshake, after it   *)
(* has failed the session if a capability is missing; any other fails it.  *)
(* No lock is held: the other thread may step in between.                  *)
HandleReply ==
    /\ \E type \in {"announced", "incapable"} :
          /\ Receives(NSM, type)
          /\ Goto("server", IF session_state # "HANDSHAKE_AWAIT_REPLY" THEN "fail"
                            ELSE IF type = "incapable" THEN "refuse" ELSE "accept")
    /\ UNCHANGED <<handler, loaded, target, crash, world, sent>>

(* A capability is missing. *)
Refuse ==
    /\ Alive /\ pc["server"] = "refuse"
    /\ session_state' = "FAILED"
    /\ Goto("server", "accept")
    /\ UNCHANGED <<flags, peers, exchange, jack, loaded, target, crash, world, sent, inbox>>

Accept ==
    /\ Alive /\ pc["server"] = "accept"
    /\ handshake_complete' = TRUE
    /\ Goto("server", "step")
    /\ UNCHANGED <<session_state, project_opened, peers, exchange, jack, loaded, target,
                   crash, world, sent, inbox>>

HandleError ==
    /\ Receives(NSM, "error")
    /\ handshake_complete' = FALSE
    /\ Goto("server", "fail")
    /\ UNCHANGED <<session_state, project_opened, peers, exchange, jack, loaded, target,
                   crash, world, sent>>

(* A plausible bug: a reply too many starts the handshake again. *)
FailRestart ==
    /\ Alive /\ pc["server"] = "fail"
    /\ session_state' = IF session_state = "FAILED" THEN "HANDSHAKE_START" ELSE "FAILED"
    /\ Goto("server", "step")
    /\ UNCHANGED <<flags, peers, exchange, jack, loaded, target, crash, world, sent, inbox>>

(* An unexpected reply, or an error. *)
Fail ==
    /\ Alive /\ pc["server"] = "fail"
    /\ session_state' = "FAILED"
    /\ Goto("server", "step")
    /\ UNCHANGED <<flags, peers, exchange, jack, loaded, target, crash, world, sent, inbox>>

(* handle_open replaces the JackClient, then connects it.  The one it       *)
(* replaces, if connected, is disconnected: disconnect() closes the client, *)
(* and the reset() of its pointer closes it again.                          *)
HandleOpen ==
    /\ Receives(NSM, "open")
    /\ IF jack = "connected"
       THEN crash' = "closed twice" /\ UNCHANGED <<jack, pc>>
       ELSE jack' = "new" /\ Goto("server", "opening") /\ UNCHANGED crash
    /\ UNCHANGED <<session_state, flags, peers, exchange, loaded, target, world, sent>>

OpenSucceeds ==
    /\ Alive /\ pc["server"] = "opening"
    /\ jack' = "connected"
    /\ project_opened' = TRUE
    /\ Goto("server", "step")
    /\ UNCHANGED <<session_state, handshake_complete, peers, exchange, loaded,
                   target, crash, world, sent, inbox>>

(* connect() throws: without a client, or with one and no port. *)
OpenFails ==
    /\ Alive /\ JackFails /\ pc["server"] = "opening"
    /\ \E j \in {"new", "connected"} : jack' = j
    /\ session_state' = "FAILED"
    /\ Goto("server", "idle")
    /\ UNCHANGED <<flags, peers, exchange, loaded, target, crash, world, sent, inbox>>

(* A plausible bug: the new peer waits for the next message. *)
HandleHelloNoStep(p) ==
    /\ Receives(p, "hello")
    /\ peers' = peers \cup {p}
    /\ UNCHANGED <<session_state, flags, pc, exchange, jack, loaded, target, crash, world, sent>>

(* A plausible bug: the new peer is picked before the awaited list is in. *)
HandleHelloRunning(p) ==
    /\ Receives(p, "hello")
    /\ peers' = peers \cup {p}
    /\ session_state' = IF session_state = "PEER_AWAIT_SIGNAL_LIST" THEN "RUNNING"
                                                                 ELSE session_state
    /\ Goto("server", "step")
    /\ UNCHANGED <<flags, exchange, jack, loaded, target, crash, world, sent>>

HandleHello(p) ==
    /\ Receives(p, "hello")
    /\ IF p \in peers
       THEN crash' = "assert(false)" /\ UNCHANGED <<peers, pc>>
       ELSE /\ peers' = peers \cup {p}
            /\ Goto("server", "step")
            /\ UNCHANGED crash
    /\ UNCHANGED <<session_state, flags, exchange, jack, loaded, target, world, sent>>

(* A plausible bug: signals count only while no list is awaited. *)
HandleSignalRunning(p) ==
    /\ Receives(p, "ssfff")
    /\ signals' = IF session_state = "RUNNING"
                  THEN [signals EXCEPT ![current] = Append(@, p)] ELSE signals
    /\ UNCHANGED <<session_state, flags, peers, handshaked_peers, current, jack,
                   threads, world, sent>>

(* handle_signal_list_reply: whoever sends a signal, the current peer gets it. *)
HandleSignal(p) ==
    /\ Receives(p, "ssfff")
    /\ IF current = End
       THEN crash' = "assert(current != end())" /\ UNCHANGED signals
       ELSE /\ signals' = [signals EXCEPT ![current] = Append(@, p)]
            /\ UNCHANGED crash
    /\ UNCHANGED <<session_state, flags, peers, handshaked_peers, current, jack,
                   pc, loaded, target, world, sent>>

(* No method is registered for a /reply of these types. *)
DropSignal(p) ==
    /\ Receives(p, "sssfff")
    /\ UNCHANGED <<handler, threads, world, sent>>

(* A plausible bug: the end of a list counts whenever it comes. *)
HandleListEndAlways(p) ==
    /\ Receives(p, "end")
    /\ session_state' = "RUNNING"
    /\ Goto("server", "count")
    /\ UNCHANGED <<flags, peers, exchange, jack, loaded, target, crash, world, sent>>

(* handle_reply "s": the end of a list counts while one is awaited, and     *)
(* the machine is not stepped.  The count follows the transition.           *)
HandleListEnd(p) ==
    /\ Receives(p, "end")
    /\ CASE session_state # "PEER_AWAIT_SIGNAL_LIST" ->
               UNCHANGED <<session_state, pc, crash>>
         [] session_state = "PEER_AWAIT_SIGNAL_LIST" /\ current = End ->
               crash' = "assert(current != end())" /\ UNCHANGED <<session_state, pc>>
         [] OTHER ->
               session_state' = "RUNNING" /\ Goto("server", "count") /\ UNCHANGED crash
    /\ UNCHANGED <<flags, peers, exchange, jack, loaded, target, world, sent>>

CountPeer ==
    /\ Alive /\ pc["server"] = "count"
    /\ handshaked_peers' = handshaked_peers + 1
    /\ Goto("server", "idle")
    /\ UNCHANGED <<session_state, flags, peers, current, signals, jack, loaded, target,
                   crash, world, sent, inbox>>

Server ==
    \/ Step("server")
    \/ HandleReply \/ Refuse \/ Accept \/ HandleError \/ Fail
    \/ HandleOpen \/ OpenSucceeds \/ OpenFails \/ CountPeer
    \/ \E p \in Peer : HandleHello(p) \/ HandleSignal(p) \/ DropSignal(p)
                       \/ HandleListEnd(p)

-----------------------------------------------------------------------------
(* The main thread: start_session, the polling loop of exec_driver, and     *)
(* broadcast_input_event.                                                   *)

StartSession ==
    /\ Alive /\ pc["main"] = "start"
    /\ session_state' = IF handshake_complete THEN "HELLO_START"
                                              ELSE "HANDSHAKE_START"
    /\ Goto("main", "step")
    /\ UNCHANGED <<flags, peers, exchange, jack, loaded, target, crash, world, sent, inbox>>

SessionIsReady ==
    session_state \in {"RUNNING", "SESSION_AWAIT_OPEN", "HELLO_START"}

(* The loop is left when the session is ready or has failed, *)
Poll ==
    /\ Alive /\ pc["main"] = "poll"
    /\ SessionIsReady \/ session_state = "FAILED"
    /\ Goto("main", "check")
    /\ UNCHANGED <<handler, loaded, target, crash, world, sent, inbox>>

(* and after it only a failed session keeps the driver from reading input. *)
CheckFailed ==
    /\ Alive /\ pc["main"] = "check"
    /\ Goto("main", IF session_state = "FAILED" THEN "gone" ELSE "read")
    /\ UNCHANGED <<handler, loaded, target, crash, world, sent, inbox>>

(* An input event has been read from the device; jack_midi is always true. *)
StartPush ==
    /\ Alive /\ pc["main"] = "read"
    /\ IF jack = "none"
       THEN crash' = "assert(jack)" /\ UNCHANGED <<pc, target>>
       ELSE target' = After(End) /\ Goto("main", "push") /\ UNCHANGED crash
    /\ UNCHANGED <<handler, loaded, world, sent, inbox>>

(* A plausible bug: the loop over the peers stops at the current one. *)
SendEventToEarlier ==
    /\ Alive /\ pc["main"] = "push"
    /\ IF target = End \/ target = current
       THEN Goto("main", "read") /\ UNCHANGED <<told, target>>
       ELSE /\ told' = told \cup {target}
            /\ target' = After(target)
            /\ UNCHANGED pc
    /\ UNCHANGED <<handler, loaded, crash, world, hellos, asked, inbox>>

(* The event goes to one peer after the other, as the map has them when the *)
(* iterator moves on: the server thread may insert one at any moment.       *)
SendEvent ==
    /\ Alive /\ pc["main"] = "push"
    /\ IF target = End
       THEN Goto("main", "read") /\ UNCHANGED <<told, target>>
       ELSE /\ told' = told \cup {target}
            /\ target' = After(target)
            /\ UNCHANGED pc
    /\ UNCHANGED <<handler, loaded, crash, world, hellos, asked, inbox>>

Main == StartSession \/ Step("main") \/ Poll \/ CheckFailed
        \/ StartPush \/ SendEvent

-----------------------------------------------------------------------------
(* External: NSM and the peers, as the tests emulate them.                  *)

Sends(s, msgs) == inbox' = [inbox EXCEPT ![s] = @ \o msgs]

Announced == session_state \notin {"NO_SESSION", "HANDSHAKE_START"}

NsmAnswers ==
    /\ Alive /\ Announced
    /\ answers < MaxAnswers
    /\ answers' = answers + 1
    /\ \E a \in Answers : Sends(NSM, <<a>>) /\ registered' = (a # "error")
    /\ UNCHANGED <<handler, threads, sent, opens, session_is_loaded, greeted, listed, format>>

(* NSM opens a project for a client it has registered, and the next one     *)
(* (the client says it can "switch") when the client has answered.          *)
NsmOpens ==
    /\ Alive /\ registered
    /\ opens < MaxOpens
    /\ opens > 0 => project_opened /\ pc["server"] # "opening" /\ inbox[NSM] = <<>>
    /\ opens' = opens + 1
    /\ Sends(NSM, <<"open">>)
    /\ UNCHANGED <<handler, threads, sent, answers, registered,
                   session_is_loaded, greeted, listed, format>>

(* /nsm/client/session_is_loaded, for which no method is registered. *)
NsmLoaded ==
    /\ Alive /\ project_opened /\ ~session_is_loaded
    /\ session_is_loaded' = TRUE
    /\ UNCHANGED <<handler, threads, sent, answers, opens, registered, greeted, listed, format, inbox>>

(* A peer is done when nothing of its exchange is under way. *)
Settled(p) == /\ p \in greeted /\ asked[p] > 0 /\ listed[p] = asked[p]
              /\ inbox[p] = <<>> /\ pc["server"] = "idle"

PeerHello(p) ==
    /\ Alive /\ registered /\ p \notin greeted
    /\ Orderly => \A q \in Peer : q < p => Settled(q)
    /\ greeted' = greeted \cup {p}
    /\ Sends(p, <<"hello">>)
    /\ UNCHANGED <<handler, threads, sent, answers, opens, registered,
                   session_is_loaded, listed, format>>

PeerLists(p) ==
    /\ Alive /\ listed[p] < asked[p]
    /\ listed' = [listed EXCEPT ![p] = @ + 1]
    /\ Sends(p, [i \in 1..SignalCount |-> format[p]] \o <<"end">>)
    /\ UNCHANGED <<handler, threads, sent, answers, opens, registered,
                   session_is_loaded, greeted, format>>

World == NsmAnswers \/ NsmOpens \/ NsmLoaded
         \/ \E p \in Peer : PeerHello(p) \/ PeerLists(p)

-----------------------------------------------------------------------------
Next == Server \/ Main \/ World

(* Both threads are scheduled, input keeps coming, and the others answer    *)
(* what they are asked, once; that NSM repeats itself, or that a peer says   *)
(* hello, or when, is up to them.                                           *)
Spec == /\ Init /\ [][Next]_vars
        /\ WF_vars(Server) /\ WF_vars(Main)
        /\ WF_vars(answers = 0 /\ NsmAnswers) /\ WF_vars(opens = 0 /\ NsmOpens)
        /\ \A p \in Peer : WF_vars(PeerLists(p))

-----------------------------------------------------------------------------
(* Types. *)
TypeOK ==
    /\ session_state \in State
    /\ handshake_complete \in BOOLEAN /\ project_opened \in BOOLEAN
    /\ peers \subseteq Peer /\ greeted \subseteq Peer /\ told \subseteq Peer
    /\ handshaked_peers \in 0..Cardinality(Peer)
    /\ current \in Peer \cup {End} /\ target \in Peer \cup {End}
    /\ \A p \in Peer : signals[p] \in Seq(Peer)
    /\ jack \in {"none", "new", "connected"}
    /\ pc["main"] \in {"start", "step", "body", "poll", "check", "read", "push", "gone"}
    /\ pc["server"] \in {"idle", "step", "body", "refuse", "accept", "fail", "opening", "count"}
    /\ loaded \in [Thread -> State]

(* Whatever the two threads race for, at most one hello is broadcast, and   *)
(* none before the project is open: the mutex of step_state_machine makes   *)
(* the transition into HELLO_START one thread's.                            *)
OneHello == hellos <= 1 /\ (hellos = 1 => project_opened)

(* No more peers are counted as handshaked than are known: an awaited list  *)
(* is always one of a peer not yet counted, and its end counts it once,     *)
(* even while lists asked for twice are under way.                          *)
HandshakesAreCounted == handshaked_peers <= Cardinality(peers)

(* A failed session stays failed (session_has_failed).  One thing can undo  *)
(* a failure: an iteration of start_session() on the main thread that had   *)
(* read the state before the failure came, and writes the next one over it; *)
(* once start_session() has returned, nothing can.                          *)
FailureIsFinal ==
    [][session_state = "FAILED" =>
          session_state' = "FAILED" \/ (pc["main"] = "body" /\ loaded["main"] # "FAILED")]_vars

(* No list has been asked for twice.  (One is when a hello comes while it   *)
(* is awaited, as every hello steps the machine, or when both threads step  *)
(* it there: then a late copy of a list counts as the next peer's.)         *)
Once == \A p \in Peer : asked[p] <= 1

(* While no list has been asked for twice, the signals registered for a     *)
(* peer are those it sent, each once, whatever order the peers come in.     *)
SignalsFromTheirPeer ==
    Once => \A p \in Peer : /\ \A i \in DOMAIN signals[p] : signals[p][i] = p
                            /\ Len(signals[p]) <= SignalCount

(* The signals of a peer's list that reach handle_signal_list_reply(): all, *)
(* or none when it writes them in the documented format, with a direction.  *)
Handled(p) == IF format[p] = "ssfff" THEN SignalCount ELSE 0

(* When as many peers are counted as are known, and no list has been asked  *)
(* for twice, each peer's list is in to the last signal that is handled; a  *)
(* peer that writes the documented format is counted without any.           *)
ListsAreComplete ==
    (crash = "none" /\ Once /\ handshaked_peers = Cardinality(peers)) =>
        \A p \in peers : Len(signals[p]) = Handled(p)

(* A peer that has said hello is asked for its signals, unless the session  *)
(* fails first.                                                             *)
EveryPeerIsAsked ==
    \A p \in Peer :
        p \in peers ~> asked[p] > 0 \/ session_state = "FAILED" \/ ~Alive

(* A peer the driver knows is sent the input events. *)
PeersHearInput == \A p \in Peer : p \in peers ~> p \in told \/ ~Alive

-----------------------------------------------------------------------------
(* What the repository says of the handler and the code does not keep.      *)

(* The iterator dereferenced while a list is awaited is a peer's:           *)
(* assert(current_handshaking_peer != peers.end()).                         *)
CurrentPeerExists == session_state = "PEER_AWAIT_SIGNAL_LIST" => current # End
=============================================================================
