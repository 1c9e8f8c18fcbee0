# A TLA+ model of the Traktor Kontrol F1 drivers

The repository holds two userspace drivers for the Native Instruments Traktor
Kontrol F1, a MIDI controller of 16 + 9 + 4 buttons, four faders, four knobs and
an endless wheel, with LEDs in the buttons:

* `driver/`, the JACK MIDI driver;
* `driver-osc/`, an older driver that takes part in a Non session: it talks OSC
  to a session manager (NSM) and to the other clients ("peers") of the session,
  and to JACK.

Both are small, and both are hard in the same way: two or three threads meet
in buffers, flags and state machines, mostly without a lock. This directory
models those meetings in TLA+, checks them with TLC, and proves with TLAPS, for
instances of any size, that they go well: the two lock-free queues and the parser that reads
behind the back of one; the way of a control of the F1 to the host, the peers and the lights
in both drivers; the output report two threads share; the session with its peers; and the
ownership of the device's descriptor. Every safety property a passing run checks is a theorem
here; liveness is TLC's alone.

To check a run: `tlc -config MCRingbuffer.cfg MCRingbuffer`. To check the
proofs of a module: `tlapm RingbufferProof.tla`. `PROJECT.json` lists the components, the
runs, for every property a plausible bug that breaks it, the source lines of
every definition, the findings, the hazards and the theorems.

## 1. The system

### `driver/`

Three threads:

| thread | loop | touches |
|---|---|---|
| input thread (`main.cpp:174`) | `read_events()` blocks for a HID report; each event goes to `process_HID_input()`, its MIDI event to `operator<<`; then `write()` | `input_state`, `last_input`, `output_state`, `out_report`, pushes into `out_buf` |
| main thread (`main.cpp:189`) | while there is input, at most `BATCH_SIZE` times: `operator>>`, `process_MIDI_event()`; then `write()` or sleep | pops from `in_buf`, `output_state`, `out_report` |
| JACK (`JackWrapper.cpp:144`) | once a cycle the write callback, then the read callback | pops from `out_buf`, pushes into `in_buf` |

| component | state | operations | correct when |
|---|---|---|---|
| `Ringbuffer<T>` | storage, two pointers | `push`, `pop`, `full`, `empty`, `size` | it is a bounded FIFO for one pusher and one popper |
| `RingbufferReadIterator` | snapshot of the readable range, offset | `*`, `++`, `==`, distance | it reads the readable bytes in order |
| `MidiEvent::parse` | (iterator) | cuts one event out of the bytes | every message gives its event, and nothing gets stuck |
| `JackWrapper` | `in_buf`, `out_buf`, the client | `<<`, `>>`, the two callbacks | messages pass whole and in order |
| `F1Device` | `input_state`, its predecessor, `output_state`, two reports | `read_events`, `write` | one event per change; the device shows `output_state` |
| `IOMapper` | `last_input`, the configuration | `process_HID_input`, `process_MIDI_event` | notes, toggles and LEDs tell the same story |
| `HidDevice`, `FileDescriptor` | a file descriptor | open, `devinfo`, move, close, destroy | an open descriptor has one owner, whatever fails |
| `discover_device()` | the index of the path it tries | tries `/dev/hidraw0` and so on | it ends, and finds the first F1 it could find |
| `MidiStream` | a byte queue (unused by the driver) | iteration over events | |

### `driver-osc/`

Two threads of interest run `NonSessionHandler`: the main thread calls
`start_session()`, polls `session_is_ready()`, and then broadcasts input events;
liblo's server thread runs one handler for each OSC message. Both step the state
machine; an iteration of `step_state_machine()` holds a mutex, the recursion
between iterations and the handlers do not.

| component | state | operations | correct when |
|---|---|---|---|
| `NonSessionHandler` | `session_state`, flags, `peers`, the iterator `current_handshaking_peer`, the `JackClient` | announce, open, hello, exchange of signal lists, broadcast | one hello; failure is final; each peer is asked, and has its own signals, and hears the input |
| `NonPeer` | id, address, signals | `fetch_signal_list`, `register_signal`, `send` | |
| `JackClient` | a queue of 256 bytes | `connect`, `disconnect`, `push_event`, `process_cb` | events pass whole, once, in order |
| `F1HidDev`, `F1InputState` | last input, output report | decode, difference, write | one entry per change |
| `exec_driver` | latches of the stop buttons, lights | the main loop: read, latch, push, broadcast, `set_colors` | notes, signals of the peers and lights tell the same story |
| `main()` | a descriptor | the search for the device | as `discover_device()` |

### What is hard here

Interleavings without a lock (the queues, one of which publishes an event in two
parts; `out_report`; the flags of the handler); state checked and then used (`full()`, the two snapshots of
`operator>>`, the state a step has read); orders of messages nobody tests (a
hello during another peer's exchange, an answer that comes twice); limits (a full
queue, the wrap of the storage and of the wheel, rounding to seven bits); and
things that must eventually happen (a note is heard, a peer is asked). The list
with lines is under `hazards` in `PROJECT.json`.

## 2. Modules

```
BoundedFifo <-- implements -- Ringbuffer <- RingbufferProof, MCRingbuffer
            <-- implements -- JackClient <- OscInput <- OscInputProof, MCOscInput
F1Device <- IOMapper  <- InputThread  <- InputThreadProof, MCInputThread
                      <- ButtonLights <- LedOutputProof, MCButtonLights
         <- F1HidDev  <- OscInput
         <- F1Reports <- OscInput, InputThread
                      <- F1ReportsProof <- OscInputProof, InputThreadProof
MidiIn       <- MidiInProof, MCMidiIn
LedOutput    <- LedOutputProof, MCLedOutput
NonSession   <- NonSessionProof, MCNonSession
DeviceSearch <- DeviceSearchProof, MCDeviceSearch
```

(`A <- B`: B extends A.)

**BoundedFifo** is what `Ringbuffer<T>` promises: `push` and `pop` take effect at
one instant or throw.

**Ringbuffer** is `push()` and `pop()` by one thread each, with every access to a
pointer or slot a step of its own: check, copy, advance. A slot stands for
`sizeof(T)` bytes, which is sound because both pointers move by `sizeof(T)` (1 or
4), a divisor of the power of two libjack allocates. Memory order is sequential:
libjack puts barriers around its pointer accesses, or relies on the processor.

**F1Device** and **IOMapper** hold the pure parts, as operators, at their real
size: decoding all 22 bytes of a report, the events of a difference in the order
the code generates them, notes, controllers, toggling, rounding, LED brightness.
The colours of a matrix button change together, so a light is one level.
`JustBelow` lists the controller values whose product with `1.0 / 127` and 127
comes out just below them in double precision.

**F1Reports** is the device itself, from the notes on its protocol in `hid-messages/`: the
report it sends for a position of its controls, and the bytes that light a button. It is
written from those notes and not from either decoder, so that each decoder is tried
against it.

**InputThread** composes them with the queue `out_buf`, the write callback and the output
report, from the user's hands (`position`, `flips`, `turned`) to what the host has heard (`host`).
`push` and `pop` are single steps, as Ringbuffer shows they may be. The messages
arrive at the host in order. The buttons are all in brightness mode HID (`OnlyHID`), as `main()`
leaves them: then `process_MIDI_event()` never asks for a write, the main thread
never calls `write()`, and `output_state`, `out_report` and the device are the input thread's alone.
Buttons in MIDI modes are the business of LedOutput and ButtonLights. The callback's error return
is here too: what the read callback returns is the environment's choice in `EndCycle`, and after
an error JACK drops the client. `turned` adds up what the reports show of the wheel, each difference
counted the shorter way round, from the first report on, which is compared with
whatever `boot`, the memory of `input_state`, held.

**MidiIn** is the way back, byte by byte: the read callback pushes a message one
byte at a time while the main thread takes its two snapshots, reads the storage,
and advances. A byte is its kind (status, system, data) and, for the properties,
where it came from; `bytes` counts what the host has sent. The callback fails when the storage is full
or an event cannot be read, in the middle of a message or before it. The stored data of an event and its channel are not
interpreted here; that is ButtonLights.

**LedOutput** is the race for the device: two threads change LEDs, copy them into one
report LED by LED, and send it. `alone` records whether the other thread kept out
of a `write()`.

**ButtonLights** lets presses and MIDI events arrive in any order and asks who decides
about a light, by brightness mode. `notes` and `controllers` remember what the host said last.

**NonSession** is the session state machine with its two threads, the handlers, and
an environment: NSM announces, opens and may repeat itself, peers say hello and
list their signals. Peers are positive numbers, in the order of the map's keys, and the
session manager is sender 0. Locking and loading the state is one step, acting and
unlocking the next, so that the handlers, which do not lock, come in between. Nor does a handler take its own
steps at once: the check, the write of `FAILED` and the write of
`handshake_complete` are a step each, and so are the poll and the check for a failure
after it. The main thread's iteration over the peers goes from one to the next of the map as it is by then.
Each peer writes its signals in one of two formats, the one the handler
registers or the documented one. A second open ends the process in the model, as it does in the program (section 5).

**JackClient** is the queue of driver-osc byte by byte. A byte knows its event and its
place in it. A write that reaches the end of the storage publishes its first part before
it copies the second, and the callback may come in between. `Queued`, the events
whose last byte is readable, is what implements BoundedFifo.

**F1HidDev** holds the pure parts of driver-osc's main loop at their real size: decoding,
the difference, the latches of the stop buttons, the MIDI events, the lights, the output
report.

**OscInput** composes the two into the main loop, from the user's hands to three
observers: the host behind JACK, a peer of the session, and the lights of the device. The peer joins
whenever it likes (`Join`), knows nothing until it is told (`Untold`), and is sent
the bundles from then on.

**DeviceSearch** is both programs' way to the device through paths of any kind: the F1, another
device of its maker, one that does not answer the ioctl, a refusal, or none. `table` is
the process's descriptor table, `fd` and `dev` the two objects that can own an entry.

### State and actions against the code

| module | variables | actions |
|---|---|---|
| Ringbuffer | `buf`, `write_ptr`, `read_ptr` are the `jack_ringbuffer_t`; `producer`, `consumer` program counter and local of a call | `PushCheck/Copy/Advance/Throws` = `push()`, `Pop...` = `pop()` |
| InputThread | `input_state`, `input_events`, `mapper` (`last_input`, `output_state`), `out_buf`; `client` whether the callback runs, rests or has been dropped; `budget` what is left of `nframes / 3` | `ReadReport`, `ReadOther` = `read_events()` up to the handler, `HandleEvent` = the handler, `WriteDevice` = `write()`, `BeginCycle/WriteMidi/EndCycle` = `process_int()`, `PortRefuses` = its `assert(res == 0)` |
| MidiIn | `buf`, `write_ptr`, `read_ptr` of `in_buf`; `main` the two iterators and the event of `operator>>` | `NextMessage/PushByte/CallbackFails` = read callback, `TakeBegin/TakeEnd` = the iterators, `Skip/StoreData/SkipRest` = `parse()`, `Advance` |
| LedOutput | `led` = `output_state`, `out_report`, `write_hid`, `handled` the loop counter | `HandleInput`, `HandleMidi`, `IgnoreMidi`, `EndBatch`, `Wake` = the two loops, `BeginWrite/Load/Store/Send` = `write()` |
| JackClient, OscInput | `input_buf` the readable bytes, `pending` the part of a write not yet published, `cycle` the locals of `process_cb()`; `input`, `stop_buttons`, `input_diff`, `output` the locals of `exec_driver` | `Write/WriteRest` = `write_midi()`, `BeginCycle/SendEvent` = `process_cb()`, `Read`, `Broadcast`, `SetColors` = the main loop; `joined`, `peer` and `Join` a peer |
| DeviceSearch | `i`, `fd` = `hid_dev` or the local of `main()`, `dev` = what `F1Device` or `F1HidDev` holds | `PathDenied/Fails/Opens`, `Match`, `NoMatch`, `Leave`, `CloseFails` = an iteration of `discover_device()` up to the destructor, `Osc...` = the loop of driver-osc |
| NonSession | the members of the handler by name; `current` = `current_handshaking_peer`; `signals` by origin | one action per `case` of `step_state_machine()`, one to three per handler (`HandleReply/Refuse/Accept`, `HandleError/Fail`, `HandleListEnd/CountPeer`...), `StartSession`, `Poll`, `CheckFailed` = `exec_driver`, `StartPush`, `SendEvent` (one peer, `target`) = the broadcast |

## 3. Runs

| run | instance | shows |
|---|---|---|
| ring | 4 slots, 3 values | refinement of BoundedFifo, no shared slot, stable checks, the inductive invariant |
| input | a toggle, a stop and a special button in three combinations, a fader at 0, 17 and 4095, a knob, the wheel around its wrap, memory that holds the positions or another wheel (half a turn away) and fader; a queue of 2, 2 events a cycle, a client that JACK may drop | the host's view of buttons, encoders and turns (`HostHearsButtons`, `HostHasEncoders`, `HostFollowsWheel`), `LedsMatchNotes`, no message without news, and that every change of a button arrives, unless JACK drops the client or an assertion fails first |
| midi_in | 6 bytes of storage, messages of 1, 2, 3 and 5 bytes, 9 bytes in all | until the data wraps, events are runs of the bytes sent; the read pointer stays behind the write pointer; all input is used up |
| leds | one LED for the input thread, two for MIDI, batches of 2 | a `write()` nothing overlaps leaves the device exact, whatever happened before |
| lights | a button in each mode and group, messages on both channels | each light follows the source its mode names |
| osc_input | a queue of 16 bytes, a port of 3 events a cycle; a matrix, a stop and a special button (the last two share a byte of the report), a fader and a knob in three positions, a peer that joins at any time | end to end to the host, a peer and the lights (`HostHears`, `PeersFollow`, `LightsFollow`); refinement of BoundedFifo; no event without news, the two reasons for which the callback fails, every press arrives |
| device_search | both programs, four paths of any of six kinds, a limit of three | a descriptor has one owner, the first F1 is found, what can hide one, the search ends |
| session_races | two peers in any order with two signals each in either format, answers (also wrong ones) and opens twice, failures, nothing waits | one hello, no peer counted twice, the one way out of a failure (`FailureIsFinal`); while no list is asked for twice, each peer has its own signals, and all that are handled |
| session_orderly | answers (also wrong ones, also twice) at any time, peers one at a time in the order of their ids, two signals each | each peer is asked, and hears the input, also one that arrives during the iteration over the peers |

Three more runs (midi_in_iterator, leds_flag, session_past_end) each refute one statement of a
comment, an assertion or a test of the repository; see section 5.

### Bounds, and why they are enough

* Queues of two or three elements and rings of four, six or eight slots make full, empty
  and wrap-around happen, which is all the code distinguishes. `OUT_BUF_SIZE` events
  give room for 127: the rounding up and the unused slot are in Ringbuffer.
* The decoder and the mapper run at real size; only the set of controls that move is
  small. The stop and special button of `input` share byte 4 of the report; the fader
  values sit just past one rounding boundary (16 and 17 of 4095 are 0 and 1 of 127) and at
  both ends. The wheel stands at 0 or 255, on both sides of its wrap, and the first report may find it half a
turn from what the memory held, the one difference whose sign could go either way. `MaxPerCycle` is
`nframes / 3`.
* `MaxBytes` bounds what the host sends (9 or 12 bytes: three or four notes). In `midi_in` it
  exceeds the storage, so that the callback also finds it full and the data also wraps;
  `EventsAreRuns` speaks of the data before the wrap, since past it the iterator reads
  other bytes (section 5).
* `Size` is 16 instead of 256: both are powers of two and leave 1 modulo 3, so that the
  write pointer meets the end of the storage at each byte of an event, and 5 instead of
  85 events fit. A report fits, two do not, so that the assertion of `write_midi()` is met; a
  report gives up to four events, so that three fill the port.
* Four paths and a limit of three: an F1 can stand first, behind an obstacle, and past the
  limit.
* Three LEDs and two levels: a stale LED needs one that was copied and one yet to copy.
* Two peers are the fewest of which one can come first, last and during the other's
  exchange, and before or behind an iterator. `MaxAnswers` and `MaxOpens` are 2: once, and once too often.

### Fairness

* InputThread: weak fairness of the JACK thread (it is called every cycle for as long as it returns no
  error; once `client` is dropped nothing is assumed, and `ButtonsAreHeard` promises nothing) and of the
  input thread's own steps; that a report ever arrives is not assumed.
* MidiIn: weak fairness of the main thread, which polls every `MIDI_NO_EVENTS_WAIT`
  and never blocks; none of the JACK thread.
* OscInput: weak fairness of the main loop once it has read a report, and of the callback; that
  a report ever arrives is not assumed.
* DeviceSearch: weak fairness of the only thread.
* NonSession: weak fairness of both threads (the main loop goes on because input
  keeps coming), of NSM's first answer and first open, and of a peer's reply to
  `/signal/list`. Whether NSM repeats itself, and whether and when a peer says hello, is open.
  Messages may arrive while `start_session()` still runs.

### Deadlock

`CHECK_DEADLOCK FALSE` is set where the program may stop: after the assertion of
`operator<<` or of the write callback (InputThread), after the assertion of
`write_midi()` (OscInput), after `MaxBytes` (MidiIn), after a crash or return of
`exec_driver` (NonSession), when the search is over (DeviceSearch).

## 4. Proofs

Each proof module has the same shape: an inductive invariant, that `Init` gives it and each
action keeps it, and the properties that follow. Each invariant was checked by TLC on
the instances above before it was proved. The assumptions are the `ASSUME`s of
the modules; no theorem about a module's `Spec` adds a hypothesis of its own.

| module | for every | theorems |
|---|---|---|
| RingbufferProof | number of slots (at least 2), set of elements | `NoDataRace`, `ChecksAreStable`, `TypeCorrect`, `Refinement` |
| MidiInProof | size of the storage, messages that begin with a status byte | `StaysBehind`, `EventsAreCutInOrder`, `TypeCorrect` |
| InputThreadProof | positions, memory, toggle buttons, queue and cycle, all buttons in mode HID | `HostHearsTheButtons`, `HostHasTheEncoders`, `LedsShowTheNotes`, `NoRedundantMessage`, `HostFollowsTheWheel`, `TypeCorrect` |
| OscInputProof | positions, storage of 3n + 1 bytes, port | `Refinement`, `CallbackFailures`, `HostIsRight`, `NewsOnly`, `PeersAreNeverWrong`, `LightsAreRight`, `TypeCorrect` |
| F1ReportsProof | position of the controls | lemmas for the two above |
| LedOutputProof | LEDs, levels, batch; modes, presses, messages | `QuietWrites`, `TypeCorrect`, `LightsAreTheirs` |
| NonSessionProof | peers, lists, formats, number of answers and opens | `HelloIsSentOnce`, `CountsArePeers`, `TypeCorrect`, `FailuresStay`, `SignalsAreTheirs`, `CountedListsAreComplete` |
| DeviceSearchProof | paths, limit | `DescriptorsAreOwned`, `TheFirstIsFound`, `OnlyObstaclesHide`, `TypeCorrect` |

### The queue: RingbufferProof

Neither `NoSharedSlot` nor `CheckStillHolds` is enough by itself. What a thread checked
stays true because only the other one moves the other pointer, and only in the
harmless direction: popping makes room, pushing makes elements. `IInv` says this
(`CheckStillHolds`) and adds what a thread carries between its steps: past its
copy, the pusher's value is in the slot at the write pointer, and the popper's
is the one in the slot at the read pointer. The arithmetic of the wrapping pointers is
confined to four lemmas (`ReadSpaceRange`, `WriteSlotIsFree`, `PushMovesSpace`,
`PopMovesSpace`); the slot being written is never one of the readable ones
(`WriteSlotIsFree`), so `PushCopy` leaves `Queue` alone. For the refinement,
`PushAdvance` is where a push takes effect and `PopAdvance` where a pop does
(`PushAdvanceAppends`, `PopAdvanceTails`); all other steps but the throwing ones stutter.
The set of elements must not contain the placeholder `NoValue`.

### The parser: MidiInProof

`NeverPastWritePtr` is not inductive: `operator>>` walks with the length of its first snapshot
and may jump to the end of its second. `Behind` says which of the two bounds the offset
in each state; both are bounded by what is readable, since the callback only adds to it
(`PushMovesSpace`).

`EventsAreRuns` needs to know what the bytes in the storage are, not only where the pointers are.
Until the data wraps, a byte has its place there by the count of those pushed before it
(`Pushed`, `Taken`, `Linear`); the bytes up to the write pointer are in the order in which they were sent, and a
data byte continues the message of the byte before it (`Stored`). So the event under
construction is a run of the bytes from the read pointer to the offset (`Parsing`), and the
events handed over come from the bytes before the read pointer, the earlier ones from earlier
bytes (`Parsed`). The other thread pushes behind all of this. `ShapesAssumption` says that a message begins
with a status byte, which is what JACK hands over; without it the first data byte of a message
would be appended to the event before. After the wrap the property is false, with the iterator of
section 5.

### driver: InputThreadProof

The argument goes along what is on its way. A report puts one event into `input_events` for each control that
moved (`EventsList`). Until it is handled, its control is the one thing the mapper may have wrong
(`InputInv`: a button it has not flipped yet, an encoder whose level it has not set). Handling
it sends a message exactly when a host that knew what the mapper had before needs one (`Informs`), so a host
that is taken through the messages of `out_buf` one by one learns something at each, and ends with
what the mapper has (`Informed`: there is a `Chain` of what the host will know). With no event
left and `out_buf` drained, the mapper has what the user did, and the host what the mapper has.
`Drained` is the recursive function `After` over the queue; `ChainEnd` unrolls it along a
chain, so that no induction is left to the properties.

* `HostHasTheEncoders` allows for the uninitialised memory (section 5).
* `HostFollowsTheWheel` is about any positions and any memory. `Turn` is what a report shows of the
  wheel, from its two positions and without the decoder's casts; `StepIsTurn` is the
  arithmetic that these come to the same, and `WheelInv` says that the drained host has counted every
  turn, or all but the one of the event still to come. Where no report skips a step, the turns
  are the way of the wheel.

### driver-osc: OscInputProof

`ClientInv` says that the bytes of the queue and those of the write in progress, one after the
other, are whole events, but for the end of the last when the process was aborted in it and the
start of the first when the callback failed in it; and that a cycle sends no more than there is.
From it follow the refinement of BoundedFifo (a push takes effect when the last byte of the event is
published, a pop when the callback has read three bytes) and `FailsOnlyTorn`. `Size` leaves 1 modulo 3, as 256 does.

`LoopInv` adds the main loop: `last` is what the report said, the latches are the parities of the presses.
From there the three observers are independent. `HostInv`: the messages on their way (in the queue, begun, and
still to be written) *lead* the host to the buttons that are on (`Leads`). It is
stated without recursion, by the first, the next and the last message about each key: the first
is news to the host, the next differs from the one before, the last says what the button is.
Receiving one keeps it (`LeadsReceive`), and so does appending the events of a difference.
`PeersInv`: a peer that has joined is right, or the bundle that is due makes it so, and would make so any
that is right about the position before; this last part is what a peer that joins between the report and the
bundle needs. `LightsInv`: the lights are right,
or `set_colors()` is due and makes them so, and the device has what was set last.

### The reports: F1ReportsProof

The device's report of a position, decoded by the driver, is that position (`UpdateDecodes`): each button has one bit of
its own (`ButtonBitInjective`, `HeldBits`), and sixteen bits are put together from two bytes (`BytesOfWord`). `InOrderLists`: the loops over
the indexes that differ list each of them once, in order.

### The lights: LedOutputProof

`Copied`: in a `write()` that has been alone so far, every LED before the index is in `out_report` as it
is in `output_state`, and the byte just loaded still equals its LED. `StoreCopies` is
the step of that induction, and `LedsInOrder` says that the LEDs copied in the end are all of them. The LEDs are a sequence,
which may name one twice.

`LightsAreTheirs` is about ButtonLights, whose assumptions are: no button in both MIDI modes, presses of buttons, messages with seven-bit data. The
property is inductive with the types alone; what it takes is that a press writes only lights in
mode HID (`PressesKeepLights`) and a message only those it is for (`MessagesKeepLights`).

### The session: NonSessionProof

Three invariants, each an extension of the one before.

* `IInv`, for `OneHello` and `FailureIsFinal`. The mutex alone is not enough, because handlers write the state
  outside it. What makes it work is that once the hello is out, the state, and the state that any
  iteration under way has read, are of `Late`, and no handler leads out of
  `Late` (`AfterHello`); and that before `start_session()` there is nothing to handle
  (`BeforeStart`), so that nobody can step the machine early. For `FailuresStay`, `FailureSeen`: only the server
  thread fails a session, so that it has seen every failure when it steps the machine. The other thread may
  not have, which is the exception that `FailureIsFinal` names (section 5).
* `CountInv`, for `HandshakesAreCounted` and the types. Each peer that the iterator has passed
  is counted, or its list has ended and is about to be counted, or it is awaited, and once at most
  (`Counted`). The end of a list that was not awaited counts nobody; when the iterator has run
  past the last peer, nothing counts any more (`Over`).
* `ExchangeInv`, for `SignalsFromTheirPeer` and `ListsAreComplete`, as long as no list has been asked for twice
  (`Once`, part of both properties). `PeerInv` says where a peer is in the exchange (hello, list asked for, list
  sent), that only the current one can have a list under way, and that what it has registered and what is
  still in its inbox make up its list; so a signal, which carries no sender, can only be the current peer's,
  in whatever order the peers come. `CurrentInv` says when the next one may be picked (`Settling`), and
  `AllCounted` that no more are counted than are done, of which there are at most as many as are known.
  `OnceBefore`: a step does not undo a second request, so the invariant may be conditional.

### The search: DeviceSearchProof

The invariant says what is held in each state (`Held`: nothing, the descriptor of the path
being tried, or the device's) and why the search is where it is (`Progress`: no path before is
an F1, and in `none` the path is an obstacle or the limit is reached).

### What is not proved

Liveness (`ButtonsAreHeard`, `InputDrains`, `PressesReachHost`, `SearchEnds`, `EveryPeerIsAsked`,
`PeersHearInput`) stays with TLC for good: fairness and `ENABLED` are out of the prover's reach. The three statements
that section 5 refutes have nothing to prove. Every other property of a run is a theorem.

## 5. Where the code and what it says of itself differ

Each of these is a run that TLC refutes; `findings` quotes the lines.

* `midi_in_iterator`: past the end of the storage the iterator reads another byte than the one
  at its position.
* `leds_flag`: a light that MIDI changed is not sent when the next event of the batch changes
  nothing. It needs buttons in a MIDI brightness mode, which `main()` does not configure; it
  is one of the documented settings (`driver/README.md`), made in the source.
* `session_past_end`: a peer whose id sorts before the one handled last moves the iterator to
  `end()`.

Others are steps of the models that end in a crash or an error, with no property of their own:

* More events than `out_buf` holds between two cycles meet the assertion of `operator<<`
  (`JackWrapper.cpp:281`; `HandleEvent`), more than `input_buf` holds that of `write_midi()`
  (`JackClient.cpp:134`; `Write`).
* The session counts as ready before the project is open (`NonSessionHandler.hpp:137`), and the first
  input event then meets `assert(jack)` (`NonSessionHandler.cpp:103`; `StartPush`).
* `disconnect()` closes the client, and the `reset()` of its pointer closes it again
  (`JackClient.cpp:61`); the deleter of the port then asserts on a client that is gone
  (`JackClient.hpp:109`). A second open goes this way, although the driver announces the
  capability `switch` (`NonSessionHandler.hpp:61`; `HandleOpen`).
* The callback of driver-osc returns 2 when it meets a part of an event, which is not an error of
  anybody but a write in progress, and an error when the port is full, after it has taken
  the event from the queue. JACK then stops calling it (`SendEvent`; `FailsOnlyTorn` says there is
  no third reason, and `ImplementsChannel` that it does not make an event of the parts).

The properties of the passing runs are stated so that they hold of the code as it is. Where that
took an assumption, the assumption is named:

* `FailureIsFinal` has an exception. The handlers write `FAILED` without the mutex, and an iteration of
  `start_session()` that has read `HANDSHAKE_AWAIT_REPLY` or another state before then writes the successor of
  what it read over it (`NonSessionHandler.cpp:209`): a refusal or an error that comes quickly enough is lost, and
  the session goes on, although the test of the handler expects it to fail
  (`driver-osc/test/NonSessionHandler.cpp:225`). Once `start_session()` has returned, no failure is lost.
* `Once`: every hello steps the machine, so that one that comes while a list is awaited makes the driver ask for
  that list again, and the second copy is registered with the peer that is current by then
  (`NonSessionHandler.cpp:464`; replies carry no sender). `driver-osc/doc/nsm_client_hello.md:32-33` lets peers
  exchange their lists in parallel. `SignalsFromTheirPeer` and `ListsAreComplete` speak of the states in which no list has been
  asked for twice; `HandshakesAreCounted` and `OneHello` of all.
* `ListsAreComplete` counts the signals that are handled. In the documented format
  (`nsm_client_hello.md:27`, with a direction, `sssfff`) a signal finds no method and is dropped
  (`DropSignal`), and its peer is counted without any (`Handled`).
* `Orderly` (a peer says hello when the exchange of the one before is over, in the order of
  the ids) is set in session_orderly alone, for the two liveness properties: the end of a list does not step the
  machine, so that with overlapping exchanges a peer may wait for ever
  (`NonSessionHandler.cpp:35`), and one that sorts before the last one ends the iteration (`session_past_end`).
* `PeersFollow` does not say that a peer knows everything. `broadcast_input_event()` sends what has changed to
  the peers there are (`NonSessionHandler.cpp:175`), and nothing is sent again: a peer that joins
  while a button is held, a stop button latched or a fader up is not told until that changes.
* `LedsMatchNotes` rests on `OnlyHID`, the configuration of `main()`. With a button in a MIDI mode the main thread calls
  `write()` as well (`main.cpp:203`), and an LED can be left stale.
* `HostFollowsWheel` counts what the reports show: one message is one step, however far the wheel went between
  two reports, and the first report is compared with memory nobody initialised (`F1Device.cpp:28`), so
  that a wheel that never moved may send a step.
* `ButtonsAreHeard` ends with the client: a full `in_buf` makes the callback return an error
  (`JackWrapper.cpp:155-157`, `192-193`), for which JACK drops the client, and the driver goes on without noticing.
* `HostHasEncoders` allows for a control that has never been reported to move, because the
  first report is compared with memory nobody initialised (`Garbage`).
* `EventsAreRuns` promises runs of bytes, not whole messages: `operator>>` may start on a message
  the callback is still pushing, and then gives its beginning or skips it.
* `QuietWriteIsExact` is about writes without overlap; two overlapping ones may send a mixture.
* `LightsFollowTheirMode` speaks of matrix buttons: the loop over MIDI events goes over these only.
* The hello goes out as soon as the project is open; `session_is_loaded` of NSM has no method and no effect.

## 6. What is not modelled

* Errors of `read()` and `write()` on the device. Those of the driver's `HidDevice` throw out of a thread that
  does not catch them, and the process ends; driver-osc catches its `F1HidDevException`, a short read
  included, in `main()` (`osc_driver.cpp:103`) and returns. driver-osc does not look at the report's id, so
  reports with other ids are part of `input` only.
* OSC runs over UDP; messages of one sender arrive in order here, and only NSM's answer may
  be repeated. Loss is not modelled: nothing in the handler would notice
  (`SESSION_HANDSHAKE_TIMEOUT` is unused).
* A second hello of a known peer is an unimplemented branch, `assert(false)`: it is in `HandleHello`, but no peer
  of the model sends it.
* The insertion into `peers` while another thread iterates over the map is a data race on the nodes of the tree.
  Here it comes between two steps of the iteration and is whole.
* The wheel in driver-osc: it is decoded, its difference is computed and read by nobody.
* The life of a `JackWrapper` (construction, `activate`, `deactivate`, destruction): it is made and activated
  once, after its constructor has set the callbacks. (`active` is never set, so that `deactivate()` does nothing
  and a second `activate()` is not refused; the program calls neither.)
* `MidiStream`, which nothing but its tests uses, and the operations of `FileDescriptor` and `Ringbuffer` that
  only the tests call (move assignment, explicit `close()`, copies).
* The segment displays, names, colours, captures, `devtest`, the interactive programs, the
  Landlock rules, the build.

## 7. Plan

Done in this order: the queue and its proof, since all of `driver/` rests on it; the
two directions of MIDI; LEDs; the session; the main loop of driver-osc with its queue; the search for the
device; then the proofs, component by component, until each safety property of a passing run
was a theorem.

Next, model more:

1. **JackLifecycle**: construction, `activate`, `deactivate`, destruction against callbacks of the
   JACK thread.
2. **MidiStream**: its iterator against the list of events a single thread wrote.
3. A second level for MidiIn: an abstract specification of `operator>>` ("one message at a
   time"), and the conditions under which the code implements it.

Then prove more: that InputThread's `out_buf` may be replaced by Ringbuffer (the composition the
refinement of BoundedFifo justifies), the conditions under which `operator>>` loses no message
(the second level of MidiIn), and that the interleaving of two `write()`s sends for each LED a level
it had since the first of them began.
