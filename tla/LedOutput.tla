----------------------------- MODULE LedOutput -----------------------------
(***************************************************************************)
(* The LEDs of the device, written by two threads of driver/src/main.cpp   *)
(* with no lock between them.  The input thread lights buttons in          *)
(* brightness mode HID and calls F1Device::write() after every report; the *)
(* main thread takes MIDI events in batches, lights buttons in the MIDI    *)
(* modes and calls write() when process_MIDI_event() says so.  Both go     *)
(* through the same output_state and the same out_report: write() copies   *)
(* the one into the other, byte by byte, and sends the result.             *)
(*                                                                         *)
(* Concurrent access to out_report is a data race; every load and store is *)
(* a step of its own here.  write(2) on the device is one step.            *)
(***************************************************************************)
EXTENDS Integers, Sequences

CONSTANTS Leds,        \* the LEDs, in the order update_out_report() copies them
          HidLeds,     \* those a report can change
          MidiLeds,    \* those a MIDI event can change
          Level,       \* brightness values
          Dark,        \* the initial one
          BATCH_SIZE   \* MIDI events per round of the main loop (1024)

LedSet == {Leds[k] : k \in 1 .. Len(Leds)}

ASSUME LedsAssumption == /\ Leds \in Seq(LedSet) /\ Leds # <<>>
                         /\ HidLeds \subseteq LedSet
                         /\ MidiLeds \subseteq LedSet
ASSUME SourcesAreDisjoint == HidLeds \cap MidiLeds = {}
ASSUME LevelAssumption == Dark \in Level
ASSUME BatchAssumption == BATCH_SIZE \in Nat \ {0}

VARIABLES led,          \* output_state
          out_report,   \* the report both threads build
          device,       \* the LEDs as the device shows them
          thread,       \* where each thread is; in write(), the byte it copies
          write_hid,    \* the flag of the main loop
          handled,      \* events the main loop has handled in this batch
          alone         \* has the other thread kept out since write() began?

vars == <<led, out_report, device, thread, write_hid, handled, alone>>

Threads == {"input", "main"}
Other(t) == IF t = "input" THEN "main" ELSE "input"

AllDark == [l \in LedSet |-> Dark]

Init == /\ led = AllDark
        /\ out_report = AllDark
        /\ device = AllDark
        /\ thread = [input |-> [pc |-> "read", k |-> 1, byte |-> Dark],
                     main |-> [pc |-> "batch", k |-> 1, byte |-> Dark]]
        /\ write_hid = FALSE
        /\ handled = 0
        /\ alone = [t \in Threads |-> TRUE]

Goto(t, pc) == thread' = [thread EXCEPT ![t] = [pc |-> pc, k |-> 1, byte |-> Dark]]

(* Thread t touches what the other one may be copying.                     *)
Disturb(t) == alone' = [alone EXCEPT ![Other(t)] = FALSE]

-----------------------------------------------------------------------------
(* The input thread: a report arrives, and each of its events may change   *)
(* one LED; then write().                                                  *)
HandleInput == /\ thread["input"].pc \in {"read", "handle"}
               /\ \E l \in HidLeds, v \in Level : led' = [led EXCEPT ![l] = v]
               /\ Goto("input", "handle")
               /\ Disturb("input")
               /\ UNCHANGED <<out_report, device, write_hid, handled>>

(* The main thread: *jack >> event; process_MIDI_event(event).             *)
MoreEvents == thread["main"].pc = "batch" /\ handled < BATCH_SIZE

(* The result for one event replaces the result for the one before it.     *)
SetWriteHid(changed) == write_hid' = changed

HandleMidi == /\ MoreEvents
              /\ \E l \in MidiLeds, v \in Level : led' = [led EXCEPT ![l] = v]
              /\ SetWriteHid(TRUE)
              /\ handled' = handled + 1
              /\ Disturb("main")
              /\ UNCHANGED <<out_report, device, thread>>

(* An event that no LED listens to.                                        *)
IgnoreMidi == /\ MoreEvents
              /\ SetWriteHid(FALSE)
              /\ handled' = handled + 1
              /\ UNCHANGED <<led, out_report, device, thread, alone>>

(* The buffer is empty, or the batch is full: write(), or sleep.           *)
EndBatch == /\ thread["main"].pc = "batch"
            /\ ~write_hid
            /\ Goto("main", "sleep")
            /\ UNCHANGED <<led, out_report, device, write_hid, handled, alone>>

Wake == /\ thread["main"].pc = "sleep"
        /\ Goto("main", "batch")
        /\ write_hid' = FALSE
        /\ handled' = 0
        /\ UNCHANGED <<led, out_report, device, alone>>

-----------------------------------------------------------------------------
(* write() begins: by the input thread after the events of a report, which *)
(* need not have changed any LED, by the main thread after a batch whose   *)
(* last event changed one.                                                 *)
BeginWrite(t) == /\ \/ t = "input" /\ thread[t].pc \in {"read", "handle"}
                    \/ t = "main" /\ thread[t].pc = "batch" /\ write_hid
                 /\ Goto(t, "load")
                 /\ alone' = [alone EXCEPT ![t] = TRUE, ![Other(t)] = FALSE]
                 /\ UNCHANGED <<led, out_report, device, write_hid, handled>>

(* update_out_report(): a byte is loaded from output_state ...             *)
Load(t) == /\ thread[t].pc = "load"
           /\ thread' = [thread EXCEPT ![t].pc = "store",
                                       ![t].byte = led[Leds[thread[t].k]]]
           /\ UNCHANGED <<led, out_report, device, write_hid, handled, alone>>

(* A variant that copies one byte too many.                                *)
IsLastLate(k) == k > Len(Leds)

(* A variant that copies one byte too few.                                 *)
IsLastEarly(k) == k >= Len(Leds) - 1

IsLast(k) == k = Len(Leds)

(* ... and stored into out_report.                                         *)
Store(t) == /\ thread[t].pc = "store"
            /\ out_report' = [out_report EXCEPT ![Leds[thread[t].k]] = thread[t].byte]
            /\ IF IsLast(thread[t].k)
                 THEN Goto(t, "send")
                 ELSE thread' = [thread EXCEPT ![t].pc = "load", ![t].k = @ + 1]
            /\ Disturb(t)
            /\ UNCHANGED <<led, device, write_hid, handled>>

(* dev.write(): the whole report, as it is now.  The main loop then starts *)
(* its next round, with a fresh flag.                                      *)
Send(t) == /\ thread[t].pc = "send"
           /\ device' = out_report
           /\ Goto(t, IF t = "input" THEN "read" ELSE "batch")
           /\ IF t = "main" THEN write_hid' = FALSE /\ handled' = 0
                            ELSE UNCHANGED <<write_hid, handled>>
           /\ UNCHANGED <<led, out_report, alone>>

Next == \/ HandleInput
        \/ HandleMidi \/ IgnoreMidi \/ EndBatch \/ Wake
        \/ \E t \in Threads : BeginWrite(t) \/ Load(t) \/ Store(t) \/ Send(t)

Spec == Init /\ [][Next]_vars

-----------------------------------------------------------------------------
(* Types, and that the main loop never handles more than a batch between   *)
(* two looks at its flag.                                                  *)
TypeOK ==
  /\ led \in [LedSet -> Level]
  /\ out_report \in [LedSet -> Level]
  /\ device \in [LedSet -> Level]
  /\ thread \in [Threads -> [pc : {"read", "handle", "batch", "sleep", "load", "store", "send"},
                            k : 1 .. Len(Leds), byte : Level]]
  /\ write_hid \in BOOLEAN
  /\ handled \in 0 .. BATCH_SIZE
  /\ alone \in [Threads -> BOOLEAN]

(* With both threads writing: a write() that the other thread kept out of, *)
(* from its first load to its send, leaves the device exact, whatever the  *)
(* mess before it.  Stale LEDs come from overlapping calls and from        *)
(* write_hid, from nothing else, and the next quiet write() mends them.    *)
QuietWriteIsExact == [][\A t \in Threads : Send(t) /\ alone[t] => device' = led]_vars

(* "It should be called after changes have been made to the output state": *)
(* when both threads are back waiting, the device shows the LEDs.          *)
ChangesAreSent ==
  (thread["input"].pc = "read" /\ thread["main"].pc = "sleep") => device = led
=============================================================================
