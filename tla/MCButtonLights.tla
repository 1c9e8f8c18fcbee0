--------------------------- MODULE MCButtonLights ---------------------------
(* One button in each mode of the matrix, one of each other group, the     *)
(* messages for them and for their neighbours, on both channels, and one   *)
(* about a note that is no note message.                                   *)
EXTENDS ButtonLights

NoteButton == <<"MATRIX", 1>>
CCButton == <<"MATRIX", 2>>
ToggleButton == <<"MATRIX", 0>>
StopButton == <<"STOP", 3>>

Toggles == {ToggleButton, NoteButton}
NoteMode == {NoteButton}
CCMode == {CCButton}
AllPressed == {ToggleButton, NoteButton, CCButton, StopButton}

NoteEvents(b, channel) ==
  {MidiEvent("NOTE_ON", channel, Note(b), 127), MidiEvent("NOTE_OFF", channel, Note(b), 0)}
CCEvents(c, channel) ==
  {MidiEvent("CONTROL_CHANGE", channel, c, v) : v \in {0, 17, 127}}

Events == NoteEvents(NoteButton, InChannel) \cup NoteEvents(NoteButton, OutChannel)
          \cup NoteEvents(StopButton, InChannel) \cup NoteEvents(ToggleButton, InChannel)
          \cup CCEvents(BrightnessController(CCButton), InChannel)
          \cup CCEvents(BrightnessController(CCButton), OutChannel)
          \cup CCEvents(BrightnessController(NoteButton), InChannel)
          \cup {MidiEvent("POLYPHONIC_AFTERTOUCH", InChannel, Note(NoteButton), 17)}
=============================================================================
