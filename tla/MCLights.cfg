SPECIFICATION LightsSpec
CONSTANTS
  ButtonToggle <- Toggles
  MidiNoteMode <- NoteMode
  MidiCCMode <- CCMode
  Pressed <- AllPressed
  HostEvents <- Events
INVARIANTS
  LightsFollowTheirMode
