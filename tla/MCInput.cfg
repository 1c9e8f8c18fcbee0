SPECIFICATION Spec
CONSTANTS
  ButtonToggle <- MatrixToggles
  MidiNoteMode = {}
  MidiCCMode = {}
  Positions <- AllPositions
  OtherIds = {2}
  Garbage <- SomeMemory
  OutCapacity = 2
  MaxPerCycle = 2
INVARIANTS
  TypeOK
  HostHearsButtons
  LedsMatchNotes
  HostHasEncoders
  HostFollowsWheel
PROPERTIES
  EveryMessageIsNews
  ButtonsAreHeard
CHECK_DEADLOCK FALSE
