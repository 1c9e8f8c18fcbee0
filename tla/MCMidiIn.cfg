SPECIFICATION Spec
CONSTANTS
  Slots = 6
  Shapes <- AllShapes
  MaxBytes = 9
INVARIANTS
  TypeOK
  EventsAreRuns
  NeverPastWritePtr
PROPERTIES
  InputDrains
CHECK_DEADLOCK FALSE
