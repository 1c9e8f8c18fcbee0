SPECIFICATION Spec
CONSTANTS
  Slots = 8
  Shapes <- NotesOnly
  MaxBytes = 12
INVARIANTS
  ReadsTheByteThere
CHECK_DEADLOCK FALSE
