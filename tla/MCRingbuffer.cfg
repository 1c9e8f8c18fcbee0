SPECIFICATION Spec
CONSTANTS
  a = a
  b = b
  c = c
  Value = {a, b, c}
  NoValue = NoValue
  Slots = 4
INVARIANTS
  TypeOK
  NoSharedSlot
  CheckStillHolds
  IInv
PROPERTY
  ImplementsFifo
