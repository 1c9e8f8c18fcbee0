SPECIFICATION Spec
CHECK_DEADLOCK FALSE
CONSTANTS
  Paths = 4
  MAX_HIDRAW_DEVICE_IDX = 3
INVARIANTS
  TypeOK
  OneOwner
  FindsTheFirst
  MissesBehindObstacles
PROPERTIES
  SearchEnds
