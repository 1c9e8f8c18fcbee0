SPECIFICATION Spec
CONSTANTS
  pad1 = pad1
  pad2 = pad2
  pad3 = pad3
  Leds <- ThreeLeds
  HidLeds = {}
  MidiLeds = {pad2, pad3}
  Level = {0, 1}
  Dark = 0
  BATCH_SIZE = 2
INVARIANTS
  ChangesAreSent
