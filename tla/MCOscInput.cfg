SPECIFICATION Spec
CHECK_DEADLOCK FALSE
CONSTANTS
  Size = 16
  PortEvents = 3
  Event <- MidiEvent
  NoEvent <- Silence
  Positions <- SomePositions
INVARIANTS
  TypeOK
  HostHears
  PeersFollow
  LightsFollow
PROPERTIES
  ImplementsChannel
  FailsOnlyTorn
  EveryEventIsNews
  PressesReachHost
