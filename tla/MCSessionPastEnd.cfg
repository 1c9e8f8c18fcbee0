SPECIFICATION Spec
CHECK_DEADLOCK FALSE
CONSTANTS
    Peer = {1, 2}
    SignalCount = 1
    Formats = {"ssfff"}
    Answers = {"announced"}
    MaxAnswers = 1
    MaxOpens = 1
    JackFails = FALSE
    Orderly = FALSE
INVARIANTS CurrentPeerExists
