SPECIFICATION Spec
CHECK_DEADLOCK FALSE
CONSTANTS
    Peer = {1, 2}
    SignalCount = 2
    Formats = {"ssfff", "sssfff"}
    Answers = {"announced", "incapable", "error"}
    MaxAnswers = 2
    MaxOpens = 2
    JackFails = TRUE
    Orderly = FALSE
INVARIANTS TypeOK OneHello HandshakesAreCounted SignalsFromTheirPeer ListsAreComplete
PROPERTIES FailureIsFinal
