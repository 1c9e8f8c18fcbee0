SPECIFICATION Spec
CHECK_DEADLOCK FALSE
CONSTANTS
    Peer = {1, 2}
    SignalCount = 2
    Formats = {"ssfff"}
    Answers = {"announced", "incapable", "error"}
    MaxAnswers = 2
    MaxOpens = 1
    JackFails = TRUE
    Orderly = TRUE
PROPERTIES EveryPeerIsAsked PeersHearInput
