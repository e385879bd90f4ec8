SPECIFICATION Spec
CONSTANTS
    HeaderSize = 2
    HandshakeLength = 1
    AnswerLength = 1
    Callers = {c1}
    Requests <- MCRequests
    PeerMessages <- MCPeerRequests
    MaxRequests = 2
    MaxPeerMessages = 2
INVARIANTS
    RespondsInOrder
CHECK_DEADLOCK FALSE
