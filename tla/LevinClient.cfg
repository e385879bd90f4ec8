SPECIFICATION FairSpec
CONSTANTS
    HeaderSize = 2
    HandshakeLength = 1
    AnswerLength = 1
    Callers = {c1}
    Requests <- MCRequests
    PeerMessages <- MCPeerMessages
    MaxRequests = 2
    MaxPeerMessages = 2
INVARIANTS
    ReadsWholeMessages
    NothingSkipped
    FramedUnlessOverlap
    NodeIsAnswer
PROPERTIES
    HandshakeReturns
CHECK_DEADLOCK FALSE
