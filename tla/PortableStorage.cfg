SPECIFICATION NodeSpec
CONSTANTS
    Storages <- MCStorages
    PeerStorages <- MCPeerStorages
    Handshakes <- MCHandshakes
INVARIANTS
    ReadsOwn
    ReadsPeers
    TakesWhatPeerSaid
CHECK_DEADLOCK FALSE
