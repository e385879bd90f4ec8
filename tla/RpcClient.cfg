SPECIFICATION FairSpec
CONSTANTS
    Nodes = {n1, n2, n3, n4}
    RetriesCount = 3
INVARIANTS
    OkMeansAccepted
    PostedOnce
PROPERTIES
    Ends
CHECK_DEADLOCK FALSE
