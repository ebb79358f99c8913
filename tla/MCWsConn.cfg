\* The ratios are those of the code: the server's frame is twice the hex buffer,
\* the client's is smaller.  Replies of one and of two frames occur, and the largest
\* tree that cannot block is followed by one that can.
CONSTANTS
    HexSizes = {0, 1, 3, 4}
    TreeSizes = {1, 8, 12, 13}
    HexBuf = 4
    ClientFrame = 2
    ServerFrame = 8
    NetBuf = 5
SPECIFICATION Spec
INVARIANTS
    TypeOK
    Aligned
    StuckOnlyOverCapacity
PROPERTIES
    CallReturns
    RefinesRpcQueue
CHECK_DEADLOCK FALSE
