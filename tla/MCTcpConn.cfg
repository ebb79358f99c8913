\* Payloads and buffers shrunk together; the ratios are those of the code: both
\* writers and the client's reader are twice the server's reader and hex buffer.
\* A tree of 12 units is the largest that cannot block, one of 13 can.
CONSTANTS
    HexSizes = {0, 1, 2, 3}
    TreeSizes = {1, 12, 13}
    HexBuf = 4
    ClientWBuf = 8
    ClientRBuf = 8
    ServerRBuf = 4
    ServerWBuf = 8
    NetBuf = 3
SPECIFICATION Spec
INVARIANTS
    TypeOK
    Framed
    StuckOnlyOverCapacity
    CleanClose
PROPERTIES
    CallReturns
    ConnReturns
    RefinesRpcQueue
CHECK_DEADLOCK FALSE
