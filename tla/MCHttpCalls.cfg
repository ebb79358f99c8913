\* Requests that the write buffer holds and that it does not; replies with a
\* Content-Length and chunked ones; and a payload larger than every buffer.
CONSTANTS
    HexSizes = {0, 1, 4}
    TreeSizes = {1, 3, 6}
    WriteBuf = 3
    OutBuf = 2
    NetBuf = 2
SPECIFICATION Spec
INVARIANTS
    TypeOK
    PooledIsClean
    FailsOnlyIfShared
PROPERTIES
    CallReturns
CHECK_DEADLOCK FALSE
