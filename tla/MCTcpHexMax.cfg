\* ToHex of exactly MaxHexEncodeSize bytes (here HexBuf).
CONSTANTS
    HexSizes = {1, 3}
    TreeSizes = {1}
    HexBuf = 3
    ClientWBuf = 6
    ClientRBuf = 6
    ServerRBuf = 3
    ServerWBuf = 6
    NetBuf = 2
SPECIFICATION Spec
PROPERTIES
    HexAnswered
CHECK_DEADLOCK FALSE
