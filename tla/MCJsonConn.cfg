\* Zero, the value that omitempty would drop, and payloads of every length.
CONSTANTS
    Ints = {0, 2}
    Bytes = {0, 26}
    MaxHex = 2
SPECIFICATION Spec
INVARIANTS
    TypeOK
    ResultIsOwn
CHECK_DEADLOCK FALSE
