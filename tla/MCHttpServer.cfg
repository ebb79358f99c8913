\* Two clients: one connection can be idle while the other is in a handler.
CONSTANT Clients = {c1, c2}
SPECIFICATION Spec
INVARIANTS
    TypeOK
    CleanAfterService
    DrainedAtReturn
PROPERTIES
    ConnsEnd
    RefinesServerRun
CHECK_DEADLOCK FALSE
