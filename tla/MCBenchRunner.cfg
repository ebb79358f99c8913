\* Fewer iterations than, and more than, one per worker both happen: the
\* workers compete for them, so one may get none and another all.
CONSTANTS
    NbClients = 3
    Iters = 4
SPECIFICATION Spec
INVARIANTS
    TypeOK
    OneGoroutinePerClient
    EveryCallCounted
    NoCallAfterCancel
    ServerFaultFails
PROPERTIES
    BenchEnds
CHECK_DEADLOCK FALSE
