\* Two workers, one of which has a failing call.
CONSTANTS
    NbClients = 2
    Iters = 2
SPECIFICATION Spec
PROPERTIES
    FailureEnds
CHECK_DEADLOCK FALSE
