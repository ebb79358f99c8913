\* Two clients: one to fail and one to suffer from it.
CONSTANT Clients = {c1, c2}
SPECIFICATION Spec
INVARIANTS
    TypeOK
    Joined
    
    FaultsAreReal
    AbandonedOnlyAfterFault
PROPERTIES
    CallSettles
    RefinesServerRun
CHECK_DEADLOCK FALSE
