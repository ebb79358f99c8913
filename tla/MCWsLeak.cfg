\* One client that nobody closes.
CONSTANT Clients = {c1}
SPECIFICATION Spec
PROPERTIES
    WsConnsEnd
CHECK_DEADLOCK FALSE
