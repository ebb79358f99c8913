\* One of two clients loses its connection under a Nop.
CONSTANT Clients = {c1, c2}
SPECIFICATION Spec
PROPERTIES
    NilMeansAnswered
CHECK_DEADLOCK FALSE
