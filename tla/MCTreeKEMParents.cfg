SPECIFICATION Spec
CONSTANTS
    Clients = {0, 1, 2, 3, 4, 5}
    Scenarios <- MCDoubling
INVARIANT
    AllParentsValidated
CHECK_DEADLOCK FALSE
