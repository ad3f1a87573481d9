\* The tenant is frozen while a delivery is under way.
CONSTANTS
    W1 = W1
    W2 = W2
    I1 = I1
    I2 = I2
    Items = {I1}
    Dispatches = {1}
    Workers = {W1}
    MAX_ATTEMPTS = 2
    MaxStalls = 0
    MaxFreezes = 1
    MaxFaults = 1
SPECIFICATION Spec
INVARIANT SendingIsDispatched
