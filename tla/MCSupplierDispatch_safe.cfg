\* Two workers, two dispatches, a lost claim or a freeze; it implements SupplierOrder.
CONSTANTS
    W1 = W1
    W2 = W2
    I1 = I1
    I2 = I2
    Items = {I1, I2}
    Dispatches = {1, 2}
    Workers = {W1, W2}
    MAX_ATTEMPTS = 2
    MaxStalls = 1
    MaxFreezes = 1
    MaxFaults = 1
SPECIFICATION FewFaultsSpec
SYMMETRY Symmetry
INVARIANT TypeOK
INVARIANT ResendsOnlyAfterStall
INVARIANT OrderedWasAsked
INVARIANT FailureIsReported
INVARIANT SendingIsSettled
PROPERTY ImplementsSupplierOrder
