\* Two managers click retry on one reply.
CONSTANTS
    NoMessage = NoMessage
    M1 = M1
    W1 = W1
    W2 = W2
    R1 = R1
    R2 = R2
    Messages = {M1}
    Workers = {W1, W2}
    Managers = {R1, R2}
    MAX_ATTEMPTS = 1
    MaxRetries = 2
    MaxGenerations = 1
    MaxCrashes = 0
SPECIFICATION Spec
INVARIANT NeverTwice
