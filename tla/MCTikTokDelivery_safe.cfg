\* One reply, two workers, two managers retrying it, two connections.
CONSTANTS
    NoMessage = NoMessage
    M1 = M1
    W1 = W1
    W2 = W2
    R1 = R1
    R2 = R2
    Messages = {M1}
    Workers = {W1, W2}
    Managers = {R1, R2}
    MAX_ATTEMPTS = 2
    MaxRetries = 2
    MaxGenerations = 2
    MaxCrashes = 1
SPECIFICATION Spec
INVARIANT TypeOK
INVARIANT OneTextPerRequest
INVARIANT SentThroughItsConnection
INVARIANT OnlyUnusableIsShut
PROPERTY SettledStays
