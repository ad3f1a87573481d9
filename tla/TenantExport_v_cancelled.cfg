\* One worker, no failure: the request is cancelled when its archive is ready.
CONSTANTS
    Workers = {1}
    MaxClaims = 1
    MaxLost = 0
SPECIFICATION Spec
INVARIANT ArchiveIsCleaned
CHECK_DEADLOCK FALSE
