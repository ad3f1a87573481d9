\* Every service of the worker in turn, with its workers, claims and faults.
CONSTANTS
    M1 = M1
    M2 = M2
    W1 = W1
    W2 = W2
    R1 = R1
    T1 = T1
    A1 = A1
    O1 = O1
    O2 = O2
    C1 = C1
    C2 = C2
    Absent = Absent
SPECIFICATION Spec
INVARIANT TypeOK
INVARIANT ParcelsAreAccountedFor
INVARIANT CreatingHasAttempt
INVARIANT CancelledIsDeleted
PROPERTY GoesForward
INVARIANT SendsAreAccountedFor
PROPERTY EchoSettlesUnknown
INVARIANT RecognisedOnce
INVARIANT StuckOnlyIfLost
INVARIANT ModelIsAskedOnce
INVARIANT StaleIsOutrun
INVARIANT ExportFollowsOrder
INVARIANT ImportFollowsMapping
INVARIANT TokensAreKept
INVARIANT ArchivesAreAccountedFor
PROPERTY WritesGoForward
CHECK_DEADLOCK FALSE
