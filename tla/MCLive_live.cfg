\* Replies, dispatches, drafts and events; approved orders are assessed: what was begun ends.
CONSTANTS
    M1 = M1
    W1 = W1
    W2 = W2
    R1 = R1
    A1 = A1
    I1 = I1
    P1 = P1
    O1 = O1
    O2 = O2
    Absent = Absent
SPECIFICATION FairSpec
PROPERTY DeliveriesEnd
PROPERTY JobsEnd
PROPERTY ApprovedIsAssessed
PROPERTY NoOversell
CHECK_DEADLOCK FALSE
