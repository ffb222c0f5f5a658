SPECIFICATION Spec
CHECK_DEADLOCK FALSE
CONSTANTS
    Named <- MCNamed
    TaskCheckpointEvery = 3
    Starts <- MCStarts
    SampleEvery = 2
    RejectLimit = 1
    MaxRequests = 4
    MaxEnds = 1
INVARIANTS
    UnattendedIsClear
    TermsHold
    DeliveredIsSeen
    
