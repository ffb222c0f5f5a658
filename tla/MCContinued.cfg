CONSTANTS
    edit1 = edit1
    edit2 = edit2
    file1 = file1
    file2 = file2
    Base = Base
    None = None
    Reqs = {edit1, edit2}
    Paths = {file1}
    PathOf <- MCPathOfOne
    RunSources = {"operator"}
    MaxSeq = 2
    MaxCrashes = 1
    MaxSegments = 2
    MaxLostLaunches = 3
    Overlap = TRUE
    Strangers = {}
SPECIFICATION Spec
CHECK_DEADLOCK FALSE
SYMMETRY MCSymmetry
INVARIANTS
    ReleasedIsRecoverable
    JournalReconciles
    OneDriver
PROPERTIES
    ExpiredIsNotConsumed
