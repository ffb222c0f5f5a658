CONSTANTS
    edit1 = edit1
    edit2 = edit2
    file1 = file1
    file2 = file2
    Base = Base
    None = None
    Reqs = {edit1}
    Paths = {file1}
    PathOf <- MCPathOfOne
    RunSources = {"task"}
    MaxSeq = 1
    MaxCrashes = 2
    MaxSegments = 3
    MaxLostLaunches = 2
    Overlap = FALSE
    Strangers = {}
SPECIFICATION FairSpec
CHECK_DEADLOCK FALSE
PROPERTIES LaunchedSafely RunEnds
