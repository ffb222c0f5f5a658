SPECIFICATION HarnessSpec
CHECK_DEADLOCK FALSE
CONSTANTS
    c1 = c1
    c2 = c2
    Calls = {c1, c2}
    None = None
    Sessions <- MCSessions
    Paths = {1, 2, 3}
    Ignored = {3}
    Texts = {"a", "b"}
    Binary = {"bin"}
    Bases <- MCBases
    Proposals <- MCProposals
    Written <- MCWritten
    MaxRecord = 2
    MaxProposals = 3
    MaxWrites = 2
    MaxInterrupts = 1
INVARIANTS
    RunsAsDecided
    AskedOnce
    SessionLeavesApproved
    CommittedIsTheWorktree
    LedgerRebuilds
PROPERTIES
    CallsReturn
    WorkIsSettled
