CONSTANTS
    decider = decider
    other = other
    parked1 = parked1
    parked2 = parked2
    edited = edited
    later = later
    Nobody = Nobody
    Procs = {decider, other}
    Parked = {parked1, parked2}
    Work = {edited, later}
    Scenes <- MCScenes
    Passing <- MCPassing
SPECIFICATION ReviewSpec
CHECK_DEADLOCK FALSE
INVARIANTS
    ReviewReadable
    OwnerDecides
    AdoptedOnce
