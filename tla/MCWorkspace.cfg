SPECIFICATION Spec
CHECK_DEADLOCK FALSE
CONSTANTS
    p1 = p1
    p2 = p2
    a = a
    b = b
    s1 = s1
    s2 = s2
    home = home
    dep = dep
    text = text
    other = other
    EndNode = EndNode
    Torn = Torn
    None = None
    Procs = {p1, p2}
    Stories = {s1, s2}
    Agents = {a, b}
    PRDs = {text, other}
    Projects = {home, dep}
    Home = home
    Blueprints <- MCBlueprints
    Scenes <- SafeScenes
    KeepRows = 1
    MaxRuns = 2
    MaxRows = 4
    MaxCrashes = 1
    MaxChanges = 1
SYMMETRY MCSymmetry
INVARIANTS
    NothingIsLost
    
    AcceptedIsOnRecord

    
