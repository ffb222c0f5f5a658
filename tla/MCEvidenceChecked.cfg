SPECIFICATION Spec
CHECK_DEADLOCK FALSE
CONSTANTS
    r1 = r1
    r2 = r2
    r3 = r3
    ann = ann
    bob = bob
    k1 = k1
    k2 = k2
    old = old
    new = new
    newer = newer
    api = api
    app = app
    NoOne = NoOne
    NoRun = NoRun
    Runs = {r1, r2, r3}
    Projects = {api, app}
    Outside = {r3}
    Named = {r1, r2, r3}
    Declared = {r1}
    Options <- MCOptions
    p1 = p1
    Procs = {p1}
    Signers <- MCSigners
    Trusted <- MCSigners
    Starter <- MCStarter
    Requester <- MCRequester
    ProjectOf <- MCProjectOf
    Base <- MCBase
    ContentOf <- MCContentOf
    Scenes <- FailedThenKilled
INVARIANT FailedCheckIsRefused
