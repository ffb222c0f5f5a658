SPECIFICATION Spec
CONSTANTS
    p1 = p1
    p2 = p2
    Procs = {p1, p2}
    Secrets = {"s1", "s2"}
    MaxKeys = 4
    Scenes <- SafeScenes
INVARIANTS
    NoSecretLost
    RotationRepairs
    KeyInHandOpens
