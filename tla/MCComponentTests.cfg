SPECIFICATION FairTestsSpec
CONSTANTS
    None = None
    Runner = Runner
    Rounds = 3
    RegStarts = {r1, r2, r3}
    RegFinishes = {p1, p2, p3}
    LoginStarts = {l1, l2, l3}
    LoginFinishes = {q1, q2, q3}
    Logouts = {o1, o2, o3}
    Handles = {"alice", "bob", "carol"}
    CredIDs = {k1, k2, k3}
    SignCounts = {0}
    TicksPerSecond = 1
    ChallengeTTL = 2
    AccessTTL = 2
    RefreshTTL = 3
    Faults = {"busy", "full"}
    MaxTime = 0
    MaxRestarts = 0
INVARIANTS
    ScenariosPass
    FailureSavesNothing
PROPERTY
    TheRunEnds
