SPECIFICATION Spec
CONSTANTS
    None = None
    RegStarts = {}
    RegFinishes = {u1}
    LoginStarts = {l1, l2}
    LoginFinishes = {q1, q2}
    Handles = {alice}
    CredIDs = {k1}
    SignCounts = {0, 1, 2}
    TicksPerSecond = 1
    ChallengeTTL = 1
    AccessTTL = 1
    RefreshTTL = 2
    Faults = {}
    MaxTime = 0
    MaxRestarts = 0
INVARIANT
    SessionIsUsedOnce
