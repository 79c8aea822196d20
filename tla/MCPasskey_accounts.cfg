SPECIFICATION PasskeySpec
CONSTANTS
    None = None
    RegStarts = {r1, r2}
    RegFinishes = {p1, p2}
    LoginStarts = {l1}
    LoginFinishes = {q1}
    Logouts = {}
    Handles = {alice, bob}
    CredIDs = {k1, k2}
    SignCounts = {0, 1}
    TicksPerSecond = 1
    ChallengeTTL = 1
    AccessTTL = 1
    RefreshTTL = 2
    Faults = {}
    MaxTime = 1
    MaxRestarts = 0
CONSTRAINT ClockAfterRegistrations
SYMMETRY Symmetry
INVARIANTS
    PasskeyTypeOK
    SameHandleSameCredential
