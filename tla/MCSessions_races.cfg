SPECIFICATION SessionsSpec
CONSTANTS
    None = None
    RegStarts = {}
    RegFinishes = {u1, u2}
    LoginStarts = {l1}
    LoginFinishes = {q1}
    Logouts = {o1, o2}
    Handles = {alice, bob}
    CredIDs = {k1, k2}
    SignCounts = {0, 1}
    TicksPerSecond = 1
    ChallengeTTL = 1
    AccessTTL = 1
    RefreshTTL = 2
    Faults = {"full"}
    MaxTime = 0
    MaxRestarts = 1
SYMMETRY Symmetry
INVARIANTS
    LogoutEndsTheSession
PROPERTIES
    ImplementsLogin
    ImplementsGrants
