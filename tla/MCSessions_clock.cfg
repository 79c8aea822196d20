SPECIFICATION SessionsSpec
CONSTANTS
    None = None
    RegStarts = {}
    RegFinishes = {u1, u2}
    LoginStarts = {l1}
    LoginFinishes = {q1}
    Logouts = {o1, o2}
    Handles = {alice, bob}
    CredIDs = {k1, k2}
    SignCounts = {0, 1}
    TicksPerSecond = 2
    ChallengeTTL = 3
    AccessTTL = 2
    RefreshTTL = 3
    Faults = {}
    MaxTime = 4
    MaxRestarts = 1
SYMMETRY Symmetry
CONSTRAINT BesideALogin
INVARIANTS
    LoginNotFoundIsTrue
    RevokedByItsOwner
    UnauthorizedIsTrue
PROPERTY
    RevocationIsFinal
