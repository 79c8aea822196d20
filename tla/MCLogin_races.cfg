SPECIFICATION Spec
CONSTANTS
    None = None
    RegStarts = {}
    RegFinishes = {u1, u2}
    LoginStarts = {l1, l2}
    LoginFinishes = {q1, q2}
    Handles = {alice, bob}
    CredIDs = {k1, k2}
    SignCounts = {0, 1}
    TicksPerSecond = 1
    ChallengeTTL = 1
    AccessTTL = 1
    RefreshTTL = 2
    Faults = {"full"}
    MaxTime = 1
    MaxRestarts = 1
CONSTRAINT RestartOrClock
SYMMETRY Symmetry
INVARIANTS
    LoginTablesMatchAnswers
    LoginIsTheOwners
    CountersAreSigned
    LoginInvariant
PROPERTY
    UsedSessionIsRefused
