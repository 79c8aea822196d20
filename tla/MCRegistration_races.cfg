SPECIFICATION Spec
CONSTANTS
    None = None
    RegStarts = {r1, r2}
    RegFinishes = {p1, p2}
    LoginStarts = {}
    LoginFinishes = {}
    Handles = {alice, bob}
    CredIDs = {k1, k2}
    SignCounts = {0}
    TicksPerSecond = 1
    ChallengeTTL = 1
    AccessTTL = 1
    RefreshTTL = 2
    Faults = {"busy", "full", "io"}
    MaxTime = 0
    MaxRestarts = 1
SYMMETRY Symmetry
INVARIANTS
    DatabaseMatchesAnswers
    OneAccountPerCeremony
    NotFoundMeansConsumed
    HandleTakenIsTrue
    IsolatedTransaction
    InductiveInvariant
PROPERTY
    ImplementsAccounts
