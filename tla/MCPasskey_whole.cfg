SPECIFICATION FairPasskeySpec
CONSTANTS
    None = None
    RegStarts = {r1}
    RegFinishes = {p1}
    LoginStarts = {l1}
    LoginFinishes = {q1}
    Logouts = {o1}
    Handles = {alice}
    CredIDs = {k1}
    SignCounts = {0, 1}
    TicksPerSecond = 1
    ChallengeTTL = 1
    AccessTTL = 1
    RefreshTTL = 2
    Faults = {"io"}
    MaxTime = 0
    MaxRestarts = 1
INVARIANTS
    NobodyIsHalfRegistered
    TokensMatchAnswers
PROPERTIES
    ImplementsRegistration
    ImplementsSessions
    EveryRequestOfAllEnds
    WriteLockComesFree
