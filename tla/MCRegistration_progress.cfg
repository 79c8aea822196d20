SPECIFICATION FairSpec
CONSTANTS
    None = None
    RegStarts = {r1}
    RegFinishes = {p1, p2}
    LoginStarts = {}
    LoginFinishes = {}
    Handles = {alice}
    CredIDs = {k1}
    SignCounts = {0}
    TicksPerSecond = 2
    ChallengeTTL = 3
    AccessTTL = 1
    RefreshTTL = 2
    Faults = {"io"}
    MaxTime = 4
    MaxRestarts = 1
INVARIANTS
    AcceptedInTime
    RefusedNotTooEarly
PROPERTIES
    EveryRequestEnds
