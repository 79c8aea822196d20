SPECIFICATION StartupSpec
CONSTANTS
    None = None
    Unset = Unset
    Garbage = Garbage
    Durations <- MCDurations
    MaxStarts = 3
INVARIANTS
    SchemaIsItsVersion
    ServesWhatItNeeds
    GivesUpForAReason
PROPERTIES
    OnlyGoodStartsMigrate
CHECK_DEADLOCK FALSE
