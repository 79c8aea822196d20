SPECIFICATION HandlesSpec
CONSTANTS
    None = None
    Clients = {c1, c2}
    Logins = {l1}
    MinBytes = 2
    MaxBytes = 3
    MaxWidth = 2
    MaxLength = 3
SYMMETRY Symmetry
INVARIANTS
    HandlesSurviveStorage
    OneAccountPerName
PROPERTIES
    TheNameFindsTheAccount
CHECK_DEADLOCK FALSE
