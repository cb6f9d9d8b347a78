SPECIFICATION Spec
CONSTANTS
    None = None
    NoLimit = NoLimit
    NullField = NullField
    Full = Full
    StoreKeys = {1, 2}
    StoreValues = {"a"}
    MaxOpens = 3
    MaxWrites = 4
    MaxOffset = 1
    NKeys = 5
    Limit = 1
    MaxRestarts = 2
    MaxLosses = 1
    MaxRebuilds = 1
    Objects = {a, b}
    Groups = {g, h}
    MaxChanges = 2
    Missing = "null"
    MaxLength = 3
    MaxEdits = 1
    Base = 4
    MaxBytes = 3
    MaxObjects = 3
    LinkEnds = {1, 2}
    MaxCalls = 2
    MaxErrors = 1
    Versioned = {1, 2}
    Deps <- MCDeps
    Settings <- MCSettings
    Processes = {"home", "other"}
    Home = "home"
    MaxUpdates = 3
INVARIANT EqualEntriesOnce
CHECK_DEADLOCK FALSE
