SPECIFICATION Spec
CONSTANTS
    Id = {1, 2}
    MaxClaims = 2
    Cli = {c1, c2}
    Gui = {}
    Sweeper = {s1}
    Faults = {}
SYMMETRY Perms
INVARIANTS
    ColumnsMatchStatus
    OneHolder
    NoZombie
    ResultIsLastRaw
    OneVerdict
    FailureIsLogged
    RetryStartsClean
PROPERTIES
    ImplementsLifecycle
