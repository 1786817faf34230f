SPECIFICATION FairSpec
CONSTANTS
    Id = {1}
    MaxClaims = 2
    Cli = {c1}
    Gui = {g1}
    Sweeper = {s1}
    Faults = {}
PROPERTIES
    LiveRunningEnds
    InvocationEnds
