SPECIFICATION Spec
CONSTANTS
    Id = {1}
    MaxClaims = 1
    Cli = {}
    Gui = {g1}
    Sweeper = {}
    Faults = {}
PROPERTIES
    CancelAbortsCall
