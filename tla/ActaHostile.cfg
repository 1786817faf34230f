SPECIFICATION Spec
CONSTANTS
    Id = {1}
    MaxClaims = 2
    Cli = {c1}
    Gui = {g1}
    Sweeper = {s1}
    Faults = {"busy", "signal", "live_sweep", "manual"}
INVARIANTS
    TypeOK
    CompletedLogIsTrue
PROPERTIES
    TerminalIsFinal
