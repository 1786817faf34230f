SPECIFICATION Spec
CONSTANTS
    Cli = {c1, c2}
    Saver = {s1}
    Gui = {g1}
    Versions = 2
    Tables = 2
    Stmts = 3
    MaxInode = 3
    Faults = {"busy", "crash"}
CHECK_DEADLOCK FALSE
SYMMETRY Perms
INVARIANTS
    TypeOK
    VersionTellsSchema
PROPERTIES
    ForeignUntouched
    ReportedBackupIsWhole
    FailedBackupLeavesNothing
