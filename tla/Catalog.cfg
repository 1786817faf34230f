SPECIFICATION Spec
CONSTANTS
    Item = {m1, m2}
    Ctx = {x1}
    Client = {c1, c2}
    Field = {folder, name}
    Key = {folder, name}
    Form = {name}
    Folder = folder
    Value = {v1, v2}
    MaxRevs = 3
    MaxExecs = 1
SYMMETRY Perms
INVARIANTS
    TypeOK
    HistoryTellsRow
    RevisionsNumbered
    RestoreIsPossible
    PickedCanRun
PROPERTIES
    OkMeansWritten
    PinsHold
