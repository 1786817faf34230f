SPECIFICATION Spec
CONSTANTS
    Folder = {1, 2, 3}
    Item = {}
    Client = {c1}
    WalkLiveOnly = TRUE
    ReadsFail = FALSE
    MaxDepth = 4
INVARIANTS
    Acyclic
