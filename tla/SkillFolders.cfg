SPECIFICATION Spec
CONSTANTS
    Folder = {1, 2, 3, 4}
    Item = {m1}
    Client = {c1}
    WalkLiveOnly = FALSE
    ReadsFail = FALSE
    MaxDepth = 5
INVARIANTS
    Acyclic
PROPERTIES
    DeleteLeavesNothingBehind
    CallsAreAtomic
