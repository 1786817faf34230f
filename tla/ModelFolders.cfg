SPECIFICATION FairSpec
CONSTANTS
    Folder = {1, 2, 3, 4}
    Item = {}
    Client = {c1}
    WalkLiveOnly = TRUE
    ReadsFail = TRUE
    MaxDepth = 5
PROPERTIES
    OnlyRestoreClosesLiveCycle
    CallsReturn
