SPECIFICATION Spec
CONSTANTS
    Group = {g1, g2}
    Zero = zero
    Absent = absent
    PageCap = 2
    MaxRow = 3
    Limits = {0, 1, 2, 3}
    Offsets = {0, 1}
SYMMETRY Perms
INVARIANTS
    ExportIsComplete
    CountIsList
    ListedIsGettable
PROPERTIES
    SelectionFollowsItsRow
