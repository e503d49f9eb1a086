SPECIFICATION Spec
CONSTANTS
    MemSize = 24
    Header = 3
    MinSize = 3
    Sizes = {1, 4, 7, 12}
INVARIANTS
    Consistent
    OwnedIntact
    LfreeLowest
