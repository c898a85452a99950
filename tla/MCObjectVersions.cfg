SPECIFICATION FairSpec
CONSTANTS
    Key = {1, 2}
    Under <- MCUnder
    Null = Null
    Walk = {w1, w2}
    PageLimit = 2
    MaxEntries = 3
INVARIANTS
    GoneMeansRemoved
PROPERTIES
    OnlyLongListsUncover
    DeletionsEnd
CHECK_DEADLOCK FALSE
