CONSTANTS
    Nodes = {n1, n2, n3}
    Combos = {"04", "05", "09"}
    MaxChanges = 3
SPECIFICATION FairSpec
INVARIANTS TypeOK HoldersAccounted
PROPERTY TrafficReturns
CHECK_DEADLOCK FALSE
