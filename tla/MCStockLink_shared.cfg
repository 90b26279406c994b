SPECIFICATION StockLinkSpec
CONSTANTS
    c1 = c1
    c2 = c2
    c3 = c3
    o1 = o1
    Nil = Nil
    Stores = {1, 2}
    Slots = {1}
    Sessions = {c1, c2}
    Orders = {o1}
    Quantities = {1}
    InitStock <- Stocked
    Moved = {1}
    Counted = {0}
    Opening = {1}
    Thresholds = {1}
    JournalBound = 1
    HeldBound = 1
SYMMETRY Symmetry
INVARIANTS OpsTypeOK NoDeadlockAcross
PROPERTIES StockMovesWithDocuments MovesKeepThreshold
CHECK_DEADLOCK FALSE
