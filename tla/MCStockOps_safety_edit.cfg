SPECIFICATION OpsSpec
CONSTANTS
    c1 = c1
    c2 = c2
    c3 = c3
    Nil = Nil
    Stores = {1}
    Slots = {1}
    Sessions = {c1, c2}
    Moved = {1, 2}
    Counted = {0, 1, 3}
    Opening = {}
    Thresholds = {1}
    JournalBound = 3
    HeldBound = 5
    InitStock <- Stocked
SYMMETRY Symmetry
INVARIANTS StockMatchesJournal
