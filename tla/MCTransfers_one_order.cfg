SPECIFICATION FairSpec
CONSTANTS
    c1 = c1
    c2 = c2
    c3 = c3
    o1 = o1
    o2 = o2
    Nil = Nil
    Stores = {1, 2}
    Slots = {1}
    Sessions = {c1, c2}
    Orders = {o1}
    Quantities = {1, 2, 3}
    InitStock <- BothStocked
INVARIANTS TypeOK ReceiptsAccountForReceived FullIffReceived ChargedOncePerShipment NothingLost StockMatchesLedger ResponseShowsEffect
PROPERTIES StatusFollowsFlow FinishedOrdersFrozen RequestsEnd
CHECK_DEADLOCK FALSE
