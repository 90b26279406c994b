SPECIFICATION PageSpec
CONSTANTS
    o1 = o1
    Nil = Nil
    Orders = {o1}
    Quantities = {1, 2}
    Started <- Shipped
    CallIds = {1, 2}
    ClickBound = 2
INVARIANTS RepetitionTakesEffectOnce
