SPECIFICATION MasterSpec
CONSTANTS
    c1 = c1
    c2 = c2
    A = A
    B = B
    Nil = Nil
    Sessions = {c1, c2}
    Codes = {A, B}
    u = u
    Usernames = {u}
    IdBound = 2
    Room <- Rooms
    BatchSize = 2
    Stocked <- StockedPairs
SYMMETRY Symmetry
INVARIANTS MasterTypeOK CodesDistinct ReferencesHold
PROPERTIES DeletionSettles UnaskedChangeIsStale
