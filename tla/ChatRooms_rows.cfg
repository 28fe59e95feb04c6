SPECIFICATION Spec
CONSTANTS
    Users = {u1, u2}
    Ghosts = {g}
    Spellings = {s1, s2}
    Canonical = s1
    Workers = {w1, w2}
    MaxRooms = 3
    MaxMessages = 2
SYMMETRY Symmetry
INVARIANTS
    IInv
    ConversationsAreShared
PROPERTY DeletedStaysDeleted
