SPECIFICATION Spec
CONSTANTS
    Authors = {me, friend}
    Reader = me
    PageSize = 2
    MaxPosts = 5
INVARIANTS
    IInv
    NoRepeats
    NothingSkipped
