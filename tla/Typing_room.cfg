SPECIFICATION FairSpec
CONSTANTS
    Users = {u1, u2}
    Workers = {w1, w2}
    Objects = {o1, o2, o3}
    NoObject = NoObject
    Limit = 1
INVARIANTS IInv ShownAsSaid PollsFailOnlyRaced
PROPERTY SilenceIsShown
