SPECIFICATION Spec
CONSTANTS
    Users = {u1, u2}
    Posts = {p1}
    Contents = {c1}
    Workers = {w1, w2}
    MaxId = 2
SYMMETRY Symmetry
INVARIANTS
    IInv
    NothingOutlivesItsPost
    TogglesAlternate
    FailuresHaveReason
    PostAsConfirmed
CHECK_DEADLOCK FALSE
