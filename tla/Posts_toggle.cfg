SPECIFICATION Spec
CONSTANTS
    Users = {u1}
    Posts = {p1}
    Contents = {c1}
    Workers = {w1, w2}
    MaxId = 2
SYMMETRY Symmetry
INVARIANT TogglesSurviveRaces
CHECK_DEADLOCK FALSE
