SPECIFICATION Spec
CONSTANTS
    u1 = u1
    u2 = u2
    Users = {u1, u2}
    OldFollows <- MCFollows
    MaxRetries = 1
    MaxEvents = 1
CHECK_DEADLOCK FALSE
INVARIANT FollowToldToFollowed
