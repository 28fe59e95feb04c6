SPECIFICATION FairSpec
CONSTANTS
    u1 = u1
    u2 = u2
    Users = {u1, u2, u3}
    OldFollows <- MCFollows
    MaxRetries = 1
    MaxEvents = 2
CHECK_DEADLOCK FALSE
INVARIANTS IInv NotificationsAccounted
PROPERTY SteadyFollowersTold
