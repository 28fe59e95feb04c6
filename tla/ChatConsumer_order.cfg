SPECIFICATION FairSpec
CONSTANTS
    u1 = u1
    u2 = u2
    shared = shared
    own = own
    Users = {u1, u2}
    Rooms = {shared, own}
    Participants <- MCParticipants
    Connections = {c1, c2}
    NoRoom = NoRoom
    Http = Http
    Capacity = 2
    MaxMessages = 3
INVARIANTS IInv HeardInOrder NothingMissedOnceListed
PROPERTIES HeardByAudience TranscriptSpec
CHECK_DEADLOCK FALSE
