SPECIFICATION FairSocketsSpec
CONSTANTS
    Users = {u1}
    Tokens = {t1, t2}
    Workers = {w1, w2}
    Connections = {c1}
    NoUser = NoUser
INVARIANTS IInv LoggedOutStaysBlacklisted
PROPERTIES StatusSpec NoAccessAfterLogout InactiveOpensNoMore
