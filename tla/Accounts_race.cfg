CONSTANTS
    Users = {u1}
    Workers = {w1, w2}
    Emails = {e1}
    Passwords = {p1, p2}
    MaxToken = 4
SPECIFICATION Spec
SYMMETRY Symmetry
CHECK_DEADLOCK FALSE
INVARIANTS IInv VerifiedByLink ResetLinkSpent PasswordAsConfirmed DeletedUsableOnlyByLink
PROPERTY ServiceSpec
