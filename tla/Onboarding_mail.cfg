CONSTANTS
    Users = {u1}
    Workers = {w1, w2}
    Emails = {e1}
    Passwords = {p1}
    MaxToken = 4
    MaxRetries = 1
SPECIFICATION OnboardingSpec
SYMMETRY Symmetry
CHECK_DEADLOCK FALSE
INVARIANTS OnboardingIInv NewestLinkOnly
PROPERTIES LostMailIsFinal
