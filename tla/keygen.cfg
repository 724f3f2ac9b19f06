SPECIFICATION Spec
CONSTANTS
    NoPassword = NoPassword
    Runs = {k1, k2, k3}
    Passwords = {p1, p2}
SYMMETRY MCSymmetry
INVARIANTS
    TypeOK
    SealedCanBeOpened
    LoadedPairMatches
PROPERTIES
    SecretIsKept
CHECK_DEADLOCK FALSE
