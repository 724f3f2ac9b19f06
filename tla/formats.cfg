SPECIFICATION InputsSpec
CONSTANTS
    Passwords = {p1, p2}
    NoPassword = NoPassword
    Identities = {k1, k2}
    NoIdentity = NoIdentity
    Payload = Payload
    Damaged <- MCDamaged
    CtLen = 2
    SealLen = 2
    U32 = {0, 1, 2, 3, 15}
    UsizeMax = 20
    Parts <- MCParts
    Lossy <- MCLossy
    SomeNames <- MCNames
    SomeStates <- MCStates
INVARIANTS
    TypeOK
    OnlyRightKeyOpens
    IntactOpens
    UnpackedIsOpened
    NamesApart
    ResumeFileIsSafe
CHECK_DEADLOCK FALSE
