SPECIFICATION Spec
CONSTANTS
    tree = tree
    rest = rest
    blank = blank
    p1 = p1
    Gone = Gone
    NoPassword = NoPassword
    EmptyPassword = EmptyPassword
    Recipient = Recipient
    Docs = {tree}
    Wrecks = {rest, blank}
    Hollow = {}
    Trees = {tree, rest}
    SizeOf <- MCSizeOf
    Checksums = {"c1", "c2", "c3"}
    ChecksumOf <- MCChecksumOf
    Passwords = {p1}
    Backend = "age"
    Options <- MCOptions
    Nested = FALSE
    LiveEdits = FALSE
    MaxFaults = 0
    MaxEdits = 0
INVARIANTS
    NothingLostAtRest
