SPECIFICATION Spec
CONSTANTS
    file = file
    tree = tree
    rest = rest
    empty = empty
    blank = blank
    p1 = p1
    p2 = p2
    Gone = Gone
    NoPassword = NoPassword
    EmptyPassword = EmptyPassword
    Recipient = Recipient
    Docs <- MCTreeDocs
    Wrecks <- MCWrecks
    Hollow <- MCHollow
    Trees <- MCTrees
    SizeOf <- MCSizeOf
    Checksums <- MCChecksums
    ChecksumOf <- MCChecksumOf
    Passwords = {p1, p2}
    Backend = "age"
    Options <- ResumeMoveOptions
    Nested = TRUE
    LiveEdits = FALSE
    MaxFaults = 2
    MaxEdits = 2
INVARIANTS
    MoveIsComplete
