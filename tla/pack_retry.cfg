SPECIFICATION FairSpec
CONSTANTS
    file = file
    tree = tree
    rest = rest
    empty = empty
    blank = blank
    p1 = p1
    p2 = p2
    Gone = Gone
    NoPassword = NoPassword
    EmptyPassword = EmptyPassword
    Recipient = Recipient
    Docs <- MCDocs
    Wrecks <- MCWrecks
    Hollow <- MCHollow
    Trees <- MCTrees
    SizeOf <- MCSizeOf
    Checksums <- MCChecksums
    ChecksumOf <- MCChecksumOf
    Passwords = {p1, p2}
    Backend = "age"
    Options <- ForcedKeepOptions
    Nested = FALSE
    LiveEdits = FALSE
    MaxFaults = 2
    MaxEdits = 2
PROPERTIES
    ForcedRetryCreates
