SPECIFICATION Spec
CONSTANTS
    Parts <- MCParts
    Lossy <- MCLossy
    Sources <- MCSources
    Backends = {"age", "7z"}
PROPERTIES
    OriginalsKept
