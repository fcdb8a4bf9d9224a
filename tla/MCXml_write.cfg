SPECIFICATION FSpec
CONSTANTS
    List <- MCList
    ItemTag <- MCItemTag
    TotalTag = "total"
    Values = {3}
    Empty = Empty
    Paths <- MCPaths
    Subs <- MCSubs
    Source <- MCSource
    None = None
    CacheMax = 2
    TagDigit = 0
    MemoryFails = FALSE
    MaxEdits = 4
    MaxTotal = 2
    NoToken = NoToken
    EOF <- MCEOF
    MaxWritten = 3
INVARIANTS
    TypeOK
    WrittenIsDocument
    FoundIsDocument
PROPERTIES
    DocSpec
    WriteEnds
CHECK_DEADLOCK FALSE
