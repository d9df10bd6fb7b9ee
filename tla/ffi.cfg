CONSTANTS
    Parsed <- MCParsed
    Texts <- MCTexts
    Capacity = 1
    MaxHandles = 3
    MaxRows = 1
SPECIFICATION Spec
INVARIANTS TypeOK OwnedIsLive InnerShared CacheTransparent
