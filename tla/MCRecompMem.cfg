CONSTANTS
    Size = 8
    Bytes = {0, 1}
    Null = 0
    Widths = {1, 2, 4, 8}
    Pointers <- PointersDef
    Lengths <- LengthsDef
    Texts <- TextsDef
    Buffers <- BuffersDef
    Utf8 <- Utf8Def
    Unfit = Unfit
    Refused = Refused
    Done = Done
SPECIFICATION Spec
PROPERTY ImplementsGameMemory
