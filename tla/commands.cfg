SPECIFICATION FormatSpec
CONSTANTS
    Pieces = {}
    Separators = {}
    IntMax = 76
    SizeMax = 307
    PrintBuf = 2
    MaxLen = 60
    Formats <- AllFormats
    Vectors <- AllVectors
    Increments <- AllIncrements
    Calls <- SomeCalls
INVARIANTS ArgumentsArrive LengthExact InsideArgs
CHECK_DEADLOCK FALSE
