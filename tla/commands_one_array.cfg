SPECIFICATION FormatSpec
CONSTANTS
    Pieces = {}
    Separators = {}
    IntMax = 76
    SizeMax = 307
    PrintBuf = 2
    MaxLen = 60
    Formats = {}
    Vectors = {}
    Increments = {}
    Calls <- OneArray
INVARIANT InsideArgs
CHECK_DEADLOCK FALSE
