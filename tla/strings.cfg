SPECIFICATION Spec
CONSTANTS
    Pieces <- AllPieces
    Separators <- AllSeparators
    IntMax = 6
    SizeMax = 27
    PrintBuf = 2
    MaxLen = 4
INVARIANTS HeaderSound TextArrives RangeExact SplitsBack ArgsReadBack
CHECK_DEADLOCK FALSE
