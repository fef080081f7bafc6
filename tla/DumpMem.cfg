CONSTANTS
    Starts = {0, 1, 15, 16, 4095, 65495, 65519, 65520, 65521, 65535}
    Lengths = {0, 1, 2, 14, 15, 16, 17, 31, 33, 40}
SPECIFICATION Spec
INVARIANTS CellsInPlace DumpsRange
PROPERTIES DumpEnds
CHECK_DEADLOCK FALSE
