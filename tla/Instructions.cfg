CONSTANTS
    ReadMem <- MCReadMem
    WriteMem <- MCWriteMem
    Starts <- OpcodeStarts
    PairStarts <- UndoingStarts
    Watched <- WatchedBytes
SPECIFICATION Spec
INVARIANTS TypeOK ScratchIsDead CostBounded PairUndoes PointersInPageZero
CHECK_DEADLOCK FALSE
