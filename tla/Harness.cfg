CONSTANTS
    ReadMem <- MCReadMem
    WriteMem <- MCWriteMem
    Memories <- MCMemories
    Entries <- MCEntries
    Tests <- MCTests
    MaxTicks = 7
    ClockMod = 256
    Budgets = {}
    MaxNesting = 1
    MaxClock = 200
    MaxSignals = 2
SPECIFICATION TestSpec
INVARIANTS OnlyLoopsMisjudged TrapsRan LimitKept
PROPERTIES TestEnds
CHECK_DEADLOCK FALSE
