CONSTANTS
    ReadMem <- MCReadMem
    WriteMem <- MCWriteMem
    Memories <- MCMemories
    Entries = {512}
    ClockMod = 1000
    Budgets = {30}
    MaxNesting = 1
    MaxClock = 30
    MaxSignals = 2
SPECIFICATION Spec
INVARIANTS TypeOK FramesKept
PROPERTIES ImplementsRunControl HandlersAreInvisible HandlersBehave
