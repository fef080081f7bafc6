CONSTANTS
    ReadMem <- readMem
    WriteMem <- writeMem
    BufSize = 256
    Image <- MCImage
    FileSize <- MCFileSize
    Files <- MCFiles
    Output <- MCOutput
    KeepsY <- MCKeepsY
SPECIFICATION Spec
INVARIANTS TypeOK PrintsItsOutput ReturnsKept
PROPERTIES RoutinesReturn RoutinesBehave Ends
CHECK_DEADLOCK FALSE
