CONSTANTS
    BufSize = 4
    Image <- MCImage
    FileSize <- MCFileSize
    Writes <- MCWrites
    MaxSent = 5
    MaxPrinted = 2
SPECIFICATION Spec
INVARIANTS TypeOK BufferHoldsLine
PROPERTY ImplementsTerminal
