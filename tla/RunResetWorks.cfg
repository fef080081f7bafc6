CONSTANTS
    MaxNesting = 1
    ClockMod = 32
    MaxClock = 7
    InsnTicks = {2, 3}
    WaiTicks = 2
    StpTicks = 2
    MaxTicks = 3
    Budgets = {0, 3, 4}
SPECIFICATION Spec
PROPERTY ResetWorks
