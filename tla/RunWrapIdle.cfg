CONSTANTS
    MaxNesting = 1
    ClockMod = 16
    MaxClock = 100
    InsnTicks = {2, 3}
    WaiTicks = 2
    StpTicks = 2
    MaxTicks = 3
    Budgets = {0, 4, 8}
SPECIFICATION Spec
PROPERTY ExecRuns
