CONSTANTS
    MaxNesting = 2
    ClockMod = 9
    MaxClock = 6
    InsnTicks = {2, 3}
    WaiTicks = 2
    StpTicks = 2
    MaxTicks = 3
    Budgets = {0, 3, 6}
SPECIFICATION FairSpec
INVARIANTS Overshoot TypeOK
PROPERTIES ExecSpendsBudget SurplusOnlyFromStop StoppedRunsNothing ExecReturns
