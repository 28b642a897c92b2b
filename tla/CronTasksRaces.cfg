SPECIFICATION Spec
CONSTANTS
    daily = daily
    r1 = r1
    r2 = r2
    k1 = k1
    k2 = k2
    c1 = c1
    Tasks = {daily}
    Recurring = {daily}
    Rare = {daily}
    Runs = {r1, r2}
    Ticks = {k1, k2}
    Calls = {c1}
    MaxRuns = 1
    MaxOpen = 2
    Generations = 1
    NoFile = NoFile
    NoTick = NoTick
SYMMETRY Symmetry
INVARIANTS TypeOK RunsHoldSlots OneChain RunningTasksHaveRuns
CHECK_DEADLOCK FALSE
