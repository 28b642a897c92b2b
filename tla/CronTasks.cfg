SPECIFICATION FairSpec
CONSTANTS
    daily = daily
    reminder = reminder
    r1 = r1
    k1 = k1
    c1 = c1
    Tasks = {daily, reminder}
    Recurring = {daily}
    Rare = {}
    Runs = {r1}
    Ticks = {k1}
    Calls = {c1}
    MaxRuns = 1
    MaxOpen = 1
    Generations = 2
    NoFile = NoFile
    NoTick = NoTick
CONSTRAINT UndisturbedCalls
INVARIANTS QuietAfterStop TasksComeAndGoAsTold
PROPERTIES WaitingTasksAreServed
CHECK_DEADLOCK FALSE
