SPECIFICATION FairSpec
CONSTANTS
    rm = rm
    collab = collab
    enter = enter
    exit = exit
    todo = todo
    Tools = {rm, collab, enter, exit, todo}
    ReadOnly = {enter, exit, todo}
    Safe = {collab, enter, exit, todo}
    Asks = {}
    Allows = {collab}
    Edits = {}
    PlanWrites = {}
    Enter = enter
    Exit = exit
    Todo = todo
    Ruled = {rm}
    Rules = {"allow", "ask", "deny"}
    Modes = {"plan", "bypassPermissions"}
    MaxCalls = 2
INVARIANTS PermissionsHold CallsKeepToTheirAnswer TodoListIsKept
PROPERTIES ModeIsRestored AbortsEndTurns
CHECK_DEADLOCK FALSE
