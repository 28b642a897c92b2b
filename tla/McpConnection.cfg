SPECIFICATION FairSpec
CONSTANTS
    x1 = x1
    x2 = x2
    x3 = x3
    Calls = {x1, x2, x3}
    Setup = {x1, x2}
    MaxConns = 6
    MaxCloses = 1
INVARIANTS ConnectionsAgree OldConnectionsAreUnused ClosedStaysClosed
PROPERTIES CallsSettle
CHECK_DEADLOCK FALSE
