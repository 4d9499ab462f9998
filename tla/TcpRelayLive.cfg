SPECIFICATION MCFairSpec
CONSTANTS
    Proxied = {TRUE, FALSE}
    BufSize = 1
    EventCap = 2
    SendRoom = 1
    ClientBytes = 2
    ServerBytes = 2
    MayReset = FALSE
    ServerEndsFirst = FALSE
    Movers = {"relay"}
    Objects = {"a", "b", "c"}
    Handles = {"x", "y"}
    Lookups = {"l", "k"}
    Size = 4
    Margin = 2
    Waiting = 1
    Reaches <- MCReaches
PROPERTIES
    HalfCloseForwarded
    TaskReleased
CHECK_DEADLOCK FALSE
