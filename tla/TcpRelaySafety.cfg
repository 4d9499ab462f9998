SPECIFICATION MCSpec
CONSTANTS
    Proxied = {TRUE}
    BufSize = 2
    EventCap = 2
    SendRoom = 1
    ClientBytes = 2
    ServerBytes = 1
    MayReset = TRUE
    ServerEndsFirst = TRUE
    Movers = {"relay", "window"}
    Objects = {"a", "b", "c"}
    Handles = {"x", "y"}
    Lookups = {"l", "k"}
    Size = 4
    Margin = 2
    Waiting = 1
    Reaches <- MCReaches
CHECK_DEADLOCK FALSE
INVARIANTS
    TypeOK
    NoPayloadInHandshake
    DeliveryInv
    WindowSound
PROPERTIES
    ImplementsPipe
    OnlyErrorsCut
