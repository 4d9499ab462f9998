SPECIFICATION Spec
CONSTANTS
    Tasks = {t1, t2, t3}
    Direct = {t2}
    Http = {t3}
    MaxPackets = 2
    MaxBytes = 3
    Sizes = {1, 2}
    Expiry = 1
    BaseDelay = 1
    MaxDelay = 2
    Cooldown = 2
    Idle = 2
    Threshold = 2
    Scopes <- AloneAndShared
INVARIANTS
    QueuesExact
    AssociationSound
PROPERTIES
    RouteKept
