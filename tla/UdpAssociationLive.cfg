SPECIFICATION FairSpec
CONSTANTS
    Tasks = {t1}
    Direct = {}
    Http = {}
    MaxPackets = 2
    MaxBytes = 2
    Sizes = {1}
    Expiry = 1
    BaseDelay = 1
    MaxDelay = 2
    Cooldown = 2
    Idle = 2
    Threshold = 2
    Scopes <- Alone
PROPERTIES
    QueueMoves
    AssociationsEnd
