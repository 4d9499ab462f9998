SPECIFICATION FairSpec
CONSTANTS
    Procs = {a, b}
    Handles = {h1}
    Ports = {q1, q2}
    Dests = {d1, d2}
    Expiry = 0
    MaxGen = 3
    Scopes <- Sound
CHECK_DEADLOCK FALSE
INVARIANTS
    PairingSound
PROPERTIES
    OnlyDeadSwept
    LeftoversGo
