SPECIFICATION Spec
CONSTANTS
    Handles = {h1, h2}
    Threads = {x1, x2}
    Dests <- MCDests
    Resolver <- PublicDns
    Home <- MCHome
    Ports = {p1, p2, p3}
    MaxGen = 2
    Scopes <- AllScopes
SYMMETRY Symmetry
CHECK_DEADLOCK FALSE
INVARIANTS
    RoutesSound
    RepliesRight
