CONSTANTS
  Threads = {1, 2}
  Hosts = {"short", "long"}
  Sockets = {1, 2}
  HostLength <- MCHostLength
  DummyRange = 2
  Interval = 2
  MaxPerInterval = 2
  Capacity = 4
  Setups <- MCSetups
  Attempts = 3
  Requests <- MCRequests
  Pids = {1, 2, 3}
  ObservationMs = 1
  Scopes <- MCScopes
  Copies = {1, 2, 3}
  BrokerPlans <- MCBrokerPlans
SPECIFICATION MCSpec
CHECK_DEADLOCK FALSE
INVARIANTS
    RequestsTrue
    LaunchSound
    WatchSound
PROPERTIES
    CallsRouted
    BrokerSound
