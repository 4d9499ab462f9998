SPECIFICATION MCSpec
CONSTANTS
  High = 2
  Budget = 2
  Slots = 1
  Plans <- MCPlans
  Flows = {1, 2}
  HeldMax = 2
  ByteMax = 3
  SlotMax = 2
  BridgeMax = 2
  LiveMax = 1
  QueueMax = 2
  PumpMax = 2
  SendMax = 1
  QuicPlans <- MCQuicPlans
  JobMax = 2
  InfoMax = 1
  ForwardPlans <- MCForwardPlans
  Callers = {1, 2}
  MonitorPlans <- MCMonitorPlans
CHECK_DEADLOCK FALSE
INVARIANTS
    SessionSound
    QuicSound
PROPERTIES
    SwitchSound
