SPECIFICATION FairSpec
CONSTANTS
  ProxyTypes = {"SOCKS4", "SOCKS5", "HTTP"}
  HttpBuf = 6
  ReadBuf = 6
  HeaderLens = {3, 4}
  NameLen = 1
  RequestLen = 2
  Room = 1
  MaxPayload = 2
  MayFail = TRUE
CHECK_DEADLOCK FALSE
INVARIANTS
    DialogueExact
PROPERTIES
    OutcomeOnce
    DialogueEnds
