SPECIFICATION GatewaySpec
CONSTANTS
  CallerIDs = {c1}
  Streams = {s1}
  NoStream = NoStream
  NoCaller = NoCaller
  TTL = 2
  Policy = "evict_previous"
  Payloads = {"other"}
  Ends = {"closed"}
  StopTimeout = 1
  GraceTimeout = 1
INVARIANTS
  StopsCleanly
CHECK_DEADLOCK FALSE
