SPECIFICATION GatewaySpec
CONSTANTS
  CallerIDs = {c1}
  Streams = {s1, s2}
  NoStream = NoStream
  NoCaller = NoCaller
  TTL = 2
  Policy = "evict_previous"
  Payloads = {"other"}
  Ends = {"closed"}
  StopTimeout = 2
  GraceTimeout = 1
SYMMETRY Symmetric
INVARIANTS
  GatewayTypeOK
  DrainedIsDeregistered
  CleanExitLeavesNobody
CHECK_DEADLOCK FALSE
