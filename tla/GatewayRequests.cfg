SPECIFICATION MCSpec
CONSTANTS
  CallerIDs = {c1, c2}
  s1 = s1
  s2 = s2
  Streams = {s1, s2}
  NoStream = NoStream
  NoCaller = NoCaller
  TTL = 0
  Policy = "reject_new"
  Payloads = {}
  Ends = {"closed"}
  Requests = {r1}
  Checks = {h1}
  Metadata <- MCMetadata
  Environments <- MCEnvironments
SYMMETRY Symmetric
INVARIANTS
  RequestsTypeOK
  FailuresAreTold
  AccountsForRpcs
  GaugeWithinInFlight
  ServesAsConfigured
PROPERTIES
  ExclusiveUntilExpiry
  ImplementsListing
CHECK_DEADLOCK FALSE
