SPECIFICATION Safety
CONSTANTS
  CallerIDs = {c1}
  Streams = {s1, s2, s3}
  NoStream = NoStream
  NoCaller = NoCaller
  TTL = 1
  Policy = "evict_previous"
  Payloads = {"other"}
  Ends = {"closed"}
SYMMETRY Symmetric
INVARIANTS
  TypeOK
  EvictChannelMatchesEntry
  NoDoubleClose
  RegistryServesLiveStreams
  AbortedLostEntry
PROPERTIES
  EvictionHandsOver
  LossIsExplained
  ImplementsPresence
