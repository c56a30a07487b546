SPECIFICATION Timely
CONSTANTS
  CallerIDs = {c1}
  Streams = {s1, s2}
  NoStream = NoStream
  NoCaller = NoCaller
  TTL = 1
  Policy = "evict_previous"
  Payloads = {"other"}
  Ends = {"closed", "failed"}
INVARIANTS
  EvictedSkipsDeregister
