SPECIFICATION CommandsSpec
CONSTANTS
  CallerIDs = {c1}
  Streams = {s1, s2}
  NoStream = NoStream
  NoCaller = NoCaller
  TTL = 0
  Policy = "evict_previous"
  Calls = {k1}
  NoCall = NoCall
  Requests = {r1}
  Payloads = {k1}
  Ends = {"closed"}
PROPERTIES
  ImplementsRouter
  LooksUpLiveStream
  AnswerArrives
