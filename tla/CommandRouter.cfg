SPECIFICATION MCSpec
CONSTANTS
  CallerIDs = {c1}
  Streams = {s1, s2}
  NoStream = NoStream
  NoCaller = NoCaller
  k1 = k1
  r1 = r1
  Calls = {k1, k2}
  NoCall = NoCall
  Requests = {r1, r2}
INVARIANTS
  TypeOK
  SentToTarget
  AnswersOwnCommand
  WaitingIsReachable
  NoWaiterLeak
PROPERTIES
  ImplementsCalls
  WaitingReturns
  DeliverReturns
