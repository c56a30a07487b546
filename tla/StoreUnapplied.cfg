SPECIFICATION StoreSafety
CONSTANTS
  Procs = {new1}
  NoProc = NoProc
  Old = old
  Image <- Images
  Last = 4
  Recognised <- Recognisable
  Asked = {"pool"}
INVARIANT EmbeddedIsApplied
CHECK_DEADLOCK FALSE
