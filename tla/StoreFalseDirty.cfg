SPECIFICATION StoreSafety
CONSTANTS
  Procs = {old, new1, new2}
  NoProc = NoProc
  Old = old
  Image <- Images
  Last = 4
  Recognised <- Recognisable
  Asked = {"pool"}
INVARIANT DirtyMeansFailed
CHECK_DEADLOCK FALSE
