SPECIFICATION StoreSpec
CONSTANTS
  Procs = {old, new1, new2}
  NoProc = NoProc
  Old = old
  Image <- Images
  Last = 4
  Recognised <- Recognisable
  Asked = {"pool", "cache"}
INVARIANTS
  StoreTypeOK
  RecordMatchesSchema
  ServesItsSchema
PROPERTIES
  ImplementsHistory
  StartSettles
CHECK_DEADLOCK FALSE
