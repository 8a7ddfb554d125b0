SPECIFICATION Spec
CONSTANTS
  Conn = {c1}
  MaxPage = 3
  InitSizes = {2}
  Modes = {"PERSIST"}
  Aligned = TRUE
  MaxTxn = 2
  MaxFail = 1
  Failures = {"fault"}
INVARIANT OwnRecordsOnly
