SPECIFICATION Spec
CONSTANTS
  Conn = {c1}
  MaxPage = 3
  InitSizes = {2}
  Modes = {"PERSIST"}
  Aligned = FALSE
  MaxTxn = 2
  MaxFail = 1
  Failures = {"kill"}
INVARIANT UnsyncedLossHarmless
