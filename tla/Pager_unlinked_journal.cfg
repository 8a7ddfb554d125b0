SPECIFICATION Spec
CONSTANTS
  Conn = {c1, c2}
  MaxPage = 2
  InitSizes = {1}
  Modes = {"PERSIST", "DELETE"}
  Aligned = FALSE
  MaxTxn = 3
  MaxFail = 0
  Failures = {}
SYMMETRY ConnSymmetry
INVARIANT JournalNamed
