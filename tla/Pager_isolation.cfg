SPECIFICATION Spec
CONSTANTS
  Conn = {c1, c2}
  MaxPage = 2
  InitSizes = {1}
  Modes = {"DELETE"}
  Aligned = FALSE
  MaxTxn = 2
  MaxFail = 2
  Failures = {"kill", "power", "fault"}
SYMMETRY ConnSymmetry
INVARIANTS TypeOK JournalNamed
PROPERTY ImplementsAtomicStore
