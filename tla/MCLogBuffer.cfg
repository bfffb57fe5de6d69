SPECIFICATION Spec
CHECK_DEADLOCK FALSE
CONSTANTS
  Threads = {t1}
  Slots = 4
  Modulus = 8
  Cleared = 1
  Overlap = FALSE
  MaxLines = 11
INVARIANTS
  TypeOK
  LinesAreOwned
  DumpIsExact
