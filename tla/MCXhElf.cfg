SPECIFICATION Spec
CHECK_DEADLOCK FALSE
CONSTANTS
  DigitBits = 3
  WordBits = 8
  HashBits = 12
  ClassBits = 8
  PageSize = 16
  PtrSize = 4
  Images <- MCImages
INVARIANTS
  TypeOK
  ReadsBack
  NamesFound
  HookIsExact
  OldLeadsHome
  ProtectionKept
