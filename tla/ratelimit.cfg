SPECIFICATION Spec
CONSTANTS
  Caller = {c1, c2}
  Limit = 1
  Second = 3
  W = 1
  MaxSkew = 1
  MaxWin = 1
  MaxCount = 2
SYMMETRY Interchangeable
INVARIANTS WithinLimit CountersExpire
PROPERTIES RejectsOnlyWhenFull RetryAfterReaches
