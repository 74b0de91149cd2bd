SPECIFICATION Spec
CONSTANTS
  Consumer = {r1, r2}
  None = None
  Last = 3
  Reuse = TRUE
INVARIANTS NothingSkipped
