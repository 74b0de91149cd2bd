SPECIFICATION FairSpec
CONSTANTS
  Consumer = {r1, r2}
  None = None
  Last = 3
  Reuse = FALSE
INVARIANTS HandledOnce
PROPERTIES ImplementsAtLeastOnce AllHandled
