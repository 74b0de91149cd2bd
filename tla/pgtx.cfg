SPECIFICATION TxFairSpec
CONSTANTS
  Caller = {g1, g2, g3}
  MaxConns = 2
INVARIANTS AllOrNothing
PROPERTIES PoolServes
