SPECIFICATION ConsumerFairSpec
CONSTANTS
  Consumer = {r1, r2}
  Message = {m1, m2}
  Nil = Nil
INVARIANTS ConsumerTypeOK DuplicateNeedsLoss
PROPERTIES ImplementsAtLeastOnce Delivered
