SPECIFICATION FairSpec
CONSTANTS
  Replica = {r1, r2}
  Old = {r1}
  Message = {m1}
  Buffer = 1
  MaxLog = 2
INVARIANTS DuplicateNeedsDelay
PROPERTIES ImplementsAtLeastOnce PublishedIsHandled AllConsume
