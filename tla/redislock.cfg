SPECIFICATION FairSpec
CONSTANTS
  Client = {c1, c2}
  None = None
  Orphan = Orphan
  TTL = 2
  MaxRetries = 1
PROPERTIES ImplementsMutex RobberyNeedsStaleDelete EventuallyFree
