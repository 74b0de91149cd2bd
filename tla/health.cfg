SPECIFICATION HealthFairSpec
CONSTANTS
  Name = {db, mq}
  Checker = {k1, k2}
  None = None
  Probe = {p1, p2}
  Stubborn = {k1}
INVARIANTS HealthTypeOK
PROPERTIES ReadyWasUp CallsReturn
