SPECIFICATION FairSpec
CONSTANTS
  Conn = {k1, k2, k3, k4}
  None = None
  Publisher = {p1}
INVARIANTS LeakNeedsRace
PROPERTIES FailedPublishSawLoss CloseEnds ReconnectsUnlessMissed
