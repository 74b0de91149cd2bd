SPECIFICATION FairSpec
CONSTANTS
  Client = {r1, r2, r3}
  Hanging = {r1}
  Int32Width = 4
  QueueSize = 2
INVARIANTS ServiceTypeOK NilMeansDrained SpansSurvive
PROPERTIES LoadedAsTagged EndsWhenTold
CHECK_DEADLOCK FALSE
