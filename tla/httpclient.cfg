SPECIFICATION FairSpec
CONSTANTS
  Timeouts = {0, 1, 2}
  Retries = {1, 2, 0}
  Delays = {0, 1}
  DefaultTimeout = 3
  DefaultRetries = 3
  DefaultDelay = 2
INVARIANTS RepeatsOnlyFailures NothingLeftOpen AnswersInTime
PROPERTIES DoReturns
CHECK_DEADLOCK FALSE
