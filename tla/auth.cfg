SPECIFICATION FairSpec
CONSTANTS
  Caller = {c1}
  Token = {"a", "b", "c", "d"}
  NoToken = "-"
  Key = {"k1", "k2"}
  Payload <- MCPayload
  Configs <- MCConfigs
  Route <- MCRoute
  DefaultLeeway = 1
  MaxSkew = 1
  MaxTime = 3
INVARIANTS ServedWasGood RolesWereGiven
PROPERTIES DeniedForCause Answered
