CONSTANTS
  None = None
  Waiting = Waiting
  Failed = Failed
  Ids = {s}
  Notes = {n}
  Stored <- KeptOn
  Offered <- OnOrAway
  MaxTrouble = 1
  MaxVersion = 1
  MaxCalls = 2
  Retries = 1
  Ordered = TRUE
  MaxActs = 1
  MaxReloads = 2
SPECIFICATION PageSpec
PROPERTY ReadStateIsSynced
CHECK_DEADLOCK FALSE
