CONSTANTS
  Ids = {a, b}
  NoEntry = NoEntry
  MaxChanges = 2
  MaxPasses = 1
SPECIFICATION CacheSpec
PROPERTIES
  FilesAreServed
CHECK_DEADLOCK FALSE
