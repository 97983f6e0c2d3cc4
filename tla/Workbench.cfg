\* Two files of the agent, two scratch files.
CONSTANTS
  Ordered = TRUE
  MaxFaults = 1
  MaxActs = 4
  MaxFileActs = 2
  None = None
  Waiting = Waiting
  Failed = Failed
  Files = {1, 2}
  ScratchIds = {1, 2}
  Titles = {"Untitled", "Plan"}
  MaxDelay = 30
  Retype = FALSE
SPECIFICATION Spec
INVARIANTS
  
  OneSocket
PROPERTIES
  TerminalReconnects
CHECK_DEADLOCK FALSE
