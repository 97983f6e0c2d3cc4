\* Two prompts and a third to come, two tags of which one exists, one session,
\* two bookmarks, two source directories.
CONSTANTS
  Ordered = TRUE
  MaxFaults = 1
  MaxActs = 3
  MaxLibraryActs = 2
  None = None
  Nil = Nil
  MaxFamilyDepth = 2
  Waiting = Waiting
  Failed = Failed
  Lists <- MCLists
  Samples <- MCSamples
  Accesses <- MCAccesses
  Days = {7, 30}
  ScratchFiles = {1, 2}
  MaxPrompts = 3
  TagIds = {t, u}
  Listed = {t}
  InitialExpanded = {t}
  Names = {"a", "b"}
  Sessions = {s}
  Open = s
  Refs = {m}
  Paths = {p, q}
SPECIFICATION Spec
INVARIANTS
  NothingDisappears
  KeptIsListed
  ChoicesAreKept
  SelectionIsVisible
  
PROPERTIES
  ClosedStaysClosed
CHECK_DEADLOCK FALSE
