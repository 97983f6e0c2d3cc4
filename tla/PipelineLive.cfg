CONSTANTS
  a = a
  b = b
  s1 = s1
  Ids = {a}
  Sources = {s1}
  SourceOf <- OneSource
  NoParent = NoParent
  Parent <- Flat
  Existing = {}
  AtBoot = {s1}
  Copilot = {}
  Titles = {}
  Native = Native
  Blank = Blank
  Readers = {}
  Namers = {}
  Renamable = {}
  MaxWrites = 1
  Jobs = {boot, j1}
  Boot = boot
  Poller = poller
  Admins = {h1}
  Ops = {"add", "remove", "update", "reset"}
  MaxOps = 1
  MaxFaults = 1
  Probes = {q}
  Free = Free
SPECIFICATION Spec
INVARIANTS
  RegistryMatchesTable

  
  
