CONSTANTS
  a = a
  b = b
  s1 = s1
  Ids = {a, b}
  Sources = {s1}
  SourceOf <- OneSource
  NoParent = NoParent
  Parent <- ChildOfA
  Existing = {b}
  AtBoot = {s1}
  Copilot = {a}
  Titles = {t1}
  Native = Native
  Blank = Blank
  Readers = {r1}
  Namers = {n1}
  Renamable = {b}
  MaxWrites = 2
  Jobs = {boot}
  Boot = boot
  Poller = poller
  Admins = {}
  Ops = {}
  MaxOps = 0
  MaxFaults = 0
  Probes = {}
  Free = Free
SPECIFICATION Spec
INVARIANTS
  PassReadsItsOwnList
  PublishedIsWellFormed
PROPERTIES
  PublishedNeverRegresses
