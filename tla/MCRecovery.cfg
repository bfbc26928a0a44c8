SPECIFICATION Spec
CONSTANTS
  t1 = t1
  t2 = t2
  p1 = p1
  p2 = p2
  e1 = e1
  e2 = e2
  e3 = e3
  Entries = {e1, e2, e3}
  Tabs = {t1, t2}
  Procs = {p1, p2}
  Writers = {t1, t2, p1, p2}
  Tree <- MCTree
  HeldSets <- MCHeldSets
  MaxBatch = 2
  MaxSalt = 4
  MaxFaults = 1
INVARIANTS
  TypeOK
  KeptIsThere
  ListDroppedWhenWritten
  OneSaltedCopy
PROPERTIES
  EntriesLand
CHECK_DEADLOCK FALSE
