SPECIFICATION Spec
CONSTANTS
  KeepRecent = 2
  Span = 1
  Slack = 5
  MaxHeight = 4
  MaxReorgs = 2
  MaxFaults = 2
  Worlds <- MCWorlds
INVARIANTS
  TypeOK
  NoBlockSkipped
  JournalKeeps
  AroundFindsAll
PROPERTIES
  EveryBlockKept
CHECK_DEADLOCK FALSE
