\* Two managers and the AI edit through a lost connection or a restart, with failing writes.
SPECIFICATION Spec
CONSTANTS
  Manager = {m1, m2}
  Node = {n1, n2}
  Importers = {m1, m2}
  Project = {n1}
  Turns = 2
  DiskFails = TRUE
  MaxCommands = 2
  MaxOutages = 1
  None = None
SYMMETRY SymManagers
INVARIANTS TypeOK Mirrored PendingIsUnderWay ConfirmedIsDurable
\* with its edits and outages used up and all copies settled an instance is at rest
CHECK_DEADLOCK FALSE
