\* server-semantic-sync.spec.ts:1202: an import never overwrites a graph that is not empty.
SPECIFICATION Spec
CONSTANTS
  Manager = {m1, m2}
  Node = {n1, n2}
  Importers = {m1}
  Project = {n1}
  Turns = 2
  DiskFails = FALSE
  MaxCommands = 2
  MaxOutages = 1
  None = None
PROPERTY ImportIntoEmpty
