\* message-router.service.spec.ts:509: AI mutations are broadcast.
SPECIFICATION Spec
CONSTANTS
  Manager = {m1, m2}
  Node = {n1, n2}
  Importers = {}
  Project = {n1}
  Turns = 2
  DiskFails = FALSE
  MaxCommands = 2
  MaxOutages = 1
  None = None
SYMMETRY SymManagers
INVARIANT MirroredAfterAi
