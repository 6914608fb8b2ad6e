\* Two clients, one of which lacks a capability; edits, switches and a lost connection.
SPECIFICATION PatchSpec
CONSTANTS
  Client = {c1, c2}
  Able = {c1}
  None = None
  Patch = Patch
  Remote = FALSE
  Flaky = {c1}
  MaxEdits = 2
  MaxDrops = 1
INVARIANTS RecordsAreTrue LiveValueArrives SettledAtRest WithdrawnStops
\* with its edits and outages used up and all copies settled an instance is at rest
CHECK_DEADLOCK FALSE
