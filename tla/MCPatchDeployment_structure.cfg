\* plan_progress.md:811: structural changes redeploy, whoever makes them.
SPECIFICATION PatchSpec
CONSTANTS
  Client = {c1, c2}
  Able = {c1}
  None = None
  Patch = Patch
  Remote = TRUE
  Flaky = {c1}
  MaxEdits = 2
  MaxDrops = 1
INVARIANT StructureDeploys
\* with its edits and outages used up and all copies settled an instance is at rest
CHECK_DEADLOCK FALSE
