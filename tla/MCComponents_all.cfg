\* Ten components side by side, one of which moves in each behaviour.
SPECIFICATION Spec
CONSTANTS
  AiNode = {a, b}
  AiSpaces = 2
  AiRepairs = 1
  AiTriggers = 3
  AiEdits = 1
  AiNone = AiNone
  Content = {c1, c2, c3}
  AssetMax = 2
  AssetCalls = 4
  NoAsset = NoAsset
  p1 = p1
  p2 = p2
  noAsset = noAsset
  PreloadAsset = {p1, p2}
  OtherRef = {noAsset}
  Manifest <- Manifests
  BadManifest <- BadManifests
  Workers = 2
  MaxRuns = 2
  MaxUrgent = 1
  NoManifest = NoManifest
  Pin = {a, b}
  SerialChanges = 2
  SerialCalls = 4
  PrintNode = {a, b}
  Sheet = {s, t}
  PrintChanges = 3
  PrintConfigs = 2
  Blank = Blank
  PairRetries = 2
  PairByHand = 1
  PairReloads = 1
  PairControls = 1
  Group = {g1, g2}
  Managed = {g1}
  ByManagers = {m1, m2}
  ByServices = {s1}
  GroupServer = GroupServer
  GroupSteps = 2
  NoGroup = NoGroup
  BusNode = {a}
  BusRevisions = 4
  n1 = n1
  n2 = n2
  RtOrder <- SinkOrder
  RtBundle = {v1, v2, big}
  RtBig = {big}
  RtNone = RtNone
  Viewer = {m1}
  RepChanges = 2
  RepLosses = 2
  RepOpenings = 2
  RepBacklog = 2
  RepNone = RepNone
SYMMETRY SymContents
INVARIANTS NewestIsServed PartialOnlyWhenStale AssetsHaveFiles DiscardsSpareAssets ReadyIsTrue PreloadSettles PinsFollow PrintsChanges ControlsReach GroupsReturn ExpectedIsFresh RollbackRestores EffectsEnd SinksFollow ManagersInformed
\* with its edits and outages used up and all copies settled an instance is at rest
CHECK_DEADLOCK FALSE
