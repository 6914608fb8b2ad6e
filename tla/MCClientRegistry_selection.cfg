\* One tab and one manager: selection, sensor state, the list a manager shows,
\* and, with fair handling of cut connections, the end of ghosts.
SPECIFICATION FairSpec
CONSTANTS
  t1 = t1  d1 = d1  i1 = i1  i2 = i2
  Tab = {t1}
  Manager = {m1}
  Socket = {s1, s2, s3}
  Device = {d1}
  Instance = {i1, i2}
  DeviceOf <- OneDevice
  InstanceOf <- Instances
  GeneratedId = {1}
  ManagerTime = {1}
  MaxSuffix = 1
  Grace = TRUE
  MaxInbox = 2
  MaxRestarts = 1
  None = None
INVARIANTS SensorsFollowSelection ViewsConverge
PROPERTY GhostsVanish
