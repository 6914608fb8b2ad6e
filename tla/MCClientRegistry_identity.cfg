\* Three tabs of one browser, no manager: identity, takeover, grace, restart.
SPECIFICATION Spec
CONSTANTS
  t1 = t1  d1 = d1  i1 = i1  i2 = i2
  Tab = {t1, t2, t3}
  Manager = {}
  Socket = {s1, s2, s3}
  Device = {d1}
  Instance = {i1, i2}
  DeviceOf <- OneDevice
  InstanceOf <- Instances
  GeneratedId = {1}
  ManagerTime = {}
  MaxSuffix = 1
  Grace = TRUE
  MaxInbox = 3
  MaxRestarts = 1
  None = None
SYMMETRY SymSockets
INVARIANTS SocketsMatchRecords TimersMatchGrace RegistryInv
PROPERTY NoLiveClientPurged
