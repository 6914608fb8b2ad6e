\* phase2_3_server_hygiene.md:114: no repeated client after a short disconnect.
SPECIFICATION Spec
CONSTANTS
  t1 = t1  d1 = d1  i1 = i1  i2 = i2
  Tab = {t1, t2}
  Manager = {}
  Socket = {s1, s2, s3}
  Device = {d1}
  Instance = {i1, i2}
  DeviceOf <- OneDevice
  InstanceOf <- Instances
  GeneratedId = {1}
  ManagerTime = {}
  MaxSuffix = 2
  Grace = TRUE
  MaxInbox = 3
  MaxRestarts = 1
  None = None
SYMMETRY SymSockets
INVARIANT NoDuplicates
