\* Late timers, a changing crowd, scheduled and reliable controls, fair time.
SPECIFICATION FairSpec
CONSTANTS
  Target = {t1}
  Latest = {color}
  Throttled = {color}
  Reliable = {media}
  Throttle = 2
  Scheduling = TRUE
  MaxValue = 3
  None = None
INVARIANTS NoDeadPending FlushIsScheduled InOrder
PROPERTIES ReliableKept HeldIsReplayed
