\* manager-sdk.spec.ts:462: a scheduled control is not altered.
SPECIFICATION Spec
CONSTANTS
  Target = {t1}
  Latest = {color}
  Throttled = {color}
  Reliable = {}
  Throttle = 2
  Scheduling = TRUE
  MaxValue = 3
  None = None
PROPERTY ScheduledKept
