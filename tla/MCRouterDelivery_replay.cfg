\* Steady and busy servers, audiences on both sides of the threshold, fair time.
SPECIFICATION FairSpec
CONSTANTS
  Target = {t1}
  Action = {a1, a2}
  Interval = 2
  Threshold = 1
  Audiences = {0, 1, 2}
  MaxValue = 3
  None = None
INVARIANTS NoDeadPending EmittedOnce
PROPERTIES DeliversInOrder LastValueArrives HeldIsReplayed
