\* One build in front and one behind it, under the fairness of the Go runtime.
SPECIFICATION FairSpec
CONSTANTS
  Calls = {b1, b2}
  Rollbacks = {r1}
  MaxCrashes = 1
PROPERTIES
  QueuedAnswered
  LockFreedUnlessHung
\* Every call may have been made and answered.
CHECK_DEADLOCK FALSE
