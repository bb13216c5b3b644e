SPECIFICATION Spec
CONSTANTS
  kSecond = 4
  kMilli = 2
  Delays = {1, 2}
  Times = {3}
  MaxTime = 5
  MaxTimers = 2
CHECK_DEADLOCK FALSE
INVARIANTS TimersAccountedFor CancelHolds TimersWakeLoop FatalOnlyLate
