SPECIFICATION Spec
CONSTANTS
  Task <- MCThree
  Blocking <- MCNeeds
  Ordering <- MCFollows
  Timeout = 2
  MaxTime = 2
  MaxAttempts = 2
  Conclusions = {"pass", "fail", "unknown", "needs-input", "not-ready"}
  Refusals = {"launch-refused"}
  HoldSources = {"operator", "safety"}
  Resets = {}
  MaxWait = 2
  MaxResumes = 1
  MaxRewaits = 1
  ChannelOf <- MCThreeChannel
  StallRetries = 1
  Backoff = 1
  Recovery = FALSE
  AttemptCeiling = 3
  LostPerTask = 1
  LostPerRun = 1
  CloserMayDie = TRUE
INVARIANTS
  SnapshotParses
  EndIsHonest
  RunningHasWork
  StartsInOrder
PROPERTIES
  SettledIsFinal
  SafetyHoldStays
  PromiseKept
CHECK_DEADLOCK FALSE
