SPECIFICATION Spec
CONSTANTS
  Task <- MCTask
  Blocking <- MCNone
  Ordering <- MCNone
  Timeout = 2
  MaxTime = 2
  MaxAttempts = 2
  Conclusions = {"pass", "unknown"}
  Refusals = {}
  HoldSources = {}
  Resets = {}
  MaxWait = 2
  MaxResumes = 1
  MaxRewaits = 1
  ChannelOf <- MCChannel
  StallRetries = 1
  Backoff = 1
  Recovery = FALSE
  AttemptCeiling = 3
  LostPerTask = 1
  LostPerRun = 1
  CloserMayDie = FALSE
INVARIANTS
  AdvanceNeverThrows
CHECK_DEADLOCK FALSE
