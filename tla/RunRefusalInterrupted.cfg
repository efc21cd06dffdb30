SPECIFICATION FairSpec
CONSTANTS
  Task <- MCOne
  Blocking <- MCOneNone
  Ordering <- MCOneNone
  Timeout = 2
  MaxTime = 2
  MaxAttempts = 2
  Conclusions = {"pass", "fail"}
  Refusals = {"launch-refused"}
  HoldSources = {}
  Resets = {}
  MaxWait = 2
  MaxResumes = 1
  MaxRewaits = 1
  ChannelOf <- MCOneChannel
  StallRetries = 1
  Backoff = 1
  Recovery = FALSE
  AttemptCeiling = 3
  LostPerTask = 1
  LostPerRun = 1
  CloserMayDie = TRUE
PROPERTIES
  RefusalReachesRun
CHECK_DEADLOCK FALSE
