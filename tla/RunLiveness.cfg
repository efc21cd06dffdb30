SPECIFICATION FairSpec
CONSTANTS
  Task <- MCTask
  Blocking <- MCChain
  Ordering <- MCNone
  Timeout = 1
  MaxTime = 2
  MaxAttempts = 1
  Conclusions = {"pass", "unknown"}
  Refusals = {"launch-refused", "env-uncertain"}
  HoldSources = {}
  Resets = {}
  MaxWait = 2
  MaxResumes = 1
  MaxRewaits = 1
  ChannelOf <- MCChannel
  StallRetries = 1
  Backoff = 1
  Recovery = FALSE
  AttemptCeiling = 3
  LostPerTask = 1
  LostPerRun = 1
  CloserMayDie = FALSE
PROPERTIES
  CancelEnds
  DueParkMoves
  RefusalReachesRun
CHECK_DEADLOCK FALSE
