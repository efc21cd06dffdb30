SPECIFICATION Spec
CONSTANTS
  Task <- MCTask
  Blocking <- MCNone
  Ordering <- MCNone
  Timeout = 2
  MaxTime = 3
  MaxAttempts = 2
  Conclusions = {"pass", "fail", "stall", "quota"}
  Refusals = {"launch-refused", "handoff-refused", "env-refused", "env-uncertain"}
  HoldSources = {}
  Resets = {0, 2, 4}
  MaxWait = 1
  MaxResumes = 1
  MaxRewaits = 1
  ChannelOf <- MCChannel
  StallRetries = 1
  Backoff = 1
  Recovery = TRUE
  AttemptCeiling = 2
  LostPerTask = 1
  LostPerRun = 1
  CloserMayDie = FALSE
INVARIANTS
  AttemptProjected
  RetriesBounded
  QuotaParkCoversWaits
PROPERTIES
  CancelledNeverLaunches
  LostWorkIsKept
  OldAttemptIsOver
  QuotaWaitNeverEndsRun
CHECK_DEADLOCK FALSE
