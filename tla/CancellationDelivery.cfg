CONSTANTS
  slow = slow
  fast = fast
  Worker <- MCWorker
  SkewOf <- MCSkewOf
  Skew = 1
  MaxAttempts = 2
  RetryDelay = 2
  ClaimTtl = 2
SPECIFICATION FairSpec
PROPERTIES TakenOnlyWhenDue DecidedIsFinal DecidedUnlessEnded
