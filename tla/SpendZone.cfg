CONSTANTS
  paid = paid
  other = other
  free = free
  here = here
  there = there
  Call <- MCCall
  Host <- MCHost
  HostOf <- MCHostOf
  CapOf <- MCCapOf
  ChargesOf <- MCChargesOf
  Bounds = {4}
  Limits = {3}
  Renewals = {TRUE}
  MaxInFlight = 2
  NoAccount = NoAccount
  AnyZone = AnyZone
  Zones = {"local", "moved"}
  Scale = 2
  Lag = 1
  MaxMonth = 1
  MaxRevision = 2
SPECIFICATION MovingSpec
INVARIANTS
  AccountReadable
CHECK_DEADLOCK FALSE
