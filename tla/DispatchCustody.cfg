CONSTANTS
  page = page
  broker = broker
  delivery = delivery
  Reconciler <- MCReconciler
  Recoverer <- MCRecoverer
  Canceller <- MCCanceller
SPECIFICATION FairSpec
INVARIANTS SlotFreedAfterStop StartedIsNamed
PROPERTIES FencedRecordIsFrozen EvidenceOnlyGrows CustodyKept EveryEndIsSettled LostWorkerFreesSlot
CHECK_DEADLOCK FALSE
