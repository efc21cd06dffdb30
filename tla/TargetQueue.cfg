CONSTANTS
  cli = cli
  Tickets = 2
  Ticket <- MCTicket
  Direct <- MCDirect
  DirectUndoes <- MCAdopts
  Nobody = Nobody
  Outsider = Outsider
  Troubles = {"crash", "fault", "foreign"}
  MaxTrouble = 1
  BatchSize = 2
  PerTarget = 2
  MaxAsks = 1
SPECIFICATION Spec
CHECK_DEADLOCK FALSE
INVARIANTS
  JournalMatchesFence
  OnlyHeadInEffect
  NoClaimLeftBehind
PROPERTIES
  UndoesTheLatest
  DecisionsHold
