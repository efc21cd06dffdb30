CONSTANTS
  cli = cli
  Tickets = 2
  Ticket <- MCTicket
  Direct <- MCNoDirect
  DirectUndoes <- MCUndoesNone
  Nobody = Nobody
  Outsider = Outsider
  Troubles = {}
  MaxTrouble = 0
  BatchSize = 2
  PerTarget = 2
  MaxAsks = 1
SPECIFICATION FairSpec
CHECK_DEADLOCK FALSE
PROPERTIES
  QueuedTicketsExpire
