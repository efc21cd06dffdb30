CONSTANTS
  cli = cli
  Tickets = 2
  Ticket <- MCTicket
  Direct <- MCDirect
  DirectUndoes <- MCUndoes
  Nobody = Nobody
  Outsider = Outsider
  Troubles = {"crash", "fault"}
  MaxTrouble = 2
  BatchSize = 2
  PerTarget = 2
  MaxAsks = 1
SPECIFICATION FairSpec
CHECK_DEADLOCK FALSE
PROPERTIES
  LateTicketsEnd
  MovesBecomeAdoptions
