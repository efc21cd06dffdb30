--------------------------- MODULE MCTargetQueue ---------------------------
(* A few tickets of one target and one command run beside the queue: an    *)
(* adoption, or the rollback of the first ticket.                          *)
EXTENDS TargetQueue
CONSTANTS Tickets, cli
MCTicket == 1..Tickets
MCDirect == {cli}
MCAdopts == [d \in MCDirect |-> Nobody]
MCUndoes == [d \in MCDirect |-> 1]
MCNoDirect == {}
MCUndoesNone == [d \in MCNoDirect |-> Nobody]
=============================================================================
