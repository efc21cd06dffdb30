----------------------- MODULE MCCancellationDelivery -----------------------
(* Two processes whose clocks differ by as much as they may.               *)
EXTENDS CancellationDelivery
CONSTANTS slow, fast
MCWorker == {slow, fast}
MCSkewOf == [w \in MCWorker |-> IF w = fast THEN Skew ELSE 0]
=============================================================================
