------------------------- MODULE MCDispatchCustody -------------------------
(* One dispatch among a recovery page, the broker's executor of lost workers *)
(* and one delivery of a cancellation.                                       *)
EXTENDS DispatchCustody
CONSTANTS page, broker, delivery
MCReconciler == {page}
MCRecoverer == {broker}
MCCanceller == {delivery}
=============================================================================
