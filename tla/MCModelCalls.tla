---------------------------- MODULE MCModelCalls ----------------------------
(* Two paid calls from two hosts that share a ledger, and a free one.      *)
EXTENDS ModelCalls
CONSTANTS paid, other, free, here, there
MCCall == {paid, other, free}
MCHost == {here, there}
MCHostOf == [c \in MCCall |-> IF c = other THEN there ELSE here]
MCCapOf == [c \in MCCall |-> IF c = free THEN 0 ELSE 2]
MCChargesOf == [c \in MCCall |-> CASE c = paid -> {0, 3, 5} [] c = other -> {3} [] c = free -> {0}]
=============================================================================
