-------------------------- MODULE DeliveryDecision --------------------------
(***************************************************************************)
(* What the delivery of changes to one branch promises, whatever dies, is  *)
(* lost or comes late: a command moves the branch at most once, not after  *)
(* it was decided, and not while another move waits for its decision; it   *)
(* is adopted exactly when it moved the branch.                            *)
(***************************************************************************)
EXTENDS Naturals, Sequences

CONSTANT Command
VARIABLES
  decision, \* per command: "open", "adopted" or "notApplied"
  history   \* the commands that moved the branch, in order
vars == <<decision, history>>

Moved == {history[i] : i \in DOMAIN history}
Init == decision = [c \in Command |-> "open"] /\ history = <<>>

Move(c) ==
  /\ decision[c] = "open" /\ c \notin Moved /\ \A d \in Moved : decision[d] = "adopted"
  /\ history' = Append(history, c) /\ UNCHANGED decision
\* Several tickets may be parked at once.
Decide(S) ==
  /\ S # {} /\ \A c \in S : decision[c] = "open"
  /\ decision' = [c \in Command |-> IF c \notin S THEN decision[c]
                                    ELSE IF c \in Moved THEN "adopted" ELSE "notApplied"]
  /\ UNCHANGED history
Next == (\E c \in Command : Move(c)) \/ \E S \in SUBSET Command : Decide(S)
Spec == Init /\ [][Next]_vars
=============================================================================
