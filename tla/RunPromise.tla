----------------------------- MODULE RunPromise -----------------------------
(***************************************************************************)
(* What a Run promises of its tasks, and nothing of parks, holds, waits,   *)
(* attempts, retries or the clock: a task is begun, and begun again, only  *)
(* when it has what it needs and nobody has asked the Run to stop; what is *)
(* accepted or closed stays so; and the Run ends once, with nothing open   *)
(* and an outcome that says what became of the tasks.  RunLifecycle        *)
(* implements it.                                                          *)
(***************************************************************************)
CONSTANTS
  Task,
  Blocking,  \* the tasks whose acceptance a task needs
  Ordering   \* the tasks that must be over before it begins

VARIABLES
  standing,  \* of each task: "open" (not begun, or given back), "begun",
             \* "accepted" or "closed"
  stopping,  \* was the Run asked to stop?
  outcome    \* "none" until the Run ends
promise == <<standing, stopping, outcome>>

Over == {"accepted", "closed"}
In(S) == {t \in Task : standing[t] \in S}

Init == /\ standing = [t \in Task |-> "open"]
        /\ stopping = FALSE /\ outcome = "none"

\* Some tasks are begun: those they need are accepted, those they follow over.
Begin ==
  /\ ~stopping /\ outcome = "none"
  /\ \E S \in SUBSET In({"open"}) :
       /\ \A t \in S : Blocking[t] \subseteq In({"accepted"}) /\ Ordering[t] \subseteq In(Over)
       /\ standing' = [t \in Task |-> IF t \in S THEN "begun" ELSE standing[t]]
  /\ UNCHANGED <<stopping, outcome>>

\* The outcomes that are true of the tasks when the Run ends.
Verdicts(accepted) == IF accepted = Task THEN {"completed"}
                      ELSE IF accepted # {} THEN {"incomplete"} ELSE {"failed", "cancelled"}
End == /\ In(Over)' = Task
       /\ outcome' \in Verdicts(In({"accepted"})')
       /\ outcome' = "cancelled" => stopping'

\* One transaction may accept, close or give back what was begun and close what
\* is open, all together, and end the Run by it.  A Run that is to stop accepts
\* nothing any more.
Settle ==
  /\ outcome = "none"
  /\ \A t \in In(Over) : standing'[t] = standing[t]
  /\ \A t \in In({"open"}) : standing'[t] \in {"open", "closed"}
  /\ \A t \in In({"begun"}) : standing'[t] \in {"open", "begun"} \cup Over
  /\ stopping => stopping' /\ In({"accepted"})' = In({"accepted"})
  /\ outcome' = "none" \/ End

\* The wish to stop is taken down even from a Run that has ended.
Stop == stopping' = TRUE /\ UNCHANGED <<standing, outcome>>

Next == Begin \/ Settle \/ Stop
Spec == Init /\ [][Next]_promise
=============================================================================
