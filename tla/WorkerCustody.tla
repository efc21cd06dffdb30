--------------------------- MODULE WorkerCustody ---------------------------
(***************************************************************************)
(* What the custody of one dispatched worker promises, and nothing of how: *)
(* the worker runs at most once, it is settled on the strength of its own  *)
(* end or declared lost but never both, and a lost worker gives its slot   *)
(* back only when it has stopped for good.  DispatchCustody implements it. *)
(***************************************************************************)

VARIABLES
  worker,  \* "unstarted", "running" or "stopped"; a worker never restarts
  fate,    \* "open", "settled" (its end is evidence) or "lost"
  slot     \* does the worker occupy its execution slot?
custody == <<worker, fate, slot>>

Init == worker = "unstarted" /\ fate = "open" /\ slot = TRUE

\* The one start.  A worker that is lost may still be started by an owner
\* nobody can reach, but not once its slot was given to another.
Start == /\ worker = "unstarted" /\ slot
         /\ worker' = "running" /\ UNCHANGED <<fate, slot>>

\* A worker ends; one that never started can be made unable to.
Stop == /\ worker # "stopped"
        /\ worker' = "stopped" /\ UNCHANGED <<fate, slot>>

Settle == /\ worker = "stopped" /\ fate = "open"
          /\ fate' = "settled" /\ UNCHANGED <<worker, slot>>

Lose == fate = "open" /\ fate' = "lost" /\ UNCHANGED <<worker, slot>>

Free == /\ fate = "lost" /\ worker = "stopped" /\ slot
        /\ slot' = FALSE /\ UNCHANGED <<worker, fate>>

Next == Start \/ Stop \/ Settle \/ Lose \/ Free
Spec == Init /\ [][Next]_custody
=============================================================================
