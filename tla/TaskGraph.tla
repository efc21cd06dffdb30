----------------------------- MODULE TaskGraph -----------------------------
(***************************************************************************)
(* The task graph of one Run and what it decides without any state of its  *)
(* own: which pending tasks a dead dependency closes, and which tasks may  *)
(* start (src/src/domain/core/task-graph and the closure loop of           *)
(* src/src/domain/core/run/internal/lifecycle.ts).                         *)
(*                                                                         *)
(* A task has blocking dependencies, whose result it needs, and ordering   *)
(* dependencies (scope-conflict edges), which only serialise two tasks     *)
(* that touch the same resources.                                          *)
(***************************************************************************)
EXTENDS Integers, FiniteSets

CONSTANTS
  Task,      \* the tasks of the Run's graph
  Blocking,  \* Blocking[t]: the tasks whose acceptance t needs
  Ordering   \* Ordering[t]: the tasks t must come after (scope conflicts)

\* Admission refuses a graph with an unknown or a cyclic dependency, so every
\* non-empty set of tasks has a member none of whose dependencies is in it.
ASSUME GraphAssumption ==
  /\ Task # {} /\ IsFiniteSet(Task)
  /\ Blocking \in [Task -> SUBSET Task]
  /\ Ordering \in [Task -> SUBSET Task]
  /\ \A S \in (SUBSET Task) \ {{}} :
       \E t \in S : (Blocking[t] \cup Ordering[t]) \cap S = {}

Phase == {"pending", "active", "evaluating", "reconciling", "awaiting",
          "accepted", "failed", "cancelled", "skipped"}
Dead     == {"failed", "cancelled", "skipped"}
Settled  == Dead \cup {"accepted"}
\* Slip: an evaluation is not live work.
WorkingButEvaluating == {"active", "reconciling"}
Working  == {"active", "evaluating", "reconciling"}

----------------------------------------------------------------------------
(* Dependency closure *)

PhaseIn(phase, S) == {t \in Task : phase[t] \in S}

\* A set of pending tasks is safe from the closure when no member has a
\* blocking dependency that is dead or that is pending outside the set.
Untouched(phase, S) ==
  \A t \in S : Blocking[t] \cap (PhaseIn(phase, Dead)
                                 \cup (PhaseIn(phase, {"pending"}) \ S)) = {}

\* The largest such set: the pending tasks the closure loop leaves pending.
Survivors(phase) ==
  UNION {S \in SUBSET PhaseIn(phase, {"pending"}) : Untouched(phase, S)}

Doomed(phase) == PhaseIn(phase, {"pending"}) \ Survivors(phase)

\* The do-while loop of reconcileRunLifecycle: every pending task that depends,
\* directly or through other pending tasks, on a dead task becomes skipped.
SkipDoomed(phase) ==
  [t \in Task |-> IF t \in Doomed(phase) THEN "skipped" ELSE phase[t]]

----------------------------------------------------------------------------
(* Readiness *)

\* Slip: scope-conflict edges are forgotten.
BlockingOnly(phase, t) == Blocking[t] \ PhaseIn(phase, {"accepted"})
\* Slip: a result counts before it is judged.
ResultUnjudged(phase, t) ==
  (Blocking[t] \ PhaseIn(phase, {"accepted", "evaluating"}))
    \cup (Ordering[t] \ PhaseIn(phase, Settled))
\* The dependencies that still hold task t back: a blocking one until it is
\* accepted, an ordering one until it has settled in any way.
OpenDependencies(phase, t) ==
  (Blocking[t] \ PhaseIn(phase, {"accepted"}))
    \cup (Ordering[t] \ PhaseIn(phase, Settled))

\* "ready" or "delayed": pending, nothing uncertain, no open dependency.
Startable(phase, effects, t) ==
  /\ phase[t] = "pending" /\ t \notin effects
  /\ OpenDependencies(phase, t) = {}

Ready(phase, effects, notBefore, now) ==
  {t \in Task : Startable(phase, effects, t) /\ notBefore[t] <= now}
=============================================================================
