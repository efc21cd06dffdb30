---------------------------- MODULE RunLifecycle ----------------------------
(***************************************************************************)
(* One Run on the ledger: its tasks, their attempts, its parks, holds and  *)
(* endings (src/src/domain/core/run/internal and the transactions of       *)
(* src/src/adapters/core/attempt-store/internal that commit them).         *)
(*                                                                         *)
(* The code writes every transition of a Run as a pure reducer from one    *)
(* snapshot to the next, committed by a compare-and-set on the snapshot's  *)
(* revision in one transaction.  The module keeps that shape: an operator  *)
(* on the record `run' per reducer, and one action per transaction.  The   *)
(* revision itself is not modelled: a transaction is an atomic step on the *)
(* current snapshot, and a stale projection is told by the attempt it      *)
(* already shows.                                                          *)
(***************************************************************************)
EXTENDS TaskGraph, Sequences

CONSTANTS
  Timeout,          \* bound of a park, from the moment the Run parks
  MaxTime,          \* model bound: the clock stops here
  MaxAttempts,      \* model bound: attempts one task may be given
  Conclusions,      \* evaluation conclusions and park commands explored
  Refusals,         \* pre-launch refusals explored
  HoldSources,      \* sources of a hold explored: "operator", "safety"
  Resets,           \* quota reset times a worker may report; 0 means unknown
  MaxWait,          \* bound of a quota wait
  MaxResumes,       \* automatic quota resumes of one task
  MaxRewaits,       \* times a person may choose to keep waiting
  ChannelOf,        \* the provider channel of each task
  StallRetries,     \* retries of a stalled task
  Backoff,          \* delay of such a retry
  Recovery,         \* are recovery bounds frozen in the Run?
  AttemptCeiling,   \* attempts of one task over every automatic path
  LostPerTask,      \* lost-worker continuations of one task
  LostPerRun,       \* lost-worker continuations of the Run
  CloserMayDie      \* may the writer of a refusal stop between its writes?

ConclusionKind == {"pass", "fail", "unknown", "needs-input",
                   "quota", "stall", "not-ready"}
RefusalKind == {"handoff-refused", "launch-refused", "env-refused", "env-uncertain"}
HoldKind    == {"none", "operator", "safety"}

\* Tasks are numbered in the order of the Run's graph, which the code's scans
\* follow (`tasks.find').
ASSUME RunAssumption ==
  /\ Task \subseteq Nat
  /\ {Timeout, MaxAttempts, MaxWait} \subseteq Nat \ {0}
  /\ {MaxTime, MaxResumes, MaxRewaits, StallRetries, Backoff,
      AttemptCeiling, LostPerTask, LostPerRun} \subseteq Nat
  /\ Conclusions \subseteq ConclusionKind /\ Refusals \subseteq RefusalKind
  /\ HoldSources \subseteq HoldKind \ {"none"}
  /\ Resets \subseteq 0 .. (MaxTime + MaxWait)
  /\ {Recovery, CloserMayDie} \subseteq BOOLEAN

VARIABLES
  run,      \* the Run snapshot
  attempt,  \* the current attempt of each task, with its dispatch record
  now       \* the wall clock
vars == <<run, attempt, now>>

----------------------------------------------------------------------------
(* The snapshot *)

\* The stored deadline of a question to a person: larger than any clock.
AskOpen == MaxTime + Timeout + MaxWait + 1
Horizon == 0 .. AskOpen

ObservedKind == {"none", "exited", "quota-exhausted", "unknown",
                 "handoff-refused", "launch-refused"}
ClosedKind == {"exited", "quota-exhausted", "stalled", "launch-refused", "lost"}
ParkReason == {"operator-hold", "needs-input", "progression-failed",
               "quota-exhausted", "quota-ask", "environment-not-ready",
               "awaiting-decision", "dependency"}
\* Parks that keep their reason until their own owner ends them.
OwnedPark == {"operator-hold", "progression-failed", "quota-exhausted",
              "quota-ask", "environment-not-ready"}
EndReason == {"completed", "cancelled", "park-timeout", "operator-close"}
Outcome   == {"completed", "incomplete", "failed", "cancelled"}

NoDecision == [reason |-> "none", deadline |-> 0]
NoWait  == [reset |-> 0, deadline |-> 0, beyond |-> FALSE,
            rewaits |-> 0, released |-> FALSE]
Unbound == [kind |-> "unbound", probes |-> FALSE, wait |-> NoWait]
Bound   == [Unbound EXCEPT !.kind = "none"]

\* `hold' is the Run's hold, whether the park is the hold itself
\* (operator-hold) or carries it as an overlay (readRunHold, hold.ts).
State(kind, why, hold, deadline, outcome) ==
  [kind |-> kind, why |-> why, hold |-> hold,
   deadline |-> deadline, outcome |-> outcome]
Running == State("running", "none", "none", 0, "none")
Parked(why, hold, deadline) == State("parked", why, hold, deadline, "none")
Ended(outcome, why) == State("terminal", why, "none", 0, outcome)
Held(hold, deadline) == Parked("operator-hold", hold, deadline)

IsParked(r) == r.state.kind = "parked"
IsEnded(r)  == r.state.kind = "terminal"
Due(r)      == IsParked(r) /\ r.state.deadline <= now
ParkedFor(r, reasons) == IsParked(r) /\ r.state.why \in reasons
\* A Run that leaves its park keeps a hold it carried.
Released(r) == IF r.state.hold # "none" THEN Held(r.state.hold, r.state.deadline)
                                        ELSE Running

Binds(r, kind)   == {t \in Task : r.bind[t].kind = kind}
Awaiting(r)      == {t \in Task : r.decision[t].reason # "none"}
Asking(r)        == {t \in Task : r.decision[t].reason = "needs-input"}
Live(r)          == r.effects # {} \/ PhaseIn(r.phase, Working) # {}
HasAccepted(r)   == PhaseIn(r.phase, {"accepted"}) # {}
First(S)         == CHOOSE t \in S : \A u \in S : t <= u

\* The superseded attempts (previousBindings), as pairs of task and position.
Superseded(r) == UNION {{<<t, i>> : i \in DOMAIN r.prev[t]} : t \in Task}
Count(r, S, kind) ==
  Cardinality({p \in Superseded(r) : p[1] \in S /\ r.prev[p[1]][p[2]] = kind})
Generation(r, t)  == Len(r.prev[t]) + 1

\* Slip: the first of the waits ends the park.
Soonest(S) == CHOOSE d \in S \cap Horizon : \A x \in S : d <= x
\* The latest of some deadlines: the least time that none of them exceeds.
Latest(S) == CHOOSE d \in Horizon : /\ \A x \in S : x <= d
                                    /\ \A e \in Horizon : (\A x \in S : x <= e) => d <= e
WaitsOf(r, S) == {r.bind[t].wait.deadline : t \in S}

SetPhase(r, t, phase) == [r EXCEPT !.phase[t] = phase]
SetPhases(r, S, phase) ==
  [r EXCEPT !.phase = [t \in Task |-> IF t \in S THEN phase ELSE r.phase[t]]]
\* Slip: a question outlives its answer.
LeaveDecisions(r, S) == [r EXCEPT !.decision = [t \in Task |-> r.decision[t]]]
ClearDecisions(r, S) ==
  [r EXCEPT !.decision = [t \in Task |-> IF t \in S THEN NoDecision ELSE r.decision[t]]]
\* The attempts of S move to previousBindings; `as' is the kind they keep there.
Supersede(r, S, as) ==
  [r EXCEPT !.bind = [t \in Task |-> IF t \in S THEN Unbound ELSE r.bind[t]],
            !.prev = [t \in Task |-> IF t \in S THEN Append(r.prev[t], as) ELSE r.prev[t]]]

----------------------------------------------------------------------------
(* Classification: reconcileRunLifecycle *)

\* Which state the tasks of r call for, in the order the code asks.
Classify(r) ==
  LET quotaHeld == {t \in Binds(r, "quota-exhausted") : r.phase[t] = "pending"}
      startable == {t \in Task : Startable(r.phase, r.effects, t)}
      why == IF Awaiting(r) # {} THEN "awaiting-decision" ELSE "dependency"
  IN IF PhaseIn(r.phase, {"accepted"}) = Task THEN Ended("completed", "completed")
     ELSE IF ~r.cancel /\ ParkedFor(r, OwnedPark) THEN r.state
     ELSE IF ~r.cancel /\ quotaHeld # {}
       THEN Parked("quota-exhausted", "none",
                   Latest(WaitsOf(r, Binds(r, "quota-exhausted"))))
     ELSE IF ~r.cancel /\ Asking(r) # {}
       THEN Parked("needs-input", "none", r.decision[First(Asking(r))].deadline)
     ELSE IF Live(r) \/ startable # {} THEN Running
     ELSE IF r.cancel /\ Awaiting(r) = {}
       THEN Ended(IF HasAccepted(r) THEN "incomplete" ELSE "cancelled", "cancelled")
     ELSE IF IsParked(r) THEN Parked(why, r.state.hold, r.state.deadline)
     ELSE Parked(why, "none", now + Timeout)

\* Slip: the hold is lost with the park it overlays.
LoseHold(r, state) == state
\* An overlaid hold survives the new state unless the Run ends; when nothing
\* else parks the Run, the hold itself does.
KeepHold(r, state) ==
  IF ~IsParked(r) \/ r.state.hold = "none" \/ ParkedFor(r, {"operator-hold"})
     \/ state.kind = "terminal" THEN state
  ELSE IF state.kind = "parked" THEN [state EXCEPT !.hold = r.state.hold]
  ELSE Held(r.state.hold, r.state.deadline)

Reconcile(r) ==
  IF IsEnded(r) THEN r
  ELSE LET closed == [r EXCEPT !.phase = SkipDoomed(r.phase)]
       IN  [closed EXCEPT !.state = KeepHold(r, Classify(closed))]

----------------------------------------------------------------------------
(* Quota waits: quota.ts *)

Waiting(r) == Binds(r, "quota-exhausted")
OpenWaits(r) == {t \in Waiting(r) : ~r.bind[t].wait.released}
SetWaits(r, S, wait(_)) ==
  [r EXCEPT !.bind = [t \in Task |->
     IF t \in S THEN [r.bind[t] EXCEPT !.wait = wait(r.bind[t].wait)] ELSE r.bind[t]]]

\* Every wait of the Run ended at a reset the provider named: time alone is no
\* evidence (resetRunQuota).
QuotaReset(r) ==
  /\ Waiting(r) # {} /\ ~r.cancel
  /\ ParkedFor(r, {"quota-exhausted"}) /\ r.state.hold = "none"
  /\ \A t \in Waiting(r) :
       LET w == r.bind[t].wait
       IN /\ ~w.beyond /\ w.reset # 0 /\ w.deadline <= now
          /\ Count(r, {t}, "quota-exhausted") + 1 <= MaxResumes
ResetQuota(r) ==
  [Supersede(r, Waiting(r), "quota-exhausted") EXCEPT !.state = Running]

\* Slip: a wait that expires at a known reset is not asked about.
AskUnknownOnly(r) ==
  /\ ~r.cancel /\ ParkedFor(r, {"quota-exhausted"}) /\ r.state.hold = "none"
  /\ Due(r) /\ Waiting(r) # {} /\ \A t \in Waiting(r) : r.bind[t].wait.reset = 0
\* An expired wait becomes a question to a person (askRunQuota).
QuotaAskDue(r) ==
  /\ ~r.cancel /\ ParkedFor(r, {"quota-exhausted"}) /\ r.state.hold = "none"
  /\ Due(r) /\ Waiting(r) # {}
AskQuota(r) == [r EXCEPT !.state = Parked("quota-ask", "none", AskOpen)]

\* parkRunQuota: the task waits again, and the Run parks with it.  A wait
\* known to end beyond its bound is asked about at once.
ParkQuota(r, t, wait) ==
  LET hold  == r.state.hold
      prior == IF ParkedFor(r, {"quota-exhausted"}) THEN r.state.deadline ELSE 0
      state == IF ParkedFor(r, {"operator-hold"}) THEN r.state
               ELSE IF wait.beyond \/ ParkedFor(r, {"quota-ask"})
                 THEN Parked("quota-ask", hold, AskOpen)
               ELSE Parked("quota-exhausted", hold, Latest({wait.deadline, prior}))
  IN [r EXCEPT !.phase[t] = "pending", !.state = state,
               !.bind[t].kind = "quota-exhausted", !.bind[t].wait = wait]

----------------------------------------------------------------------------
(* Time: advanceRunLifecycle *)

\* Slip: an environment park does not expire.
ExpiringButEnvironment == {"operator-hold", "needs-input", "progression-failed",
                           "quota-exhausted"}
Expiring == {"operator-hold", "needs-input", "progression-failed",
             "quota-exhausted", "environment-not-ready"}

\* The deadlines that passed: a due park cancels the tasks it kept from
\* starting, and a due decision (or a due park) fails the task that waits.
Expire(r) ==
  LET drop == IF Due(r) /\ ParkedFor(r, Expiring)
              THEN PhaseIn(r.phase, {"pending"}) \ r.effects ELSE {}
      late == {t \in Awaiting(r) : r.decision[t].deadline <= now \/ Due(r)}
      past == \E t \in Task : r.decision[t].reason # "none" /\ r.decision[t].deadline <= now
      settled == ClearDecisions(SetPhases(SetPhases(r, drop, "cancelled"), late, "failed"), late)
      live == Live(settled)
      freed == IF Due(r) /\ ParkedFor(r, Expiring \ {"needs-input"}) /\ ~live
               THEN [settled EXCEPT !.state = Running] ELSE settled
      next == Reconcile(freed)
  IN IF (Due(r) \/ (past /\ IsParked(next))) /\ IsParked(next) /\ ~live
     THEN [next EXCEPT !.state =
             Ended(IF HasAccepted(next) THEN "incomplete" ELSE "failed", "park-timeout")]
     ELSE next

Advance(r) == IF IsEnded(r) THEN r
              ELSE IF QuotaReset(r) THEN ResetQuota(r)
              ELSE IF QuotaAskDue(r) THEN AskQuota(r)
              ELSE Expire(r)

\* The snapshot schema's rule for a Run that ended: nothing is left open.
Closed(r) == PhaseIn(r.phase, Settled) = Task /\ r.effects = {}
\* Advance parses the ending it proposes and throws when the rule is broken.
Refused(r) == IsEnded(r) /\ ~Closed(r)

----------------------------------------------------------------------------
(* Steps of the ledger *)

NoAttempt == [obs |-> "none", launch |-> "none", cancel |-> FALSE, closing |-> FALSE]

Init ==
  /\ run = [state |-> Running, cancel |-> FALSE,
            phase |-> [t \in Task |-> "pending"], effects |-> {}, freed |-> {},
            decision |-> [t \in Task |-> NoDecision],
            notBefore |-> [t \in Task |-> 0],
            bind |-> [t \in Task |-> Unbound], prev |-> [t \in Task |-> <<>>]]
  /\ attempt = [t \in Task |-> NoAttempt]
  /\ now = 0

Commit(r) == run' = r /\ UNCHANGED <<attempt, now>>

Tick == now < MaxTime /\ now' = now + 1 /\ UNCHANGED <<run, attempt>>

\* The timer of the runtime and every progression turn (expire, advance).
AdvanceRun == LET next == Advance(run)
              IN ~Refused(next) /\ next # run /\ Commit(next)

\* reserveRunTasks, with the attempts it creates in the same transaction.
Reserve(S) ==
  /\ ~run.cancel /\ run.state.kind = "running"
  /\ S # {} /\ S \subseteq Ready(run.phase, run.effects, run.notBefore, now)
  /\ \A t \in S : run.bind[t].kind = "unbound" /\ Generation(run, t) <= MaxAttempts
  /\ run' = [SetPhases(run, S, "active") EXCEPT
               !.bind = [t \in Task |-> IF t \in S THEN Bound ELSE run.bind[t]]]
  /\ attempt' = [t \in Task |-> IF t \in S THEN NoAttempt ELSE attempt[t]]
  /\ UNCHANGED now

----------------------------------------------------------------------------
(* Before a launch: environment probes and refusals *)

Unobserved(t) == /\ run.bind[t].kind = "none"
                 /\ attempt[t].obs = "none" /\ attempt[t].launch = "none"
Unlaunched(t) == Unobserved(t) /\ run.phase[t] = "active"

\* holdEnvironmentProbes: the slot is held before the first probe container.
HoldProbes(t) ==
  /\ Refusals \cap {"env-refused", "env-uncertain"} # {}
  /\ ~run.cancel /\ Unlaunched(t)
  /\ ~run.bind[t].probes /\ t \notin run.effects
  /\ Commit([run EXCEPT !.effects = @ \cup {t}, !.bind[t].probes = TRUE])

\* recordAttemptClosure, first write: the attempt records the refusal, whatever
\* the Run has become since the preparation began.  Only an environment answer
\* is recorded while the probes are in custody.
RefuseLaunch(t, refusal) ==
  /\ Unobserved(t)
  /\ refusal \in {"handoff-refused", "launch-refused"} => ~run.bind[t].probes
  /\ refusal = "env-uncertain" => run.bind[t].probes
  /\ attempt' = [attempt EXCEPT ![t].obs = refusal, ![t].closing = TRUE]
  /\ UNCHANGED <<run, now>>

\* The writer stops, or loses the compare-and-set of its second write.  The
\* second write is not tried again: an attempt with an observation is refused
\* its preparation (selectReservedTaskProfile).
CloserStops(t) ==
  /\ CloserMayDie /\ attempt[t].closing
  /\ attempt' = [attempt EXCEPT ![t].closing = FALSE] /\ UNCHANGED <<run, now>>

WithoutCustody(r, t) ==
  IF r.bind[t].probes THEN [r EXCEPT !.bind[t].probes = FALSE, !.effects = @ \ {t}] ELSE r

\* observeRunAttemptClosure.  An environment refusal parks the Run and leaves
\* its task pending; any other, or one on a cancelled Run, fails the task.  An
\* uncertain probe keeps the task's slot.
ParksForEnvironment(r, refusal) ==
  \/ refusal = "env-refused" /\ ~r.cancel
  \/ refusal = "env-uncertain"
\* Slip: a refusal is not projected once the Run is cancelled.
CanCloseRunning(r, t) == /\ r.bind[t].kind = "none" /\ r.phase[t] = "active"
                         /\ t \notin r.effects /\ ~r.cancel
CanClose(r, t) == r.bind[t].kind = "none" /\ r.phase[t] = "active" /\ t \notin r.effects
EnvironmentPark(r) ==
  IF r.cancel \/ ParkedFor(r, {"environment-not-ready"}) THEN r.state
  ELSE Parked("environment-not-ready", r.state.hold, now + Timeout)
Closure(r, t, refusal) ==
  Reconcile(
    IF ParksForEnvironment(r, refusal)
    THEN [r EXCEPT !.state = EnvironmentPark(r), !.phase[t] = "pending",
                   !.effects = IF refusal = "env-uncertain" THEN @ \cup {t} ELSE @,
                   !.bind[t].kind = "launch-refused"]
    ELSE [r EXCEPT !.phase[t] = "failed",
                   !.bind[t].kind = IF refusal = "handoff-refused" THEN refusal
                                    ELSE "launch-refused"])
Answered(r, t) == IF attempt[t].obs \in {"env-refused", "env-uncertain"}
                  THEN WithoutCustody(r, t) ELSE r

\* recordAttemptClosure, second write: the Run learns of the refusal.
ProjectClosure(t) ==
  /\ attempt[t].closing /\ ~IsEnded(run)
  /\ CanClose(Answered(run, t), t)
  /\ run' = Closure(Answered(run, t), t, attempt[t].obs)
  /\ attempt' = [attempt EXCEPT ![t].closing = FALSE] /\ UNCHANGED now

\* releaseEnvironmentProbes: the probe path ended, by its controller or, after
\* the controller died, by the next start.
EndProbes(t) ==
  /\ run.bind[t].probes /\ run.phase[t] = "active" /\ t \in run.effects
  /\ LET clear == WithoutCustody(run, t)
     IN \/ /\ attempt[t].obs \in {"env-refused", "env-uncertain"}
           /\ run' = Closure(clear, t, attempt[t].obs)
        \/ /\ attempt[t].obs = "none"
           /\ run' = Reconcile(IF run.cancel \/ attempt[t].cancel
                               THEN SetPhase(clear, t, "cancelled") ELSE clear)
  /\ attempt' = [attempt EXCEPT ![t].closing = FALSE] /\ UNCHANGED now

\* settleEnvironmentProbe: an uncertain probe's container was proven gone.
SettleProbe(t) ==
  /\ run.bind[t].kind = "launch-refused" /\ run.phase[t] = "pending" /\ t \in run.effects
  /\ Commit(Reconcile([run EXCEPT !.effects = @ \ {t},
                                  !.phase[t] = IF run.cancel THEN "cancelled" ELSE @]))

----------------------------------------------------------------------------
(* A launch and what is observed of it *)

Claim(t) ==
  /\ Unlaunched(t) /\ t \notin run.effects /\ ~run.cancel /\ ~attempt[t].cancel
  /\ attempt' = [attempt EXCEPT ![t].launch = "pending"] /\ UNCHANGED <<run, now>>

\* Slip: the grant does not look at cancellation.
GrantRegardless(t) ==
  /\ attempt[t].launch = "pending" /\ attempt[t].obs = "none"
  /\ attempt' = [attempt EXCEPT ![t].launch = "granted"] /\ UNCHANGED <<run, now>>
\* grantDispatchLaunch: cancellation that came first prevents the launch.
GrantLaunch(t) ==
  /\ attempt[t].launch = "pending" /\ attempt[t].obs = "none"
  /\ attempt' = [attempt EXCEPT ![t].launch =
                   IF attempt[t].cancel THEN "prevented" ELSE "granted"]
  /\ run' = IF attempt[t].cancel THEN Reconcile(SetPhase(run, t, "cancelled")) ELSE run
  /\ UNCHANGED now

\* Slip: the task moves and its binding does not.
ProjectPhase(r, t, kind) ==
  [r EXCEPT !.phase[t] = IF kind = "exited" /\ t \notin r.effects THEN "evaluating"
                         ELSE "reconciling",
            !.effects = IF kind = "unknown" THEN @ \cup {t} ELSE @]
\* projectRunAttempt for a launched attempt: the Run shows what it observed.
Project(r, t, kind) ==
  [r EXCEPT !.bind[t].kind = kind,
            !.phase[t] = IF kind = "exited" /\ t \notin r.effects THEN "evaluating"
                         ELSE "reconciling",
            !.effects = IF kind = "unknown" THEN @ \cup {t} ELSE @]

\* finishDispatch: the worker's end, the Run's view of it and, when the
\* attempt was cancelled, its settlement, in one transaction.
Exit(t) ==
  /\ attempt[t].launch = "granted" /\ attempt[t].obs = "none"
  /\ run.phase[t] \in Working
  /\ attempt' = [attempt EXCEPT ![t].obs = "exited"]
  /\ LET seen == Project(run, t, "exited")
     IN run' = IF (run.cancel \/ attempt[t].cancel) /\ seen.phase[t] = "evaluating"
               THEN Reconcile(SetPhase(seen, t, "cancelled")) ELSE seen
  /\ UNCHANGED now

\* fenceLostDispatch: nobody can say what became of the worker.
Lose(t) ==
  /\ attempt[t].launch = "granted" /\ attempt[t].obs = "none"
  /\ run.phase[t] \in {"active", "reconciling"}
  /\ attempt' = [attempt EXCEPT ![t].obs = "unknown"]
  /\ run' = Project(run, t, "unknown") /\ UNCHANGED now

\* releaseWorkerCustody: proof that the lost worker stopped frees its slot.
ReleaseCustody(t) ==
  /\ run.bind[t].kind = "unknown" /\ run.phase[t] = "reconciling"
  /\ t \in run.effects /\ t \notin run.freed
  /\ Commit([run EXCEPT !.freed = @ \cup {t}])

\* continueLostTask: one more attempt for a lost task whose effects are known
\* to be settled, inside the Run's frozen bounds.
\* Slip: the ceiling is met one attempt too late.
CeilingPassed(r, t) == Recovery /\ Len(r.prev[t]) + 1 > AttemptCeiling
CeilingReached(r, t) == Recovery /\ Len(r.prev[t]) + 2 > AttemptCeiling
\* Slip: a lost worker is replaced before it is proven stopped.
LossUnproven(t) == t \in run.effects
LossSettled(t) == t \in run.effects /\ t \in run.freed
ContinueLost(t) ==
  /\ Recovery /\ ~run.cancel /\ ~IsEnded(run)
  /\ run.bind[t].kind = "unknown" /\ run.phase[t] = "reconciling"
  /\ LossSettled(t)
  /\ Count(run, {t}, "lost") < LostPerTask /\ ~CeilingReached(run, t)
  /\ Count(run, Task, "lost") < LostPerRun
  /\ Commit(Reconcile([Supersede(run, {t}, "lost") EXCEPT
       !.phase[t] = "pending", !.effects = @ \ {t}, !.freed = @ \ {t},
       !.notBefore[t] = 0]))

----------------------------------------------------------------------------
(* Evaluation of an exited attempt: commitTaskEvaluation *)

Cancelled(t) == run.cancel \/ attempt[t].cancel
\* assertTaskEvaluationReady: not cancelled, an exit to read, and not too late
\* to answer what already waits.
Evaluable(t) ==
  /\ ~Cancelled(t) /\ ~IsEnded(run) /\ t \notin run.effects
  /\ run.bind[t].kind = "exited" /\ attempt[t].obs = "exited"
  /\ run.phase[t] \in {"evaluating", "awaiting"} /\ t \notin Asking(run)
  /\ t \in Awaiting(run) => ~Due(run) /\ run.decision[t].deadline > now

Wait(r, t, reason) ==
  [r EXCEPT !.phase[t] = "awaiting",
            !.decision[t] = [reason |-> reason,
              deadline |-> IF t \in Awaiting(r) THEN r.decision[t].deadline
                           ELSE now + Timeout]]

\* applyTaskEvaluation: a pass accepts, a failure fails, and what cannot be
\* told waits for a person, with the deadline it may already have.
Evaluate(t, conclusion) ==
  /\ Evaluable(t)
  /\ LET known(phase) == ClearDecisions(SetPhase(run, t, phase), {t})
     IN \/ conclusion = "pass" /\ Commit(Reconcile(known("accepted")))
        \/ conclusion = "fail" /\ Commit(Reconcile(known("failed")))
        \/ conclusion = "unknown" /\ Commit(Reconcile(Wait(run, t, "unknown")))
        \/ conclusion = "needs-input" /\ Commit(Reconcile(Wait(run, t, "needs-input")))

\* An exit the host proves to be a spent quota.  A reset past the bound is
\* remembered as such; otherwise the wait ends at the reset or at the bound.
EvaluateQuota(t, reset) ==
  /\ "quota" \in Conclusions
  /\ Evaluable(t) /\ run.phase[t] = "evaluating"
  /\ LET ahead  == reset > now
         beyond == ahead /\ reset - now > MaxWait
         wait   == [NoWait EXCEPT !.reset = IF ahead THEN reset ELSE 0, !.beyond = beyond,
                      !.deadline = IF ahead /\ ~beyond THEN reset ELSE now + MaxWait]
     IN run' = ParkQuota(run, t, wait)
  /\ attempt' = [attempt EXCEPT ![t].obs = "quota-exhausted"] /\ UNCHANGED now

\* recoverStalledTask: a silent worker's task is tried again after a delay,
\* and fails past its bounds.
EvaluateStall(t) ==
  /\ "stall" \in Conclusions
  /\ Evaluable(t) /\ run.phase[t] = "evaluating"
  /\ LET retry == Count(run, {t}, "stalled") < StallRetries /\ ~CeilingReached(run, t)
     IN Commit(Reconcile(
          IF retry THEN [Supersede(run, {t}, "stalled") EXCEPT
                           !.phase[t] = "pending",
                           !.notBefore[t] = IF Backoff > 0 THEN now + Backoff ELSE 0]
          ELSE SetPhase(run, t, "failed")))

\* parkTaskAwaitingDecision: the evaluation itself could not be made.
\* Slip: the Run is not reclassified after the park of a task.
ParkTaskOnly(t) ==
  /\ "not-ready" \in Conclusions
  /\ run.phase[t] = "evaluating" /\ t \notin run.effects /\ ~run.cancel /\ ~IsEnded(run)
  /\ Commit(Wait(run, t, "not-ready"))
ParkTask(t) ==
  /\ "not-ready" \in Conclusions
  /\ run.phase[t] = "evaluating" /\ t \notin run.effects /\ ~run.cancel /\ ~IsEnded(run)
  /\ Commit(Reconcile(Wait(run, t, "not-ready")))

----------------------------------------------------------------------------
(* People and operators *)

Open(t) == /\ run.phase[t] = "awaiting" /\ t \notin run.effects
           /\ ~run.cancel /\ ~IsEnded(run)
           /\ run.decision[t].deadline > now /\ ~Due(run)

\* resolveTaskDecision: only an unknown evaluation may be accepted by hand.
Resolve(t, verdict) ==
  /\ Open(t)
  /\ verdict = "accepted" => run.decision[t].reason = "unknown"
  /\ Commit(Reconcile(ClearDecisions(SetPhase(run, t, verdict), {t})))

\* answerTaskInput: the answer makes the task eligible for a new attempt.
Answer(t) ==
  /\ Open(t) /\ t \in Asking(run) /\ run.bind[t].kind = "exited"
  /\ LET state == IF ParkedFor(run, {"operator-hold"}) THEN run.state ELSE Released(run)
     IN Commit(Reconcile([ClearDecisions(Supersede(run, {t}, "exited"), {t}) EXCEPT
          !.phase[t] = "pending", !.notBefore[t] = 0, !.state = state]))

\* holdRun: one hold per Run; a safety source replaces an operator's hold and
\* keeps its timing, never the reverse.
Hold(source) ==
  /\ ~run.cancel /\ ~IsEnded(run)
  /\ run.state.hold = "none" \/ (run.state.hold = "operator" /\ source # "operator")
  /\ Commit([run EXCEPT !.state = IF IsParked(run) THEN [@ EXCEPT !.hold = source]
                                  ELSE Held(source, now + Timeout)])

\* parkRunProgression: the runtime gives up on a Run whose turns keep failing.
ParkProgression ==
  /\ ~run.cancel /\ run.state.kind = "running"
  /\ Commit([run EXCEPT !.state = Parked("progression-failed", "none", now + Timeout)])

\* resumeParkedRun: lift the hold, end the park that is the operator's to end,
\* or just let time be seen.
ResumeRun(r) ==
  LET refused == {t \in Binds(r, "launch-refused") : r.phase[t] = "pending"}
  IN IF r.state.hold # "none" /\ ~ParkedFor(r, {"operator-hold"}) /\ ~Due(r)
       THEN [r EXCEPT !.state.hold = "none"]
     ELSE IF ParkedFor(r, {"operator-hold", "progression-failed"}) /\ ~Due(r)
       THEN Reconcile([r EXCEPT !.state = Running])
     ELSE IF ParkedFor(r, {"environment-not-ready"}) /\ ~Due(r)
       THEN Reconcile([Supersede(r, refused, "launch-refused") EXCEPT !.state = Running])
     ELSE Advance(r)
\* A held Run is never resumed by an AI, and a safety hold only by a person at
\* a terminal (proposeRunLifecycleWrite).
Decider == {"person", "human", "ai"}
Resume(decider) ==
  /\ IsParked(run)
  /\ run.state.hold # "none" => decider # "ai"
  /\ run.state.hold = "safety" => decider = "person"
  /\ ParkedFor(run, {"environment-not-ready"}) /\ ~Due(run) /\ run.state.hold = "none"
       => PhaseIn(run.phase, {"pending"}) \cap run.effects = {}
  /\ ~Refused(ResumeRun(run)) /\ Commit(ResumeRun(run))

\* closeParkedRun: the operator ends a parked Run that has no live work.
Close ==
  /\ IsParked(run) /\ ~Live(run)
  /\ LET waiting == Awaiting(run)
         settled == SetPhases(SetPhases(run, PhaseIn(run.phase, {"pending"}), "cancelled"),
                              PhaseIn(run.phase, {"awaiting"}), "failed")
         next == Reconcile(ClearDecisions(settled, waiting))
     IN Commit([next EXCEPT !.state =
          Ended(IF HasAccepted(next) THEN "incomplete" ELSE "failed", "operator-close")])

\* answerRunQuota: a person waits on, or lets the tasks be tried again.
QuotaAnswer(choice) ==
  /\ ParkedFor(run, {"quota-ask"}) /\ ~run.cancel
  /\ LET open   == OpenWaits(run)
         known  == {run.bind[t].wait.reset : t \in open} \ (0 .. now)
         all    == \A t \in open : run.bind[t].wait.reset > now
         until  == IF all THEN Latest(known) ELSE now + MaxWait
         rearmed(w) == [w EXCEPT !.deadline = until, !.rewaits = @ + 1, !.beyond = FALSE]
     IN /\ open # {}
        /\ \/ /\ choice = "wait"
              /\ \A t \in open : run.bind[t].wait.rewaits < MaxRewaits
              /\ Commit([SetWaits(run, open, rearmed) EXCEPT
                   !.state = Parked("quota-exhausted", run.state.hold, until)])
           \/ /\ choice = "next-candidate"
              /\ Commit([Supersede(run, open, "quota-exhausted") EXCEPT
                   !.state = Released(run)])

\* releaseRunQuota: the installation's operator declares a channel usable.
ReleaseQuota(channel) ==
  LET chosen == {t \in OpenWaits(run) : /\ ChannelOf[t] = channel
                                        /\ run.bind[t].wait.deadline > now}
      held   == IF run.cancel \/ IsEnded(run) THEN {}
                ELSE {t \in chosen : run.phase[t] = "pending"}
      left   == Waiting(run) \ chosen
      freed(w) == [w EXCEPT !.released = TRUE]
      state  == IF run.cancel \/ ~ParkedFor(run, {"quota-exhausted"}) THEN run.state
                ELSE IF left # {}
                  THEN Parked("quota-exhausted", run.state.hold, Latest(WaitsOf(run, left)))
                ELSE Released(run)
  IN /\ chosen # {}
     /\ Commit([Supersede(SetWaits(run, chosen, freed), held, "quota-exhausted")
                  EXCEPT !.state = state])

----------------------------------------------------------------------------
(* Cancellation *)

\* propagateRunCancellation: every unfinished attempt learns of it.
Finished == {"exited", "quota-exhausted", "handoff-refused", "launch-refused",
             "env-refused", "env-uncertain"}
CancelAttempts ==
  [t \in Task |-> IF run.bind[t].kind # "unbound" /\ attempt[t].obs \notin Finished
                  THEN [attempt[t] EXCEPT !.cancel = TRUE] ELSE attempt[t]]

\* requestRunCancellation: what has no attempt to wait for closes at once.
\* Slip: cancellation closes whatever is not in work.
CloseSettledToo(r) == {t \in Task : r.phase[t] \notin Working /\ t \notin r.effects}
\* Slip: cancellation closes tasks whose worker is lost.
CloseLostToo(r) == PhaseIn(r.phase, {"awaiting", "reconciling"})
Closable(r) ==
  {t \in Task : r.phase[t] = "pending" /\ t \notin r.effects
                /\ r.bind[t].kind \in {"unbound", "quota-exhausted", "launch-refused"}}
    \cup PhaseIn(r.phase, {"awaiting"})
RequestCancellation(r) ==
  IF r.cancel /\ Closable(r) = {} THEN r
  ELSE Reconcile([ClearDecisions(SetPhases(r, Closable(r), "cancelled"), Awaiting(r))
                    EXCEPT !.cancel = TRUE])

\* settleRunCancellation: an attempt that was never dispatched is prevented,
\* one that exited and was not judged yet is settled as cancelled.
\* Slip: an attempt that was never dispatched is not settled.
SettleExited(r, att) ==
  {t \in Task : /\ t \notin r.effects /\ r.phase[t] = "evaluating"
                /\ r.bind[t].kind = "exited" /\ att[t].obs = "exited"}
Settleable(r, att) ==
  {t \in Task : /\ t \notin r.effects
                /\ \/ /\ r.phase[t] = "active" /\ r.bind[t].kind = "none"
                      /\ att[t].cancel /\ att[t].obs = "none" /\ att[t].launch = "none"
                   \/ /\ r.phase[t] = "evaluating" /\ r.bind[t].kind = "exited"
                      /\ att[t].obs = "exited"}

\* cancelRun: the three in one transaction.
CancelRun ==
  /\ attempt' = CancelAttempts
  /\ LET requested == RequestCancellation(run)
         settled   == Settleable(requested, attempt')
     IN run' = IF settled = {} THEN requested
               ELSE Reconcile(SetPhases(requested, settled, "cancelled"))
  /\ UNCHANGED now

\* requestDispatchCancellation: one dispatched attempt is to stop.
CancelAttempt(t) ==
  /\ run.bind[t].kind # "unbound" /\ attempt[t].launch # "none"
  /\ ~attempt[t].cancel /\ attempt[t].obs \notin Finished
  /\ attempt' = [attempt EXCEPT ![t].cancel = TRUE] /\ UNCHANGED <<run, now>>

----------------------------------------------------------------------------
LaunchStep == \E t \in Task :
  \/ HoldProbes(t) \/ EndProbes(t) \/ SettleProbe(t)
  \/ \E refusal \in Refusals : RefuseLaunch(t, refusal)
  \/ CloserStops(t) \/ ProjectClosure(t)
  \/ Claim(t) \/ GrantLaunch(t) \/ Exit(t) \/ Lose(t)
  \/ ReleaseCustody(t) \/ ContinueLost(t)

EvaluationStep == \E t \in Task :
  \/ \E conclusion \in Conclusions : Evaluate(t, conclusion)
  \/ \E reset \in Resets : EvaluateQuota(t, reset)
  \/ EvaluateStall(t) \/ ParkTask(t)

PersonStep ==
  \/ \E t \in Task : \/ \E verdict \in {"accepted", "failed"} : Resolve(t, verdict)
                     \/ Answer(t)
  \/ \E source \in HoldSources : Hold(source)
  \/ \E decider \in Decider : Resume(decider)
  \/ Close
  \/ \E choice \in {"wait", "next-candidate"} : QuotaAnswer(choice)
  \/ \E channel \in {ChannelOf[t] : t \in Task} : ReleaseQuota(channel)

CancelStep == CancelRun \/ \E t \in Task : CancelAttempt(t)

Next ==
  \/ Tick \/ AdvanceRun \/ ParkProgression
  \/ \E S \in SUBSET Task : Reserve(S)
  \/ LaunchStep \/ EvaluationStep \/ PersonStep \/ CancelStep

Spec == Init /\ [][Next]_vars

\* What the code's own scheduling drives without a person: the clock, the
\* runtime's timer, the supervisor's deadline and observation of a launched
\* worker, the delivery of a cancellation to a claimed launch, and the closing
\* of a refusal or a probe.  A claimed launch whose owner died is nobody's.
Fairness ==
  /\ WF_vars(Tick) /\ WF_vars(AdvanceRun)
  /\ \A t \in Task : /\ WF_vars(attempt[t].cancel /\ GrantLaunch(t))
                     /\ WF_vars(Exit(t) \/ Lose(t))
                     /\ WF_vars(ProjectClosure(t)) /\ WF_vars(EndProbes(t))
                     /\ WF_vars(SettleProbe(t))
FairSpec == Spec /\ Fairness

----------------------------------------------------------------------------
(* Properties *)

StateType == [kind : {"running", "parked", "terminal"},
              why : ParkReason \cup EndReason \cup {"none"}, hold : HoldKind,
              deadline : Horizon, outcome : Outcome \cup {"none"}]
DecisionType == [reason : {"none", "unknown", "not-ready", "needs-input"}, deadline : Horizon]
WaitType == [reset : Horizon, deadline : Horizon, beyond : BOOLEAN,
             rewaits : 0 .. MaxRewaits, released : BOOLEAN]
BindType == [kind : ObservedKind \cup {"unbound"}, probes : BOOLEAN, wait : WaitType]
RunType == [state : StateType, cancel : BOOLEAN, phase : [Task -> Phase],
            effects : SUBSET Task, freed : SUBSET Task,
            decision : [Task -> DecisionType], notBefore : [Task -> Nat],
            bind : [Task -> BindType], prev : [Task -> Seq(ClosedKind)]]
AttemptType == [obs : {"none", "unknown"} \cup Finished,
                launch : {"none", "pending", "granted", "prevented"},
                cancel : BOOLEAN, closing : BOOLEAN]

\* Every variable keeps the shape of the snapshot, the attempt and the clock.
TypeOK == run \in RunType /\ attempt \in [Task -> AttemptType] /\ now \in 0 .. MaxTime

(* The rules the snapshot schema states over a whole Run (contract.ts): code   *)
(* that breaks one throws instead of committing, so each must follow from the  *)
(* reducers alone.                                                             *)

\* A task in work or waiting for a person has an attempt, and one that waits
\* has an attempt that exited.
WorkHasAttempt == \A t \in Task :
  /\ run.phase[t] \in Working \cup {"awaiting"} => run.bind[t].kind # "unbound"
  /\ run.phase[t] = "awaiting" => run.bind[t].kind = "exited" /\ t \notin run.effects

\* Uncertain effects are held only by work that is still open, never by a
\* task that was accepted or skipped or a Run that ended.
EffectsStayOpen == run.effects \subseteq PhaseIn(run.phase, {"active", "reconciling", "pending"})

\* A Run that ended has nothing left to do, and its outcome is that of its tasks.
EndIsHonest == IsEnded(run) =>
  LET accepted == PhaseIn(run.phase, {"accepted"})
  IN /\ Closed(run)
     /\ run.state.outcome = "completed" <=> accepted = Task
     /\ run.state.outcome = "incomplete" => accepted # {}
     /\ run.state.outcome \in {"failed", "cancelled"} => accepted = {}
     /\ run.state.outcome = "cancelled" => run.cancel

\* A park says why: an environment park has a refused attempt, a quota park a
\* spent one, and the parks that stop everything have no work in flight.
ParkHasCause ==
  /\ ParkedFor(run, {"environment-not-ready"}) => Binds(run, "launch-refused") # {}
  /\ ParkedFor(run, {"quota-exhausted"}) => Waiting(run) # {}
  /\ ParkedFor(run, {"awaiting-decision", "dependency"}) => ~Live(run)
  /\ ParkedFor(run, {"operator-hold"}) <=> IsParked(run) /\ run.state.hold # "none"
                                            /\ run.state.why = "operator-hold"

\* A probe in custody belongs to an active task that holds its slot.
ProbeHoldsSlot == \A t \in Task :
  run.bind[t].probes => run.phase[t] = "active" /\ t \in run.effects

\* A question to a person is open exactly while its task waits.
DecisionWhileAwaiting == Awaiting(run) = PhaseIn(run.phase, {"awaiting"})

\* Every snapshot a writer commits parses: no reducer, and no order of them,
\* leads a Run to a state whose own schema refuses it.
SnapshotParses == /\ WorkHasAttempt /\ EffectsStayOpen /\ ParkHasCause
                  /\ ProbeHoldsSlot /\ DecisionWhileAwaiting

(* Waiting and ending *)

\* A running Run has no deadline, so it must have something that can move it:
\* work in flight or, unless it is cancelled, a task that may start now or after
\* its backoff.  A wake-up lost by any of the writers would leave the Run running
\* for ever.
RunningHasWork == run.state.kind = "running" =>
  \/ Live(run)
  \/ /\ ~run.cancel
     /\ \E t \in Task : Startable(run.phase, run.effects, t) /\ run.bind[t].kind = "unbound"

\* Nothing is worked on before the results it needs are accepted and the work
\* it must follow has settled, whatever was retried, answered or resumed since.
StartsInOrder == \A t \in Task :
  run.phase[t] \in Working \cup {"awaiting", "accepted"} =>
    /\ Blocking[t] \subseteq PhaseIn(run.phase, {"accepted"})
    /\ Ordering[t] \subseteq PhaseIn(run.phase, Settled)

\* What was settled stays settled: an accepted result is not revoked and an
\* ended Run is not reopened by a late answer, release, closure or cancellation;
\* nor is a cancellation lost in a reducer that builds the snapshot anew.
SettledIsFinal ==
  [][/\ \A t \in Task : run.phase[t] \in Settled => run'.phase[t] = run.phase[t]
     /\ IsEnded(run) => run'.state = run.state
     /\ run.cancel => run'.cancel]_vars

\* Parks, holds, waits, attempts and time are only ways to keep one promise: a
\* task begins when it has what it needs, nothing begins or is accepted once the
\* Run was cancelled, and the Run ends once, saying what became of its tasks.
Standing == [t \in Task |-> CASE run.phase[t] = "pending" -> "open"
                              [] run.phase[t] = "accepted" -> "accepted"
                              [] run.phase[t] \in Dead -> "closed"
                              [] OTHER -> "begun"]
Verdict == IF IsEnded(run) THEN run.state.outcome ELSE "none"
Promise == INSTANCE RunPromise WITH standing <- Standing, stopping <- run.cancel, outcome <- Verdict
PromiseKept == Promise!Spec

\* A safety hold survives every park the Run enters and leaves: until the Run
\* ends or is cancelled, only a person's resume lifts it (lifecycle.ts holdRun).
SafetyHoldStays ==
  [][run.state.hold = "safety" /\ ~run'.cancel =>
       run'.state.hold = "safety" \/ IsEnded(run') \/ Resume("person")]_vars

(* Attempts *)

\* Once the writer of an observation is done, the Run shows what the attempt
\* recorded: the two records, written by different reducers, never disagree.
Shown(obs) == IF obs \in {"env-refused", "env-uncertain"} THEN "launch-refused" ELSE obs
AttemptProjected == \A t \in Task :
  run.bind[t].kind # "unbound" /\ ~attempt[t].closing => run.bind[t].kind = Shown(attempt[t].obs)

\* An attempt is superseded only when its worker is over: it finished, or it
\* was lost and proven stopped.  No task ever has two workers.
OldAttemptIsOver ==
  [][\A t \in Task : run'.prev[t] # run.prev[t] =>
       attempt[t].obs \in Finished \/ (attempt[t].obs = "unknown" /\ t \in run.freed)]_vars

\* A lost worker keeps its task and its slot until it is proven stopped, through
\* expiry, cancellation, close and everything else.
LostWorkIsKept ==
  [][\A t \in run.effects \ run.freed : run.bind[t].kind = "unknown" =>
       t \in run'.effects /\ run'.phase[t] = "reconciling" /\ run'.bind[t] = run.bind[t]]_vars

\* A launch that had not begun when cancellation was asked for never begins.
CancelledNeverLaunches ==
  [][\A t \in Task : (run.cancel \/ attempt[t].cancel) /\ attempt[t].launch # "granted"
       => attempt'[t].launch # "granted"]_vars

\* The automatic retries of a task, of both kinds and in any mix, stay inside
\* the bounds frozen in its Run.
RetriesBounded ==
  /\ Count(run, Task, "lost") <= LostPerRun
  /\ \A t \in Task :
       /\ Count(run, {t}, "lost") <= LostPerTask
       /\ Count(run, {t}, "stalled") <= StallRetries
       /\ Recovery => \A i \in DOMAIN run.prev[t] :
            run.prev[t][i] \in {"lost", "stalled"} => i < AttemptCeiling

(* Quota *)

\* The tasks held back by a quota that launch as soon as it returns, and those
\* whose launch the environment refused.
PendingWaits(r) == {t \in Waiting(r) : r.phase[t] = "pending"}
RefusedWaits(r) == {t \in Binds(r, "launch-refused") : r.phase[t] = "pending"}

\* A quota park ends at the deadline of one of its waits, and, unless a refusal
\* of the environment took the park over meanwhile, at the latest of them
\* (quota.ts:23-33).
QuotaParkCoversWaits == ParkedFor(run, {"quota-exhausted"}) =>
  /\ run.state.deadline \in WaitsOf(run, Waiting(run))
  /\ RefusedWaits(run) = {} =>
       \A t \in PendingWaits(run) : run.bind[t].wait.deadline <= run.state.deadline

\* A wait for quota never ends the Run by itself (lifecycle.ts:63): while a task
\* waits and nobody holds the Run, the park that runs out asks a person.
QuotaWaitNeverEndsRun ==
  [][ParkedFor(run, {"quota-exhausted"}) /\ run.state.hold = "none"
       /\ PendingWaits(run) # {} /\ ~run.cancel
       => ~(IsEnded(run') /\ run'.state.why = "park-timeout")]_vars

(* Endings that are reached *)

\* The ending that expiry proposes always satisfies the snapshot schema, so that
\* advance never throws.
AdvanceNeverThrows == ~Refused(Advance(run))

\* A cancelled Run ends, unless effects nobody can vouch for keep it open.
CancelEnds == run.cancel ~>
  IsEnded(run) \/ run.effects # {} \/ PhaseIn(run.phase, {"reconciling"}) # {}

\* A park past its deadline with no live work does not last.
DueParkMoves == (Due(run) /\ ~Live(run)) ~> ~(Due(run) /\ ~Live(run))

\* A refusal the attempt recorded reaches the Run.
RefusalReachesRun == \A t \in Task :
  (run.phase[t] = "active" /\ attempt[t].obs \in {"handoff-refused", "launch-refused",
                                                "env-refused", "env-uncertain"})
     ~> run.phase[t] # "active"
=============================================================================
