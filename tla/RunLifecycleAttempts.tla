------------------------ MODULE RunLifecycleAttempts ------------------------
(***************************************************************************)
(* What the Run knows of the attempts of its tasks: the binding it shows,  *)
(* the slot it keeps, the launch that waits, and the attempts superseded.  *)
(*                                                                         *)
(* The Run and its attempts are two records written by different reducers. *)
(* The invariant says, for each kind of binding, which phase the task may  *)
(* be in and what its attempt has recorded.  Every transaction rewrites    *)
(* the tasks it is about and closes, at most, others that wait.            *)
(*                                                                         *)
(* What every step keeps of a task is also what the Run promises of it:    *)
(* RunLifecycle implements RunPromise.                                     *)
(***************************************************************************)
EXTENDS RunLifecycleSafety, FiniteSetTheorems, SequenceTheorems

\* What the Run shows of task t agrees with what its attempt a recorded.
LinkAt(r, a, t) ==
  LET b == r.bind[t]
      p == r.phase[t]
      held == t \in r.effects
  IN /\ b.kind = "unbound" => p \in {"pending"} \cup Settled /\ ~held
     /\ b.kind = "none" => /\ p \in {"active"} \cup Settled
                           /\ a.obs \in {"none"} \cup RefusalKind
                           /\ held => b.probes
     /\ b.kind = "exited" => /\ a.obs = "exited" /\ ~held
                             /\ p \in {"evaluating", "awaiting"} \cup Settled
     /\ b.kind = "unknown" => a.obs = "unknown" /\ p = "reconciling" /\ held
     /\ b.kind = "quota-exhausted" => /\ a.obs = "quota-exhausted" /\ ~held
                                      /\ p \in {"pending"} \cup Settled
     /\ b.kind = "launch-refused" => /\ a.obs \in RefusalKind \ {"handoff-refused"}
                                     /\ p \in {"pending"} \cup Settled
     /\ b.kind = "handoff-refused" => a.obs = "handoff-refused" /\ p \in Settled
     /\ b.probes => b.kind = "none" /\ p = "active" /\ held
     /\ t \in r.freed => b.kind = "unknown"
     /\ a.launch = "granted" /\ a.obs = "none" => b.kind = "none" /\ p = "active" /\ ~held
     /\ a.launch = "pending" => b.kind = "none" /\ (r.cancel => a.cancel)
     /\ a.closing => b.kind = "none"
     /\ CloserMayDie \/ b.kind # "none" \/ a.obs = "none" \/ a.closing
Linked(r, att) == \A t \in Task : LinkAt(r, att[t], t)

\* One more attempt, superseding one that is kept as `as', is inside the bounds.
MayRetry(r, t, as) ==
  /\ as = "lost" => Count(r, {t}, "lost") < LostPerTask /\ Count(r, Task, "lost") < LostPerRun
  /\ as = "stalled" => Count(r, {t}, "stalled") < StallRetries
  /\ as \in {"lost", "stalled"} => ~CeilingReached(r, t)
Offers(r, q, t) ==
  \/ q.prev[t] = r.prev[t]
  \/ \E as \in ClosedKind : q.prev[t] = Append(r.prev[t], as) /\ MayRetry(r, t, as)
\* No automatic retry of task t.
Quiet(r, q, t) ==
  \/ q.prev[t] = r.prev[t]
  \/ \E as \in ClosedKind \ {"lost", "stalled"} : q.prev[t] = Append(r.prev[t], as)

\* What a transaction may not do to task t, whose attempt goes from a to b.
KeptAt(r, q, a, b, t) ==
  /\ Offers(r, q, t)
  /\ q.prev[t] # r.prev[t] => a.obs \in Finished \/ (a.obs = "unknown" /\ t \in r.freed)
  /\ t \in r.effects \ r.freed /\ r.bind[t].kind = "unknown" =>
       t \in q.effects /\ q.phase[t] = "reconciling" /\ q.bind[t] = r.bind[t]
  /\ (r.cancel \/ a.cancel) /\ a.launch # "granted" => b.launch # "granted"
  /\ q.phase[t] = "accepted" =>
       r.phase[t] = "accepted" \/ (~r.cancel /\ r.bind[t].kind = "exited")
StepAt(r, q, a, b, t) == LinkAt(q, b, t) /\ KeptAt(r, q, a, b, t)

\* A transaction leaves task t alone, or closes it while it waits.
Same(r, q, t) ==
  /\ q.bind[t] = r.bind[t] /\ q.prev[t] = r.prev[t]
  /\ t \in q.effects <=> t \in r.effects
  /\ t \in q.freed <=> t \in r.freed
  /\ \/ q.phase[t] = r.phase[t]
     \/ r.phase[t] \in {"pending", "awaiting"} /\ q.phase[t] \in Dead
Follows(r, q, S) == (q.cancel => r.cancel) /\ \A t \in Task \ S : Same(r, q, t)

----------------------------------------------------------------------------
(* Steps about some tasks *)

\* Closing a task that waits leaves its records in agreement.
LEMMA LinkCloses ==
  ASSUME NEW r, NEW q, NEW t \in Task, NEW a, LinkAt(r, a, t), Same(r, q, t),
         q.cancel => r.cancel \/ a.cancel
  PROVE  LinkAt(q, a, t)
  BY DEF LinkAt, Same, Settled, Dead

\* Tasks left alone twice are left alone.
LEMMA SameTwice ==
  ASSUME NEW r, NEW m, NEW q, NEW t, Same(r, m, t), Same(m, q, t) PROVE Same(r, q, t)
  BY DEF Same, Settled, Dead

\* What follows a step that follows another follows both.
LEMMA FollowsTwice ==
  ASSUME NEW r, NEW m, NEW q, NEW S, Follows(r, m, S), Follows(m, q, {}) PROVE Follows(r, q, S)
  BY SameTwice DEF Follows

\* A task left alone stays in agreement and keeps its lost worker and its attempts.
LEMMA SameStep ==
  ASSUME NEW r, NEW q, NEW t \in Task, NEW a, LinkAt(r, a, t), Same(r, q, t), q.cancel => r.cancel
  PROVE  StepAt(r, q, a, a, t)
<1>1. LinkAt(q, a, t) BY LinkCloses
<1>2. KeptAt(r, q, a, a, t) BY DEF KeptAt, Same, LinkAt, Offers, Dead
<1> QED BY <1>1, <1>2 DEF StepAt

\* A step about a task, and what is closed after it.
LEMMA StepThen ==
  ASSUME NEW r, NEW m, NEW q, NEW t \in Task, NEW a, NEW b, StepAt(r, m, a, b, t), Same(m, q, t),
         q.cancel => m.cancel
  PROVE  StepAt(r, q, a, b, t)
<1>1. LinkAt(q, b, t) BY LinkCloses DEF StepAt
<1>2. Offers(r, q, t) BY DEF StepAt, KeptAt, Same, Offers
<1>3. KeptAt(r, q, a, b, t) BY <1>2 DEF StepAt, KeptAt, Same, Dead
<1> QED BY <1>1, <1>3 DEF StepAt

\* Every task takes a legal step, and at most one of them is tried again by the
\* Run itself.
Steps == /\ \A t \in Task : StepAt(run, run', attempt[t], attempt'[t], t)
         /\ \/ \A t \in Task : Quiet(run, run', t)
            \/ \E t \in Task : \A u \in Task \ {t} : run'.prev[u] = run.prev[u]

\* A transaction is a change of the tasks it is about, then a reclassification.
LEMMA StepOf ==
  ASSUME Linked(run, attempt), NEW S, NEW mid, Follows(run, mid, S), Follows(mid, run', {}),
         \A t \in Task \ S : attempt'[t] = attempt[t],
         \A t \in Task \cap S : StepAt(run, mid, attempt[t], attempt'[t], t),
         \/ \A t \in Task \cap S : Quiet(run, mid, t)
         \/ \E t \in Task : S = {t}
  PROVE  Steps
<1>1. ASSUME NEW t \in Task PROVE StepAt(run, run', attempt[t], attempt'[t], t)
  <2>1. StepAt(run, mid, attempt[t], attempt'[t], t)
    <3>1. CASE t \notin S
      <4>1. LinkAt(run, attempt[t], t) /\ Same(run, mid, t) /\ (mid.cancel => run.cancel)
        BY <3>1 DEF Linked, Follows
      <4>2. StepAt(run, mid, attempt[t], attempt[t], t) BY <4>1, SameStep
      <4> QED BY <3>1, <4>2
    <3> QED BY <3>1
  <2> QED BY <2>1, StepThen DEF Follows
<1>2. \A t \in Task : run'.prev[t] = mid.prev[t] BY DEF Follows, Same
<1>3. \A t \in Task \ S : run'.prev[t] = run.prev[t] BY <1>2 DEF Follows, Same
<1>4. CASE \A t \in Task \cap S : Quiet(run, mid, t)
  <2>1. \A t \in Task : Quiet(run, run', t) BY <1>2, <1>3, <1>4 DEF Quiet
  <2> QED BY <1>1, <2>1 DEF Steps
<1>5. CASE \E t \in Task : S = {t} BY <1>1, <1>3, <1>5 DEF Steps
<1> QED BY <1>4, <1>5

\* A transaction that only closes what waits.
LEMMA StepClosing ==
  ASSUME Linked(run, attempt), Follows(run, run', {}), attempt' = attempt PROVE Steps
<1>1. Follows(run', run', {}) BY DEF Follows, Same
<1> QED BY <1>1, StepOf

\* Nothing is left alone more than by doing nothing.
LEMMA FollowsSelf == \A r, S : Follows(r, r, S) BY DEF Follows, Same

\* Reclassification closes pending tasks only.
LEMMA ReconcileFollows ==
  ASSUME NEW r \in RunType, Clock PROVE Follows(r, Reconcile(r), {})
<1>1. ASSUME NEW t \in Task
      PROVE  \/ SkipDoomed(r.phase)[t] = r.phase[t]
             \/ r.phase[t] = "pending" /\ SkipDoomed(r.phase)[t] = "skipped"
  BY DEF SkipDoomed, Doomed, PhaseIn
<1> QED BY <1>1, ReconcileFits DEF Follows, Same, Settled, Dead

\* Passed deadlines close tasks that wait, whatever else they do to the Run.
LEMMA ExpireFollows ==
  ASSUME NEW r \in RunType, Clock, Sound(r) PROVE Follows(r, Expire(r), {})
<1> DEFINE drop == IF Due(r) /\ ParkedFor(r, Expiring)
                   THEN PhaseIn(r.phase, {"pending"}) \ r.effects ELSE {}
           late == {t \in Awaiting(r) : r.decision[t].deadline <= now \/ Due(r)}
           past == \E t \in Task : r.decision[t].reason # "none" /\ r.decision[t].deadline <= now
           dropped == SetPhases(r, drop, "cancelled")
           failed == SetPhases(dropped, late, "failed")
           settled == ClearDecisions(failed, late)
           freed == IF Due(r) /\ ParkedFor(r, Expiring \ {"needs-input"}) /\ ~Live(settled)
                    THEN [settled EXCEPT !.state = Running] ELSE settled
           next == Reconcile(freed)
           end == Ended(IF HasAccepted(next) THEN "incomplete" ELSE "failed", "park-timeout")
           ended == [next EXCEPT !.state = end]
<1>1. late \subseteq PhaseIn(r.phase, {"awaiting"}) BY DEF Sound, Asks
<1>2. drop \subseteq PhaseIn(r.phase, {"pending"}) OBVIOUS
<1> HIDE DEF drop
<1>3. dropped \in RunType /\ failed \in RunType /\ settled \in RunType
  BY SetPhasesFits, ClearDecisionsFits, DeadlinesFit DEF Phase
<1> HIDE DEF late
<1>4. /\ settled.effects = r.effects /\ settled.freed = r.freed /\ settled.bind = r.bind
      /\ settled.prev = r.prev /\ settled.cancel = r.cancel
      /\ \A t \in Task : settled.phase[t] = IF t \in late THEN "failed"
                                            ELSE IF t \in drop THEN "cancelled" ELSE r.phase[t]
  BY DEF SetPhases, ClearDecisions, RunType
<1> HIDE DEF settled, failed, dropped
<1>5. Follows(r, settled, {}) BY <1>1, <1>2, <1>4 DEF Follows, Same, PhaseIn, Settled, Dead
<1>6. /\ freed \in RunType /\ freed.phase = settled.phase /\ freed.effects = settled.effects
      /\ freed.freed = settled.freed /\ freed.bind = settled.bind /\ freed.prev = settled.prev
      /\ freed.cancel = settled.cancel
  BY <1>3, SetStateFits, StatesFit DEF RunType
<1> HIDE DEF freed
<1>7. Follows(settled, freed, {}) BY <1>6 DEF Follows, Same
<1>8. Follows(freed, next, {}) /\ next \in RunType BY <1>6, ReconcileFollows, ReconcileFits
<1> HIDE DEF next
<1>9. Follows(next, ended, {}) BY <1>8 DEF Follows, Same, RunType
<1> HIDE DEF ended
<1>10. Follows(r, next, {}) /\ Follows(r, ended, {}) BY <1>5, <1>7, <1>8, <1>9, FollowsTwice
<1>11. Expire(r) \in {next, ended}
  BY Zenon DEF Expire, ended, end, drop, late, past, dropped, failed, settled, freed, next
<1> QED BY <1>10, <1>11

----------------------------------------------------------------------------
(* Superseded attempts *)

\* An attempt that ended leaves nothing: its task may be offered again.
LEMMA LinkRetires ==
  ASSUME NEW r, NEW q, NEW t \in Task, NEW a, LinkAt(r, a, t),
         r.bind[t].kind \notin {"unbound", "none"}, q.bind[t] = Unbound,
         q.phase[t] \in {"pending"} \cup Settled, t \notin q.effects, t \notin q.freed
  PROVE  LinkAt(q, a, t)
  BY DEF LinkAt, Unbound

\* The attempts of the tasks of S, of a kind that is over, are superseded.
Retires(r, q, S, as) ==
  /\ q.cancel = r.cancel /\ q.effects = r.effects /\ q.freed = r.freed /\ q.phase = r.phase
  /\ \A t \in Task : /\ q.bind[t] = IF t \in S THEN Unbound ELSE r.bind[t]
                     /\ q.prev[t] = IF t \in S THEN Append(r.prev[t], as) ELSE r.prev[t]

\* Superseding attempts writes bindings and nothing else.
LEMMA SupersedeRetires ==
  ASSUME NEW r \in RunType, NEW S, NEW as \in ClosedKind
  PROVE  Retires(r, Supersede(r, S, as), S, as)
  BY DEF Supersede, Retires, RunType

\* The waits and refusals that are superseded were over and held no slot.
LEMMA RetireStep ==
  ASSUME NEW r \in RunType, NEW q, NEW S, NEW as \in {"quota-exhausted", "launch-refused"},
         Retires(r, q, S, as), NEW t \in Task \cap S, NEW a, LinkAt(r, a, t), r.bind[t].kind \in {"quota-exhausted", "launch-refused"},
         r.phase[t] \in {"pending"} \cup Settled, t \notin r.effects
  PROVE  StepAt(r, q, a, a, t) /\ Quiet(r, q, t)
<1>1. q.bind[t] = Unbound /\ q.phase[t] = r.phase[t] /\ t \notin q.effects /\ t \notin q.freed
  BY DEF Retires, LinkAt
<1>2. LinkAt(q, a, t) BY <1>1, LinkRetires
<1>3. a.obs \in Finished BY DEF LinkAt, Finished, RefusalKind
<1>4. Quiet(r, q, t) /\ Offers(r, q, t)
  <2>1. q.prev[t] = Append(r.prev[t], as) BY DEF Retires
  <2>2. as \in ClosedKind \ {"lost", "stalled"} BY DEF ClosedKind
  <2> QED BY <2>1, <2>2 DEF Quiet, Offers, MayRetry
<1>5. KeptAt(r, q, a, a, t) BY <1>1, <1>3, <1>4 DEF KeptAt
<1> QED BY <1>2, <1>4, <1>5 DEF StepAt

\* Other tasks are left alone.
LEMMA RetireFollows ==
  ASSUME NEW r, NEW q, NEW S, NEW as, Retires(r, q, S, as) PROVE Follows(r, q, S)
  BY DEF Retires, Follows, Same

\* A step that only writes the state, and what it closes.
Restates(r, q) == /\ q.cancel = r.cancel /\ q.effects = r.effects /\ q.freed = r.freed
                  /\ q.phase = r.phase /\ q.bind = r.bind /\ q.prev = r.prev
LEMMA RestateFollows == ASSUME NEW r, NEW q, NEW S, Restates(r, q) PROVE Follows(r, q, S)
  BY DEF Restates, Follows, Same

\* Writing the state of a Run changes nothing its attempts can tell.
LEMMA StateRestates ==
  ASSUME NEW r \in RunType, NEW state PROVE Restates(r, [r EXCEPT !.state = state])
  BY DEF Restates, RunType

\* Time supersedes the waits of a quota that was reset, and closes what waits.
LEMMA AdvanceSteps ==
  ASSUME NEW r \in RunType, Clock, Sound(r), NEW att, Linked(r, att)
  PROVE  \E S \in SUBSET Task, m \in RunType :
           /\ Follows(r, m, S) /\ Follows(m, Advance(r), {})
           /\ \A t \in S : StepAt(r, m, att[t], att[t], t) /\ Quiet(r, m, t)
<1>1. CASE Advance(r) = r
  <2>1. Follows(r, r, {}) BY FollowsSelf
  <2> QED BY <1>1, <2>1
<1>2. CASE Advance(r) = Expire(r)
  <2>1. Follows(r, r, {}) /\ Follows(r, Expire(r), {}) BY FollowsSelf, ExpireFollows
  <2> QED BY <1>2, <2>1
<1>3. CASE Advance(r) = AskQuota(r)
  <2>1. Follows(r, AskQuota(r), {}) BY StateRestates, RestateFollows DEF AskQuota
  <2>2. Follows(r, r, {}) BY FollowsSelf
  <2> QED BY <1>3, <2>1, <2>2
<1>4. CASE Advance(r) = ResetQuota(r)
  <2> DEFINE S == Waiting(r)
             m == Supersede(r, S, "quota-exhausted")
  <2>1. m \in RunType BY SupersedeFits, DeadlinesFit DEF ClosedKind
  <2>2. Retires(r, m, S, "quota-exhausted") BY SupersedeRetires DEF ClosedKind
  <2>3. Follows(m, Advance(r), {}) BY <1>4, <2>1, StateRestates, RestateFollows DEF ResetQuota
  <2>4. S \in SUBSET Task BY DEF Waiting, Binds
  <2>5. ASSUME NEW t \in S PROVE StepAt(r, m, att[t], att[t], t) /\ Quiet(r, m, t)
    <3>1. LinkAt(r, att[t], t) BY <2>4 DEF Linked
    <3>2. r.bind[t].kind = "quota-exhausted" BY DEF Waiting, Binds
    <3>3. r.phase[t] \in {"pending"} \cup Settled /\ t \notin r.effects BY <3>1, <3>2 DEF LinkAt
    <3> HIDE DEF m, S
    <3> QED BY <2>2, <2>4, <3>1, <3>2, <3>3, RetireStep
  <2> HIDE DEF m, S
  <2>6. Follows(r, m, S) BY <2>2, RetireFollows
  <2> QED BY <2>1, <2>3, <2>4, <2>5, <2>6
<1>5. Advance(r) \in {r, ResetQuota(r), AskQuota(r), Expire(r)} BY DEF Advance
<1> QED BY <1>1, <1>2, <1>3, <1>4, <1>5

----------------------------------------------------------------------------
(* Time and the operator *)

\* What both records of a Run agree on when a transaction begins.
Traced == TypeOK /\ TypeOK' /\ Inv /\ Linked(run, attempt)

\* What every transaction starts and ends with.
LEMMA TracedTypes ==
  ASSUME Traced
  PROVE  /\ run \in RunType /\ run' \in RunType /\ Clock /\ Sound(run)
         /\ attempt \in [Task -> AttemptType] /\ attempt' \in [Task -> AttemptType]
  BY DEF Traced, TypeOK, Clock, Inv

\* A transaction that only writes the state of the Run.
LEMMA StateSteps ==
  ASSUME Traced, NEW state, Commit([run EXCEPT !.state = state]) PROVE Steps
<1>1. Follows(run, run', {}) BY TracedTypes, StateRestates, RestateFollows DEF Commit
<1> QED BY <1>1, StepClosing DEF Commit, Traced

\* A transaction that advances the Run.
LEMMA AdvancingSteps == ASSUME Traced, Commit(Advance(run)) PROVE Steps
<1>1. PICK S \in SUBSET Task, m \in RunType :
        /\ Follows(run, m, S) /\ Follows(m, Advance(run), {})
        /\ \A t \in S : StepAt(run, m, attempt[t], attempt[t], t) /\ Quiet(run, m, t)
  BY TracedTypes, AdvanceSteps DEF Traced
<1>2. run' = Advance(run) /\ attempt' = attempt BY DEF Commit
<1>3. /\ \A t \in Task \ S : attempt'[t] = attempt[t]
      /\ \A t \in Task \cap S : StepAt(run, m, attempt[t], attempt'[t], t)
      /\ \A t \in Task \cap S : Quiet(run, m, t)
  BY <1>1, <1>2
<1> QED BY <1>1, <1>2, <1>3, StepOf DEF Traced

\* The clock, the runtime's timer and its progression park.
LEMMA TimeSteps == ASSUME Traced, Tick \/ AdvanceRun \/ ParkProgression PROVE Steps
<1>1. CASE Tick
  <2>1. Follows(run, run', {}) BY <1>1, FollowsSelf DEF Tick
  <2> QED BY <1>1, <2>1, StepClosing DEF Tick, Traced
<1>2. CASE AdvanceRun BY <1>2, AdvancingSteps DEF AdvanceRun
<1>3. CASE ParkProgression BY <1>3, StateSteps DEF ParkProgression
<1> QED BY <1>1, <1>2, <1>3

\* A reservation binds tasks that had no attempt, with a new one.
LEMMA ReserveSteps == ASSUME Traced, NEW S \in SUBSET Task, Reserve(S) PROVE Steps
<1>1. /\ run' = [SetPhases(run, S, "active") EXCEPT
                   !.bind = [t \in Task |-> IF t \in S THEN Bound ELSE run.bind[t]]]
      /\ \A t \in Task : attempt'[t] = IF t \in S THEN NoAttempt ELSE attempt[t]
      /\ \A t \in S : run.bind[t].kind = "unbound" /\ t \notin run.effects
  BY DEF Reserve, Ready, Startable
<1>2. /\ run'.cancel = run.cancel /\ run'.effects = run.effects /\ run'.freed = run.freed
      /\ run'.prev = run.prev
      /\ \A t \in Task : /\ run'.phase[t] = IF t \in S THEN "active" ELSE run.phase[t]
                         /\ run'.bind[t] = IF t \in S THEN Bound ELSE run.bind[t]
  BY <1>1, TracedTypes DEF SetPhases, RunType
<1>3. Follows(run, run', S) BY <1>2 DEF Follows, Same
<1>4. ASSUME NEW t \in S PROVE StepAt(run, run', attempt[t], attempt'[t], t) /\ Quiet(run, run', t)
  <2>1. LinkAt(run, attempt[t], t) BY DEF Traced, Linked
  <2>2. t \notin run'.freed BY <1>1, <1>2, <2>1 DEF LinkAt
  <2>3. LinkAt(run', attempt'[t], t)
    BY <1>1, <1>2, <2>2 DEF LinkAt, Bound, Unbound, NoAttempt
  <2>4. KeptAt(run, run', attempt[t], attempt'[t], t)
    BY <1>1, <1>2 DEF KeptAt, Offers, NoAttempt
  <2> QED BY <1>2, <2>3, <2>4 DEF StepAt, Quiet
<1>5. Follows(run', run', {}) BY FollowsSelf
<1> QED BY <1>1, <1>3, <1>4, <1>5, StepOf DEF Traced

\* A resume supersedes refusals that hold no slot: one whose probes may still
\* run keeps its attempt.
LEMMA ResumeSteps == ASSUME Traced, NEW decider \in Decider, Resume(decider) PROVE Steps
<1> DEFINE r == run
           refused == {t \in Binds(r, "launch-refused") : r.phase[t] = "pending"}
           lifted == [r EXCEPT !.state.hold = "none"]
           again == [r EXCEPT !.state = Running]
           old == Supersede(r, refused, "launch-refused")
           anew == [old EXCEPT !.state = Running]
           free == PhaseIn(r.phase, {"pending"}) \cap r.effects = {}
<1>1. run \in RunType /\ Clock BY TracedTypes
<1>2. Commit(ResumeRun(run)) BY DEF Resume
<1>3. CASE ResumeRun(run) = lifted
  <2>1. lifted = [run EXCEPT !.state = [run.state EXCEPT !.hold = "none"]] BY <1>1 DEF RunType
  <2> QED BY <1>2, <1>3, <2>1, StateSteps
<1>4. CASE ResumeRun(run) = Reconcile(again)
  <2>1. again \in RunType /\ Follows(run, again, {})
    BY <1>1, SetStateFits, StatesFit, StateRestates, RestateFollows
  <2> HIDE DEF again
  <2>2. Follows(run, run', {}) /\ attempt' = attempt
    BY <1>1, <1>2, <1>4, <2>1, ReconcileFollows, FollowsTwice DEF Commit
  <2> QED BY <2>2, StepClosing DEF Traced
<1>5. CASE ResumeRun(run) = Reconcile(anew) /\ free
  <2>1. old \in RunType BY <1>1, SupersedeFits, DeadlinesFit DEF ClosedKind
  <2>2. Retires(run, old, refused, "launch-refused") BY <1>1, SupersedeRetires DEF ClosedKind
  <2>3. refused \in SUBSET Task BY DEF Binds
  <2>4. ASSUME NEW t \in refused
        PROVE  StepAt(run, old, attempt[t], attempt[t], t) /\ Quiet(run, old, t)
    <3>1. LinkAt(run, attempt[t], t) BY <2>3 DEF Traced, Linked
    <3>2. run.bind[t].kind = "launch-refused" /\ run.phase[t] = "pending" BY DEF Binds
    <3>3. t \notin run.effects BY <1>5, <2>3, <3>2 DEF PhaseIn
    <3> HIDE DEF old, refused
    <3> QED BY <1>1, <2>2, <2>3, <3>1, <3>2, <3>3, RetireStep
  <2>5. Follows(run, old, refused) BY <2>2, RetireFollows
  <2> HIDE DEF old
  <2>6. anew \in RunType /\ Follows(old, anew, {})
    BY <2>1, SetStateFits, StatesFit, StateRestates, RestateFollows
  <2> HIDE DEF anew, refused
  <2>7. Follows(old, run', {}) /\ attempt' = attempt
    BY <1>1, <1>2, <1>5, <2>6, ReconcileFollows, FollowsTwice DEF Commit
  <2> QED BY <2>3, <2>4, <2>5, <2>7, StepOf DEF Traced
<1>6. CASE ResumeRun(run) = Advance(run) BY <1>2, <1>6, AdvancingSteps
<1>7. ResumeRun(run) \in {lifted, Reconcile(again), Advance(run)}
      \/ (ResumeRun(run) = Reconcile(anew) /\ ParkedFor(run, {"environment-not-ready"})
          /\ ~Due(run) /\ (run.state.hold = "none" \/ ParkedFor(run, {"operator-hold"})))
  BY Zenon DEF ResumeRun, refused, lifted, again, old, anew
<1>8. ParkedFor(run, {"environment-not-ready"}) => ~ParkedFor(run, {"operator-hold"})
  BY DEF ParkedFor
<1>9. ParkedFor(run, {"environment-not-ready"}) /\ ~Due(run) /\ run.state.hold = "none" => free
  BY DEF Resume
<1> QED BY <1>3, <1>4, <1>5, <1>6, <1>7, <1>8, <1>9

\* A close settles what waits, of a Run with no live work.
LEMMA CloseSteps == ASSUME Traced, Close PROVE Steps
<1> DEFINE dropped == SetPhases(run, PhaseIn(run.phase, {"pending"}), "cancelled")
           settled == SetPhases(dropped, PhaseIn(run.phase, {"awaiting"}), "failed")
           q == ClearDecisions(settled, Awaiting(run))
           next == Reconcile(q)
           end == Ended(IF HasAccepted(next) THEN "incomplete" ELSE "failed", "operator-close")
           ended == [next EXCEPT !.state = end]
<1>1. run \in RunType /\ Clock BY TracedTypes
<1>2. Commit(ended) BY DEF Close
<1>3. dropped \in RunType /\ settled \in RunType /\ q \in RunType
  BY <1>1, SetPhasesFits, ClearDecisionsFits, DeadlinesFit DEF Phase
<1>4. Follows(run, q, {})
  <2>1. /\ q.effects = run.effects /\ q.cancel = run.cancel /\ q.freed = run.freed
        /\ q.bind = run.bind /\ q.prev = run.prev
        /\ \A t \in Task : q.phase[t] = IF run.phase[t] = "awaiting" THEN "failed"
                                        ELSE IF run.phase[t] = "pending" THEN "cancelled"
                                        ELSE run.phase[t]
    BY <1>1 DEF SetPhases, ClearDecisions, RunType, PhaseIn
  <2> HIDE DEF q
  <2> QED BY <2>1 DEF Follows, Same, Settled, Dead
<1> HIDE DEF q
<1>5. Follows(q, next, {}) /\ next \in RunType BY <1>1, <1>3, ReconcileFollows, ReconcileFits
<1> HIDE DEF next
<1>6. Follows(next, ended, {}) BY <1>5, StateRestates, RestateFollows
<1> HIDE DEF ended
<1>7. Follows(run, run', {}) BY <1>2, <1>4, <1>5, <1>6, FollowsTwice DEF Commit
<1> QED BY <1>2, <1>7, StepClosing DEF Commit, Traced

\* A hold, a resume or a close.
LEMMA OperatorSteps ==
  ASSUME Traced,
         \/ \E source \in HoldSources : Hold(source)
         \/ \E decider \in Decider : Resume(decider)
         \/ Close
  PROVE  Steps
<1>1. ASSUME NEW source \in HoldSources, Hold(source) PROVE Steps BY <1>1, StateSteps DEF Hold
<1> QED BY <1>1, ResumeSteps, CloseSteps

----------------------------------------------------------------------------
(* Refusals and probes *)

\* A transaction about one task, and what it closes.
LEMMA StepOne ==
  ASSUME Traced, NEW t \in Task, NEW mid, Follows(run, mid, {t}), Follows(mid, run', {}),
         \A u \in Task \ {t} : attempt'[u] = attempt[u],
         StepAt(run, mid, attempt[t], attempt'[t], t)
  PROVE  Steps
  BY StepOf DEF Traced

\* A transaction of one attempt, the Run unmoved.
LEMMA StepAlone ==
  ASSUME Traced, NEW t \in Task, run' = run,
         \A u \in Task \ {t} : attempt'[u] = attempt[u], LinkAt(run, attempt'[t], t),
         run.cancel \/ attempt[t].cancel => attempt'[t].launch = attempt[t].launch
  PROVE  Steps
<1>1. KeptAt(run, run, attempt[t], attempt'[t], t)
  <2>1. LinkAt(run, attempt[t], t) BY DEF Traced, Linked
  <2> QED BY <2>1 DEF KeptAt, Offers, LinkAt
<1>2. Follows(run, run, {t}) /\ Follows(run, run', {}) BY FollowsSelf
<1> QED BY <1>1, <1>2, StepOne DEF StepAt

\* A step about a task whose worker is not lost, which keeps its attempts.
LEMMA KeptQuietly ==
  ASSUME NEW r, NEW q, NEW a, NEW b, NEW t, q.prev[t] = r.prev[t],
         r.bind[t].kind # "unknown", b.launch # "granted" \/ b.launch = a.launch,
         q.phase[t] = "accepted" => r.phase[t] = "accepted"
  PROVE  KeptAt(r, q, a, b, t)
  BY DEF KeptAt, Offers

\* The attempt of a task with its records, as a transaction about it finds them.
LEMMA TracedAt ==
  ASSUME Traced, NEW t \in Task
  PROVE  /\ LinkAt(run, attempt[t], t) /\ attempt[t] \in AttemptType
         /\ attempt[t].closing => attempt[t].obs # "none"
         /\ attempt[t].launch = "pending" => /\ attempt[t].obs = "none" /\ t \notin run.effects
                                             /\ run.phase[t] = "active"
  BY DEF Traced, Linked, TypeOK, Inv, Launches

\* Refusals recorded by the attempt alone, claims, and requests to stop.
LEMMA AttemptSteps ==
  ASSUME Traced, NEW t \in Task,
         \/ \E refusal \in Refusals : RefuseLaunch(t, refusal)
         \/ CloserStops(t) \/ Claim(t) \/ CancelAttempt(t)
  PROVE  Steps
<1>1. /\ run' = run /\ \A u \in Task \ {t} : attempt'[u] = attempt[u]
      /\ LinkAt(run, attempt[t], t) /\ attempt[t] \in AttemptType
  BY TracedAt DEF Traced, TypeOK, RefuseLaunch, CloserStops, Claim, CancelAttempt
<1>2. attempt \in [Task -> AttemptType] BY TracedTypes
<1>3. ASSUME NEW refusal \in Refusals, RefuseLaunch(t, refusal)
      PROVE  LinkAt(run, attempt'[t], t) /\ attempt'[t].launch = attempt[t].launch
  <2>1. /\ attempt'[t] = [attempt[t] EXCEPT !.obs = refusal, !.closing = TRUE]
        /\ run.bind[t].kind = "none" /\ attempt[t].launch = "none"
    BY <1>2, <1>3 DEF RefuseLaunch, Unobserved
  <2>2. refusal \in RefusalKind BY Bounds
  <2>3. /\ attempt'[t].obs = refusal /\ attempt'[t].closing /\ attempt'[t].launch = "none"
    BY <1>1, <2>1 DEF AttemptType
  <2> QED BY <1>1, <2>1, <2>2, <2>3 DEF LinkAt, RefusalKind
<1>4. CASE CloserStops(t)
  <2>1. /\ CloserMayDie /\ attempt'[t] = [attempt[t] EXCEPT !.closing = FALSE]
    BY <1>2, <1>4 DEF CloserStops
  <2>2. /\ attempt'[t].obs = attempt[t].obs /\ ~attempt'[t].closing
        /\ attempt'[t].launch = attempt[t].launch /\ attempt'[t].cancel = attempt[t].cancel
    BY <1>1, <2>1 DEF AttemptType
  <2>3. LinkAt(run, attempt'[t], t) BY <1>1, <2>1, <2>2 DEF LinkAt
  <2> QED BY <1>1, <2>2, <2>3, StepAlone
<1>5. CASE Claim(t)
  <2>1. /\ attempt'[t] = [attempt[t] EXCEPT !.launch = "pending"]
        /\ run.bind[t].kind = "none" /\ ~run.cancel /\ ~attempt[t].cancel
    BY <1>2, <1>5 DEF Claim, Unlaunched, Unobserved
  <2>2. /\ attempt'[t].obs = attempt[t].obs /\ attempt'[t].launch = "pending"
        /\ attempt'[t].closing = attempt[t].closing
    BY <1>1, <2>1 DEF AttemptType
  <2>3. LinkAt(run, attempt'[t], t) BY <1>1, <2>1, <2>2 DEF LinkAt
  <2> QED BY <1>1, <2>1, <2>3, StepAlone
<1>6. CASE CancelAttempt(t)
  <2>1. attempt'[t] = [attempt[t] EXCEPT !.cancel = TRUE] BY <1>2, <1>6 DEF CancelAttempt
  <2>2. /\ attempt'[t].obs = attempt[t].obs /\ attempt'[t].launch = attempt[t].launch
        /\ attempt'[t].closing = attempt[t].closing /\ attempt'[t].cancel
    BY <1>1, <2>1 DEF AttemptType
  <2>3. LinkAt(run, attempt'[t], t) BY <1>1, <2>2 DEF LinkAt
  <2> QED BY <1>1, <2>2, <2>3, StepAlone
<1> QED BY <1>1, <1>3, <1>4, <1>5, <1>6, StepAlone

\* Probes put in custody hold the slot of their task.
LEMMA HoldProbesSteps == ASSUME Traced, NEW t \in Task, HoldProbes(t) PROVE Steps
<1>1. run \in RunType /\ LinkAt(run, attempt[t], t) BY TracedTypes, TracedAt
<1>2. /\ run' = [run EXCEPT !.effects = run.effects \cup {t}, !.bind[t].probes = TRUE]
      /\ attempt' = attempt /\ run.bind[t].kind = "none" /\ run.phase[t] = "active"
      /\ attempt[t].obs = "none" /\ attempt[t].launch = "none"
  BY DEF HoldProbes, Unlaunched, Unobserved, Commit
<1>3. /\ run'.cancel = run.cancel /\ run'.effects = run.effects \cup {t} /\ run'.freed = run.freed
      /\ run'.prev = run.prev /\ run'.phase = run.phase
      /\ \A u \in Task \ {t} : run'.bind[u] = run.bind[u]
      /\ run'.bind[t].kind = "none" /\ run'.bind[t].probes
  BY <1>1, <1>2 DEF RunType, BindType
<1>4. Follows(run, run', {t}) BY <1>3 DEF Follows, Same
<1>5. LinkAt(run', attempt'[t], t) BY <1>1, <1>2, <1>3 DEF LinkAt
<1>6. KeptAt(run, run', attempt[t], attempt'[t], t) BY <1>2, <1>3, KeptQuietly
<1>7. Follows(run', run', {}) BY FollowsSelf
<1> QED BY <1>2, <1>4, <1>5, <1>6, <1>7, StepOne DEF StepAt

\* What a Run without the custody of a probe still shows.
LEMMA WithoutCustodyFrame ==
  ASSUME NEW r \in RunType, NEW t \in Task, r.bind[t].probes => t \in r.effects
  PROVE  LET q == WithoutCustody(r, t)
         IN /\ q \in RunType /\ q.cancel = r.cancel /\ q.freed = r.freed /\ q.prev = r.prev
            /\ q.phase = r.phase /\ \A u \in Task \ {t} : q.bind[u] = r.bind[u]
            /\ \A u \in Task \ {t} : u \in q.effects <=> u \in r.effects
            /\ q.bind[t].kind = r.bind[t].kind /\ ~q.bind[t].probes
            /\ t \in q.effects <=> t \in r.effects /\ ~r.bind[t].probes
<1>1. WithoutCustody(r, t) \in RunType BY WithoutCustodyFits
<1> QED BY <1>1 DEF WithoutCustody, RunType, BindType

\* A Run with another kind of binding for one task.
LEMMA KindFrame ==
  ASSUME NEW r \in RunType, NEW t \in Task, NEW kind \in ObservedKind
  PROVE  LET q == [r EXCEPT !.bind[t].kind = kind]
         IN /\ q \in RunType /\ q.cancel = r.cancel /\ q.freed = r.freed /\ q.prev = r.prev
            /\ q.phase = r.phase /\ q.effects = r.effects /\ q.state = r.state
            /\ q.decision = r.decision /\ q.notBefore = r.notBefore
            /\ \A u \in Task \ {t} : q.bind[u] = r.bind[u]
            /\ q.bind[t].kind = kind /\ q.bind[t].probes = r.bind[t].probes
            /\ q.bind[t].wait = r.bind[t].wait
<1> DEFINE q == [r EXCEPT !.bind[t].kind = kind]
           bind == [r.bind EXCEPT ![t].kind = kind]
<1>1. q \in RunType BY BindOneFits
<1>2. q = [r EXCEPT !.bind = bind] OBVIOUS
<1>3. q.bind = bind BY <1>2 DEF RunType
<1>4. r.bind \in [Task -> BindType] BY FieldsOf
<1>5. /\ \A u \in Task \ {t} : bind[u] = r.bind[u]
      /\ bind[t].kind = kind /\ bind[t].probes = r.bind[t].probes /\ bind[t].wait = r.bind[t].wait
  BY <1>4 DEF BindType
<1>6. /\ q.cancel = r.cancel /\ q.freed = r.freed /\ q.prev = r.prev /\ q.phase = r.phase
      /\ q.effects = r.effects /\ q.state = r.state
      /\ q.decision = r.decision /\ q.notBefore = r.notBefore
  BY <1>2 DEF RunType
<1> HIDE DEF q, bind
<1> QED BY <1>1, <1>3, <1>5, <1>6 DEF q

\* A refusal shown by the Run: a task offered again, or failed.
LEMMA ClosureFrame ==
  ASSUME NEW r \in RunType, NEW t \in Task, NEW refusal \in RefusalKind, Clock
  PROVE  \E m \in RunType :
           /\ Follows(m, Closure(r, t, refusal), {})
           /\ m.cancel = r.cancel /\ m.freed = r.freed /\ m.prev = r.prev
           /\ \A u \in Task \ {t} : /\ m.bind[u] = r.bind[u] /\ m.phase[u] = r.phase[u]
                                    /\ u \in m.effects <=> u \in r.effects
           /\ m.bind[t].probes = r.bind[t].probes
           /\ \/ /\ m.bind[t].kind = "launch-refused" /\ m.phase[t] = "pending"
                 /\ refusal \in {"env-refused", "env-uncertain"}
              \/ /\ m.bind[t].kind = IF refusal = "handoff-refused" THEN refusal ELSE "launch-refused"
                 /\ m.phase[t] = "failed"
<1> DEFINE effects == IF refusal = "env-uncertain" THEN r.effects \cup {t} ELSE r.effects
           kind == IF refusal = "handoff-refused" THEN refusal ELSE "launch-refused"
           parked == [r EXCEPT !.state = EnvironmentPark(r), !.phase[t] = "pending",
                               !.effects = effects, !.bind[t].kind = "launch-refused"]
           failed == [r EXCEPT !.phase[t] = "failed", !.bind[t].kind = kind]
<1>1. EnvironmentPark(r) \in StateType
  <2>1. r.state \in StateType /\ r.state.hold \in HoldKind BY FieldsOf DEF StateType
  <2> QED BY <2>1, StatesFit, ReasonsFit, DeadlinesFit DEF EnvironmentPark
<1>2. effects \in SUBSET Task /\ kind \in ObservedKind BY FieldsOf DEF ObservedKind
<1>0. effects \in {r.effects, r.effects \cup {t}} OBVIOUS
<1> HIDE DEF effects
<1> DEFINE base(k) == [r EXCEPT !.bind[t].kind = k]
<1>3. /\ parked \in RunType /\ parked.cancel = r.cancel /\ parked.freed = r.freed
      /\ parked.prev = r.prev /\ parked.effects = effects
      /\ \A u \in Task \ {t} : parked.bind[u] = r.bind[u] /\ parked.phase[u] = r.phase[u]
      /\ parked.bind[t].probes = r.bind[t].probes /\ parked.bind[t].kind = "launch-refused"
      /\ parked.phase[t] = "pending"
  <2> DEFINE q == base("launch-refused")
  <2>0. "launch-refused" \in ObservedKind BY DEF ObservedKind
  <2>1. /\ q \in RunType /\ q.cancel = r.cancel /\ q.freed = r.freed /\ q.prev = r.prev
        /\ q.phase = r.phase /\ \A u \in Task \ {t} : q.bind[u] = r.bind[u]
        /\ q.bind[t].kind = "launch-refused" /\ q.bind[t].probes = r.bind[t].probes
    BY <2>0, KindFrame
  <2>2. parked = [q EXCEPT !.state = EnvironmentPark(r), !.phase[t] = "pending", !.effects = effects]
    BY DEF RunType
  <2> HIDE DEF q, parked
  <2> QED BY <1>1, <1>2, <2>1, <2>2 DEF RunType, Phase
<1>4. /\ failed \in RunType /\ failed.cancel = r.cancel /\ failed.freed = r.freed
      /\ failed.prev = r.prev /\ failed.effects = r.effects
      /\ \A u \in Task \ {t} : failed.bind[u] = r.bind[u] /\ failed.phase[u] = r.phase[u]
      /\ failed.bind[t].probes = r.bind[t].probes /\ failed.bind[t].kind = kind
      /\ failed.phase[t] = "failed"
  <2> DEFINE q == base(kind)
  <2>1. /\ q \in RunType /\ q.cancel = r.cancel /\ q.freed = r.freed /\ q.prev = r.prev
        /\ q.phase = r.phase /\ q.effects = r.effects
        /\ \A u \in Task \ {t} : q.bind[u] = r.bind[u]
        /\ q.bind[t].kind = kind /\ q.bind[t].probes = r.bind[t].probes
    BY <1>2, KindFrame
  <2>2. failed = [q EXCEPT !.phase[t] = "failed"] BY DEF RunType
  <2> HIDE DEF q, failed
  <2> QED BY <2>1, <2>2 DEF RunType, Phase
<1>5. Closure(r, t, refusal) = Reconcile(IF ParksForEnvironment(r, refusal) THEN parked ELSE failed)
  BY Zenon DEF Closure, parked, failed, effects, kind
<1>6. ParksForEnvironment(r, refusal) => refusal \in {"env-refused", "env-uncertain"}
  BY DEF ParksForEnvironment
<1> HIDE DEF parked, failed
<1>7. CASE ParksForEnvironment(r, refusal)
  <2>1. Follows(parked, Closure(r, t, refusal), {}) BY <1>3, <1>5, <1>7, ReconcileFollows
  <2> QED BY <1>3, <1>0, <1>6, <1>7, <2>1
<1>8. CASE ~ParksForEnvironment(r, refusal)
  <2>1. Follows(failed, Closure(r, t, refusal), {}) BY <1>4, <1>5, <1>8, ReconcileFollows
  <2> QED BY <1>4, <2>1
<1> QED BY <1>7, <1>8

\* The Run takes up a refusal its attempt recorded, with no probe in custody.
LEMMA ClosureSteps ==
  ASSUME Traced, NEW t \in Task, NEW r \in RunType, NEW refusal \in RefusalKind,
         r.cancel = run.cancel, r.freed = run.freed, r.prev = run.prev, r.phase = run.phase,
         \A u \in Task \ {t} : /\ r.bind[u] = run.bind[u]
                               /\ u \in r.effects <=> u \in run.effects,
         r.bind[t].kind = "none", run.bind[t].kind = "none", ~r.bind[t].probes,
         attempt[t].obs = refusal, run' = Closure(r, t, refusal),
         attempt' = [attempt EXCEPT ![t].closing = FALSE]
  PROVE  Steps
<1>0. Clock BY TracedTypes
<1>1. PICK m \in RunType :
        /\ Follows(m, Closure(r, t, refusal), {})
        /\ m.cancel = r.cancel /\ m.freed = r.freed /\ m.prev = r.prev
        /\ \A u \in Task \ {t} : /\ m.bind[u] = r.bind[u] /\ m.phase[u] = r.phase[u]
                                 /\ u \in m.effects <=> u \in r.effects
        /\ m.bind[t].probes = r.bind[t].probes
        /\ \/ /\ m.bind[t].kind = "launch-refused" /\ m.phase[t] = "pending"
              /\ refusal \in {"env-refused", "env-uncertain"}
           \/ /\ m.bind[t].kind = IF refusal = "handoff-refused" THEN refusal ELSE "launch-refused"
              /\ m.phase[t] = "failed"
  BY <1>0, ClosureFrame
<1>2. LinkAt(run, attempt[t], t) /\ attempt[t] \in AttemptType
      /\ (attempt[t].launch = "pending" => attempt[t].obs = "none")
  BY TracedAt
<1>3. attempt'[t] = [attempt[t] EXCEPT !.closing = FALSE]
      /\ \A u \in Task \ {t} : attempt'[u] = attempt[u]
  BY TracedTypes
<1>4. /\ attempt'[t].obs = refusal /\ ~attempt'[t].closing
      /\ attempt'[t].launch = attempt[t].launch
  BY <1>2, <1>3 DEF AttemptType
<1>5. Follows(run, m, {t}) BY <1>1 DEF Follows, Same
<1>6. LinkAt(m, attempt'[t], t)
  BY <1>1, <1>2, <1>4 DEF LinkAt, RefusalKind, Settled, Dead
<1>7. KeptAt(run, m, attempt[t], attempt'[t], t) BY <1>1, <1>4, KeptQuietly
<1> QED BY <1>1, <1>3, <1>5, <1>6, <1>7, StepOne DEF StepAt

\* A recorded refusal reaches the Run; the probes in custody answer with it.
LEMMA ProjectClosureSteps == ASSUME Traced, NEW t \in Task, ProjectClosure(t) PROVE Steps
<1> DEFINE r == Answered(run, t)
<1>1. run \in RunType /\ LinkAt(run, attempt[t], t) /\ attempt[t].obs # "none"
  BY TracedTypes, TracedAt DEF ProjectClosure
<1>2. /\ r.bind[t].kind = "none" /\ r.phase[t] = "active" /\ t \notin r.effects
      /\ run' = Closure(r, t, attempt[t].obs)
      /\ attempt' = [attempt EXCEPT ![t].closing = FALSE]
  BY DEF ProjectClosure, CanClose
<1>3. run.bind[t].probes => t \in run.effects BY <1>1 DEF LinkAt
<1>4. /\ r \in RunType /\ r.cancel = run.cancel /\ r.freed = run.freed /\ r.prev = run.prev
      /\ r.phase = run.phase
      /\ \A u \in Task \ {t} : r.bind[u] = run.bind[u] /\ (u \in r.effects <=> u \in run.effects)
      /\ r.bind[t].kind = run.bind[t].kind
      /\ r.bind[t].probes => r = run
  <2>1. CASE r = run BY <1>1, <2>1
  <2>2. CASE r = WithoutCustody(run, t) BY <1>1, <1>3, <2>2, WithoutCustodyFrame
  <2> QED BY <2>1, <2>2 DEF Answered
<1> HIDE DEF r
<1>5. ~r.bind[t].probes BY <1>1, <1>2, <1>4 DEF LinkAt
<1>6. attempt[t].obs \in RefusalKind BY <1>1, <1>2, <1>4 DEF LinkAt
<1> QED BY <1>2, <1>4, <1>5, <1>6, ClosureSteps

\* Probes that ended give their slot back, with or without an answer.
LEMMA EndProbesSteps == ASSUME Traced, NEW t \in Task, EndProbes(t) PROVE Steps
<1> DEFINE clear == WithoutCustody(run, t)
           stop == IF run.cancel \/ attempt[t].cancel THEN SetPhase(clear, t, "cancelled") ELSE clear
<1>1. /\ run \in RunType /\ Clock /\ LinkAt(run, attempt[t], t) /\ attempt[t] \in AttemptType
      /\ run.bind[t].probes /\ run.bind[t].kind = "none" /\ t \in run.effects
      /\ run.phase[t] = "active"
  BY TracedTypes, TracedAt DEF EndProbes, LinkAt
<1>2. /\ clear \in RunType /\ clear.cancel = run.cancel /\ clear.freed = run.freed
      /\ clear.prev = run.prev /\ clear.phase = run.phase
      /\ \A u \in Task \ {t} : /\ clear.bind[u] = run.bind[u]
                               /\ u \in clear.effects <=> u \in run.effects
      /\ clear.bind[t].kind = "none" /\ ~clear.bind[t].probes /\ t \notin clear.effects
  BY <1>1, WithoutCustodyFrame
<1>3. /\ attempt' = [attempt EXCEPT ![t].closing = FALSE]
      /\ \/ attempt[t].obs \in RefusalKind /\ run' = Closure(clear, t, attempt[t].obs)
         \/ attempt[t].obs = "none" /\ run' = Reconcile(stop)
  BY DEF EndProbes, RefusalKind
<1> HIDE DEF clear
<1>4. CASE attempt[t].obs \in RefusalKind /\ run' = Closure(clear, t, attempt[t].obs)
  BY <1>1, <1>2, <1>3, <1>4, ClosureSteps
<1>5. CASE attempt[t].obs = "none" /\ run' = Reconcile(stop)
  <2>1. /\ stop \in RunType /\ stop.cancel = run.cancel /\ stop.freed = run.freed
        /\ stop.prev = run.prev /\ stop.bind = clear.bind /\ stop.effects = clear.effects
        /\ \A u \in Task \ {t} : stop.phase[u] = run.phase[u]
        /\ stop.phase[t] \in {"active", "cancelled"}
    BY <1>1, <1>2 DEF SetPhase, RunType, Phase
  <2> HIDE DEF stop
  <2>2. Follows(run, stop, {t}) BY <1>2, <2>1 DEF Follows, Same
  <2>3. Follows(stop, run', {}) BY <1>1, <1>5, <2>1, ReconcileFollows
  <2>4. attempt'[t] = [attempt[t] EXCEPT !.closing = FALSE]
        /\ \A u \in Task \ {t} : attempt'[u] = attempt[u]
    BY <1>3, TracedTypes
  <2>5. /\ attempt'[t].obs = "none" /\ ~attempt'[t].closing
        /\ attempt'[t].launch = attempt[t].launch /\ attempt'[t].cancel = attempt[t].cancel
    BY <1>1, <1>5, <2>4 DEF AttemptType
  <2>6. LinkAt(stop, attempt'[t], t)
    BY <1>1, <1>2, <1>5, <2>1, <2>5 DEF LinkAt, Settled, Dead
  <2>7. KeptAt(run, stop, attempt[t], attempt'[t], t) BY <1>1, <2>1, <2>5, KeptQuietly
  <2> QED BY <2>2, <2>3, <2>4, <2>6, <2>7, StepOne DEF StepAt
<1> QED BY <1>3, <1>4, <1>5

\* An uncertain probe proven gone frees the slot its refused task kept.
LEMMA SettleProbeSteps == ASSUME Traced, NEW t \in Task, SettleProbe(t) PROVE Steps
<1> DEFINE q == [run EXCEPT !.effects = run.effects \ {t},
                            !.phase[t] = IF run.cancel THEN "cancelled" ELSE run.phase[t]]
<1>1. /\ run \in RunType /\ Clock /\ LinkAt(run, attempt[t], t)
      /\ run.bind[t].kind = "launch-refused" /\ run.phase[t] = "pending"
      /\ run' = Reconcile(q) /\ attempt' = attempt
  BY TracedTypes, TracedAt DEF SettleProbe, Commit
<1>2. /\ q \in RunType /\ q.cancel = run.cancel /\ q.freed = run.freed /\ q.prev = run.prev
      /\ q.bind = run.bind /\ q.effects = run.effects \ {t}
      /\ \A u \in Task \ {t} : q.phase[u] = run.phase[u]
      /\ q.phase[t] \in {"pending", "cancelled"}
  BY <1>1 DEF RunType, Phase
<1> HIDE DEF q
<1>3. Follows(run, q, {t}) BY <1>2 DEF Follows, Same
<1>4. Follows(q, run', {}) BY <1>1, <1>2, ReconcileFollows
<1>5. LinkAt(q, attempt'[t], t) BY <1>1, <1>2 DEF LinkAt, Settled, Dead
<1>6. KeptAt(run, q, attempt[t], attempt'[t], t) BY <1>1, <1>2, KeptQuietly
<1> QED BY <1>1, <1>3, <1>4, <1>5, <1>6, StepOne DEF StepAt

----------------------------------------------------------------------------
(* Launches and lost workers *)

\* What the Run shows of a launched attempt that is over or lost.
LEMMA ProjectFrame ==
  ASSUME NEW r \in RunType, NEW t \in Task, NEW kind \in {"exited", "unknown"}
  PROVE  LET q == Project(r, t, kind)
         IN /\ q \in RunType /\ q.cancel = r.cancel /\ q.freed = r.freed /\ q.prev = r.prev
            /\ \A u \in Task \ {t} : /\ q.bind[u] = r.bind[u] /\ q.phase[u] = r.phase[u]
                                     /\ u \in q.effects <=> u \in r.effects
            /\ q.bind[t].kind = kind /\ q.bind[t].probes = r.bind[t].probes
            /\ q.phase[t] = IF kind = "exited" /\ t \notin r.effects THEN "evaluating" ELSE "reconciling"
            /\ t \in q.effects <=> kind = "unknown" \/ t \in r.effects
<1> DEFINE q == Project(r, t, kind)
           base == [r EXCEPT !.bind[t].kind = kind]
           phase == IF kind = "exited" /\ t \notin r.effects THEN "evaluating" ELSE "reconciling"
           effects == IF kind = "unknown" THEN r.effects \cup {t} ELSE r.effects
<1>1. kind \in ObservedKind BY DEF ObservedKind
<1>2. /\ base \in RunType /\ base.cancel = r.cancel /\ base.freed = r.freed /\ base.prev = r.prev
      /\ base.phase = r.phase /\ base.effects = r.effects
      /\ \A u \in Task \ {t} : base.bind[u] = r.bind[u]
      /\ base.bind[t].kind = kind /\ base.bind[t].probes = r.bind[t].probes
  BY <1>1, KindFrame
<1>3. q \in RunType BY ProjectFits
<1>4. q.bind = base.bind /\ q.cancel = r.cancel /\ q.freed = r.freed /\ q.prev = r.prev
      /\ q.phase = [r.phase EXCEPT ![t] = phase] /\ q.effects = effects
  BY DEF Project, RunType
<1>5. r.phase \in [Task -> Phase] BY FieldsOf
<1> HIDE DEF q, base
<1> QED BY <1>2, <1>3, <1>4, <1>5 DEF q

\* A claimed launch is granted, or prevented by a cancellation that came first.
LEMMA GrantSteps == ASSUME Traced, NEW t \in Task, GrantLaunch(t) PROVE Steps
<1> DEFINE q == IF attempt[t].cancel THEN SetPhase(run, t, "cancelled") ELSE run
<1>1. /\ run \in RunType /\ Clock /\ LinkAt(run, attempt[t], t) /\ attempt[t] \in AttemptType
      /\ attempt[t].launch = "pending" /\ attempt[t].obs = "none" /\ t \notin run.effects
      /\ run.phase[t] = "active" /\ ~attempt[t].closing
      /\ run' = IF attempt[t].cancel THEN Reconcile(q) ELSE q
  BY TracedTypes, TracedAt DEF GrantLaunch
<1>2. /\ q \in RunType /\ q.cancel = run.cancel /\ q.freed = run.freed /\ q.prev = run.prev
      /\ q.bind = run.bind /\ q.effects = run.effects
      /\ \A u \in Task \ {t} : q.phase[u] = run.phase[u]
      /\ q.phase[t] = IF attempt[t].cancel THEN "cancelled" ELSE "active"
  BY <1>1 DEF SetPhase, RunType, Phase
<1> HIDE DEF q
<1>3. Follows(run, q, {t}) BY <1>2 DEF Follows, Same
<1>4. Follows(q, run', {}) BY <1>1, <1>2, ReconcileFollows, FollowsSelf
<1>5. /\ \A u \in Task \ {t} : attempt'[u] = attempt[u]
      /\ attempt'[t] = [attempt[t] EXCEPT !.launch =
                          IF attempt[t].cancel THEN "prevented" ELSE "granted"]
  BY TracedTypes DEF GrantLaunch
<1>6. /\ attempt'[t].obs = "none" /\ ~attempt'[t].closing
      /\ attempt'[t].launch = IF attempt[t].cancel THEN "prevented" ELSE "granted"
  BY <1>1, <1>5 DEF AttemptType
<1>7. LinkAt(q, attempt'[t], t) BY <1>1, <1>2, <1>6 DEF LinkAt, Settled, Dead
<1>8. KeptAt(run, q, attempt[t], attempt'[t], t)
  BY <1>1, <1>2, <1>6 DEF KeptAt, Offers, LinkAt
<1> QED BY <1>3, <1>4, <1>5, <1>7, <1>8, StepOne DEF StepAt

\* The end of a launched worker, and its settlement when it was cancelled.
LEMMA ExitSteps == ASSUME Traced, NEW t \in Task, Exit(t) PROVE Steps
<1> DEFINE seen == Project(run, t, "exited")
           over == (run.cancel \/ attempt[t].cancel) /\ seen.phase[t] = "evaluating"
           q == IF over THEN SetPhase(seen, t, "cancelled") ELSE seen
<1>1. /\ run \in RunType /\ Clock /\ LinkAt(run, attempt[t], t) /\ attempt[t] \in AttemptType
      /\ attempt[t].launch = "granted" /\ attempt[t].obs = "none" /\ ~attempt[t].closing
      /\ run' = IF over THEN Reconcile(q) ELSE q
  BY TracedTypes, TracedAt DEF Exit
<1>2. /\ run.bind[t].kind = "none" /\ run.phase[t] = "active" /\ t \notin run.effects
      /\ ~run.bind[t].probes /\ t \notin run.freed
  BY <1>1 DEF LinkAt
<1>3. /\ seen \in RunType /\ seen.cancel = run.cancel /\ seen.freed = run.freed
      /\ seen.prev = run.prev /\ seen.bind[t].kind = "exited" /\ ~seen.bind[t].probes
      /\ \A u \in Task \ {t} : /\ seen.bind[u] = run.bind[u] /\ seen.phase[u] = run.phase[u]
                               /\ u \in seen.effects <=> u \in run.effects
      /\ t \notin seen.effects /\ seen.phase[t] = "evaluating"
  BY <1>1, <1>2, ProjectFrame
<1> HIDE DEF seen, over
<1>4. /\ q \in RunType /\ q.cancel = run.cancel /\ q.freed = run.freed /\ q.prev = run.prev
      /\ q.bind = seen.bind /\ q.effects = seen.effects
      /\ \A u \in Task \ {t} : q.phase[u] = run.phase[u]
      /\ q.phase[t] \in {"evaluating", "cancelled"}
  BY <1>3 DEF SetPhase, RunType, Phase
<1> HIDE DEF q
<1>5. Follows(run, q, {t}) BY <1>3, <1>4 DEF Follows, Same
<1>6. Follows(q, run', {}) BY <1>1, <1>4, ReconcileFollows, FollowsSelf
<1>7. /\ \A u \in Task \ {t} : attempt'[u] = attempt[u]
      /\ attempt'[t] = [attempt[t] EXCEPT !.obs = "exited"]
  BY TracedTypes DEF Exit
<1>8. attempt'[t].obs = "exited" /\ ~attempt'[t].closing /\ attempt'[t].launch = "granted"
  BY <1>1, <1>7 DEF AttemptType
<1>9. LinkAt(q, attempt'[t], t) BY <1>2, <1>3, <1>4, <1>8 DEF LinkAt, Settled, Dead
<1>10. KeptAt(run, q, attempt[t], attempt'[t], t) BY <1>1, <1>2, <1>4, <1>8, KeptQuietly
<1> QED BY <1>5, <1>6, <1>7, <1>9, <1>10, StepOne DEF StepAt

\* A worker nobody can vouch for keeps its task and its slot.
LEMMA LoseSteps == ASSUME Traced, NEW t \in Task, Lose(t) PROVE Steps
<1> DEFINE q == Project(run, t, "unknown")
<1>1. /\ run \in RunType /\ LinkAt(run, attempt[t], t) /\ attempt[t] \in AttemptType
      /\ attempt[t].launch = "granted" /\ attempt[t].obs = "none" /\ ~attempt[t].closing
      /\ run' = q
  BY TracedTypes, TracedAt DEF Lose
<1>2. run.bind[t].kind = "none" /\ ~run.bind[t].probes
  BY <1>1 DEF LinkAt
<1>3. /\ q.cancel = run.cancel /\ q.freed = run.freed /\ q.prev = run.prev
      /\ q.bind[t].kind = "unknown" /\ ~q.bind[t].probes
      /\ \A u \in Task \ {t} : /\ q.bind[u] = run.bind[u] /\ q.phase[u] = run.phase[u]
                               /\ u \in q.effects <=> u \in run.effects
      /\ t \in q.effects /\ q.phase[t] = "reconciling"
  <2> DEFINE kind == "unknown"
  <2>1. run \in RunType /\ kind \in {"exited", "unknown"} BY <1>1
  <2>2. kind # "exited" /\ kind = "unknown" OBVIOUS
  <2>3. q = Project(run, t, kind) OBVIOUS
  <2> HIDE DEF kind
  <2>4. /\ q.cancel = run.cancel /\ q.freed = run.freed /\ q.prev = run.prev
        /\ \A u \in Task \ {t} : /\ q.bind[u] = run.bind[u] /\ q.phase[u] = run.phase[u]
                                 /\ u \in q.effects <=> u \in run.effects
        /\ q.bind[t].kind = kind /\ q.bind[t].probes = run.bind[t].probes
        /\ q.phase[t] = "reconciling" /\ t \in q.effects
    BY <2>1, <2>2, <2>3, ProjectFrame
  <2> QED BY <1>2, <2>2, <2>4
<1> HIDE DEF q
<1>4. Follows(run, q, {t}) BY <1>3 DEF Follows, Same
<1>5. Follows(q, run', {}) BY <1>1, FollowsSelf
<1>6. /\ \A u \in Task \ {t} : attempt'[u] = attempt[u]
      /\ attempt'[t] = [attempt[t] EXCEPT !.obs = "unknown"]
  BY TracedTypes DEF Lose
<1>7. attempt'[t].obs = "unknown" /\ ~attempt'[t].closing /\ attempt'[t].launch = "granted"
  BY <1>1, <1>6 DEF AttemptType
<1>8. LinkAt(q, attempt'[t], t) BY <1>3, <1>7 DEF LinkAt
<1>9. KeptAt(run, q, attempt[t], attempt'[t], t) BY <1>1, <1>2, <1>3, <1>7, KeptQuietly
<1> QED BY <1>4, <1>5, <1>6, <1>8, <1>9, StepOne DEF StepAt

\* Proof that a lost worker stopped is kept with the Run.
LEMMA ReleaseSteps == ASSUME Traced, NEW t \in Task, ReleaseCustody(t) PROVE Steps
<1>1. /\ run \in RunType /\ LinkAt(run, attempt[t], t) /\ run.bind[t].kind = "unknown"
      /\ run' = [run EXCEPT !.freed = run.freed \cup {t}] /\ attempt' = attempt
  BY TracedTypes, TracedAt DEF ReleaseCustody, Commit
<1>2. /\ run'.cancel = run.cancel /\ run'.freed = run.freed \cup {t} /\ run'.prev = run.prev
      /\ run'.bind = run.bind /\ run'.phase = run.phase /\ run'.effects = run.effects
  BY <1>1 DEF RunType
<1>3. Follows(run, run', {t}) BY <1>2 DEF Follows, Same
<1>4. Follows(run', run', {}) BY FollowsSelf
<1>5. LinkAt(run', attempt'[t], t) BY <1>1, <1>2 DEF LinkAt
<1>6. KeptAt(run, run', attempt[t], attempt'[t], t)
  BY <1>1, <1>2 DEF KeptAt, Offers, LinkAt
<1> QED BY <1>1, <1>3, <1>4, <1>5, <1>6, StepOne DEF StepAt

\* A lost task is tried again inside the bounds of its Run, once its worker is
\* proven stopped.
LEMMA ContinueSteps == ASSUME Traced, NEW t \in Task, ContinueLost(t) PROVE Steps
<1> DEFINE old == Supersede(run, {t}, "lost")
           q == [old EXCEPT !.phase[t] = "pending", !.effects = old.effects \ {t},
                            !.freed = old.freed \ {t}, !.notBefore[t] = 0]
<1>1. /\ run \in RunType /\ Clock /\ LinkAt(run, attempt[t], t)
      /\ run.bind[t].kind = "unknown" /\ t \in run.freed
      /\ run' = Reconcile(q) /\ attempt' = attempt
  BY TracedTypes, TracedAt DEF ContinueLost, Commit, LossSettled
<1>2. /\ old \in RunType /\ Retires(run, old, {t}, "lost")
  BY <1>1, SupersedeFits, SupersedeRetires, DeadlinesFit DEF ClosedKind
<1> HIDE DEF old
<1>3. /\ q \in RunType /\ q.cancel = run.cancel /\ q.freed = run.freed \ {t}
      /\ q.prev = old.prev /\ q.bind = old.bind /\ q.effects = run.effects \ {t}
      /\ \A u \in Task \ {t} : q.phase[u] = run.phase[u]
      /\ q.phase[t] = "pending"
  BY <1>2 DEF Retires, RunType, Phase
<1> HIDE DEF q
<1>4. /\ q.bind[t] = Unbound /\ q.prev[t] = Append(run.prev[t], "lost")
      /\ \A u \in Task \ {t} : q.bind[u] = run.bind[u] /\ q.prev[u] = run.prev[u]
  BY <1>2, <1>3 DEF Retires
<1>5. Follows(run, q, {t}) BY <1>3, <1>4 DEF Follows, Same
<1>6. Follows(q, run', {}) BY <1>1, <1>3, ReconcileFollows
<1>7. LinkAt(q, attempt'[t], t) BY <1>1, <1>3, <1>4, LinkRetires
<1>8. KeptAt(run, q, attempt[t], attempt'[t], t)
  <2>1. MayRetry(run, t, "lost") BY DEF ContinueLost, MayRetry
  <2>2. Offers(run, q, t) BY <1>4, <2>1 DEF Offers, ClosedKind
  <2>3. attempt[t].obs = "unknown" BY <1>1 DEF LinkAt
  <2> QED BY <1>1, <1>3, <2>2, <2>3 DEF KeptAt
<1> QED BY <1>1, <1>5, <1>6, <1>7, <1>8, StepOne DEF StepAt

\* Every transaction before an attempt is judged.
LEMMA LaunchSteps == ASSUME Traced, LaunchStep PROVE Steps
  BY HoldProbesSteps, EndProbesSteps, SettleProbeSteps, AttemptSteps, ProjectClosureSteps,
     GrantSteps, ExitSteps, LoseSteps, ReleaseSteps, ContinueSteps DEF LaunchStep

----------------------------------------------------------------------------
(* Evaluation *)

\* A transaction about a task whose attempt exited keeps what it must.
LEMMA JudgedStep ==
  ASSUME NEW r, NEW q, NEW t \in Task, NEW a, LinkAt(r, a, t), r.bind[t].kind = "exited",
         q.prev[t] = r.prev[t], q.bind[t] = r.bind[t], t \notin q.effects, t \notin q.freed,
         q.phase[t] \in {"evaluating", "awaiting"} \cup Settled,
         q.phase[t] = "accepted" => ~r.cancel
  PROVE  StepAt(r, q, a, a, t)
<1>1. LinkAt(q, a, t) BY DEF LinkAt
<1>2. KeptAt(r, q, a, a, t) BY DEF KeptAt, Offers
<1> QED BY <1>1, <1>2 DEF StepAt

\* A judgement of an exited attempt: the task settles or waits for a person.
LEMMA JudgeSteps ==
  ASSUME Traced, NEW t \in Task, NEW q \in RunType, Commit(Reconcile(q)),
         run.bind[t].kind = "exited",
         q.cancel = run.cancel, q.effects = run.effects, q.freed = run.freed,
         q.bind = run.bind, q.prev = run.prev,
         \A u \in Task \ {t} : q.phase[u] = run.phase[u],
         q.phase[t] \in {"evaluating", "awaiting"} \cup Settled,
         q.phase[t] = "accepted" => ~run.cancel
  PROVE  Steps
<1>1. run' = Reconcile(q) /\ attempt' = attempt /\ Clock BY TracedTypes DEF Commit
<1>2. LinkAt(run, attempt[t], t) BY TracedAt
<1>3. Follows(run, q, {t}) BY DEF Follows, Same
<1>4. Follows(q, run', {}) BY <1>1, ReconcileFollows
<1>5. t \notin q.effects /\ t \notin q.freed BY <1>2 DEF LinkAt
<1>6. StepAt(run, q, attempt[t], attempt'[t], t) BY <1>1, <1>2, <1>5, JudgedStep
<1> QED BY <1>1, <1>3, <1>4, <1>6, StepOne

\* A task in evaluation, or waiting for a person, has an attempt that exited.
LEMMA JudgedExited ==
  ASSUME Traced, NEW t \in Task, run.phase[t] \in {"evaluating", "awaiting"}
  PROVE  run.bind[t].kind = "exited"
<1>1. LinkAt(run, attempt[t], t) /\ run.bind[t] \in BindType
  BY TracedTypes, TracedAt, FieldsOf
<1> QED BY <1>1 DEF LinkAt, BindType, ObservedKind, Settled, Dead

\* The verdict of a person or of an evaluation.
LEMMA VerdictSteps ==
  ASSUME Traced, NEW t \in Task, NEW p \in Settled, run.phase[t] \in {"evaluating", "awaiting"},
         Commit(Reconcile(ClearDecisions(SetPhase(run, t, p), {t}))), p = "accepted" => ~run.cancel
  PROVE  Steps
<1> DEFINE q == ClearDecisions(SetPhase(run, t, p), {t})
<1>1. run \in RunType /\ Clock /\ p \in Phase BY TracedTypes, PhaseKinds
<1>2. SetPhase(run, t, p) \in RunType /\ q \in RunType
  BY <1>1, SetPhaseFits, ClearDecisionsFits, DeadlinesFit
<1>3. /\ q.cancel = run.cancel /\ q.effects = run.effects /\ q.freed = run.freed
      /\ q.bind = run.bind /\ q.prev = run.prev
      /\ \A u \in Task \ {t} : q.phase[u] = run.phase[u]
      /\ q.phase[t] = p
  BY <1>1 DEF ClearDecisions, SetPhase, RunType
<1>4. Commit(Reconcile(q)) OBVIOUS
<1> HIDE DEF q
<1> QED BY <1>2, <1>3, <1>4, JudgedExited, JudgeSteps

\* A question to a person.
LEMMA WaitSteps ==
  ASSUME Traced, NEW t \in Task, NEW reason \in {"unknown", "not-ready", "needs-input"},
         run.phase[t] \in {"evaluating", "awaiting"}, Commit(Reconcile(Wait(run, t, reason)))
  PROVE  Steps
<1> DEFINE q == Wait(run, t, reason)
<1>1. run \in RunType /\ Clock BY TracedTypes
<1>2. q \in RunType BY <1>1, WaitFits
<1>3. /\ q.cancel = run.cancel /\ q.effects = run.effects /\ q.freed = run.freed
      /\ q.bind = run.bind /\ q.prev = run.prev
      /\ \A u \in Task \ {t} : q.phase[u] = run.phase[u]
      /\ q.phase[t] = "awaiting"
  BY <1>1 DEF Wait, RunType
<1> HIDE DEF q
<1> QED BY <1>2, <1>3, JudgedExited, JudgeSteps DEF q

\* What a Run with one more wait for quota still shows.
LEMMA ParkQuotaFrame ==
  ASSUME NEW r \in RunType, NEW t \in Task, NEW wait \in WaitType, Clock
  PROVE  LET q == ParkQuota(r, t, wait)
         IN /\ q \in RunType /\ q.cancel = r.cancel /\ q.freed = r.freed /\ q.prev = r.prev
            /\ q.effects = r.effects
            /\ \A u \in Task \ {t} : q.bind[u] = r.bind[u] /\ q.phase[u] = r.phase[u]
            /\ q.bind[t].kind = "quota-exhausted" /\ q.bind[t].probes = r.bind[t].probes
            /\ q.bind[t].wait = wait /\ q.phase[t] = "pending"
<1> DEFINE q == ParkQuota(r, t, wait)
           bind == [[r.bind EXCEPT ![t].kind = "quota-exhausted"] EXCEPT ![t].wait = wait]
<1>1. q \in RunType BY ParkQuotaFits
<1>2. /\ q.cancel = r.cancel /\ q.freed = r.freed /\ q.prev = r.prev /\ q.effects = r.effects
      /\ q.phase = [r.phase EXCEPT ![t] = "pending"] /\ q.bind = bind
  BY DEF ParkQuota, RunType
<1>3. r.bind \in [Task -> BindType] /\ r.phase \in [Task -> Phase] BY FieldsOf
<1>4. /\ \A u \in Task \ {t} : bind[u] = r.bind[u]
      /\ bind[t].kind = "quota-exhausted" /\ bind[t].probes = r.bind[t].probes
      /\ bind[t].wait = wait
  BY <1>3 DEF BindType
<1> HIDE DEF q, bind
<1> QED BY <1>1, <1>2, <1>3, <1>4 DEF q

\* The wait a spent quota asks for fits the snapshot.
LEMMA QuotaWaitFits ==
  ASSUME NEW reset \in Resets, Clock
  PROVE  LET ahead  == reset > now
             beyond == ahead /\ reset - now > MaxWait
         IN [NoWait EXCEPT !.reset = IF ahead THEN reset ELSE 0, !.beyond = beyond,
               !.deadline = IF ahead /\ ~beyond THEN reset ELSE now + MaxWait] \in WaitType
<1> DEFINE ahead  == reset > now
           beyond == ahead /\ reset - now > MaxWait
           until == IF ahead /\ ~beyond THEN reset ELSE now + MaxWait
           from == IF ahead THEN reset ELSE 0
<1>1. until \in Horizon /\ from \in Horizon /\ beyond \in BOOLEAN /\ 0 \in Horizon
  BY DeadlinesFit
<1>2. NoWait \in WaitType BY <1>1, UnboundFits
<1> HIDE DEF until, from, beyond
<1>3. [NoWait EXCEPT !.reset = from, !.beyond = beyond, !.deadline = until] \in WaitType
  BY <1>1, <1>2 DEF WaitType
<1> QED BY <1>3 DEF until, from, beyond

\* A spent quota: the attempt and the Run record it together.
LEMMA EvaluateQuotaSteps ==
  ASSUME Traced, NEW t \in Task, NEW reset \in Resets, EvaluateQuota(t, reset) PROVE Steps
<1> DEFINE ahead  == reset > now
           beyond == ahead /\ reset - now > MaxWait
           wait   == [NoWait EXCEPT !.reset = IF ahead THEN reset ELSE 0, !.beyond = beyond,
                        !.deadline = IF ahead /\ ~beyond THEN reset ELSE now + MaxWait]
           q == ParkQuota(run, t, wait)
<1>1. run \in RunType /\ Clock /\ LinkAt(run, attempt[t], t) /\ attempt[t] \in AttemptType
  BY TracedTypes, TracedAt
<1>2. wait \in WaitType BY <1>1, QuotaWaitFits
<1>3. /\ run' = q /\ run.bind[t].kind = "exited" /\ attempt[t].obs = "exited"
      /\ attempt' = [attempt EXCEPT ![t].obs = "quota-exhausted"]
  BY DEF EvaluateQuota, Evaluable
<1> HIDE DEF wait
<1>4. /\ q \in RunType /\ q.cancel = run.cancel /\ q.freed = run.freed /\ q.prev = run.prev
      /\ q.effects = run.effects
      /\ \A u \in Task \ {t} : q.bind[u] = run.bind[u] /\ q.phase[u] = run.phase[u]
      /\ q.bind[t].kind = "quota-exhausted" /\ q.bind[t].probes = run.bind[t].probes
      /\ q.phase[t] = "pending"
  BY <1>1, <1>2, ParkQuotaFrame
<1> HIDE DEF q
<1>5. Follows(run, q, {t}) BY <1>4 DEF Follows, Same
<1>6. Follows(q, run', {}) BY <1>3, FollowsSelf
<1>7. /\ \A u \in Task \ {t} : attempt'[u] = attempt[u]
      /\ attempt'[t] = [attempt[t] EXCEPT !.obs = "quota-exhausted"]
  BY <1>3, TracedTypes
<1>8. /\ attempt'[t].obs = "quota-exhausted" /\ attempt'[t].closing = attempt[t].closing
      /\ attempt'[t].launch = attempt[t].launch
  BY <1>1, <1>7 DEF AttemptType
<1>9. LinkAt(q, attempt'[t], t) BY <1>1, <1>3, <1>4, <1>8 DEF LinkAt
<1>10. KeptAt(run, q, attempt[t], attempt'[t], t) BY <1>3, <1>4, <1>8, KeptQuietly
<1> QED BY <1>5, <1>6, <1>7, <1>9, <1>10, StepOne DEF StepAt

\* An exited attempt is superseded, by a retry or by the answer to its question.
LEMMA AgainSteps ==
  ASSUME Traced, NEW t \in Task, NEW as \in ClosedKind, NEW q \in RunType, Commit(Reconcile(q)),
         run.bind[t].kind = "exited", MayRetry(run, t, as),
         q.cancel = run.cancel, q.effects = run.effects, q.freed = run.freed,
         \A u \in Task \ {t} : /\ q.bind[u] = run.bind[u] /\ q.prev[u] = run.prev[u]
                               /\ q.phase[u] = run.phase[u],
         q.bind[t] = Unbound, q.prev[t] = Append(run.prev[t], as), q.phase[t] = "pending"
  PROVE  Steps
<1>1. run' = Reconcile(q) /\ attempt' = attempt /\ Clock BY TracedTypes DEF Commit
<1>2. LinkAt(run, attempt[t], t) BY TracedAt
<1>3. Follows(run, q, {t}) BY DEF Follows, Same
<1>4. Follows(q, run', {}) BY <1>1, ReconcileFollows
<1>5. t \notin q.effects /\ t \notin q.freed /\ attempt[t].obs = "exited" BY <1>2 DEF LinkAt
<1>6. LinkAt(q, attempt'[t], t) BY <1>1, <1>2, <1>5, LinkRetires
<1>7. KeptAt(run, q, attempt[t], attempt'[t], t) BY <1>1, <1>5 DEF KeptAt, Offers, Finished
<1> QED BY <1>1, <1>3, <1>4, <1>6, <1>7, StepOne DEF StepAt

\* A silent worker's task is tried again, inside its bounds, or fails.
LEMMA StallSteps == ASSUME Traced, NEW t \in Task, EvaluateStall(t) PROVE Steps
<1> DEFINE retry == Count(run, {t}, "stalled") < StallRetries /\ ~CeilingReached(run, t)
           old == Supersede(run, {t}, "stalled")
           time == IF Backoff > 0 THEN now + Backoff ELSE 0
           q == [old EXCEPT !.phase[t] = "pending", !.notBefore[t] = time]
           over == SetPhase(run, t, "failed")
<1>1. run \in RunType /\ Clock BY TracedTypes
<1>2. /\ run.bind[t].kind = "exited" /\ run.phase[t] = "evaluating"
      /\ Commit(Reconcile(IF retry THEN q ELSE over))
  BY DEF EvaluateStall, Evaluable
<1>3. CASE retry
  <2>1. old \in RunType /\ Retires(run, old, {t}, "stalled")
    BY <1>1, SupersedeFits, SupersedeRetires, DeadlinesFit DEF ClosedKind
  <2>2. time \in Nat BY <1>1, Bounds, DeadlinesFit
  <2> HIDE DEF old, time
  <2>3. /\ q \in RunType /\ q.cancel = run.cancel /\ q.effects = run.effects
        /\ q.freed = run.freed /\ q.bind = old.bind /\ q.prev = old.prev
        /\ \A u \in Task \ {t} : q.phase[u] = run.phase[u]
        /\ q.phase[t] = "pending"
    BY <2>1, <2>2 DEF Retires, RunType, Phase
  <2>4. /\ q.bind[t] = Unbound /\ q.prev[t] = Append(run.prev[t], "stalled")
        /\ \A u \in Task \ {t} : q.bind[u] = run.bind[u] /\ q.prev[u] = run.prev[u]
    BY <2>1, <2>3 DEF Retires
  <2>5. MayRetry(run, t, "stalled") /\ "stalled" \in ClosedKind
    BY <1>3 DEF MayRetry, ClosedKind
  <2>6. Commit(Reconcile(q)) BY <1>2, <1>3
  <2> HIDE DEF q, retry
  <2> QED BY <1>2, <2>3, <2>4, <2>5, <2>6, AgainSteps
<1>4. CASE ~retry
  <2>1. /\ over \in RunType /\ over.cancel = run.cancel /\ over.effects = run.effects
        /\ over.freed = run.freed /\ over.bind = run.bind /\ over.prev = run.prev
        /\ \A u \in Task \ {t} : over.phase[u] = run.phase[u]
        /\ over.phase[t] \in Settled \ {"accepted"}
    BY <1>1 DEF SetPhase, RunType, Phase, Settled, Dead
  <2>2. Commit(Reconcile(over)) BY <1>2, <1>4
  <2> HIDE DEF over
  <2> QED BY <1>2, <2>1, <2>2, JudgeSteps
<1> QED BY <1>3, <1>4

\* Every judgement of an attempt that exited.
LEMMA EvaluationSteps == ASSUME Traced, EvaluationStep PROVE Steps
<1> SUFFICES ASSUME NEW t \in Task,
                    \/ \E conclusion \in Conclusions : Evaluate(t, conclusion)
                    \/ \E reset \in Resets : EvaluateQuota(t, reset)
                    \/ EvaluateStall(t) \/ ParkTask(t)
             PROVE  Steps
  BY DEF EvaluationStep
<1>1. ASSUME NEW conclusion \in Conclusions, Evaluate(t, conclusion) PROVE Steps
  <2>1. /\ run.phase[t] \in {"evaluating", "awaiting"}
        /\ \/ Commit(Reconcile(ClearDecisions(SetPhase(run, t, "accepted"), {t})))
           \/ Commit(Reconcile(ClearDecisions(SetPhase(run, t, "failed"), {t})))
           \/ Commit(Reconcile(Wait(run, t, "unknown")))
           \/ Commit(Reconcile(Wait(run, t, "needs-input")))
    BY <1>1 DEF Evaluate, Evaluable
  <2>2. /\ "accepted" \in Settled /\ "failed" \in Settled
        /\ ~run.cancel
    BY <1>1 DEF Settled, Dead, Evaluate, Evaluable, Cancelled
  <2> QED BY <2>1, <2>2, VerdictSteps, WaitSteps
<1>2. CASE ParkTask(t)
  <2>1. run.phase[t] = "evaluating" /\ Commit(Reconcile(Wait(run, t, "not-ready")))
    BY <1>2 DEF ParkTask
  <2> QED BY <2>1, WaitSteps
<1> QED BY <1>1, <1>2, EvaluateQuotaSteps, StallSteps

----------------------------------------------------------------------------
(* People *)

\* An answer supersedes the attempt that asked.
LEMMA AnswerSteps == ASSUME Traced, NEW t \in Task, Answer(t) PROVE Steps
<1> DEFINE state == IF ParkedFor(run, {"operator-hold"}) THEN run.state ELSE Released(run)
           old == Supersede(run, {t}, "exited")
           told == ClearDecisions(old, {t})
           q == [told EXCEPT !.phase[t] = "pending", !.notBefore[t] = 0, !.state = state]
<1>1. /\ run \in RunType /\ Clock /\ run.bind[t].kind = "exited" /\ Commit(Reconcile(q))
  BY TracedTypes DEF Answer
<1>2. old \in RunType /\ Retires(run, old, {t}, "exited")
  BY <1>1, SupersedeFits, SupersedeRetires, DeadlinesFit DEF ClosedKind
<1> HIDE DEF old
<1>3. /\ told \in RunType /\ told.cancel = old.cancel /\ told.effects = old.effects
      /\ told.freed = old.freed /\ told.bind = old.bind /\ told.prev = old.prev
      /\ told.phase = old.phase
  <2>1. told \in RunType BY <1>1, <1>2, ClearDecisionsFits, DeadlinesFit
  <2>2. /\ told.cancel = old.cancel /\ told.effects = old.effects /\ told.freed = old.freed
        /\ told.bind = old.bind /\ told.prev = old.prev /\ told.phase = old.phase
    BY <1>2 DEF ClearDecisions, RunType
  <2> QED BY <2>1, <2>2
<1>4. state \in StateType BY <1>1, ReleasedFits, FieldsOf
<1> HIDE DEF told, state
<1>5. /\ q \in RunType /\ q.cancel = run.cancel /\ q.effects = run.effects /\ q.freed = run.freed
      /\ q.bind = old.bind /\ q.prev = old.prev
      /\ \A u \in Task \ {t} : q.phase[u] = run.phase[u]
      /\ q.phase[t] = "pending"
  BY <1>2, <1>3, <1>4 DEF Retires, RunType, Phase
<1>6. /\ q.bind[t] = Unbound /\ q.prev[t] = Append(run.prev[t], "exited")
      /\ \A u \in Task \ {t} : q.bind[u] = run.bind[u] /\ q.prev[u] = run.prev[u]
  BY <1>2, <1>5 DEF Retires
<1>7. MayRetry(run, t, "exited") /\ "exited" \in ClosedKind BY DEF MayRetry, ClosedKind
<1> HIDE DEF q
<1> QED BY <1>1, <1>5, <1>6, <1>7, AgainSteps

\* A wait that is rewritten stays the wait of the same attempt.
LEMMA WaitKept ==
  ASSUME NEW r, NEW q, NEW t \in Task, NEW a, LinkAt(r, a, t),
         r.bind[t].kind = "quota-exhausted", q.bind[t].kind = r.bind[t].kind,
         q.bind[t].probes = r.bind[t].probes, q.prev[t] = r.prev[t], q.phase[t] = r.phase[t],
         q.effects = r.effects, q.freed = r.freed
  PROVE  StepAt(r, q, a, a, t) /\ Quiet(r, q, t)
<1>1. LinkAt(q, a, t) BY DEF LinkAt
<1>2. KeptAt(r, q, a, a, t) BY DEF KeptAt, Offers
<1> QED BY <1>1, <1>2 DEF StepAt, Quiet

\* Waits rewritten leave every other part of the Run.
LEMMA WaitsFrame ==
  ASSUME NEW r \in RunType, NEW S \in SUBSET Task, NEW wait \in [Task -> WaitType]
  PROVE  LET q == [r EXCEPT !.bind = [t \in Task |->
                     IF t \in S THEN [r.bind[t] EXCEPT !.wait = wait[t]] ELSE r.bind[t]]]
         IN /\ q \in RunType /\ q.cancel = r.cancel /\ q.effects = r.effects /\ q.state = r.state
            /\ q.freed = r.freed /\ q.phase = r.phase /\ q.prev = r.prev /\ q.decision = r.decision
            /\ \A t \in Task \ S : q.bind[t] = r.bind[t]
            /\ \A t \in S : /\ q.bind[t].kind = r.bind[t].kind
                            /\ q.bind[t].probes = r.bind[t].probes
                            /\ q.bind[t].wait = wait[t]
<1> DEFINE bind == [t \in Task |-> IF t \in S THEN [r.bind[t] EXCEPT !.wait = wait[t]] ELSE r.bind[t]]
           q == [r EXCEPT !.bind = bind]
<1>1. r.bind \in [Task -> BindType] BY FieldsOf
<1>2. ASSUME NEW t \in Task PROVE [r.bind[t] EXCEPT !.wait = wait[t]] \in BindType
  BY <1>1 DEF BindType
<1>3. bind \in [Task -> BindType] BY <1>1, <1>2
<1>4. /\ \A t \in Task \ S : bind[t] = r.bind[t]
      /\ \A t \in S : /\ bind[t].kind = r.bind[t].kind /\ bind[t].probes = r.bind[t].probes
                      /\ bind[t].wait = wait[t]
  BY <1>1 DEF BindType
<1> HIDE DEF bind
<1>5. /\ q \in RunType /\ q.bind = bind /\ q.cancel = r.cancel /\ q.effects = r.effects
      /\ q.freed = r.freed /\ q.phase = r.phase /\ q.prev = r.prev /\ q.state = r.state
      /\ q.decision = r.decision
  BY <1>3, BindFits DEF RunType
<1> HIDE DEF q
<1> QED BY <1>4, <1>5 DEF q, bind

\* Waits rearmed for a person who waits on.
LEMMA RearmedFit ==
  ASSUME NEW w \in WaitType, NEW until \in Horizon, w.rewaits < MaxRewaits
  PROVE  [w EXCEPT !.deadline = until, !.rewaits = @ + 1, !.beyond = FALSE] \in WaitType
<1>1. w.rewaits + 1 \in 0 .. MaxRewaits BY Bounds DEF WaitType
<1> QED BY <1>1 DEF WaitType

\* A person waits on, or lets the tasks that wait for quota be tried again.
LEMMA QuotaAnswerSteps ==
  ASSUME Traced, NEW choice \in {"wait", "next-candidate"}, QuotaAnswer(choice) PROVE Steps
<1> DEFINE open == OpenWaits(run)
           known == {run.bind[t].wait.reset : t \in open} \ (0 .. now)
           all == \A t \in open : run.bind[t].wait.reset > now
           until == IF all THEN Latest(known) ELSE now + MaxWait
           rearmed(w) == [w EXCEPT !.deadline = until, !.rewaits = @ + 1, !.beyond = FALSE]
<1>1. run \in RunType /\ Clock /\ run.bind \in [Task -> BindType] BY TracedTypes, FieldsOf
<1>2. open \in SUBSET Task /\ \A t \in open : run.bind[t].kind = "quota-exhausted"
  BY DEF OpenWaits, Waiting, Binds
<1>3. ASSUME NEW t \in open
      PROVE  LinkAt(run, attempt[t], t) /\ run.phase[t] \in {"pending"} \cup Settled /\ t \notin run.effects
  <2>1. LinkAt(run, attempt[t], t) BY <1>2, TracedAt
  <2> QED BY <1>2, <2>1 DEF LinkAt
<1> HIDE DEF open
<1>4. CASE choice = "wait"
  <2> DEFINE wait == [t \in Task |-> IF t \in open THEN rearmed(run.bind[t].wait) ELSE run.bind[t].wait]
             bind == [t \in Task |-> IF t \in open THEN [run.bind[t] EXCEPT !.wait = wait[t]]
                                     ELSE run.bind[t]]
             q == [run EXCEPT !.bind = bind]
  <2>1. until \in Horizon
    <3>1. known \in SUBSET Horizon BY <1>1, <1>2 DEF BindType, WaitType
    <3> HIDE DEF known
    <3> QED BY <1>1, <3>1, DeadlinesFit, LatestInHorizon
  <2>2. \A t \in open : run.bind[t].wait.rewaits < MaxRewaits
    BY <1>4 DEF QuotaAnswer, open
  <2>3. run' = [SetWaits(run, open, rearmed) EXCEPT
                  !.state = Parked("quota-exhausted", run.state.hold, until)]
        /\ attempt' = attempt
    BY <1>4 DEF QuotaAnswer, open, Commit
  <2> HIDE DEF until
  <2>4. wait \in [Task -> WaitType]
    <3>1. \A t \in Task : run.bind[t].wait \in WaitType BY <1>1 DEF BindType
    <3>2. \A t \in open : rearmed(run.bind[t].wait) \in WaitType
      BY <1>2, <2>1, <2>2, <3>1, RearmedFit
    <3> HIDE DEF rearmed
    <3> QED BY <3>1, <3>2
  <2>5. SetWaits(run, open, rearmed) = q BY DEF SetWaits
  <2>6. /\ q \in RunType /\ q.cancel = run.cancel /\ q.effects = run.effects
        /\ q.freed = run.freed /\ q.phase = run.phase /\ q.prev = run.prev
        /\ \A t \in Task \ open : q.bind[t] = run.bind[t]
        /\ \A t \in open : /\ q.bind[t].kind = run.bind[t].kind
                           /\ q.bind[t].probes = run.bind[t].probes
    <3>1. run \in RunType /\ open \in SUBSET Task BY <1>1, <1>2
    <3> HIDE DEF wait
    <3> QED BY <3>1, <2>4, WaitsFrame
  <2> HIDE DEF q
  <2>7. Follows(run, q, open) BY <2>6 DEF Follows, Same
  <2>8. Follows(q, run', {}) BY <2>3, <2>5, <2>6, StateRestates, RestateFollows
  <2>9. \A t \in Task \cap open : StepAt(run, q, attempt[t], attempt'[t], t) /\ Quiet(run, q, t)
    BY <1>2, <1>3, <2>3, <2>6, WaitKept
  <2> QED BY <2>3, <2>7, <2>8, <2>9, StepOf DEF Traced
<1>5. CASE choice = "next-candidate"
  <2> DEFINE q == Supersede(run, open, "quota-exhausted")
  <2>1. q \in RunType /\ Retires(run, q, open, "quota-exhausted")
    BY <1>1, SupersedeFits, SupersedeRetires, DeadlinesFit DEF ClosedKind
  <2>2. run' = [q EXCEPT !.state = Released(run)] /\ attempt' = attempt
    BY <1>5 DEF QuotaAnswer, open, Commit
  <2> HIDE DEF q
  <2>3. Follows(run, q, open) BY <2>1, RetireFollows
  <2>4. Follows(q, run', {}) BY <2>1, <2>2, StateRestates, RestateFollows
  <2>5. \A t \in Task \cap open : StepAt(run, q, attempt[t], attempt'[t], t) /\ Quiet(run, q, t)
    BY <1>1, <1>2, <1>3, <2>1, <2>2, RetireStep
  <2> QED BY <2>2, <2>3, <2>4, <2>5, StepOf DEF Traced
<1> QED BY <1>4, <1>5

\* A channel declared usable releases its waits; what a Run can still try again
\* is superseded.
LEMMA ReleaseQuotaSteps == ASSUME Traced, NEW channel, ReleaseQuota(channel) PROVE Steps
<1> DEFINE chosen == {t \in OpenWaits(run) : /\ ChannelOf[t] = channel
                                             /\ run.bind[t].wait.deadline > now}
           held == IF run.cancel \/ IsEnded(run) THEN {}
                   ELSE {t \in chosen : run.phase[t] = "pending"}
           left == Waiting(run) \ chosen
           state == IF run.cancel \/ ~ParkedFor(run, {"quota-exhausted"}) THEN run.state
                    ELSE IF left # {}
                      THEN Parked("quota-exhausted", run.state.hold, Latest(WaitsOf(run, left)))
                    ELSE Released(run)
           freed(w) == [w EXCEPT !.released = TRUE]
           wait == [t \in Task |-> freed(run.bind[t].wait)]
           bind == [t \in Task |-> IF t \in chosen THEN [run.bind[t] EXCEPT !.wait = wait[t]]
                                   ELSE run.bind[t]]
           m == [run EXCEPT !.bind = bind]
           q == Supersede(m, held, "quota-exhausted")
<1>1. run \in RunType /\ Clock /\ run.bind \in [Task -> BindType] BY TracedTypes, FieldsOf
<1>2. /\ chosen \in SUBSET Task /\ held \in SUBSET chosen
      /\ \A t \in chosen : run.bind[t].kind = "quota-exhausted"
  BY DEF OpenWaits, Waiting, Binds
<1>3. run' = [Supersede(SetWaits(run, chosen, freed), held, "quota-exhausted") EXCEPT !.state = state]
      /\ attempt' = attempt
  BY DEF ReleaseQuota, Commit
<1>4. SetWaits(run, chosen, freed) = m BY DEF SetWaits
<1>5. wait \in [Task -> WaitType]
  <2>1. ASSUME NEW t \in Task PROVE freed(run.bind[t].wait) \in WaitType
    <3>1. run.bind[t].wait \in WaitType BY <1>1 DEF BindType
    <3> QED BY <3>1 DEF WaitType
  <2> QED BY <2>1
<1> HIDE DEF chosen, held, state, wait
<1>6. /\ m \in RunType /\ m.cancel = run.cancel /\ m.effects = run.effects
      /\ m.freed = run.freed /\ m.phase = run.phase /\ m.prev = run.prev
      /\ \A t \in Task \ chosen : m.bind[t] = run.bind[t]
      /\ \A t \in chosen : /\ m.bind[t].kind = run.bind[t].kind
                           /\ m.bind[t].probes = run.bind[t].probes
  BY <1>1, <1>2, <1>5, WaitsFrame
<1> HIDE DEF m
<1>7. q \in RunType /\ Retires(m, q, held, "quota-exhausted")
  BY <1>1, <1>6, SupersedeFits, SupersedeRetires, DeadlinesFit DEF ClosedKind
<1>8. run' = [q EXCEPT !.state = state] BY <1>3, <1>4
<1> HIDE DEF q
<1>9. Follows(run, q, chosen) BY <1>2, <1>6, <1>7 DEF Follows, Same, Retires
<1>10. Follows(q, run', {}) BY <1>7, <1>8, StateRestates, RestateFollows
<1>11. ASSUME NEW t \in Task \cap chosen
       PROVE  StepAt(run, q, attempt[t], attempt'[t], t) /\ Quiet(run, q, t)
  <2>1. LinkAt(run, attempt[t], t) /\ run.bind[t].kind = "quota-exhausted"
    BY <1>2, TracedAt
  <2>2. StepAt(run, m, attempt[t], attempt[t], t) /\ Quiet(run, m, t)
    BY <1>6, <2>1, WaitKept
  <2>3. /\ LinkAt(m, attempt[t], t) /\ m.bind[t].kind = "quota-exhausted"
        /\ m.phase[t] \in {"pending"} \cup Settled /\ t \notin m.effects
    BY <1>6, <2>1, <2>2 DEF StepAt, LinkAt
  <2>4. CASE t \in held
    <3>1. StepAt(m, q, attempt[t], attempt[t], t) /\ Quiet(m, q, t)
      BY <1>6, <1>7, <2>3, <2>4, RetireStep
    <3>2. KeptAt(run, q, attempt[t], attempt[t], t)
      <4>1. attempt[t].obs \in Finished BY <2>1 DEF LinkAt, Finished
      <4>2. Offers(run, q, t) BY <1>6, <3>1 DEF Quiet, Offers, MayRetry
      <4>3. q.phase[t] = run.phase[t] BY <1>6, <1>7 DEF Retires
      <4> QED BY <2>1, <4>1, <4>2, <4>3 DEF KeptAt
    <3> QED BY <1>3, <1>6, <3>1, <3>2 DEF StepAt, Quiet
  <2>5. CASE t \notin held
    <3>1. q.bind[t] = m.bind[t] /\ q.prev[t] = m.prev[t] /\ q.phase[t] = m.phase[t]
          /\ q.effects = m.effects /\ q.freed = m.freed
      BY <1>7, <2>5 DEF Retires
    <3> QED BY <1>3, <1>6, <2>1, <3>1, WaitKept
  <2> QED BY <2>4, <2>5
<1> QED BY <1>3, <1>9, <1>10, <1>11, StepOf DEF Traced

\* Whatever a person decides.
LEMMA PersonSteps == ASSUME Traced, PersonStep PROVE Steps
<1>1. ASSUME NEW t \in Task, NEW verdict \in {"accepted", "failed"}, Resolve(t, verdict) PROVE Steps
  <2>1. /\ run.phase[t] = "awaiting"
        /\ Commit(Reconcile(ClearDecisions(SetPhase(run, t, verdict), {t})))
    BY <1>1 DEF Resolve, Open
  <2>2. verdict \in Settled /\ ~run.cancel BY <1>1 DEF Settled, Dead, Resolve, Open
  <2> QED BY <2>1, <2>2, VerdictSteps
<1> QED BY <1>1, AnswerSteps, OperatorSteps, QuotaAnswerSteps, ReleaseQuotaSteps DEF PersonStep

----------------------------------------------------------------------------
(* Cancellation *)

\* A request to cancel closes what waits and marks the Run.
LEMMA RequestSame ==
  ASSUME NEW r \in RunType, Clock
  PROVE  LET q == RequestCancellation(r)
         IN q \in RunType /\ q.cancel /\ \A t \in Task : Same(r, q, t)
<1> DEFINE U == Closable(r)
           moved == SetPhases(r, U, "cancelled")
           closed == ClearDecisions(moved, Awaiting(r))
           q == [closed EXCEPT !.cancel = TRUE]
<1>1. moved \in RunType /\ closed \in RunType
  BY SetPhasesFits, ClearDecisionsFits, DeadlinesFit DEF Phase
<1>2. /\ q \in RunType /\ q.effects = r.effects /\ q.freed = r.freed /\ q.bind = r.bind
      /\ q.prev = r.prev /\ q.cancel
      /\ \A t \in Task : q.phase[t] = IF t \in U THEN "cancelled" ELSE r.phase[t]
  BY <1>1 DEF SetPhases, ClearDecisions, RunType
<1>3. \A t \in U : r.phase[t] \in {"pending", "awaiting"} BY DEF Closable, PhaseIn
<1>4. RequestCancellation(r) = IF r.cancel /\ U = {} THEN r ELSE Reconcile(q)
  BY Zenon DEF RequestCancellation, q, closed, moved, U
<1> HIDE DEF q, U
<1>5. Follows(r, r, {}) BY FollowsSelf
<1>6. \A t \in Task : Same(r, q, t) BY <1>2, <1>3 DEF Same, Settled, Dead
<1>7. Reconcile(q) \in RunType /\ Reconcile(q).cancel = q.cancel /\ Follows(q, Reconcile(q), {})
  BY <1>2, ReconcileFits, ReconcileFollows
<1>8. \A t \in Task : Same(r, Reconcile(q), t) BY <1>6, <1>7, SameTwice DEF Follows
<1> HIDE DEF Closable
<1> QED BY <1>2, <1>4, <1>5, <1>7, <1>8 DEF Follows

\* cancelRun: every launch that waits learns of it, and what is settled had no
\* worker.
LEMMA CancelRunSteps == ASSUME Traced, CancelRun PROVE Steps
<1> DEFINE r == RequestCancellation(run)
           U == Settleable(r, attempt')
           q == SetPhases(r, U, "cancelled")
<1>1. /\ run \in RunType /\ Clock
      /\ attempt \in [Task -> AttemptType] /\ attempt' \in [Task -> AttemptType]
  BY TracedTypes
<1>2. r \in RunType /\ r.cancel /\ \A t \in Task : Same(run, r, t) BY <1>1, RequestSame
<1>3. run' = IF U = {} THEN r ELSE Reconcile(q) BY DEF CancelRun
<1>4. /\ U \subseteq Task /\ U \cap r.effects = {}
      /\ \A t \in U : \/ r.phase[t] = "active" /\ r.bind[t].kind = "none"
                         /\ attempt'[t].launch = "none"
                      \/ r.phase[t] = "evaluating" /\ r.bind[t].kind = "exited"
  BY DEF Settleable
<1> HIDE DEF r, U
<1>5. /\ q \in RunType /\ q.cancel = r.cancel /\ q.effects = r.effects /\ q.freed = r.freed
      /\ q.bind = r.bind /\ q.prev = r.prev
      /\ \A t \in Task : q.phase[t] = IF t \in U THEN "cancelled" ELSE r.phase[t]
  <2>1. r \in RunType BY <1>2
  <2>2. q \in RunType BY <2>1, SetPhasesFits DEF Phase
  <2>3. q = [r EXCEPT !.phase = [t \in Task |-> IF t \in U THEN "cancelled" ELSE r.phase[t]]]
    BY DEF SetPhases
  <2> HIDE DEF q
  <2> QED BY <2>1, <2>2, <2>3 DEF RunType
<1> DEFINE m == IF U = {} THEN r ELSE q
<1>6. /\ m \in RunType /\ m.cancel /\ m.effects = r.effects /\ m.freed = r.freed
      /\ m.bind = r.bind /\ m.prev = r.prev
      /\ \A t \in Task : m.phase[t] = IF t \in U THEN "cancelled" ELSE r.phase[t]
  BY <1>2, <1>5
<1>7. Follows(m, run', {}) BY <1>1, <1>3, <1>5, ReconcileFollows, FollowsSelf
<1> HIDE DEF m, q
<1>8. ASSUME NEW t \in Task PROVE StepAt(run, m, attempt[t], attempt'[t], t)
  <2>1. /\ LinkAt(run, attempt[t], t)
        /\ attempt[t].launch = "pending" => attempt[t].obs = "none"
        /\ attempt[t] \in AttemptType
    BY TracedAt
  <2>2. /\ attempt'[t].launch = attempt[t].launch /\ attempt'[t].obs = attempt[t].obs
        /\ attempt'[t].closing = attempt[t].closing
        /\ attempt[t].cancel => attempt'[t].cancel
        /\ run.bind[t].kind # "unbound" /\ attempt[t].obs \notin Finished => attempt'[t].cancel
    BY <1>1, <2>1 DEF CancelRun, CancelAttempts, AttemptType
  <2>3. Same(run, r, t) BY <1>2
  <2>4. LinkAt(r, attempt'[t], t)
    BY <2>1, <2>2, <2>3 DEF LinkAt, Same, Settled, Dead, Finished
  <2>5. LinkAt(m, attempt'[t], t)
    <3>1. CASE t \notin U BY <1>2, <1>6, <2>4, <3>1 DEF LinkAt
    <3>2. CASE t \in U BY <1>2, <1>4, <1>6, <2>4, <3>2 DEF LinkAt, Settled, Dead
    <3> QED BY <3>1, <3>2
  <2>6. KeptAt(run, m, attempt[t], attempt'[t], t)
    <3>1. Offers(run, m, t) /\ m.prev[t] = run.prev[t] BY <1>6, <2>3 DEF Offers, Same
    <3>2. run.bind[t].kind = "unknown" =>
            /\ m.bind[t] = run.bind[t] /\ m.phase[t] = "reconciling"
            /\ t \in run.effects => t \in m.effects
      BY <1>4, <1>6, <2>1, <2>3 DEF LinkAt, Same
    <3>3. m.phase[t] = "accepted" => run.phase[t] = "accepted" BY <1>6, <2>3 DEF Same, Dead
    <3> QED BY <2>2, <3>1, <3>2, <3>3 DEF KeptAt
  <2> QED BY <2>5, <2>6 DEF StepAt
<1>9. \A t \in Task : Quiet(run, m, t) BY <1>2, <1>6 DEF Quiet, Same
<1>10. \A t \in Task : StepAt(run, run', attempt[t], attempt'[t], t)
  BY <1>7, <1>8, StepThen DEF Follows
<1>11. \A t \in Task : Quiet(run, run', t) BY <1>7, <1>9 DEF Quiet, Follows, Same
<1> QED BY <1>10, <1>11 DEF Steps

\* Every transaction is a legal step of every task.
LEMMA NextSteps == ASSUME Traced, [Next]_vars PROVE Steps
<1>1. CASE UNCHANGED vars
  <2>1. run' = run /\ attempt' = attempt BY <1>1 DEF vars
  <2>2. Follows(run, run', {}) BY <2>1, FollowsSelf
  <2> QED BY <2>1, <2>2, StepClosing DEF Traced
<1>2. CASE CancelStep BY <1>2, CancelRunSteps, AttemptSteps DEF CancelStep
<1> QED BY <1>1, <1>2, TimeSteps, ReserveSteps, LaunchSteps, EvaluationSteps, PersonSteps DEF Next

----------------------------------------------------------------------------
(* Retries *)

\* The superseded attempts of a kind, task by task and of some tasks.
Of(s, kind) == {i \in DOMAIN s : s[i] = kind}
Marks(r, S, kind) == {p \in Superseded(r) : p[1] \in S /\ r.prev[p[1]][p[2]] = kind}

\* The marks of some tasks are those of each of them.
LEMMA MarksOf ==
  ASSUME NEW r, NEW S \in SUBSET Task, NEW kind, NEW p
  PROVE  p \in Marks(r, S, kind) <=> \E t \in S : \E i \in Of(r.prev[t], kind) : p = <<t, i>>
  BY DEF Marks, Of, Superseded

\* Runs that superseded the same attempts of a kind have the same marks of it.
LEMMA MarksSame ==
  ASSUME NEW r, NEW q, NEW S, S \subseteq Task, NEW kind,
         \A t \in S : Of(q.prev[t], kind) = Of(r.prev[t], kind)
  PROVE  Marks(q, S, kind) = Marks(r, S, kind) /\ Count(q, S, kind) = Count(r, S, kind)
<1>1. ASSUME NEW p PROVE p \in Marks(q, S, kind) <=> p \in Marks(r, S, kind)
  <2>1. p \in Marks(q, S, kind) <=> \E t \in S : \E i \in Of(q.prev[t], kind) : p = <<t, i>>
    BY MarksOf
  <2>2. p \in Marks(r, S, kind) <=> \E t \in S : \E i \in Of(r.prev[t], kind) : p = <<t, i>>
    BY MarksOf
  <2> QED BY <2>1, <2>2
<1>2. Marks(q, S, kind) = Marks(r, S, kind) BY <1>1
<1> QED BY <1>2 DEF Count, Marks

\* One more superseded attempt is one more mark of its kind.
LEMMA OfAppended ==
  ASSUME NEW s \in Seq(ClosedKind), NEW as \in ClosedKind
  PROVE  Of(Append(s, as), as) = Of(s, as) \cup {Len(s) + 1}
<1> DEFINE u == Append(s, as)
           n == Len(s) + 1
<1>1. /\ DOMAIN s = 1 .. Len(s) /\ Len(s) \in Nat
      /\ u[n] = as /\ \A j \in 1 .. Len(s) : u[j] = s[j]
  <2>1. DOMAIN s = 1 .. Len(s) /\ Len(s) \in Nat BY Zenon, LenProperties
  <2>2. u[n] = as BY Zenon, AppendProperties
  <2>3. \A j \in 1 .. Len(s) : u[j] = s[j] BY SMT
  <2> QED BY <2>1, <2>2, <2>3
<1>2. DOMAIN u = 1 .. n BY SMT
<1> HIDE DEF u
<1>3. \A i : i \in 1 .. n <=> i \in 1 .. Len(s) \/ i = n BY <1>1
<1>4. n \notin 1 .. Len(s) BY <1>1
<1> HIDE DEF n
<1>5. Of(u, as) = Of(s, as) \cup {n} BY <1>1, <1>2, <1>3, <1>4 DEF Of
<1> QED BY <1>5 DEF u, n

\* It is none of another kind.
LEMMA OfOthers ==
  ASSUME NEW s \in Seq(ClosedKind), NEW as \in ClosedKind, NEW kind, as # kind
  PROVE  Of(Append(s, as), kind) = Of(s, kind)
<1> DEFINE u == Append(s, as)
           n == Len(s) + 1
<1>1. /\ DOMAIN s = 1 .. Len(s) /\ Len(s) \in Nat
      /\ u[n] = as /\ \A j \in 1 .. Len(s) : u[j] = s[j]
  <2>1. DOMAIN s = 1 .. Len(s) /\ Len(s) \in Nat BY Zenon, LenProperties
  <2>2. u[n] = as BY Zenon, AppendProperties
  <2>3. \A j \in 1 .. Len(s) : u[j] = s[j] BY SMT
  <2> QED BY <2>1, <2>2, <2>3
<1>2. DOMAIN u = 1 .. n BY SMT
<1> HIDE DEF u
<1>3. \A i : i \in 1 .. n <=> i \in 1 .. Len(s) \/ i = n BY <1>1
<1> HIDE DEF n
<1>4. Of(u, kind) = Of(s, kind) BY <1>1, <1>2, <1>3 DEF Of
<1> QED BY <1>4 DEF u

\* The marks of some tasks, of task t one more at n, and what they amount to.
OneMore(r, q, S, kind, t, n) ==
  /\ Of(q.prev[t], kind) = Of(r.prev[t], kind) \cup {n}
  /\ \A u \in S \ {t} : Of(q.prev[u], kind) = Of(r.prev[u], kind)
AtMostOneMore(r, q, S, kind) ==
  /\ IsFiniteSet(Marks(q, S, kind))
  /\ Count(q, S, kind) \in Nat /\ Count(r, S, kind) \in Nat
  /\ Count(q, S, kind) <= Count(r, S, kind) + 1

\* A single new mark adds at most one to a count.
LEMMA MarksAdded ==
  ASSUME NEW r, NEW q, NEW S, S \subseteq Task, NEW kind, NEW t \in Task, NEW n,
         OneMore(r, q, S, kind, t, n), IsFiniteSet(Marks(r, S, kind))
  PROVE  AtMostOneMore(r, q, S, kind)
<1> USE DEF OneMore, AtMostOneMore
<1>1. CASE t \notin S
  <2>1. Marks(q, S, kind) = Marks(r, S, kind) /\ Count(q, S, kind) = Count(r, S, kind)
    BY <1>1, MarksSame
  <2>2. Count(r, S, kind) \in Nat BY FS_CardinalityType DEF Count, Marks
  <2> QED BY <2>1, <2>2
<1>2. CASE t \in S
  <2> DEFINE M == Marks(r, S, kind)
             N == Marks(q, S, kind)
  <2>1. ASSUME NEW p PROVE p \in N <=> p \in M \/ p = <<t, n>>
    <3>1. p \in N <=> \E u \in S : \E i \in Of(q.prev[u], kind) : p = <<u, i>> BY MarksOf
    <3>2. p \in M <=> \E u \in S : \E i \in Of(r.prev[u], kind) : p = <<u, i>> BY MarksOf
    <3> QED BY <1>2, <3>1, <3>2
  <2>2. N = M \cup {<<t, n>>} BY <2>1
  <2>3. IsFiniteSet(M) OBVIOUS
  <2>4. Count(r, S, kind) = Cardinality(M) /\ Count(q, S, kind) = Cardinality(N)
    BY DEF Count, Marks
  <2> HIDE DEF M, N
  <2>5. /\ IsFiniteSet(N) /\ Cardinality(M) \in Nat
        /\ Cardinality(N) = Cardinality(M) \/ Cardinality(N) = Cardinality(M) + 1
    BY <2>2, <2>3, FS_AddElement, FS_CardinalityType
  <2> QED BY <1>2, <2>4, <2>5 DEF N
<1> QED BY <1>1, <1>2

\* The attempts of each task that the Run itself retried, as bounds on the Run.
Retried == {"lost", "stalled"}
Counted(r) ==
  /\ \A kind \in Retried : IsFiniteSet(Marks(r, Task, kind))
  /\ Count(r, Task, "lost") <= LostPerRun
  /\ \A t \in Task : /\ Count(r, {t}, "lost") <= LostPerTask
                     /\ Count(r, {t}, "stalled") <= StallRetries
  /\ Recovery => \A t \in Task : \A kind \in Retried : \A i \in Of(r.prev[t], kind) : i < AttemptCeiling

\* Runs that retried the same attempts are both inside the bounds.
LEMMA CountedSame ==
  ASSUME NEW r, NEW q, Counted(r), \A t \in Task : \A kind \in Retried : Of(q.prev[t], kind) = Of(r.prev[t], kind)
  PROVE  Counted(q)
<1>1. ASSUME NEW kind \in Retried, NEW S \in SUBSET Task
      PROVE  Marks(q, S, kind) = Marks(r, S, kind) /\ Count(q, S, kind) = Count(r, S, kind)
  BY MarksSame
<1>2. Task \in SUBSET Task /\ \A t \in Task : {t} \in SUBSET Task OBVIOUS
<1> QED BY <1>1, <1>2 DEF Counted, Retried

\* An attempt superseded for another reason is no retry of the Run itself.
LEMMA QuietCounted ==
  ASSUME NEW r \in RunType, NEW q, Counted(r), \A t \in Task : Quiet(r, q, t)
  PROVE  Counted(q)
<1>1. ASSUME NEW t \in Task, NEW kind \in Retried PROVE Of(q.prev[t], kind) = Of(r.prev[t], kind)
  <2>1. r.prev[t] \in Seq(ClosedKind) BY DEF RunType
  <2>2. CASE q.prev[t] = r.prev[t] BY <2>2 DEF Of
  <2>3. ASSUME NEW as \in ClosedKind \ {"lost", "stalled"}, q.prev[t] = Append(r.prev[t], as)
        PROVE  Of(q.prev[t], kind) = Of(r.prev[t], kind)
    <3>1. as \in ClosedKind /\ as # kind BY DEF Retried
    <3>2. Of(Append(r.prev[t], as), kind) = Of(r.prev[t], kind) BY <2>1, <3>1, OfOthers
    <3> QED BY <2>3, <3>2
  <2> QED BY <2>2, <2>3 DEF Quiet
<1> QED BY <1>1, CountedSame

\* A retry that may be made is inside the bounds.
LEMMA RetryCounted ==
  ASSUME NEW r \in RunType, NEW q, Counted(r), NEW t \in Task, NEW as \in ClosedKind,
         q.prev[t] = Append(r.prev[t], as), MayRetry(r, t, as),
         \A u \in Task \ {t} : q.prev[u] = r.prev[u]
  PROVE  Counted(q)
<1> DEFINE n == Len(r.prev[t]) + 1
<1>1. r.prev[t] \in Seq(ClosedKind) /\ Len(r.prev[t]) \in Nat BY DEF RunType
<1>2. ASSUME NEW kind, as # kind PROVE Of(q.prev[t], kind) = Of(r.prev[t], kind)
  BY <1>1, <1>2, Zenon, OfOthers
<1>3. Of(q.prev[t], as) = Of(r.prev[t], as) \cup {n} BY <1>1, Zenon, OfAppended
<1>4. ASSUME NEW kind \in Retried, NEW S \in SUBSET Task, as # kind
      PROVE  Marks(q, S, kind) = Marks(r, S, kind) /\ Count(q, S, kind) = Count(r, S, kind)
  <2>1. \A u \in S : Of(q.prev[u], kind) = Of(r.prev[u], kind) BY <1>2, <1>4
  <2>2. S \subseteq Task OBVIOUS
  <2> HIDE DEF n
  <2> QED BY <2>1, <2>2, MarksSame
<1>5. ASSUME NEW kind, NEW S, S \subseteq Task, \A u \in S : Of(q.prev[u], kind) = Of(r.prev[u], kind)
       PROVE  Count(q, S, kind) = Count(r, S, kind)
  BY ONLY <1>5, MarksSame
<1>6. ASSUME NEW S \in SUBSET Task, as \in Retried
      PROVE  /\ AtMostOneMore(r, q, S, as)
             /\ t \notin S => Count(q, S, as) = Count(r, S, as)
  <2>1. OneMore(r, q, S, as, t, n) BY <1>3 DEF OneMore
  <2>2. IsFiniteSet(Marks(r, S, as))
    <3>1. IsFiniteSet(Marks(r, Task, as)) BY <1>6 DEF Counted
    <3>2. Marks(r, S, as) \in SUBSET Marks(r, Task, as) BY DEF Marks
    <3> QED BY <3>1, <3>2, FS_Subset
  <2>3. S \subseteq Task OBVIOUS
  <2> HIDE DEF n
  <2>4. AtMostOneMore(r, q, S, as) BY <2>1, <2>2, <2>3, MarksAdded
  <2>5. ASSUME t \notin S PROVE Count(q, S, as) = Count(r, S, as)
    <3>1. \A u \in S : Of(q.prev[u], as) = Of(r.prev[u], as) BY <2>5
    <3> QED BY <1>5, <2>3, <3>1
  <2> QED BY <2>4, <2>5
<1>7. {LostPerTask, LostPerRun, StallRetries, AttemptCeiling} \subseteq Nat BY RunAssumption
<1>8. Task \in SUBSET Task /\ \A u \in Task : {u} \in SUBSET Task OBVIOUS
<1>9. \A kind \in Retried : IsFiniteSet(Marks(q, Task, kind))
  BY <1>4, <1>6, <1>8 DEF Counted, AtMostOneMore
<1>10. Count(q, Task, "lost") <= LostPerRun
  <2>1. CASE as = "lost"
    <3>1. /\ Count(q, Task, "lost") \in Nat /\ Count(r, Task, "lost") \in Nat
          /\ Count(q, Task, "lost") <= Count(r, Task, "lost") + 1
      BY <1>6, <1>8, <2>1 DEF Retried, AtMostOneMore
    <3>2. Count(r, Task, "lost") < LostPerRun BY <2>1 DEF MayRetry
    <3> QED BY <1>7, <3>1, <3>2
  <2>2. CASE as # "lost" BY <1>4, <1>8, <2>2 DEF Counted, Retried
  <2> QED BY <2>1, <2>2
<1>11. ASSUME NEW u \in Task PROVE Count(q, {u}, "lost") <= LostPerTask
  <2>1. CASE as = "lost" /\ u = t
    <3>1. /\ Count(q, {t}, "lost") \in Nat /\ Count(r, {t}, "lost") \in Nat
          /\ Count(q, {t}, "lost") <= Count(r, {t}, "lost") + 1
      BY <1>6, <1>8, <2>1 DEF Retried, AtMostOneMore
    <3>2. Count(r, {t}, "lost") < LostPerTask BY <2>1 DEF MayRetry
    <3> QED BY <1>7, <2>1, <3>1, <3>2
  <2>2. CASE as = "lost" /\ u # t
    <3>1. Count(q, {u}, "lost") = Count(r, {u}, "lost") BY <1>6, <1>8, <2>2 DEF Retried
    <3> QED BY <3>1 DEF Counted
  <2>3. CASE as # "lost" BY <1>4, <1>8, <2>3 DEF Counted, Retried
  <2> QED BY <2>1, <2>2, <2>3
<1>12. ASSUME NEW u \in Task PROVE Count(q, {u}, "stalled") <= StallRetries
  <2>1. CASE as = "stalled" /\ u = t
    <3>1. /\ Count(q, {t}, "stalled") \in Nat /\ Count(r, {t}, "stalled") \in Nat
          /\ Count(q, {t}, "stalled") <= Count(r, {t}, "stalled") + 1
      BY <1>6, <1>8, <2>1 DEF Retried, AtMostOneMore
    <3>2. Count(r, {t}, "stalled") < StallRetries BY <2>1 DEF MayRetry
    <3> QED BY <1>7, <2>1, <3>1, <3>2
  <2>2. CASE as = "stalled" /\ u # t
    <3>1. Count(q, {u}, "stalled") = Count(r, {u}, "stalled") BY <1>6, <1>8, <2>2 DEF Retried
    <3> QED BY <3>1 DEF Counted
  <2>3. CASE as # "stalled" BY <1>4, <1>8, <2>3 DEF Counted, Retried
  <2> QED BY <2>1, <2>2, <2>3
<1>13. ASSUME Recovery, NEW u \in Task, NEW kind \in Retried, NEW i \in Of(q.prev[u], kind)
       PROVE  i < AttemptCeiling
  <2>1. CASE i \in Of(r.prev[u], kind) BY <1>13, <2>1 DEF Counted
  <2>2. CASE i \notin Of(r.prev[u], kind)
    <3>1. as = kind /\ u = t /\ i = n BY <1>2, <1>3, <2>2
    <3>2. ~CeilingReached(r, t) BY <3>1 DEF MayRetry, Retried
    <3> QED BY <1>7, <1>1, <1>13, <3>1, <3>2 DEF CeilingReached
  <2> QED BY <2>1, <2>2
<1> QED BY <1>9, <1>10, <1>11, <1>12, <1>13 DEF Counted

\* No transaction takes a Run past its bounds.
LEMMA StaysCounted == ASSUME run \in RunType, Counted(run), Steps PROVE Counted(run')
<1> DEFINE q == run'
<1>1. CASE \A t \in Task : Quiet(run, q, t)
  <2> HIDE DEF q
  <2>1. Counted(q) BY <1>1, QuietCounted
  <2> QED BY <2>1 DEF q
<1>2. ASSUME NEW t \in Task, \A u \in Task \ {t} : q.prev[u] = run.prev[u] PROVE Counted(q)
  <2>1. Offers(run, q, t) BY DEF Steps, StepAt, KeptAt
  <2> HIDE DEF q
  <2>2. CASE q.prev[t] = run.prev[t]
    <3>1. \A u \in Task : \A kind \in Retried : Of(q.prev[u], kind) = Of(run.prev[u], kind)
      BY <1>2, <2>2 DEF Of
    <3> QED BY <3>1, CountedSame
  <2>3. ASSUME NEW as \in ClosedKind, q.prev[t] = Append(run.prev[t], as), MayRetry(run, t, as)
        PROVE  Counted(q)
    BY <1>2, <2>3, RetryCounted
  <2> QED BY <2>1, <2>2, <2>3 DEF Offers
<1> QED BY <1>1, <1>2 DEF Steps

----------------------------------------------------------------------------
(* What holds of every Run *)

\* A Run that was just created has bound and superseded nothing.
LEMMA LinkedInit == Init => Linked(run, attempt) /\ Counted(run)
<1> SUFFICES ASSUME Init PROVE Linked(run, attempt) /\ Counted(run) OBVIOUS
<1>1. Linked(run, attempt)
  BY DEF Init, Linked, LinkAt, Unbound, NoAttempt, Running
<1>2. \A t \in Task : run.prev[t] = <<>> BY DEF Init
<1>3. ASSUME NEW S \in SUBSET Task, NEW kind
      PROVE  /\ Marks(run, S, kind) = {} /\ IsFiniteSet(Marks(run, S, kind))
             /\ Count(run, S, kind) = 0
  <2>1. \A t \in S : Of(run.prev[t], kind) = {} BY <1>2 DEF Of
  <2>2. \A p : p \notin Marks(run, S, kind) BY <2>1, MarksOf
  <2>3. Marks(run, S, kind) = {} BY <2>2
  <2>4. Count(run, S, kind) = Cardinality(Marks(run, S, kind)) BY DEF Count, Marks
  <2> QED BY <2>3, <2>4, FS_EmptySet
<1>4. Task \in SUBSET Task /\ \A t \in Task : {t} \in SUBSET Task OBVIOUS
<1>5. {LostPerTask, LostPerRun, StallRetries} \subseteq Nat BY RunAssumption
<1>6. \A t \in Task : \A kind \in Retried : Of(run.prev[t], kind) = {} BY <1>2 DEF Of
<1>7. Counted(run) BY <1>3, <1>4, <1>5, <1>6 DEF Counted
<1> QED BY <1>1, <1>7

\* Every transaction keeps the two records in agreement and the Run in its bounds.
LEMMA LinkedNext ==
  TypeOK /\ TypeOK' /\ Inv /\ Linked(run, attempt) /\ Counted(run) /\ [Next]_vars
    => Linked(run, attempt)' /\ Counted(run)' /\ Steps
<1> SUFFICES ASSUME TypeOK, TypeOK', Inv, Linked(run, attempt), Counted(run), [Next]_vars
             PROVE  Linked(run, attempt)' /\ Counted(run)' /\ Steps
  OBVIOUS
<1>1. Steps BY NextSteps DEF Traced
<1>2. Linked(run', attempt') BY <1>1 DEF Steps, StepAt, Linked
<1>3. run \in RunType BY DEF TypeOK
<1>4. Counted(run') BY <1>1, <1>3, StaysCounted
<1> QED BY <1>1, <1>2, <1>4

\* The Run and the attempts of its tasks agree after every transaction of either.
THEOREM Agreement == Spec => [](Linked(run, attempt) /\ Counted(run))
BY LinkedInit, LinkedNext, TypeCorrect, Invariance, PTL DEF Spec

\* No launch, release, retry or continuation ever gives a task a second worker:
\* what it supersedes is over (continueLostTask, recoverStalledTask, the
\* retries of a refusal and of a wait for quota).
THEOREM OldWorkIsOver == Spec => OldAttemptIsOver
<1>1. TypeOK /\ TypeOK' /\ Inv /\ Linked(run, attempt) /\ Counted(run) /\ [Next]_vars =>
        [\A t \in Task : run'.prev[t] # run.prev[t] =>
           attempt[t].obs \in Finished \/ (attempt[t].obs = "unknown" /\ t \in run.freed)]_vars
  BY LinkedNext DEF Steps, StepAt, KeptAt
<1> QED BY <1>1, Agreement, Invariance, TypeCorrect, PTL DEF Spec, OldAttemptIsOver

\* Neither expiry nor cancellation nor close nor any other writer takes a lost
\* worker's task or slot before the worker is proven stopped (releaseWorkerCustody).
THEOREM LostWorkStays == Spec => LostWorkIsKept
<1>1. TypeOK /\ TypeOK' /\ Inv /\ Linked(run, attempt) /\ Counted(run) /\ [Next]_vars =>
        [\A t \in run.effects \ run.freed : run.bind[t].kind = "unknown" =>
           t \in run'.effects /\ run'.phase[t] = "reconciling" /\ run'.bind[t] = run.bind[t]]_vars
  <2> SUFFICES ASSUME TypeOK, TypeOK', Inv, Linked(run, attempt), Counted(run), [Next]_vars
               PROVE  \A t \in run.effects \ run.freed : run.bind[t].kind = "unknown" =>
                        /\ t \in run'.effects /\ run'.phase[t] = "reconciling"
                        /\ run'.bind[t] = run.bind[t]
    OBVIOUS
  <2>1. Steps /\ run.effects \subseteq Task BY LinkedNext DEF TypeOK, RunType
  <2> QED BY <2>1 DEF Steps, StepAt, KeptAt
<1> QED BY <1>1, Agreement, Invariance, TypeCorrect, PTL DEF Spec, LostWorkIsKept

\* A launch that had not begun when its cancellation was asked for never begins,
\* though the grant and the request are transactions of different records
\* (grantLaunch reads the Run, propagateRunCancellation tells every waiting launch).
THEOREM CancelledNeverBegins == Spec => CancelledNeverLaunches
<1>1. TypeOK /\ TypeOK' /\ Inv /\ Linked(run, attempt) /\ Counted(run) /\ [Next]_vars =>
        [\A t \in Task : (run.cancel \/ attempt[t].cancel) /\ attempt[t].launch # "granted"
           => attempt'[t].launch # "granted"]_vars
  BY LinkedNext DEF Steps, StepAt, KeptAt
<1> QED BY <1>1, Agreement, Invariance, TypeCorrect, PTL DEF Spec, CancelledNeverLaunches

\* The retries that the Run makes by itself, of lost and of stalled workers and in
\* any mix, stay inside the bounds frozen in it.
THEOREM RetriesAreBounded == Spec => []RetriesBounded
<1>1. Counted(run) => RetriesBounded BY DEF Counted, RetriesBounded, Retried, Of
<1> QED BY <1>1, Agreement, PTL

\* When no writer dies between its two transactions, what the attempt recorded is
\* what the Run shows.
THEOREM ObservationsAreShown == ~CloserMayDie => (Spec => []AttemptProjected)
<1> SUFFICES ASSUME ~CloserMayDie PROVE Spec => []AttemptProjected OBVIOUS
<1>1. TypeOK /\ Linked(run, attempt) => AttemptProjected
  <2> SUFFICES ASSUME TypeOK, Linked(run, attempt), NEW t \in Task,
                      run.bind[t].kind # "unbound", ~attempt[t].closing
               PROVE  run.bind[t].kind = Shown(attempt[t].obs)
    BY DEF AttemptProjected
  <2>1. LinkAt(run, attempt[t], t) BY DEF Linked
  <2>2. run.bind[t].kind \in ObservedKind BY DEF TypeOK, RunType, BindType
  <2> QED BY <2>1, <2>2 DEF LinkAt, Shown, RefusalKind, ObservedKind
<1> QED BY <1>1, Agreement, TypeCorrect, PTL

\* A task in work or waiting for a person has an attempt, and one that waits has
\* an attempt that exited: the first of the rules of the snapshot's own schema.
LEMMA WorkIsBound == TypeOK /\ Linked(run, attempt) => WorkHasAttempt
<1> SUFFICES ASSUME TypeOK, Linked(run, attempt), NEW t \in Task
             PROVE  /\ run.phase[t] \in Working \cup {"awaiting"} => run.bind[t].kind # "unbound"
                    /\ run.phase[t] = "awaiting" => run.bind[t].kind = "exited" /\ t \notin run.effects
  BY DEF WorkHasAttempt
<1>1. LinkAt(run, attempt[t], t) BY DEF Linked
<1>2. run.bind[t].kind \in ObservedKind \cup {"unbound"} BY DEF TypeOK, RunType, BindType
<1> QED BY <1>1, <1>2 DEF LinkAt, Settled, Dead, Working, ObservedKind

\* A probe in custody belongs to an active task that holds its slot.
LEMMA ProbesHoldSlots == Linked(run, attempt) => ProbeHoldsSlot
BY DEF Linked, LinkAt, ProbeHoldsSlot

----------------------------------------------------------------------------
(* The promise *)

\* What a task stands for in the promise, whichever Run it is read from.
StandOf(phase) == CASE phase = "pending" -> "open"
                    [] phase = "accepted" -> "accepted"
                    [] phase \in Dead -> "closed"
                    [] OTHER -> "begun"
StandIn(r) == [t \in Task |-> StandOf(r.phase[t])]
VerdictOf(r) == IF IsEnded(r) THEN r.state.outcome ELSE "none"

LEMMA StandsFor == Standing = StandIn(run) /\ Verdict = VerdictOf(run)
  BY DEF Standing, StandIn, StandOf, Verdict, VerdictOf

\* Each phase stands for one thing.
LEMMA StandKinds ==
  ASSUME NEW phase \in Phase
  PROVE  /\ StandOf(phase) \in {"open", "begun", "accepted", "closed"}
         /\ StandOf(phase) = "open" <=> phase = "pending"
         /\ StandOf(phase) = "accepted" <=> phase = "accepted"
         /\ StandOf(phase) = "closed" <=> phase \in Dead
         /\ StandOf(phase) = "begun" <=> phase \in Phase \ ({"pending"} \cup Settled)
<1>1. "pending" \notin Dead /\ "accepted" \notin Dead BY DEF Dead
<1> QED BY <1>1 DEF StandOf, Settled

\* The tasks of one standing are those of one kind of phase.
LEMMA StandSets ==
  ASSUME NEW r \in RunType
  PROVE  /\ \A t \in Task : StandIn(r)[t] = StandOf(r.phase[t]) /\ r.phase[t] \in Phase
         /\ {t \in Task : StandIn(r)[t] \in {"accepted"}} = Accepted(r)
         /\ {t \in Task : StandIn(r)[t] \in {"accepted", "closed"}} = PhaseIn(r.phase, Settled)
         /\ {t \in Task : StandIn(r)[t] \in {"open"}} = PhaseIn(r.phase, {"pending"})
<1>1. \A t \in Task : StandIn(r)[t] = StandOf(r.phase[t]) /\ r.phase[t] \in Phase
  BY FieldsOf DEF StandIn
<1> QED BY <1>1, StandKinds DEF Accepted, PhaseIn, Settled

\* A reservation begins tasks that have what they need, in a Run nobody asked to
\* stop (inspectTaskReadiness).
LEMMA ReserveBegins ==
  ASSUME TypeOK, TypeOK', NEW S \in SUBSET Task, Reserve(S) PROVE Promise!Begin
<1>1. run \in RunType /\ run' \in RunType BY DEF TypeOK
<1>2. /\ run'.cancel = run.cancel /\ run'.state = run.state
      /\ \A t \in Task : run'.phase[t] = IF t \in S THEN "active" ELSE run.phase[t]
  BY <1>1 DEF Reserve, SetPhases, RunType
<1>3. \A t \in S : /\ run.phase[t] = "pending"
                   /\ Blocking[t] \subseteq Accepted(run)
                   /\ Ordering[t] \subseteq PhaseIn(run.phase, Settled)
  BY DEF Reserve, Ready, Startable, OpenDependencies, Accepted
<1>4. /\ Standing = StandIn(run) /\ Standing' = StandIn(run')
      /\ Verdict = VerdictOf(run) /\ Verdict' = VerdictOf(run')
  BY DEF Standing, StandIn, StandOf, Verdict, VerdictOf
<1>5. StandIn(run') = [t \in Task |-> IF t \in S THEN "begun" ELSE StandIn(run)[t]]
  <2>1. ASSUME NEW t \in Task
        PROVE  StandOf(run'.phase[t]) = IF t \in S THEN "begun" ELSE StandIn(run)[t]
    <3>1. StandOf("active") = "begun" BY DEF StandOf, Dead
    <3> QED BY <1>2, <3>1 DEF StandIn
  <2> QED BY <2>1 DEF StandIn
<1>6. /\ S \in SUBSET Promise!In({"open"})
      /\ \A t \in S : /\ Blocking[t] \subseteq Promise!In({"accepted"})
                      /\ Ordering[t] \subseteq Promise!In(Promise!Over)
  BY <1>1, <1>3, <1>4, StandSets DEF Promise!In, Promise!Over, PhaseIn
<1>7. ~run.cancel /\ ~IsEnded(run) BY DEF Reserve, IsEnded
<1>8. Verdict = "none" /\ Verdict' = Verdict BY <1>2, <1>4, <1>7 DEF VerdictOf, IsEnded
<1> QED BY <1>2, <1>4, <1>5, <1>6, <1>7, <1>8 DEF Promise!Begin

\* A transaction of an ended Run at most marks it to be cancelled.
LEMMA EndedStops ==
  ASSUME TypeOK, TypeOK', Inv, Final, IsEnded(run)
  PROVE  Promise!Stop \/ UNCHANGED Promise!promise
<1>1. run \in RunType /\ run' \in RunType BY DEF TypeOK
<1>2. run'.state = run.state /\ \A t \in Task : run'.phase[t] = run.phase[t]
  BY <1>1, EndedIsIdle DEF Final, Inv
<1>3. Standing' = Standing /\ Verdict' = Verdict
  BY <1>2, StandsFor DEF StandIn, VerdictOf, IsEnded, Standing, Verdict
<1>4. run'.cancel = run.cancel \/ run'.cancel = TRUE BY <1>1 DEF RunType, Final
<1> QED BY <1>3, <1>4 DEF Promise!Stop, Promise!promise

\* Every other transaction settles, gives back and closes tasks, or changes
\* nothing the promise speaks of.
LEMMA OthersSettle ==
  ASSUME TypeOK, TypeOK', Inv, Inv', Final, Steps, ~IsEnded(run),
         \A t \in Task : run.phase[t] = "pending" => run'.phase[t] \in Dead \cup {"pending"}
  PROVE  Promise!Settle
<1>1. run \in RunType /\ run' \in RunType BY DEF TypeOK
<1>2. /\ Standing = StandIn(run) /\ Standing' = StandIn(run')
      /\ Verdict = VerdictOf(run) /\ Verdict' = VerdictOf(run')
  BY DEF Standing, StandIn, StandOf, Verdict, VerdictOf
<1>3. Verdict = "none" BY <1>2 DEF VerdictOf
<1>4. ASSUME NEW t \in Task
      PROVE  /\ Standing[t] = StandOf(run.phase[t]) /\ Standing'[t] = StandOf(run'.phase[t])
             /\ run.phase[t] \in Phase /\ run'.phase[t] \in Phase
  BY <1>1, <1>2, StandSets
<1>5. \A t \in Promise!In(Promise!Over) : Standing'[t] = Standing[t]
  BY <1>4, StandKinds DEF Final, Promise!In, Promise!Over, Settled
<1>6. \A t \in Promise!In({"open"}) : Standing'[t] \in {"open", "closed"}
  BY <1>4, StandKinds DEF Promise!In
<1>7. \A t \in Promise!In({"begun"}) : Standing'[t] \in {"open", "begun"} \cup Promise!Over
  BY <1>4, StandKinds DEF Promise!In, Promise!Over
<1>8. Promise!In({"accepted"}) = Accepted(run) /\ Promise!In({"accepted"})' = Accepted(run')
  BY <1>1, <1>2, StandSets DEF Promise!In
<1>9. run.cancel => run'.cancel /\ Accepted(run') = Accepted(run)
  BY DEF Final, Steps, StepAt, KeptAt, Accepted, PhaseIn, Settled
<1>10. Verdict' = "none" \/ Promise!End
  <2> SUFFICES ASSUME IsEnded(run'), run'.state.outcome # "none" PROVE Promise!End
    BY <1>2 DEF VerdictOf
  <2>1. Honest(run') /\ Verdict' = run'.state.outcome /\ run'.state.outcome \in Outcome
    BY <1>1, <1>2 DEF Inv, VerdictOf, RunType, StateType
  <2>2. Promise!In(Promise!Over)' = Task
    BY <1>1, <1>2, <2>1, StandSets DEF Honest, Closed, Promise!In, Promise!Over
  <2>3. Verdict' \in Promise!Verdicts(Accepted(run'))
    BY <2>1 DEF Honest, Promise!Verdicts, Outcome
  <2>4. Verdict' = "cancelled" => run'.cancel BY <2>1 DEF Honest
  <2> QED BY <1>8, <2>2, <2>3, <2>4 DEF Promise!End
<1> QED BY <1>3, <1>5, <1>6, <1>7, <1>8, <1>9, <1>10 DEF Promise!Settle

\* Through parks, holds, waits, retries, lost workers and people's answers, a Run
\* keeps to its promise: a reservation alone begins tasks, and only those that may
\* begin; what is settled stays; a cancelled Run accepts nothing; and the one ending
\* says what became of the tasks (reserveTasks, and every writer of the snapshot).
THEOREM RunKeepsThePromise == Spec => PromiseKept
<1>1. Init => Promise!Init
  <2> SUFFICES ASSUME Init PROVE Promise!Init OBVIOUS
  <2>1. \A t \in Task : run.phase[t] = "pending" BY DEF Init
  <2>2. Standing = [t \in Task |-> "open"]
    <3>1. Standing = StandIn(run) BY StandsFor
    <3>2. StandOf("pending") = "open" BY DEF StandOf, Dead
    <3> QED BY <2>1, <3>1, <3>2 DEF StandIn
  <2>3. run.cancel = FALSE /\ Verdict = "none"
    BY DEF Init, Verdict, IsEnded, Running, State
  <2> QED BY <2>2, <2>3 DEF Promise!Init
<1>2. TypeOK /\ TypeOK' /\ Inv /\ Inv' /\ Linked(run, attempt) /\ Counted(run) /\ [Next]_vars
        => [Promise!Next]_(Promise!promise)
  <2> SUFFICES ASSUME TypeOK, TypeOK', Inv, Inv', Linked(run, attempt), Counted(run),
                      [Next]_vars
               PROVE  [Promise!Next]_(Promise!promise)
    OBVIOUS
  <2>1. Final /\ Steps BY StepSafe, LinkedNext
  <2>2. CASE \E S \in SUBSET Task : Reserve(S) BY <2>2, ReserveBegins DEF Promise!Next
  <2>3. CASE IsEnded(run) BY <2>1, <2>3, EndedStops DEF Promise!Next
  <2>4. CASE /\ ~IsEnded(run)
             /\ \A t \in Task : run.phase[t] = "pending" => run'.phase[t] \in Dead \cup {"pending"}
    BY <2>1, <2>4, OthersSettle DEF Promise!Next
  <2> QED BY <2>1, <2>2, <2>3, <2>4 DEF Final
<1> QED BY <1>1, <1>2, Agreement, Invariance, TypeCorrect, PTL
        DEF Spec, PromiseKept, Promise!Spec
=============================================================================
