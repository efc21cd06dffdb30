------------------------- MODULE RunLifecycleProofs -------------------------
(***************************************************************************)
(* What RunLifecycle keeps for every task graph and every bound: the type  *)
(* of the snapshot, proved reducer by reducer and then action by action.   *)
(***************************************************************************)
EXTENDS RunLifecycle, TLAPS, WellFoundedInduction

\* A set of natural numbers that is not empty has a least member.
LEMMA LeastNatural ==
  ASSUME NEW T \in SUBSET Nat, T # {} PROVE \E x \in T : \A y \in T : x <= y
<1> DEFINE Below == {p \in Nat \X Nat : p[1] < p[2]}
<1>1. IsWellFoundedOn(Below, Nat)
  BY NatLessThanWellFounded DEF OpToRel
<1>2. PICK x \in T : \A y \in T : <<y, x>> \notin Below
  BY <1>1, WFMin
<1>3. ASSUME NEW y \in T PROVE x <= y
  <2>1. x \in Nat /\ y \in Nat OBVIOUS
  <2>2. ~(y < x)
    <3>1. <<y, x>> \notin {p \in Nat \X Nat : p[1] < p[2]} BY <1>2
    <3>2. <<y, x>> \in Nat \X Nat BY <2>1
    <3> QED BY <3>1, <3>2
  <2> QED BY <2>1, <2>2
<1> QED BY <1>3

\* The bound of every stored deadline is a number.
LEMMA HorizonIsNat == AskOpen \in Nat /\ Horizon \in SUBSET Nat
  BY RunAssumption DEF AskOpen, Horizon

\* The latest of some stored deadlines (the wait a quota park stands for) is
\* again one that fits the snapshot.
LEMMA LatestInHorizon ==
  ASSUME NEW S \in SUBSET Horizon PROVE Latest(S) \in Horizon
<1> DEFINE Bounds == {d \in Horizon : \A x \in S : x <= d}
<1>1. AskOpen \in Bounds BY HorizonIsNat DEF Horizon
<1>2. PICK d \in Bounds : \A e \in Bounds : d <= e
  BY <1>1, LeastNatural, HorizonIsNat
<1> QED BY <1>2 DEF Latest

\* The clock stays inside the bound of the model.
Clock == now \in 0 .. MaxTime

\* The numbers the model counts with.
LEMMA Bounds ==
  /\ Task \subseteq Nat /\ Timeout \in Nat /\ MaxWait \in Nat /\ MaxTime \in Nat
  /\ MaxRewaits \in Nat /\ Backoff \in Nat
  /\ Resets \subseteq 0 .. (MaxTime + MaxWait) /\ Refusals \subseteq RefusalKind
  /\ HoldSources \subseteq HoldKind \ {"none"}
  BY RunAssumption

\* Every deadline a writer computes from the clock (a park's, a question's, a
\* quota wait's) fits the snapshot.
LEMMA DeadlinesFit ==
  ASSUME Clock
  PROVE  /\ now \in Nat /\ 0 \in Horizon /\ AskOpen \in Horizon /\ now \in Horizon
         /\ now + Timeout \in Horizon /\ now + MaxWait \in Horizon
         /\ \A reset \in Resets : reset \in Horizon
  BY Bounds DEF Clock, AskOpen, Horizon

\* `tasks.find' over tasks one of which matches finds one of them.
LEMMA FirstIsMember ==
  ASSUME NEW S \in SUBSET Task, S # {} PROVE First(S) \in S
<1>1. PICK x \in S : \A y \in S : x <= y BY LeastNatural, Bounds
<1> QED BY <1>1 DEF First

\* States the reducers make.
LEMMA StatesFit ==
  /\ Running \in StateType
  /\ \A why \in ParkReason, hold \in HoldKind, deadline \in Horizon :
       Parked(why, hold, deadline) \in StateType
  /\ \A outcome \in Outcome, why \in EndReason : Ended(outcome, why) \in StateType
  BY HorizonIsNat, Bounds DEF Running, Parked, Ended, State, StateType, Horizon, HoldKind

\* A Run that leaves its park (readRunHold and the releases of quota.ts) is in
\* a state the snapshot allows.
LEMMA ReleasedFits ==
  ASSUME NEW r \in RunType PROVE Released(r) \in StateType
  BY StatesFit DEF Released, Held, RunType, StateType, ParkReason

\* The fields of a Run, and a Run with some of them replaced.
LEMMA FieldsOf ==
  ASSUME NEW r \in RunType
  PROVE  /\ r.state \in StateType /\ r.cancel \in BOOLEAN /\ r.phase \in [Task -> Phase]
         /\ r.effects \in SUBSET Task /\ r.freed \in SUBSET Task
         /\ r.decision \in [Task -> DecisionType] /\ r.notBefore \in [Task -> Nat]
         /\ r.bind \in [Task -> BindType] /\ r.prev \in [Task -> Seq(ClosedKind)]
  BY DEF RunType

\* previousBindings only grows by closed kinds.
LEMMA AppendFits == ASSUME NEW T, NEW s \in Seq(T), NEW e \in T PROVE Append(s, e) \in Seq(T)
  OBVIOUS

\* Bulk updates of a Run.
LEMMA SetPhaseFits ==
  ASSUME NEW r \in RunType, NEW t \in Task, NEW p \in Phase
  PROVE  SetPhase(r, t, p) \in RunType
  BY DEF SetPhase, RunType

\* A reducer that moves a set of tasks keeps the shape of the Run.
LEMMA SetPhasesFits ==
  ASSUME NEW r \in RunType, NEW S, NEW p \in Phase
  PROVE  SetPhases(r, S, p) \in RunType
  BY DEF SetPhases, RunType

\* Answered questions leave a Run of the same shape.
LEMMA ClearDecisionsFits ==
  ASSUME NEW r \in RunType, NEW S, 0 \in Horizon
  PROVE  ClearDecisions(r, S) \in RunType
  BY DEF ClearDecisions, RunType, NoDecision, DecisionType

\* A fresh binding and the empty quota wait have the shape of a binding.
LEMMA UnboundFits == 0 \in Horizon => Unbound \in BindType /\ Bound \in BindType /\ NoWait \in WaitType
<1> SUFFICES ASSUME 0 \in Horizon PROVE Unbound \in BindType /\ Bound \in BindType /\ NoWait \in WaitType
  OBVIOUS
<1>1. 0 \in 0 .. MaxRewaits BY Bounds
<1>2. NoWait \in WaitType BY <1>1 DEF NoWait, WaitType
<1>3. Unbound \in BindType BY <1>2 DEF Unbound, BindType
<1>4. Bound \in BindType BY <1>2 DEF Bound, Unbound, BindType, ObservedKind
<1> QED BY <1>2, <1>3, <1>4

\* Superseding attempts (previousBindings) keeps the shape of the Run.
LEMMA SupersedeFits ==
  ASSUME NEW r \in RunType, NEW S, NEW as \in ClosedKind, 0 \in Horizon
  PROVE  Supersede(r, S, as) \in RunType
<1>1. Unbound \in BindType BY UnboundFits
<1>2. r.prev \in [Task -> Seq(ClosedKind)] BY FieldsOf
<1>3. ASSUME NEW t \in Task PROVE Append(r.prev[t], as) \in Seq(ClosedKind)
  <2>1. r.prev[t] \in Seq(ClosedKind) BY <1>2
  <2> QED BY <2>1, AppendFits
<1> DEFINE bind == [t \in Task |-> IF t \in S THEN Unbound ELSE r.bind[t]]
           prev == [t \in Task |-> IF t \in S THEN Append(r.prev[t], as) ELSE r.prev[t]]
<1>4. bind \in [Task -> BindType] BY <1>1, FieldsOf
<1>5. prev \in [Task -> Seq(ClosedKind)] BY <1>2, <1>3
<1>6. Supersede(r, S, as) = [r EXCEPT !.bind = bind, !.prev = prev] BY DEF Supersede
<1> HIDE DEF bind, prev
<1> QED BY <1>4, <1>5, <1>6 DEF RunType

\* The deadlines of a Run's quota waits are stored deadlines.
LEMMA WaitsFit ==
  ASSUME NEW r \in RunType, NEW S \in SUBSET Task
  PROVE  WaitsOf(r, S) \in SUBSET Horizon
  BY DEF WaitsOf, RunType, BindType, WaitType

----------------------------------------------------------------------------
(* Types of the reducers *)

\* The reasons the reducers park a Run for are park reasons.
LEMMA ReasonsFit ==
  {"operator-hold", "needs-input", "progression-failed", "quota-exhausted", "quota-ask",
   "environment-not-ready", "awaiting-decision", "dependency"} \subseteq ParkReason
  BY DEF ParkReason

\* The closure loop of reconcileRunLifecycle leaves a phase for every task.
LEMMA SkipFits ==
  ASSUME NEW phase \in [Task -> Phase] PROVE SkipDoomed(phase) \in [Task -> Phase]
  BY DEF SkipDoomed, Phase

\* Whatever reconcileRunLifecycle classifies a Run as is a state the snapshot
\* allows.
LEMMA ClassifyFits ==
  ASSUME NEW r \in RunType, Clock PROVE Classify(r) \in StateType
<1> DEFINE why == IF Awaiting(r) # {} THEN "awaiting-decision" ELSE "dependency"
           latest == Latest(WaitsOf(r, Binds(r, "quota-exhausted")))
           asked == r.decision[First(Asking(r))].deadline
<1>1. r.state \in StateType /\ r.state.deadline \in Horizon /\ r.state.hold \in HoldKind
  BY FieldsOf DEF StateType
<1>2. latest \in Horizon
  BY WaitsFit, LatestInHorizon DEF Binds
<1>3. why \in ParkReason BY ReasonsFit
<1>4. Asking(r) # {} => asked \in Horizon
  <2>1. Asking(r) \in SUBSET Task BY DEF Asking
  <2>2. Asking(r) # {} => First(Asking(r)) \in Task BY <2>1, FirstIsMember
  <2>3. \A t \in Task : r.decision[t].deadline \in Horizon BY FieldsOf DEF DecisionType
  <2> QED BY <2>2, <2>3
<1>5. now + Timeout \in Horizon BY DeadlinesFit
<1>6. "none" \in HoldKind /\ "quota-exhausted" \in ParkReason /\ "needs-input" \in ParkReason
  BY DEF HoldKind, ParkReason
<1>7. /\ Running \in StateType /\ Ended("completed", "completed") \in StateType
      /\ Ended("incomplete", "cancelled") \in StateType
      /\ Ended("cancelled", "cancelled") \in StateType
  BY StatesFit DEF Outcome, EndReason
<1>8. /\ Parked("quota-exhausted", "none", latest) \in StateType
      /\ Parked(why, r.state.hold, r.state.deadline) \in StateType
      /\ Parked(why, "none", now + Timeout) \in StateType
      /\ Asking(r) # {} => Parked("needs-input", "none", asked) \in StateType
  BY <1>1, <1>2, <1>3, <1>4, <1>5, <1>6, StatesFit
<1> HIDE DEF why, latest, asked
<1>9. Classify(r) \in {r.state, Running, Ended("completed", "completed"),
         Ended("incomplete", "cancelled"), Ended("cancelled", "cancelled"),
         Parked("quota-exhausted", "none", latest), Parked(why, r.state.hold, r.state.deadline),
         Parked(why, "none", now + Timeout)}
      \/ (Asking(r) # {} /\ Classify(r) = Parked("needs-input", "none", asked))
  BY Zenon DEF Classify, why, latest, asked
<1> QED BY <1>1, <1>7, <1>8, <1>9

\* A hold carried over a reclassification leaves a state the snapshot allows.
LEMMA KeepHoldFits ==
  ASSUME NEW r \in RunType, NEW state \in StateType PROVE KeepHold(r, state) \in StateType
<1>1. r.state.hold \in HoldKind /\ r.state.deadline \in Horizon BY FieldsOf DEF StateType
<1>2. [state EXCEPT !.hold = r.state.hold] \in StateType BY <1>1 DEF StateType
<1>3. Held(r.state.hold, r.state.deadline) \in StateType
  BY <1>1, StatesFit, ReasonsFit DEF Held
<1> QED BY <1>2, <1>3 DEF KeepHold

\* Reconciling a Run writes its phases and its state and nothing else.
LEMMA ReconcileFits ==
  ASSUME NEW r \in RunType, Clock
  PROVE  /\ Reconcile(r) \in RunType
         /\ Reconcile(r).cancel = r.cancel /\ Reconcile(r).effects = r.effects
         /\ Reconcile(r).freed = r.freed /\ Reconcile(r).decision = r.decision
         /\ Reconcile(r).notBefore = r.notBefore /\ Reconcile(r).bind = r.bind
         /\ Reconcile(r).prev = r.prev
         /\ IsEnded(r) => Reconcile(r) = r
         /\ ~IsEnded(r) => Reconcile(r).phase = SkipDoomed(r.phase)
<1>1. CASE IsEnded(r) BY <1>1 DEF Reconcile
<1>2. CASE ~IsEnded(r)
  <2> DEFINE closed == [r EXCEPT !.phase = SkipDoomed(r.phase)]
             state == KeepHold(r, Classify(closed))
  <2>1. closed \in RunType BY SkipFits, FieldsOf DEF RunType
  <2>2. state \in StateType BY <2>1, ClassifyFits, KeepHoldFits
  <2>3. Reconcile(r) = [closed EXCEPT !.state = state] BY <1>2 DEF Reconcile
  <2> HIDE DEF state
  <2>4. [closed EXCEPT !.state = state] = [r EXCEPT !.phase = SkipDoomed(r.phase), !.state = state]
    BY DEF RunType
  <2>5. Reconcile(r) \in RunType BY <2>1, <2>2, <2>3 DEF RunType
  <2> QED BY <1>2, <2>3, <2>4, <2>5 DEF RunType
<1> QED BY <1>1, <1>2

\* A Run with other bindings is a Run.
LEMMA BindFits ==
  ASSUME NEW r \in RunType, NEW bind \in [Task -> BindType] PROVE [r EXCEPT !.bind = bind] \in RunType
  BY DEF RunType

\* A Run with another state is a Run.
LEMMA SetStateFits ==
  ASSUME NEW r \in RunType, NEW state \in StateType PROVE [r EXCEPT !.state = state] \in RunType
  BY DEF RunType

\* resetRunQuota keeps the shape of the Run.
LEMMA ResetQuotaFits ==
  ASSUME NEW r \in RunType, Clock PROVE ResetQuota(r) \in RunType
<1>1. Supersede(r, Waiting(r), "quota-exhausted") \in RunType
  BY SupersedeFits, DeadlinesFit DEF ClosedKind
<1> QED BY <1>1, SetStateFits, StatesFit DEF ResetQuota

\* askRunQuota keeps the shape of the Run.
LEMMA AskQuotaFits ==
  ASSUME NEW r \in RunType PROVE AskQuota(r) \in RunType
<1>1. Parked("quota-ask", "none", AskOpen) \in StateType
  BY StatesFit, ReasonsFit, HorizonIsNat DEF HoldKind, Horizon
<1> QED BY <1>1, SetStateFits DEF AskQuota

\* What passed deadlines do to a Run (advanceRunLifecycle) keeps its shape.
LEMMA ExpireFits ==
  ASSUME NEW r \in RunType, Clock PROVE Expire(r) \in RunType
<1> DEFINE drop == IF Due(r) /\ ParkedFor(r, Expiring)
                   THEN PhaseIn(r.phase, {"pending"}) \ r.effects ELSE {}
           late == {t \in Awaiting(r) : r.decision[t].deadline <= now \/ Due(r)}
           past == \E t \in Task : r.decision[t].reason # "none" /\ r.decision[t].deadline <= now
           settled == ClearDecisions(SetPhases(SetPhases(r, drop, "cancelled"), late, "failed"), late)
           freed == IF Due(r) /\ ParkedFor(r, Expiring \ {"needs-input"}) /\ ~Live(settled)
                    THEN [settled EXCEPT !.state = Running] ELSE settled
           next == Reconcile(freed)
           end == Ended(IF HasAccepted(next) THEN "incomplete" ELSE "failed", "park-timeout")
<1>1. settled \in RunType
  <2>1. SetPhases(r, drop, "cancelled") \in RunType BY SetPhasesFits DEF Phase
  <2>2. SetPhases(SetPhases(r, drop, "cancelled"), late, "failed") \in RunType
    BY <2>1, SetPhasesFits DEF Phase
  <2> QED BY <2>2, ClearDecisionsFits, DeadlinesFit
<1> HIDE DEF settled
<1>2. freed \in RunType BY <1>1, SetStateFits, StatesFit
<1> HIDE DEF freed
<1>3. next \in RunType BY <1>2, ReconcileFits
<1> HIDE DEF next
<1>4. end \in StateType BY StatesFit DEF Outcome, EndReason
<1> HIDE DEF end
<1>5. [next EXCEPT !.state = end] \in RunType BY <1>3, <1>4, SetStateFits
<1>6. Expire(r) \in {next, [next EXCEPT !.state = end]}
  BY Zenon DEF Expire, drop, late, past, settled, freed, next, end
<1> QED BY <1>3, <1>5, <1>6

\* advanceRunLifecycle keeps the shape of the Run on every path.
LEMMA AdvanceFits ==
  ASSUME NEW r \in RunType, Clock PROVE Advance(r) \in RunType
  BY ResetQuotaFits, AskQuotaFits, ExpireFits DEF Advance

----------------------------------------------------------------------------
(* Types of the actions *)

\* The attempt of a task has the shape of an attempt.
LEMMA AttemptFits ==
  ASSUME TypeOK, NEW t \in Task PROVE attempt[t] \in AttemptType
  BY DEF TypeOK

\* A new Run has the shape of a Run.
LEMMA TypeInit == Init => TypeOK
<1> SUFFICES ASSUME Init PROVE TypeOK OBVIOUS
<1>1. 0 \in Horizon /\ now \in 0 .. MaxTime BY Bounds, HorizonIsNat DEF Init, Horizon
<1>2. attempt \in [Task -> AttemptType] BY DEF Init, NoAttempt, AttemptType
<1>3. [t \in Task |-> <<>>] \in [Task -> Seq(ClosedKind)] OBVIOUS
<1>4. [t \in Task |-> NoDecision] \in [Task -> DecisionType] BY <1>1 DEF NoDecision, DecisionType
<1>5. [t \in Task |-> Unbound] \in [Task -> BindType] BY <1>1, UnboundFits
<1>6. [t \in Task |-> "pending"] \in [Task -> Phase] /\ [t \in Task |-> 0] \in [Task -> Nat]
  BY DEF Phase
<1>7. run \in RunType
  BY <1>3, <1>4, <1>5, <1>6, StatesFit DEF Init, RunType
<1> QED BY <1>1, <1>2, <1>7 DEF TypeOK

\* A transaction that commits a Run of the right shape keeps every type.
LEMMA CommitFits ==
  ASSUME TypeOK, NEW r \in RunType, Commit(r) PROVE TypeOK'
  BY DEF Commit, TypeOK

\* The clock, the runtime's timer and its progression park keep every type.
LEMMA TimeTypes ==
  ASSUME TypeOK, Tick \/ AdvanceRun \/ ParkProgression PROVE TypeOK'
<1> USE DEF TypeOK
<1>1. run \in RunType /\ Clock BY DEF Clock
<1>2. CASE Tick BY <1>2, Bounds DEF Tick
<1>3. CASE AdvanceRun BY <1>3, <1>1, AdvanceFits, CommitFits DEF AdvanceRun
<1>4. CASE ParkProgression
  <2>1. Parked("progression-failed", "none", now + Timeout) \in StateType
    BY <1>1, DeadlinesFit, StatesFit, ReasonsFit DEF HoldKind
  <2> QED BY <1>1, <1>4, <2>1, SetStateFits, CommitFits DEF ParkProgression
<1> QED BY <1>2, <1>3, <1>4

\* reserveRunTasks keeps every type.
LEMMA ReserveTypes ==
  ASSUME TypeOK, NEW S \in SUBSET Task, Reserve(S) PROVE TypeOK'
<1> USE DEF TypeOK
<1>1. 0 \in Horizon BY DeadlinesFit DEF Clock
<1>2. SetPhases(run, S, "active") \in RunType BY SetPhasesFits DEF Phase
<1>3. [t \in Task |-> IF t \in S THEN Bound ELSE run.bind[t]] \in [Task -> BindType]
  BY <1>1, UnboundFits, FieldsOf
<1>4. run' \in RunType BY <1>2, <1>3, BindFits DEF Reserve
<1>5. attempt' \in [Task -> AttemptType] BY DEF Reserve, NoAttempt, AttemptType
<1> QED BY <1>4, <1>5 DEF Reserve

\* A Run with other uncertain effects is a Run.
LEMMA EffectsFit ==
  ASSUME NEW r \in RunType, NEW effects \in SUBSET Task PROVE [r EXCEPT !.effects = effects] \in RunType
  BY DEF RunType

\* A Run with one binding rewritten is a Run.
LEMMA BindOneFits ==
  ASSUME NEW r \in RunType, NEW t \in Task
  PROVE  /\ \A probes \in BOOLEAN : [r EXCEPT !.bind[t].probes = probes] \in RunType
         /\ \A kind \in ObservedKind : [r EXCEPT !.bind[t].kind = kind] \in RunType
         /\ \A wait \in WaitType : [r EXCEPT !.bind[t].wait = wait] \in RunType
<1>1. r.bind \in [Task -> BindType] BY FieldsOf
<1>2. \A probes \in BOOLEAN : [r.bind EXCEPT ![t].probes = probes] \in [Task -> BindType]
  BY <1>1 DEF BindType
<1>3. \A kind \in ObservedKind : [r.bind EXCEPT ![t].kind = kind] \in [Task -> BindType]
  BY <1>1 DEF BindType
<1>4. \A wait \in WaitType : [r.bind EXCEPT ![t].wait = wait] \in [Task -> BindType]
  BY <1>1 DEF BindType
<1> QED BY <1>2, <1>3, <1>4, BindFits

\* Giving up a probe's custody keeps the shape of the Run.
LEMMA WithoutCustodyFits ==
  ASSUME NEW r \in RunType, NEW t \in Task
  PROVE  WithoutCustody(r, t) \in RunType
<1>1. [r EXCEPT !.bind[t].probes = FALSE] \in RunType BY BindOneFits
<1>2. [[r EXCEPT !.bind[t].probes = FALSE] EXCEPT !.effects = r.effects \ {t}] \in RunType
  BY <1>1, EffectsFit, FieldsOf
<1> QED BY <1>2 DEF WithoutCustody, RunType

\* observeRunAttemptClosure keeps the shape of the Run, whatever the refusal.
LEMMA ClosureFits ==
  ASSUME NEW r \in RunType, NEW t \in Task, NEW refusal, Clock
  PROVE  Closure(r, t, refusal) \in RunType
<1> DEFINE effects == IF refusal = "env-uncertain" THEN r.effects \cup {t} ELSE r.effects
           kind == IF refusal = "handoff-refused" THEN refusal ELSE "launch-refused"
           parked == [r EXCEPT !.state = EnvironmentPark(r), !.phase[t] = "pending",
                               !.effects = effects, !.bind[t].kind = "launch-refused"]
           failed == [r EXCEPT !.phase[t] = "failed", !.bind[t].kind = kind]
<1>1. EnvironmentPark(r) \in StateType
  <2>1. r.state \in StateType /\ r.state.hold \in HoldKind BY FieldsOf DEF StateType
  <2>2. Parked("environment-not-ready", r.state.hold, now + Timeout) \in StateType
    BY <2>1, DeadlinesFit, StatesFit, ReasonsFit
  <2> QED BY <2>1, <2>2 DEF EnvironmentPark
<1>2. r.phase \in [Task -> Phase] /\ r.effects \in SUBSET Task /\ r.bind \in [Task -> BindType]
  BY FieldsOf
<1>3. effects \in SUBSET Task BY <1>2
<1>4. kind \in ObservedKind /\ "launch-refused" \in ObservedKind BY DEF ObservedKind
<1> HIDE DEF effects, kind
<1>5. /\ [r.phase EXCEPT ![t] = "pending"] \in [Task -> Phase]
      /\ [r.phase EXCEPT ![t] = "failed"] \in [Task -> Phase]
  BY <1>2 DEF Phase
<1>6. /\ [r.bind EXCEPT ![t].kind = "launch-refused"] \in [Task -> BindType]
      /\ [r.bind EXCEPT ![t].kind = kind] \in [Task -> BindType]
  BY <1>2, <1>4 DEF BindType
<1>7. parked \in RunType BY <1>1, <1>3, <1>5, <1>6 DEF RunType
<1>8. failed \in RunType BY <1>5, <1>6 DEF RunType
<1>9. Closure(r, t, refusal) \in {Reconcile(parked), Reconcile(failed)}
  BY Zenon DEF Closure, parked, failed, effects, kind
<1> HIDE DEF parked, failed
<1> QED BY <1>7, <1>8, <1>9, ReconcileFits

\* The writers of environment probes and refusals keep every type.
LEMMA ProbeTypes ==
  ASSUME TypeOK, NEW t \in Task,
         HoldProbes(t) \/ EndProbes(t) \/ SettleProbe(t) \/ ProjectClosure(t)
  PROVE  TypeOK'
<1> USE DEF TypeOK
<1>1. run \in RunType /\ Clock BY DEF Clock
<1>2. CASE HoldProbes(t)
  <2>1. [run EXCEPT !.effects = run.effects \cup {t}] \in RunType BY EffectsFit, FieldsOf
  <2>2. [[run EXCEPT !.effects = run.effects \cup {t}] EXCEPT !.bind[t].probes = TRUE] \in RunType
    BY <2>1, BindOneFits
  <2> QED BY <1>2, <2>2, CommitFits DEF HoldProbes
<1>3. CASE EndProbes(t)
  <2>1. WithoutCustody(run, t) \in RunType BY WithoutCustodyFits
  <2>2. SetPhase(WithoutCustody(run, t), t, "cancelled") \in RunType
    BY <2>1, SetPhaseFits DEF Phase
  <2>3. run' \in RunType
    BY <1>1, <1>3, <2>1, <2>2, ClosureFits, ReconcileFits DEF EndProbes
  <2>4. attempt' \in [Task -> AttemptType] BY <1>3 DEF EndProbes, AttemptType
  <2> QED BY <1>3, <2>3, <2>4 DEF EndProbes
<1>4. CASE SettleProbe(t)
  <2>1. [run EXCEPT !.effects = run.effects \ {t}] \in RunType BY EffectsFit, FieldsOf
  <2>2. run.phase[t] \in Phase BY FieldsOf
  <2>3. [[run EXCEPT !.effects = run.effects \ {t}] EXCEPT
           !.phase[t] = IF run.cancel THEN "cancelled" ELSE run.phase[t]] \in RunType
    BY <2>1, <2>2, SetPhaseFits DEF SetPhase, Phase
  <2> QED BY <1>1, <1>4, <2>3, ReconcileFits, CommitFits DEF SettleProbe
<1>5. CASE ProjectClosure(t)
  <2>1. Answered(run, t) \in RunType BY WithoutCustodyFits DEF Answered
  <2>2. run' \in RunType BY <1>1, <1>5, <2>1, ClosureFits DEF ProjectClosure
  <2>3. attempt' \in [Task -> AttemptType] BY <1>5 DEF ProjectClosure, AttemptType
  <2> QED BY <1>5, <2>2, <2>3 DEF ProjectClosure
<1> QED BY <1>2, <1>3, <1>4, <1>5

\* projectRunAttempt keeps the shape of the Run.
LEMMA ProjectFits ==
  ASSUME NEW r \in RunType, NEW t \in Task, NEW kind \in {"exited", "unknown"}
  PROVE  Project(r, t, kind) \in RunType
<1> DEFINE bound == [r EXCEPT !.bind[t].kind = kind]
           phase == IF kind = "exited" /\ t \notin r.effects THEN "evaluating" ELSE "reconciling"
           effects == IF kind = "unknown" THEN r.effects \cup {t} ELSE r.effects
<1>1. bound \in RunType BY BindOneFits DEF ObservedKind
<1>2. phase \in Phase BY DEF Phase
<1>3. effects \in SUBSET Task BY FieldsOf
<1> HIDE DEF phase, effects
<1>4. SetPhase(bound, t, phase) \in RunType BY <1>1, <1>2, SetPhaseFits
<1>5. [SetPhase(bound, t, phase) EXCEPT !.effects = effects] \in RunType
  BY <1>3, <1>4, EffectsFit
<1> QED BY <1>5 DEF Project, SetPhase, RunType, phase, effects

\* The writers of a launch and of its end keep every type.
LEMMA LaunchTypes ==
  ASSUME TypeOK, NEW t \in Task,
         \/ \E refusal \in Refusals : RefuseLaunch(t, refusal)
         \/ CloserStops(t) \/ Claim(t) \/ GrantLaunch(t) \/ Exit(t) \/ Lose(t)
  PROVE  TypeOK'
<1> USE DEF TypeOK
<1>1. run \in RunType /\ Clock BY DEF Clock
<1>2. ASSUME NEW refusal \in Refusals, RefuseLaunch(t, refusal) PROVE TypeOK'
  <2>1. refusal \in Finished BY Bounds DEF RefusalKind, Finished
  <2> QED BY <1>2, <2>1 DEF RefuseLaunch, AttemptType
<1>3. CASE CloserStops(t) BY <1>3 DEF CloserStops, AttemptType
<1>4. CASE Claim(t) BY <1>4 DEF Claim, AttemptType
<1>5. CASE GrantLaunch(t)
  <2>1. Reconcile(SetPhase(run, t, "cancelled")) \in RunType
    BY <1>1, SetPhaseFits, ReconcileFits DEF Phase
  <2>2. attempt' \in [Task -> AttemptType] BY <1>5 DEF GrantLaunch, AttemptType
  <2> QED BY <1>5, <2>1, <2>2 DEF GrantLaunch
<1>6. CASE Exit(t)
  <2>1. Project(run, t, "exited") \in RunType BY ProjectFits
  <2>2. Reconcile(SetPhase(Project(run, t, "exited"), t, "cancelled")) \in RunType
    BY <1>1, <2>1, SetPhaseFits, ReconcileFits DEF Phase
  <2>3. run' \in RunType BY <1>6, <2>1, <2>2 DEF Exit
  <2>4. attempt' \in [Task -> AttemptType] BY <1>6 DEF Exit, AttemptType, Finished
  <2> QED BY <1>6, <2>3, <2>4 DEF Exit
<1>7. CASE Lose(t)
  <2>1. run' \in RunType BY <1>7, ProjectFits DEF Lose
  <2>2. attempt' \in [Task -> AttemptType] BY <1>7 DEF Lose, AttemptType
  <2> QED BY <1>7, <2>1, <2>2 DEF Lose
<1> QED BY <1>2, <1>3, <1>4, <1>5, <1>6, <1>7

\* A superseded attempt whose task is offered again.
LEMMA OfferedFits ==
  ASSUME NEW r \in RunType, NEW t \in Task, NEW time \in Nat
  PROVE  [SetPhase(r, t, "pending") EXCEPT !.notBefore[t] = time] \in RunType
<1>1. SetPhase(r, t, "pending") \in RunType BY SetPhaseFits DEF Phase
<1>2. [SetPhase(r, t, "pending").notBefore EXCEPT ![t] = time] \in [Task -> Nat]
  BY <1>1, FieldsOf
<1> QED BY <1>1, <1>2 DEF RunType

\* releaseWorkerCustody and continueLostTask keep every type.
LEMMA LostTypes ==
  ASSUME TypeOK, NEW t \in Task, ReleaseCustody(t) \/ ContinueLost(t) PROVE TypeOK'
<1> USE DEF TypeOK
<1>1. run \in RunType /\ Clock BY DEF Clock
<1>2. CASE ReleaseCustody(t)
  <2>1. [run EXCEPT !.freed = run.freed \cup {t}] \in RunType BY FieldsOf DEF RunType
  <2> QED BY <1>2, <2>1, CommitFits DEF ReleaseCustody
<1>3. CASE ContinueLost(t)
  <2> DEFINE old == Supersede(run, {t}, "lost")
             new == [SetPhase(old, t, "pending") EXCEPT !.notBefore[t] = 0]
             next == [new EXCEPT !.effects = new.effects \ {t}, !.freed = new.freed \ {t}]
  <2>1. old \in RunType BY <1>1, SupersedeFits, DeadlinesFit DEF ClosedKind
  <2> HIDE DEF old
  <2>2. new \in RunType BY <2>1, OfferedFits
  <2>3. next \in RunType BY <2>2, FieldsOf DEF RunType
  <2>4. next = [old EXCEPT !.phase[t] = "pending", !.effects = old.effects \ {t},
                           !.freed = old.freed \ {t}, !.notBefore[t] = 0]
    BY <2>1 DEF SetPhase, RunType
  <2> HIDE DEF next
  <2>5. Reconcile(next) \in RunType BY <1>1, <2>3, ReconcileFits
  <2>6. Commit(Reconcile(next)) BY <1>3, <2>4 DEF ContinueLost, old
  <2> QED BY <2>5, <2>6, CommitFits
<1> QED BY <1>2, <1>3

\* A task that waits for a person keeps the shape of its Run.
LEMMA WaitFits ==
  ASSUME NEW r \in RunType, NEW t \in Task, NEW reason \in {"unknown", "not-ready", "needs-input"},
         Clock
  PROVE  Wait(r, t, reason) \in RunType
<1> DEFINE decision == [reason |-> reason,
              deadline |-> IF t \in Awaiting(r) THEN r.decision[t].deadline ELSE now + Timeout]
<1>1. decision \in DecisionType BY DeadlinesFit, FieldsOf DEF DecisionType
<1> HIDE DEF decision
<1>2. [r.decision EXCEPT ![t] = decision] \in [Task -> DecisionType] BY <1>1, FieldsOf
<1>3. [r.phase EXCEPT ![t] = "awaiting"] \in [Task -> Phase] BY FieldsOf DEF Phase
<1>4. Wait(r, t, reason) = [r EXCEPT !.phase[t] = "awaiting", !.decision[t] = decision]
  BY DEF Wait, decision
<1> QED BY <1>2, <1>3, <1>4 DEF RunType

\* parkRunQuota keeps the shape of the Run.
LEMMA ParkQuotaFits ==
  ASSUME NEW r \in RunType, NEW t \in Task, NEW wait \in WaitType, Clock
  PROVE  ParkQuota(r, t, wait) \in RunType
<1> DEFINE prior == IF ParkedFor(r, {"quota-exhausted"}) THEN r.state.deadline ELSE 0
           state == IF ParkedFor(r, {"operator-hold"}) THEN r.state
               ELSE IF wait.beyond \/ ParkedFor(r, {"quota-ask"})
                 THEN Parked("quota-ask", r.state.hold, AskOpen)
               ELSE Parked("quota-exhausted", r.state.hold, Latest({wait.deadline, prior}))
<1>1. r.state \in StateType /\ r.state.hold \in HoldKind /\ r.state.deadline \in Horizon
  BY FieldsOf DEF StateType
<1>2. prior \in Horizon /\ wait.deadline \in Horizon BY <1>1, DeadlinesFit DEF WaitType
<1> HIDE DEF prior
<1>3. Latest({wait.deadline, prior}) \in Horizon BY <1>2, LatestInHorizon
<1>4. state \in StateType BY <1>1, <1>3, DeadlinesFit, StatesFit, ReasonsFit
<1> HIDE DEF state
<1>5. SetPhase(r, t, "pending") \in RunType BY SetPhaseFits DEF Phase
<1> DEFINE bound == [SetPhase(r, t, "pending") EXCEPT !.bind[t].kind = "quota-exhausted"]
           waiting == [bound EXCEPT !.bind[t].wait = wait]
<1>6. bound \in RunType BY <1>5, BindOneFits DEF ObservedKind
<1> HIDE DEF bound
<1>7. waiting \in RunType BY <1>6, BindOneFits
<1> HIDE DEF waiting
<1>8. [waiting EXCEPT !.state = state] \in RunType BY <1>4, <1>7, SetStateFits
<1>9. ParkQuota(r, t, wait) = [waiting EXCEPT !.state = state]
  <2>1. ParkQuota(r, t, wait) = [r EXCEPT !.phase[t] = "pending", !.state = state,
                                   !.bind[t].kind = "quota-exhausted", !.bind[t].wait = wait]
    BY DEF ParkQuota, state, prior
  <2> QED BY <2>1 DEF waiting, bound, SetPhase, RunType
<1> QED BY <1>8, <1>9

\* commitTaskEvaluation, recoverStalledTask and parkTaskAwaitingDecision keep
\* every type.
LEMMA EvaluationTypes ==
  ASSUME TypeOK, NEW t \in Task,
         \/ \E conclusion \in Conclusions : Evaluate(t, conclusion)
         \/ \E reset \in Resets : EvaluateQuota(t, reset)
         \/ EvaluateStall(t) \/ ParkTask(t)
  PROVE  TypeOK'
<1> USE DEF TypeOK
<1>1. run \in RunType /\ Clock BY DEF Clock
<1>2. ASSUME NEW conclusion \in Conclusions, Evaluate(t, conclusion) PROVE TypeOK'
  <2> DEFINE known(phase) == ClearDecisions(SetPhase(run, t, phase), {t})
  <2>1. known("accepted") \in RunType /\ known("failed") \in RunType
    BY <1>1, SetPhaseFits, ClearDecisionsFits, DeadlinesFit DEF Phase
  <2>2. Wait(run, t, "unknown") \in RunType /\ Wait(run, t, "needs-input") \in RunType
    BY <1>1, WaitFits
  <2>3. \E r \in RunType : Commit(Reconcile(r))
    BY <1>2, <2>1, <2>2 DEF Evaluate
  <2> QED BY <1>1, <2>3, ReconcileFits, CommitFits
<1>3. ASSUME NEW reset \in Resets, EvaluateQuota(t, reset) PROVE TypeOK'
  <2> DEFINE ahead == reset > now
             beyond == ahead /\ reset - now > MaxWait
             wait == [NoWait EXCEPT !.reset = IF ahead THEN reset ELSE 0, !.beyond = beyond,
                        !.deadline = IF ahead /\ ~beyond THEN reset ELSE now + MaxWait]
  <2>1. NoWait \in WaitType BY <1>1, DeadlinesFit, UnboundFits
  <2>2. wait \in WaitType BY <1>1, <2>1, DeadlinesFit DEF WaitType
  <2>3. run' = ParkQuota(run, t, wait) BY <1>3 DEF EvaluateQuota
  <2> HIDE DEF wait
  <2>4. run' \in RunType BY <1>1, <2>2, <2>3, ParkQuotaFits
  <2>5. attempt' \in [Task -> AttemptType] BY <1>3 DEF EvaluateQuota, AttemptType, Finished
  <2> QED BY <1>3, <2>4, <2>5 DEF EvaluateQuota
<1>4. CASE EvaluateStall(t)
  <2> DEFINE time == IF Backoff > 0 THEN now + Backoff ELSE 0
             again == [SetPhase(Supersede(run, {t}, "stalled"), t, "pending") EXCEPT
                         !.notBefore[t] = time]
  <2>1. time \in Nat BY <1>1, Bounds DEF Clock
  <2>2. Supersede(run, {t}, "stalled") \in RunType
    BY <1>1, SupersedeFits, DeadlinesFit DEF ClosedKind
  <2>3. again \in RunType BY <2>1, <2>2, OfferedFits
  <2>4. again = [Supersede(run, {t}, "stalled") EXCEPT !.phase[t] = "pending", !.notBefore[t] = time]
    BY <2>2 DEF SetPhase, RunType
  <2>5. SetPhase(run, t, "failed") \in RunType BY SetPhaseFits DEF Phase
  <2>6. \E r \in RunType : Commit(Reconcile(r))
    BY <1>4, <2>3, <2>4, <2>5 DEF EvaluateStall
  <2> QED BY <1>1, <2>6, ReconcileFits, CommitFits
<1>5. CASE ParkTask(t)
  BY <1>1, <1>5, WaitFits, ReconcileFits, CommitFits DEF ParkTask
<1> QED BY <1>2, <1>3, <1>4, <1>5

\* resolveTaskDecision and answerTaskInput keep every type.
LEMMA PersonTypes ==
  ASSUME TypeOK, NEW t \in Task,
         (\E verdict \in {"accepted", "failed"} : Resolve(t, verdict)) \/ Answer(t)
  PROVE  TypeOK'
<1> USE DEF TypeOK
<1>1. run \in RunType /\ Clock BY DEF Clock
<1>2. ASSUME NEW verdict \in {"accepted", "failed"}, Resolve(t, verdict) PROVE TypeOK'
  <2>1. SetPhase(run, t, verdict) \in RunType BY SetPhaseFits DEF Phase
  <2>2. ClearDecisions(SetPhase(run, t, verdict), {t}) \in RunType
    BY <1>1, <2>1, ClearDecisionsFits, DeadlinesFit
  <2> QED BY <1>1, <1>2, <2>2, ReconcileFits, CommitFits DEF Resolve
<1>3. CASE Answer(t)
  <2> DEFINE old == ClearDecisions(Supersede(run, {t}, "exited"), {t})
             state == IF ParkedFor(run, {"operator-hold"}) THEN run.state ELSE Released(run)
             new == [SetPhase(old, t, "pending") EXCEPT !.notBefore[t] = 0]
             next == [new EXCEPT !.state = state]
  <2>1. Supersede(run, {t}, "exited") \in RunType
    BY <1>1, SupersedeFits, DeadlinesFit DEF ClosedKind
  <2>2. old \in RunType BY <1>1, <2>1, ClearDecisionsFits, DeadlinesFit
  <2>3. state \in StateType BY ReleasedFits, FieldsOf
  <2> HIDE DEF old, state
  <2>4. new \in RunType BY <2>2, OfferedFits
  <2>5. next \in RunType BY <2>3, <2>4, SetStateFits
  <2>6. next = [old EXCEPT !.phase[t] = "pending", !.notBefore[t] = 0, !.state = state]
    BY <2>2 DEF SetPhase, RunType
  <2> HIDE DEF next
  <2>7. Commit(Reconcile(next)) BY <1>3, <2>6 DEF Answer, old, state
  <2> QED BY <1>1, <2>5, <2>7, ReconcileFits, CommitFits
<1> QED BY <1>2, <1>3

\* resumeParkedRun keeps the shape of the Run on every path.
LEMMA ResumeRunFits ==
  ASSUME NEW r \in RunType, Clock PROVE ResumeRun(r) \in RunType
<1> DEFINE refused == {t \in Binds(r, "launch-refused") : r.phase[t] = "pending"}
           old == Supersede(r, refused, "launch-refused")
<1>1. [r.state EXCEPT !.hold = "none"] \in StateType BY FieldsOf DEF StateType, HoldKind
<1>2. [r EXCEPT !.state.hold = "none"] \in RunType
  BY <1>1, SetStateFits DEF RunType
<1>3. [r EXCEPT !.state = Running] \in RunType BY SetStateFits, StatesFit
<1>4. old \in RunType BY SupersedeFits, DeadlinesFit DEF ClosedKind
<1> HIDE DEF old
<1>5. [old EXCEPT !.state = Running] \in RunType BY <1>4, SetStateFits, StatesFit
<1>6. ResumeRun(r) \in {[r EXCEPT !.state.hold = "none"], Reconcile([r EXCEPT !.state = Running]),
        Reconcile([old EXCEPT !.state = Running]), Advance(r)}
  BY Zenon DEF ResumeRun, refused, old
<1> QED BY <1>2, <1>3, <1>5, <1>6, ReconcileFits, AdvanceFits

\* holdRun, resumeParkedRun and closeParkedRun keep every type.
LEMMA OperatorTypes ==
  ASSUME TypeOK,
         \/ \E source \in HoldSources : Hold(source)
         \/ \E decider \in Decider : Resume(decider)
         \/ Close
  PROVE  TypeOK'
<1> USE DEF TypeOK
<1>1. run \in RunType /\ Clock BY DEF Clock
<1>2. ASSUME NEW source \in HoldSources, Hold(source) PROVE TypeOK'
  <2>1. source \in HoldKind BY Bounds
  <2>2. [run.state EXCEPT !.hold = source] \in StateType BY <2>1, FieldsOf DEF StateType
  <2>3. Held(source, now + Timeout) \in StateType
    BY <1>1, <2>1, DeadlinesFit, StatesFit, ReasonsFit DEF Held
  <2>4. \E state \in StateType : Commit([run EXCEPT !.state = state])
    BY <1>2, <2>2, <2>3 DEF Hold
  <2> QED BY <1>1, <2>4, SetStateFits, CommitFits
<1>3. ASSUME NEW decider \in Decider, Resume(decider) PROVE TypeOK'
  BY <1>1, <1>3, ResumeRunFits, CommitFits DEF Resume
<1>4. CASE Close
  <2> DEFINE settled == SetPhases(SetPhases(run, PhaseIn(run.phase, {"pending"}), "cancelled"),
                              PhaseIn(run.phase, {"awaiting"}), "failed")
             next == Reconcile(ClearDecisions(settled, Awaiting(run)))
             end == Ended(IF HasAccepted(next) THEN "incomplete" ELSE "failed", "operator-close")
  <2>1. settled \in RunType
    <3>1. SetPhases(run, PhaseIn(run.phase, {"pending"}), "cancelled") \in RunType
      BY SetPhasesFits DEF Phase
    <3> QED BY <3>1, SetPhasesFits DEF Phase
  <2> HIDE DEF settled
  <2>2. next \in RunType BY <1>1, <2>1, ClearDecisionsFits, DeadlinesFit, ReconcileFits
  <2> HIDE DEF next
  <2>3. end \in StateType BY StatesFit DEF Outcome, EndReason
  <2> HIDE DEF end
  <2>4. Commit([next EXCEPT !.state = end]) BY <1>4 DEF Close, next, settled, end
  <2> QED BY <2>2, <2>3, <2>4, SetStateFits, CommitFits
<1> QED BY <1>2, <1>3, <1>4

\* answerRunQuota and releaseRunQuota keep every type; a person's re-arming of
\* a wait stays inside its bound.
LEMMA QuotaTypes ==
  ASSUME TypeOK,
         \/ \E choice \in {"wait", "next-candidate"} : QuotaAnswer(choice)
         \/ \E channel \in {ChannelOf[t] : t \in Task} : ReleaseQuota(channel)
  PROVE  TypeOK'
<1> USE DEF TypeOK
<1>1. run \in RunType /\ Clock BY DEF Clock
<1>2. run.bind \in [Task -> BindType] /\ run.state \in StateType /\ run.state.hold \in HoldKind
  BY FieldsOf DEF StateType
<1>3. ASSUME NEW choice \in {"wait", "next-candidate"}, QuotaAnswer(choice) PROVE TypeOK'
  <2> DEFINE open == OpenWaits(run)
             known == {run.bind[t].wait.reset : t \in open} \ (0 .. now)
             all == \A t \in open : run.bind[t].wait.reset > now
             until == IF all THEN Latest(known) ELSE now + MaxWait
             rearmed(w) == [w EXCEPT !.deadline = until, !.rewaits = @ + 1, !.beyond = FALSE]
             bind == [t \in Task |-> IF t \in open
                        THEN [run.bind[t] EXCEPT !.wait = rearmed(run.bind[t].wait)] ELSE run.bind[t]]
  <2>1. open \in SUBSET Task BY DEF OpenWaits, Waiting, Binds
  <2>2. known \in SUBSET Horizon BY <1>2, <2>1 DEF BindType, WaitType
  <2>3. until \in Horizon BY <1>1, <2>2, DeadlinesFit, LatestInHorizon
  <2> HIDE DEF until
  <2>4. CASE choice = "wait"
    <3>1. \A t \in open : run.bind[t].wait.rewaits < MaxRewaits BY <1>3, <2>4 DEF QuotaAnswer
    <3>2. ASSUME NEW t \in Task PROVE bind[t] \in BindType
      <4>1. run.bind[t] \in BindType /\ run.bind[t].wait \in WaitType BY <1>2 DEF BindType
      <4>2. t \in open => run.bind[t].wait.rewaits + 1 \in 0 .. MaxRewaits
        BY <3>1, <4>1, Bounds DEF WaitType
      <4>3. t \in open => rearmed(run.bind[t].wait) \in WaitType
        BY <2>3, <4>1, <4>2 DEF WaitType
      <4> QED BY <4>1, <4>3 DEF BindType
    <3>3. [run EXCEPT !.bind = bind] \in RunType BY <1>1, <3>2, BindFits
    <3>4. Parked("quota-exhausted", run.state.hold, until) \in StateType
      BY <1>2, <2>3, StatesFit, ReasonsFit
    <3>5. Commit([[run EXCEPT !.bind = bind] EXCEPT
                    !.state = Parked("quota-exhausted", run.state.hold, until)])
      BY <1>3, <2>4 DEF QuotaAnswer, SetWaits, until
    <3> HIDE DEF bind
    <3> QED BY <3>3, <3>4, <3>5, SetStateFits, CommitFits
  <2>5. CASE choice = "next-candidate"
    <3>1. Supersede(run, open, "quota-exhausted") \in RunType
      BY <1>1, SupersedeFits, DeadlinesFit DEF ClosedKind
    <3>2. Commit([Supersede(run, open, "quota-exhausted") EXCEPT !.state = Released(run)])
      BY <1>3, <2>5 DEF QuotaAnswer
    <3> QED BY <1>1, <3>1, <3>2, ReleasedFits, SetStateFits, CommitFits
  <2> QED BY <2>4, <2>5
<1>4. ASSUME NEW channel \in {ChannelOf[t] : t \in Task}, ReleaseQuota(channel) PROVE TypeOK'
  <2> DEFINE chosen == {t \in OpenWaits(run) : /\ ChannelOf[t] = channel
                                               /\ run.bind[t].wait.deadline > now}
             held == IF run.cancel \/ IsEnded(run) THEN {}
                     ELSE {t \in chosen : run.phase[t] = "pending"}
             left == Waiting(run) \ chosen
             state == IF run.cancel \/ ~ParkedFor(run, {"quota-exhausted"}) THEN run.state
                      ELSE IF left # {}
                        THEN Parked("quota-exhausted", run.state.hold, Latest(WaitsOf(run, left)))
                      ELSE Released(run)
             bind == [t \in Task |-> IF t \in chosen
                        THEN [run.bind[t] EXCEPT !.wait = [run.bind[t].wait EXCEPT !.released = TRUE]]
                        ELSE run.bind[t]]
             freed == [run EXCEPT !.bind = bind]
  <2>1. bind \in [Task -> BindType]
    <3>1. ASSUME NEW t \in Task PROVE bind[t] \in BindType
      <4>1. run.bind[t] \in BindType /\ run.bind[t].wait \in WaitType BY <1>2 DEF BindType
      <4>2. [run.bind[t].wait EXCEPT !.released = TRUE] \in WaitType BY <4>1 DEF WaitType
      <4> QED BY <4>1, <4>2 DEF BindType
    <3> HIDE DEF chosen
    <3> QED BY <3>1
  <2>2. freed \in RunType BY <1>1, <2>1, BindFits
  <2>3. Supersede(freed, held, "quota-exhausted") \in RunType
    BY <1>1, <2>2, SupersedeFits, DeadlinesFit DEF ClosedKind
  <2>4. state \in StateType
    <3>1. left \in SUBSET Task BY DEF Waiting, Binds
    <3>2. Latest(WaitsOf(run, left)) \in Horizon BY <1>1, <3>1, WaitsFit, LatestInHorizon
    <3> QED BY <1>1, <1>2, <3>2, StatesFit, ReasonsFit, ReleasedFits
  <2>5. Commit([Supersede(freed, held, "quota-exhausted") EXCEPT !.state = state])
    BY <1>4 DEF ReleaseQuota, SetWaits
  <2> HIDE DEF state, freed, held
  <2> QED BY <2>3, <2>4, <2>5, SetStateFits, CommitFits
<1> QED BY <1>3, <1>4

\* cancelRun and requestDispatchCancellation keep every type.
LEMMA CancelTypes ==
  ASSUME TypeOK, CancelRun \/ \E t \in Task : CancelAttempt(t) PROVE TypeOK'
<1> USE DEF TypeOK
<1>1. run \in RunType /\ Clock BY DEF Clock
<1>2. CASE CancelRun
  <2> DEFINE closed == ClearDecisions(SetPhases(run, Closable(run), "cancelled"), Awaiting(run))
             requested == RequestCancellation(run)
             settled == Settleable(requested, attempt')
  <2>1. closed \in RunType
    BY <1>1, SetPhasesFits, ClearDecisionsFits, DeadlinesFit DEF Phase
  <2>2. [closed EXCEPT !.cancel = TRUE] \in RunType BY <2>1 DEF RunType
  <2>3. requested \in RunType BY <1>1, <2>2, ReconcileFits DEF RequestCancellation
  <2> HIDE DEF requested
  <2>4. SetPhases(requested, settled, "cancelled") \in RunType
    BY <2>3, SetPhasesFits DEF Phase
  <2>5. run' = requested \/ run' = Reconcile(SetPhases(requested, settled, "cancelled"))
    BY <1>2 DEF CancelRun, requested
  <2> HIDE DEF settled
  <2>6. run' \in RunType BY <1>1, <2>3, <2>4, <2>5, ReconcileFits
  <2>7. attempt' \in [Task -> AttemptType] BY <1>2 DEF CancelRun, CancelAttempts, AttemptType
  <2> QED BY <1>2, <2>6, <2>7 DEF CancelRun
<1>3. ASSUME NEW t \in Task, CancelAttempt(t) PROVE TypeOK'
  BY <1>3 DEF CancelAttempt, AttemptType
<1> QED BY <1>2, <1>3

\* Every transaction of the ledger keeps every type.
LEMMA TypeStep == TypeOK /\ [Next]_vars => TypeOK'
<1> SUFFICES ASSUME TypeOK, [Next]_vars PROVE TypeOK' OBVIOUS
<1>1. CASE Tick \/ AdvanceRun \/ ParkProgression BY <1>1, TimeTypes
<1>2. CASE \E S \in SUBSET Task : Reserve(S) BY <1>2, ReserveTypes
<1>3. CASE LaunchStep BY <1>3, ProbeTypes, LaunchTypes, LostTypes DEF LaunchStep
<1>4. CASE EvaluationStep BY <1>4, EvaluationTypes DEF EvaluationStep
<1>5. CASE PersonStep BY <1>5, PersonTypes, OperatorTypes, QuotaTypes DEF PersonStep
<1>6. CASE CancelStep BY <1>6, CancelTypes DEF CancelStep
<1>7. CASE UNCHANGED vars BY <1>7 DEF vars, TypeOK
<1> QED BY <1>1, <1>2, <1>3, <1>4, <1>5, <1>6, <1>7 DEF Next

\* Whatever the task graph, the bounds and the order of the transactions, the
\* snapshot, the attempts and the clock keep their declared shape: every writer
\* commits a Run the store can read back.
THEOREM TypeCorrect == Spec => []TypeOK
<1> QED BY TypeInit, TypeStep, PTL DEF Spec
=============================================================================
