------------------------- MODULE RunLifecycleSafety -------------------------
(***************************************************************************)
(* What no order of transactions can do to a Run: start a task early,      *)
(* revoke what was settled, keep uncertain effects on closed work, or end  *)
(* with work left or an outcome its tasks do not have.                     *)
(*                                                                         *)
(* Every reducer is shown to take a sound Run to a sound Run and to move   *)
(* phases only in legal ways; both compose, and an action is a few         *)
(* reducers in a row.                                                      *)
(***************************************************************************)
EXTENDS RunLifecycleProofs

Accepted(r) == PhaseIn(r.phase, {"accepted"})

\* The parts of soundness: work has its results and its order, questions are
\* open while their task waits, and effects belong to open work, which still has
\* its results even when it was refused and offered again.
Ordered(r) == \A t \in Task :
  r.phase[t] \in Working \cup {"awaiting", "accepted"} =>
    Blocking[t] \subseteq Accepted(r) /\ Ordering[t] \subseteq PhaseIn(r.phase, Settled)
Asks(r) == Awaiting(r) = PhaseIn(r.phase, {"awaiting"})
EffectsOpen(r) == r.effects \subseteq PhaseIn(r.phase, {"active", "reconciling", "pending"})
EffectsReady(r) == \A t \in r.effects : Blocking[t] \subseteq Accepted(r)
Sound(r) == Ordered(r) /\ Asks(r) /\ EffectsOpen(r) /\ EffectsReady(r)

\* How a transaction may move phases: settled tasks stay, pending ones may only
\* be closed, work that holds no effects goes on unless the step is about it, and
\* the wish to cancel is not taken back.
Moves(r, q, S) ==
  /\ r.cancel => q.cancel
  /\ \A t \in Task : r.phase[t] \in Settled => q.phase[t] = r.phase[t]
  /\ \A t \in Task : r.phase[t] = "pending" => q.phase[t] \in Dead \cup {"pending"}
  /\ \A t \in Task \ S : r.phase[t] = "active" /\ t \notin r.effects
                           => q.phase[t] = "active" /\ t \notin q.effects

\* A Run that ended has nothing left and the outcome of its tasks; one that has
\* not ended still has a task to accept.
Honest(r) ==
  /\ IsEnded(r) => /\ Closed(r)
                   /\ r.state.outcome = "completed" <=> Accepted(r) = Task
                   /\ r.state.outcome = "incomplete" => Accepted(r) # {}
                   /\ r.state.outcome \in {"failed", "cancelled"} => Accepted(r) = {}
                   /\ r.state.outcome = "cancelled" => r.cancel
  /\ ~IsEnded(r) => Accepted(r) # Task

Good(r, q, S) == /\ Sound(q) /\ Moves(r, q, S)
                 /\ IsEnded(r) => q.state = r.state
                 /\ ~IsEnded(r) => Honest(q)

----------------------------------------------------------------------------
(* Phases *)

\* The phases the code tells apart are of four kinds: pending, in work, waiting
\* for a person, settled.
LEMMA PhaseKinds ==
  /\ Phase = {"pending", "awaiting"} \cup Working \cup Settled
  /\ Working \cap Settled = {} /\ {"pending", "awaiting"} \cap (Working \cup Settled) = {}
  /\ Settled = Dead \cup {"accepted"} /\ "accepted" \notin Dead
  BY DEF Phase, Working, Settled, Dead

\* Legal moves compose.
LEMMA MovesCompose ==
  ASSUME NEW a, NEW b, NEW c, NEW S, Moves(a, b, S), Moves(b, c, S) PROVE Moves(a, c, S)
  BY DEF Moves, Settled

\* Fewer tasks set aside is a stronger statement.
LEMMA MovesWiden ==
  ASSUME NEW a, NEW b, NEW S, NEW U, S \subseteq U, Moves(a, b, S) PROVE Moves(a, b, U)
  BY DEF Moves

\* A Run whose phases and effects did not change has moved nothing.
LEMMA MovesNothing ==
  ASSUME NEW a, NEW b, NEW S, a.phase = b.phase, a.cancel = b.cancel,
         b.effects \subseteq a.effects
  PROVE  Moves(a, b, S)
  BY DEF Moves

\* Whatever legal moves leave of a sound Run, its results stay and its order holds.
LEMMA MovesKeepOrder ==
  ASSUME NEW r \in RunType, NEW q \in RunType, NEW S, Moves(r, q, S), Ordered(r)
  PROVE  /\ Ordered(q) /\ Accepted(r) \subseteq Accepted(q)
<1>1. Accepted(r) \subseteq Accepted(q)
  BY DEF Accepted, PhaseIn, Moves, Settled
<1>2. PhaseIn(r.phase, Settled) \subseteq PhaseIn(q.phase, Settled)
  BY DEF PhaseIn, Moves
<1>3. ASSUME NEW t \in Task, q.phase[t] \in Working \cup {"awaiting", "accepted"}
      PROVE  r.phase[t] \in Working \cup {"awaiting", "accepted"}
  <2>1. r.phase[t] \in Phase BY FieldsOf
  <2>2. r.phase[t] # "pending" BY <1>3, PhaseKinds DEF Moves
  <2>3. r.phase[t] \notin Dead BY <1>3, PhaseKinds DEF Moves
  <2> QED BY <2>1, <2>2, <2>3, PhaseKinds
<1>4. ASSUME NEW t \in Task, q.phase[t] \in Working \cup {"awaiting", "accepted"}
      PROVE  Blocking[t] \subseteq Accepted(q) /\ Ordering[t] \subseteq PhaseIn(q.phase, Settled)
  BY <1>1, <1>2, <1>3, <1>4 DEF Ordered
<1> QED BY <1>1, <1>4 DEF Ordered

\* What a legal move must add to keep a Run sound: its questions and its effects.
LEMMA SoundStep ==
  ASSUME NEW r \in RunType, NEW q \in RunType, NEW S, Sound(r), Moves(r, q, S),
         Asks(q), EffectsOpen(q),
         \A t \in q.effects : t \in r.effects \/ Blocking[t] \subseteq Accepted(r)
  PROVE  Sound(q)
  BY MovesKeepOrder DEF Sound, EffectsReady

\* One task in work or waiting for a person moves, or a pending one is closed.
LEMMA MoveOne ==
  ASSUME NEW r \in RunType, NEW q \in RunType, NEW t \in Task, NEW p \in Phase, Sound(r),
         q.cancel = r.cancel, q.phase = [r.phase EXCEPT ![t] = p],
         \/ r.phase[t] \in Working \cup {"awaiting"}
         \/ r.phase[t] = "pending" /\ p \in Dead \cup {"pending"},
         \A u \in Task \ {t} : q.decision[u].reason = r.decision[u].reason,
         q.decision[t].reason # "none" <=> p = "awaiting",
         \A u \in Task \ {t} : u \in q.effects <=> u \in r.effects,
         t \in q.effects => p \in {"active", "reconciling", "pending"},
         t \in q.effects => t \in r.effects \/ r.phase[t] \in Working \cup {"awaiting"}
  PROVE  Sound(q) /\ Moves(r, q, {t})
<1>1. r.phase \in [Task -> Phase] /\ q.phase \in [Task -> Phase]
      /\ r.effects \in SUBSET Task /\ q.effects \in SUBSET Task
  BY FieldsOf
<1>2. q.phase[t] = p /\ \A u \in Task \ {t} : q.phase[u] = r.phase[u] BY <1>1
<1>3. r.phase[t] \notin Settled BY PhaseKinds
<1>4. Moves(r, q, {t}) BY <1>1, <1>2, <1>3, PhaseKinds DEF Moves
<1>5. Asks(q)
  <2>1. \A u \in Task : r.decision[u].reason # "none" <=> r.phase[u] = "awaiting"
    BY DEF Sound, Asks, Awaiting, PhaseIn
  <2>2. \A u \in Task : q.decision[u].reason # "none" <=> q.phase[u] = "awaiting"
    BY <1>2, <2>1
  <2> QED BY <2>2 DEF Asks, Awaiting, PhaseIn
<1>6. EffectsOpen(q)
  <2>1. ASSUME NEW u \in q.effects PROVE q.phase[u] \in {"active", "reconciling", "pending"}
    BY <1>1, <1>2 DEF Sound, EffectsOpen, PhaseIn
  <2> QED BY <1>1, <2>1 DEF EffectsOpen, PhaseIn
<1>7. \A u \in q.effects : u \in r.effects \/ Blocking[u] \subseteq Accepted(r)
  BY <1>1 DEF Sound, Ordered
<1> QED BY <1>4, <1>5, <1>6, <1>7, SoundStep

\* Some tasks that hold no effects are closed, and their questions with them.
LEMMA MoveMany ==
  ASSUME NEW r \in RunType, NEW q \in RunType, NEW U, Sound(r),
         r.cancel => q.cancel, q.effects = r.effects, U \cap r.effects = {},
         \A t \in Task \ U : q.phase[t] = r.phase[t],
         \A t \in Task \cap U : r.phase[t] \notin Settled /\ q.phase[t] \in Dead,
         \A t \in Task \ U : q.decision[t].reason = r.decision[t].reason,
         \A t \in Task \cap U : q.decision[t].reason = "none"
  PROVE  Sound(q) /\ Moves(r, q, U)
<1>1. r.phase \in [Task -> Phase] /\ r.effects \in SUBSET Task BY FieldsOf
<1>2. Moves(r, q, U) BY <1>1, PhaseKinds DEF Moves
<1>3. Asks(q)
  <2>1. \A u \in Task : r.decision[u].reason # "none" <=> r.phase[u] = "awaiting"
    BY DEF Sound, Asks, Awaiting, PhaseIn
  <2>2. \A u \in Task : q.decision[u].reason # "none" <=> q.phase[u] = "awaiting"
    BY <2>1, PhaseKinds
  <2> QED BY <2>2 DEF Asks, Awaiting, PhaseIn
<1>4. EffectsOpen(q) BY <1>1 DEF Sound, EffectsOpen, PhaseIn
<1> QED BY <1>2, <1>3, <1>4, SoundStep

\* The closing of tasks that are not in work disturbs no work at all.
LEMMA MovesNarrow ==
  ASSUME NEW r, NEW q, NEW U, Moves(r, q, U),
         \A t \in Task \cap U : r.phase[t] # "active" \/ t \in r.effects
  PROVE  Moves(r, q, {})
  BY DEF Moves

----------------------------------------------------------------------------
(* Reclassification *)

\* No pending task waits for a result that will not come.
NoneDoomed(phase) == \A t \in PhaseIn(phase, {"pending"}) :
  Blocking[t] \cap PhaseIn(phase, Dead) = {}

\* The union of untouched sets is untouched: what the closure loop leaves
\* pending has no dead dependency.
LEMMA SkipClears ==
  ASSUME NEW phase \in [Task -> Phase] PROVE NoneDoomed(SkipDoomed(phase))
<1> DEFINE next == SkipDoomed(phase)
           left == Survivors(phase)
<1>1. left \subseteq PhaseIn(phase, {"pending"}) BY DEF Survivors
<1>2. ASSUME NEW t \in left
      PROVE  Blocking[t] \cap (PhaseIn(phase, Dead) \cup (PhaseIn(phase, {"pending"}) \ left)) = {}
  <2>1. PICK S \in SUBSET PhaseIn(phase, {"pending"}) : Untouched(phase, S) /\ t \in S
    BY DEF Survivors
  <2>2. S \subseteq left BY <2>1 DEF Survivors
  <2> QED BY <2>1, <2>2 DEF Untouched
<1>3. \A t \in Task : next[t] = IF t \in PhaseIn(phase, {"pending"}) \ left THEN "skipped" ELSE phase[t]
  BY DEF SkipDoomed, Doomed
<1>4. PhaseIn(next, {"pending"}) \subseteq left
  BY <1>3 DEF PhaseIn
<1>5. PhaseIn(next, Dead) \subseteq PhaseIn(phase, Dead) \cup (PhaseIn(phase, {"pending"}) \ left)
  BY <1>3 DEF PhaseIn
<1> QED BY <1>2, <1>4, <1>5 DEF NoneDoomed

\* The closure never skips a task that holds effects: its results are accepted.
LEMMA SkipSound ==
  ASSUME NEW r \in RunType, Sound(r)
  PROVE  LET q == [r EXCEPT !.phase = SkipDoomed(r.phase)]
         IN q \in RunType /\ Sound(q) /\ Moves(r, q, {})
<1> DEFINE q == [r EXCEPT !.phase = SkipDoomed(r.phase)]
           U == Doomed(r.phase)
<1>1. r.phase \in [Task -> Phase] /\ r.effects \in SUBSET Task BY FieldsOf
<1>2. SkipDoomed(r.phase) \in [Task -> Phase] BY <1>1, SkipFits
<1>3. /\ q \in RunType /\ q.phase = SkipDoomed(r.phase)
      /\ q.cancel = r.cancel /\ q.effects = r.effects /\ q.decision = r.decision
  BY <1>2 DEF RunType
<1>4. U \subseteq PhaseIn(r.phase, {"pending"}) BY DEF Doomed
<1>5. ASSUME NEW t \in U PROVE t \notin r.effects
  <2> SUFFICES ASSUME t \in r.effects PROVE FALSE OBVIOUS
  <2>1. Blocking[t] \subseteq PhaseIn(r.phase, {"accepted"})
    BY DEF Sound, EffectsReady, Accepted
  <2>2. Untouched(r.phase, {t})
    BY <2>1, PhaseKinds DEF Untouched, PhaseIn
  <2>3. t \in Survivors(r.phase) BY <1>4, <2>2 DEF Survivors
  <2> QED BY <2>3 DEF Doomed
<1>6. \A t \in Task : q.phase[t] = IF t \in U THEN "skipped" ELSE r.phase[t]
  BY <1>3 DEF SkipDoomed
<1>7. \A t \in U : r.phase[t] = "pending" /\ r.decision[t].reason = "none"
  BY <1>4 DEF Sound, Asks, Awaiting, PhaseIn
<1> HIDE DEF q, U
<1>8. \A t \in Task \cap U : r.phase[t] \notin Settled /\ q.phase[t] \in Dead
  BY <1>6, <1>7 DEF Settled, Dead
<1>9. Sound(q) /\ Moves(r, q, U)
  BY <1>3, <1>5, <1>6, <1>7, <1>8, MoveMany
<1>10. Moves(r, q, {}) BY <1>7, <1>9, MovesNarrow
<1> QED BY <1>3, <1>9, <1>10 DEF q

\* Where nothing is in work, waits or may start, nothing is left: the graph has
\* no cycle, so a least pending task would have all it needs.
LEMMA NothingLeft ==
  ASSUME NEW r \in RunType, Sound(r), NoneDoomed(r.phase), ~Live(r), Awaiting(r) = {},
         {t \in Task : Startable(r.phase, r.effects, t)} = {}
  PROVE  Closed(r)
<1> DEFINE S == PhaseIn(r.phase, {"pending"})
<1>1. r.phase \in [Task -> Phase] BY FieldsOf
<1>2. r.effects = {} /\ PhaseIn(r.phase, Working) = {} BY DEF Live
<1>3. \A t \in Task : r.phase[t] \notin Working \cup {"awaiting"}
  BY <1>2 DEF Sound, Asks, PhaseIn
<1>4. S = {}
  <2> SUFFICES ASSUME S # {} PROVE FALSE OBVIOUS
  <2>1. S \in (SUBSET Task) \ {{}} BY DEF PhaseIn
  <2>2. PICK t \in S : (Blocking[t] \cup Ordering[t]) \cap S = {}
    BY <2>1, GraphAssumption
  <2>3. t \in Task /\ Blocking[t] \subseteq Task /\ Ordering[t] \subseteq Task
    BY GraphAssumption DEF PhaseIn
  <2>4. \A u \in Blocking[t] \cup Ordering[t] : r.phase[u] \in Settled
    BY <1>1, <1>3, <2>2, <2>3, PhaseKinds DEF PhaseIn
  <2>5. \A u \in Blocking[t] : r.phase[u] = "accepted"
    BY <2>3, <2>4, PhaseKinds DEF NoneDoomed, PhaseIn
  <2>6. OpenDependencies(r.phase, t) = {}
    BY <2>3, <2>4, <2>5 DEF OpenDependencies, PhaseIn
  <2>7. Startable(r.phase, r.effects, t) BY <1>2, <2>6 DEF Startable, PhaseIn
  <2> QED BY <2>3, <2>7
<1>5. \A t \in Task : r.phase[t] \in Settled BY <1>1, <1>3, <1>4, PhaseKinds DEF PhaseIn
<1> QED BY <1>2, <1>5 DEF Closed, PhaseIn

\* The state a Run is classified as ends it only when nothing is left, with the
\* outcome of its tasks, and always when all are accepted.
LEMMA ClassifyEnds ==
  ASSUME NEW r \in RunType, Sound(r), NoneDoomed(r.phase), ~IsEnded(r)
  PROVE  Honest([r EXCEPT !.state = Classify(r)])
<1> DEFINE state == Classify(r)
           q == [r EXCEPT !.state = state]
<1>1. q.state = state /\ q.phase = r.phase /\ q.cancel = r.cancel
      /\ q.effects = r.effects BY DEF RunType
<1> SUFFICES Honest(q) OBVIOUS
<1> HIDE DEF q
<1>2. CASE Accepted(r) = Task
  <2>1. state = Ended("completed", "completed") BY <1>2 DEF Classify, Accepted
  <2>2. \A t \in Task : r.phase[t] = "accepted" BY <1>2 DEF Accepted, PhaseIn
  <2>3. r.effects = {} BY <2>2, FieldsOf DEF Sound, EffectsOpen, PhaseIn
  <2>4. Closed(q) BY <1>1, <2>2, <2>3 DEF Closed, PhaseIn, Settled
  <2>5. q.state.kind = "terminal" /\ q.state.outcome = "completed"
    BY <1>1, <2>1 DEF Ended, State
  <2> HIDE DEF state
  <2> QED BY <1>1, <1>2, <2>4, <2>5 DEF Honest, IsEnded, Accepted
<1>3. CASE Accepted(r) # Task /\ state.kind = "terminal"
  <2>1. /\ ~Live(r) /\ Awaiting(r) = {} /\ {t \in Task : Startable(r.phase, r.effects, t)} = {}
        /\ r.cancel
        /\ state = Ended(IF HasAccepted(r) THEN "incomplete" ELSE "cancelled", "cancelled")
    BY <1>3 DEF Classify, Accepted, Parked, Running, State, IsEnded
  <2>2. Closed(r) BY <2>1, NothingLeft
  <2>3. Closed(q) BY <1>1, <2>2 DEF Closed
  <2>4. q.state.outcome = IF Accepted(r) # {} THEN "incomplete" ELSE "cancelled"
    BY <1>1, <2>1 DEF Ended, State, HasAccepted, Accepted
  <2>5. q.cancel BY <1>1, <2>1
  <2> HIDE DEF state
  <2> QED BY <1>1, <1>3, <2>3, <2>4, <2>5 DEF Honest, IsEnded, Accepted
<1>4. CASE Accepted(r) # Task /\ state.kind # "terminal"
  <2> HIDE DEF state
  <2> QED BY <1>1, <1>4 DEF Honest, IsEnded, Accepted
<1> QED BY <1>2, <1>3, <1>4

\* A hold carried over a reclassification neither makes nor undoes an ending.
LEMMA KeepHoldEnds ==
  ASSUME NEW r \in RunType, NEW state \in StateType
  PROVE  IF state.kind = "terminal" THEN KeepHold(r, state) = state
         ELSE KeepHold(r, state).kind # "terminal"
<1>1. [state EXCEPT !.hold = r.state.hold].kind = state.kind BY DEF StateType
<1>2. Held(r.state.hold, r.state.deadline).kind = "parked" BY DEF Held, Parked, State
<1> QED BY <1>1, <1>2 DEF KeepHold

\* Reclassifying a sound Run that has not ended leaves a sound and honest one.
LEMMA ReconcileSound ==
  ASSUME NEW r \in RunType, Clock, Sound(r)
  PROVE  /\ Reconcile(r) \in RunType /\ Sound(Reconcile(r)) /\ Moves(r, Reconcile(r), {})
         /\ ~IsEnded(r) => Honest(Reconcile(r))
         /\ IsEnded(r) => Reconcile(r) = r
<1>1. CASE IsEnded(r)
  BY <1>1, ReconcileFits, MovesNothing
<1>2. CASE ~IsEnded(r)
  <2> DEFINE closed == [r EXCEPT !.phase = SkipDoomed(r.phase)]
             ideal == [closed EXCEPT !.state = Classify(closed)]
             next == [closed EXCEPT !.state = KeepHold(r, Classify(closed))]
  <2>1. closed \in RunType /\ Sound(closed) /\ Moves(r, closed, {}) BY SkipSound
  <2>2. closed.phase = SkipDoomed(r.phase) /\ closed.state = r.state BY DEF RunType
  <2>3. NoneDoomed(closed.phase) BY <2>2, SkipClears, FieldsOf
  <2>4. ~IsEnded(closed) BY <1>2, <2>2 DEF IsEnded
  <2>5. Honest(ideal) BY <2>1, <2>3, <2>4, ClassifyEnds
  <2>6. Reconcile(r) = next BY <1>2 DEF Reconcile
  <2>7. Classify(closed) \in StateType BY <2>1, ClassifyFits
  <2> DEFINE state == Classify(closed)
  <2>8. next.state = KeepHold(r, state) /\ ideal.state = state
        /\ next.phase = closed.phase /\ next.cancel = closed.cancel
        /\ next.effects = closed.effects
        /\ next.decision = closed.decision
        /\ ideal.phase = closed.phase /\ ideal.cancel = closed.cancel
        /\ ideal.effects = closed.effects
    BY <2>1 DEF RunType
  <2>9. IF state.kind = "terminal" THEN KeepHold(r, state) = state
        ELSE KeepHold(r, state).kind # "terminal"
    BY <2>7, KeepHoldEnds
  <2> HIDE DEF state, next, ideal, closed
  <2>10. Honest(next)
    <3>1. CASE state.kind = "terminal"
      BY <2>5, <2>8, <2>9, <3>1 DEF Honest, IsEnded, Closed, Accepted
    <3>2. CASE state.kind # "terminal"
      BY <2>5, <2>8, <2>9, <3>2 DEF Honest, IsEnded, Accepted
    <3> QED BY <3>1, <3>2
  <2>11. Sound(next)
    BY <2>1, <2>8 DEF Sound, Ordered, Asks, EffectsOpen, EffectsReady, Accepted, Awaiting
  <2>12. Moves(r, next, {}) BY <2>1, <2>8 DEF Moves
  <2> QED BY <1>2, <2>6, <2>10, <2>11, <2>12, ReconcileFits
<1> QED BY <1>1, <1>2

\* A step that ends in a reclassification is good when what came before it is
\* legal and does not itself end the Run.
LEMMA ReconcileGood ==
  ASSUME NEW r \in RunType, NEW q \in RunType, NEW S, Clock, Sound(q), Moves(r, q, S),
         IsEnded(r) => q.state = r.state, ~IsEnded(r) => ~IsEnded(q)
  PROVE  Good(r, Reconcile(q), S)
<1>1. Moves(q, Reconcile(q), S) BY ReconcileSound, MovesWiden
<1>2. Moves(r, Reconcile(q), S) BY <1>1, MovesCompose
<1>3. IsEnded(r) => Reconcile(q).state = r.state BY ReconcileSound DEF IsEnded
<1> QED BY <1>2, <1>3, ReconcileSound DEF Good

\* A step that accepts nothing and leaves an open Run open is good.
LEMMA QuietGood ==
  ASSUME NEW r \in RunType, NEW q \in RunType, NEW S, Honest(r), Sound(q), Moves(r, q, S),
         IsEnded(r) => q.state = r.state, ~IsEnded(r) => ~IsEnded(q),
         Accepted(q) \subseteq Accepted(r)
  PROVE  Good(r, q, S)
<1>1. Accepted(r) \subseteq Task /\ Accepted(q) \subseteq Task BY DEF Accepted, PhaseIn
<1> QED BY <1>1 DEF Good, Honest

\* A good step after a legal one that kept the state.
LEMMA GoodAfter ==
  ASSUME NEW a, NEW b, NEW c, NEW S, Moves(a, b, S), a.state = b.state, Good(b, c, S)
  PROVE  Good(a, c, S)
  BY MovesCompose DEF Good, IsEnded

\* Soundness looks at phases, effects and questions only.
LEMMA SameTasks ==
  ASSUME NEW r, NEW q, NEW S, Sound(r), q.phase = r.phase, q.effects = r.effects,
         q.decision = r.decision, r.cancel => q.cancel
  PROVE  Sound(q) /\ Moves(r, q, S) /\ Accepted(q) = Accepted(r)
  BY DEF Sound, Ordered, Asks, EffectsOpen, EffectsReady, Accepted, Awaiting, Moves

----------------------------------------------------------------------------
(* Time *)

\* Passed deadlines close only pending tasks without effects and tasks that wait
\* for a person, and an ending they propose is honest when it is not refused.
LEMMA ExpireGood ==
  ASSUME NEW r \in RunType, Clock, Sound(r), ~IsEnded(r), ~Refused(Expire(r))
  PROVE  Good(r, Expire(r), {})
<1> DEFINE drop == IF Due(r) /\ ParkedFor(r, Expiring)
                   THEN PhaseIn(r.phase, {"pending"}) \ r.effects ELSE {}
           late == {t \in Awaiting(r) : r.decision[t].deadline <= now \/ Due(r)}
           past == \E t \in Task : r.decision[t].reason # "none" /\ r.decision[t].deadline <= now
           dropped == SetPhases(r, drop, "cancelled")
           failed == SetPhases(dropped, late, "failed")
           settled == ClearDecisions(failed, late)
           freed == IF Due(r) /\ ParkedFor(r, Expiring \ {"needs-input"}) /\ ~Live(settled)
                    THEN [settled EXCEPT !.state = Running] ELSE settled
           next == Reconcile(freed)
           end == Ended(IF HasAccepted(next) THEN "incomplete" ELSE "failed", "park-timeout")
           ended == [next EXCEPT !.state = end]
           U == drop \cup late
<1>1. late \subseteq PhaseIn(r.phase, {"awaiting"}) BY DEF Sound, Asks
<1>2. drop \subseteq PhaseIn(r.phase, {"pending"}) /\ drop \cap r.effects = {} OBVIOUS
<1>3. U \cap r.effects = {} BY <1>1, <1>2 DEF Sound, EffectsOpen, PhaseIn
<1> HIDE DEF drop
<1>4. /\ dropped \in RunType /\ failed \in RunType /\ settled \in RunType
  BY SetPhasesFits, ClearDecisionsFits, DeadlinesFit DEF Phase
<1> HIDE DEF late
<1>5. /\ settled.cancel = r.cancel /\ settled.effects = r.effects /\ settled.state = r.state
      /\ \A t \in Task : settled.phase[t] = IF t \in late THEN "failed"
                                            ELSE IF t \in drop THEN "cancelled" ELSE r.phase[t]
      /\ \A t \in Task : settled.decision[t] = IF t \in late THEN NoDecision ELSE r.decision[t]
  BY DEF SetPhases, ClearDecisions, RunType
<1> HIDE DEF settled, failed, dropped
<1>6. \A t \in Task : r.phase[t] = "pending" => r.decision[t].reason = "none"
  BY DEF Sound, Asks, Awaiting, PhaseIn
<1>7. Sound(settled) /\ Moves(r, settled, U)
  <2>1. \A t \in Task \ U : /\ settled.phase[t] = r.phase[t]
                            /\ settled.decision[t].reason = r.decision[t].reason
    BY <1>5
  <2>2. \A t \in Task \cap U : r.phase[t] \notin Settled /\ settled.phase[t] \in Dead
    BY <1>1, <1>2, <1>5 DEF PhaseIn, Settled, Dead
  <2>3. \A t \in Task \cap U : settled.decision[t].reason = "none"
    BY <1>2, <1>5, <1>6 DEF PhaseIn, NoDecision
  <2> HIDE DEF U
  <2> QED BY <1>3, <1>4, <1>5, <2>1, <2>2, <2>3, MoveMany
<1>8. Moves(r, settled, {})
  <2>1. \A t \in Task \cap U : r.phase[t] # "active" BY <1>1, <1>2 DEF PhaseIn
  <2> QED BY <1>7, <2>1, MovesNarrow
<1>9. /\ freed \in RunType /\ freed.phase = settled.phase /\ freed.cancel = settled.cancel
      /\ freed.effects = settled.effects
      /\ freed.decision = settled.decision /\ freed.state \in {r.state, Running}
  BY <1>4, <1>5, SetStateFits, StatesFit DEF RunType
<1> HIDE DEF freed
<1>10. Sound(freed) /\ Moves(r, freed, {})
  BY <1>7, <1>8, <1>9, SameTasks DEF Moves
<1>11. ~IsEnded(freed) BY <1>9 DEF IsEnded, Running, State
<1>12. Good(r, next, {}) BY <1>9, <1>10, <1>11, ReconcileGood
<1>13. next \in RunType BY <1>9, ReconcileFits
<1> HIDE DEF next, U
<1>14. CASE Expire(r) = next BY <1>12, <1>14
<1>15. CASE Expire(r) = ended /\ IsParked(next)
  <2>1. Honest(next) /\ ~IsEnded(next) BY <1>12, <1>15 DEF Good, IsParked, IsEnded
  <2>2. ended.phase = next.phase /\ ended.cancel = next.cancel /\ ended.effects = next.effects
        /\ ended.decision = next.decision /\ ended.state = end
    BY <1>13 DEF RunType
  <2>3. end.kind = "terminal"
        /\ end.outcome = IF Accepted(next) # {} THEN "incomplete" ELSE "failed"
    BY DEF Ended, State, HasAccepted, Accepted
  <2> HIDE DEF ended, end
  <2>4. Closed(ended) BY <1>15, <2>2, <2>3 DEF Refused, IsEnded
  <2>5. Honest(ended) BY <2>1, <2>2, <2>3, <2>4 DEF Honest, IsEnded, Accepted
  <2>6. Sound(next) /\ Moves(r, next, {}) BY <1>12 DEF Good
  <2>7. Sound(ended) /\ Moves(r, ended, {}) BY <2>2, <2>6, SameTasks DEF Moves
  <2> QED BY <1>15, <2>5, <2>7 DEF Good
<1>16. Expire(r) = next \/ (Expire(r) = ended /\ IsParked(next))
  BY Zenon DEF Expire, ended, end, drop, late, past, dropped, failed, settled, freed, next
<1> QED BY <1>14, <1>15, <1>16

\* Time moves a Run legally on every path of advanceRunLifecycle.
LEMMA AdvanceGood ==
  ASSUME NEW r \in RunType, Clock, Sound(r), Honest(r), ~Refused(Advance(r))
  PROVE  Good(r, Advance(r), {})
<1>1. CASE IsEnded(r)
  BY <1>1, MovesNothing DEF Advance, Good
<1>2. CASE ~IsEnded(r) /\ QuotaReset(r)
  <2>1. Advance(r) = ResetQuota(r) BY <1>2 DEF Advance
  <2> DEFINE q == ResetQuota(r)
  <2>2. q \in RunType BY ResetQuotaFits
  <2>3. q.phase = r.phase /\ q.cancel = r.cancel /\ q.effects = r.effects
        /\ q.decision = r.decision /\ q.state = Running
    BY DEF ResetQuota, Supersede, RunType
  <2>4. ~IsEnded(q) BY <2>3 DEF IsEnded, Running, State
  <2> HIDE DEF q
  <2> QED BY <1>2, <2>1, <2>2, <2>3, <2>4, SameTasks, QuietGood DEF q
<1>3. CASE ~IsEnded(r) /\ ~QuotaReset(r) /\ QuotaAskDue(r)
  <2>1. Advance(r) = AskQuota(r) BY <1>3 DEF Advance
  <2> DEFINE q == AskQuota(r)
  <2>2. q \in RunType BY AskQuotaFits
  <2>3. q.phase = r.phase /\ q.cancel = r.cancel /\ q.effects = r.effects
        /\ q.decision = r.decision
        /\ q.state = Parked("quota-ask", "none", AskOpen)
    BY DEF AskQuota, RunType
  <2>4. ~IsEnded(q) BY <2>3 DEF IsEnded, Parked, State
  <2> HIDE DEF q
  <2> QED BY <1>3, <2>1, <2>2, <2>3, <2>4, SameTasks, QuietGood DEF q
<1>4. CASE ~IsEnded(r) /\ ~QuotaReset(r) /\ ~QuotaAskDue(r)
  <2>1. Advance(r) = Expire(r) BY <1>4 DEF Advance
  <2> QED BY <1>4, <2>1, ExpireGood
<1> QED BY <1>1, <1>2, <1>3, <1>4

\* A Run whose park or hold is replaced by another open state keeps its tasks.
LEMMA OpenStateGood ==
  ASSUME NEW r \in RunType, NEW q \in RunType, NEW S, Sound(r), Honest(r), ~IsEnded(r), ~IsEnded(q),
         q.phase = r.phase, q.effects = r.effects, q.decision = r.decision, q.cancel = r.cancel
  PROVE  Good(r, q, S)
  BY SameTasks, QuietGood

\* Superseding attempts touches bindings only.
LEMMA SupersedeFrame ==
  ASSUME NEW r \in RunType, NEW S, NEW as \in ClosedKind, 0 \in Horizon
  PROVE  LET q == Supersede(r, S, as)
         IN /\ q \in RunType /\ q.phase = r.phase /\ q.cancel = r.cancel /\ q.effects = r.effects
            /\ q.decision = r.decision /\ q.state = r.state
<1>1. Supersede(r, S, as) \in RunType BY SupersedeFits
<1>2. LET q == Supersede(r, S, as)
      IN q.phase = r.phase /\ q.cancel = r.cancel /\ q.effects = r.effects
         /\ q.decision = r.decision /\ q.state = r.state
  BY DEF Supersede, RunType
<1> QED BY <1>1, <1>2

\* resumeParkedRun moves a Run legally on every path.
LEMMA ResumeGood ==
  ASSUME NEW r \in RunType, Clock, Sound(r), Honest(r), IsParked(r), ~Refused(ResumeRun(r))
  PROVE  Good(r, ResumeRun(r), {})
<1> DEFINE refused == {t \in Binds(r, "launch-refused") : r.phase[t] = "pending"}
           lifted == [r EXCEPT !.state.hold = "none"]
           again == [r EXCEPT !.state = Running]
           old == Supersede(r, refused, "launch-refused")
           anew == [old EXCEPT !.state = Running]
<1>1. ~IsEnded(r) BY DEF IsParked, IsEnded
<1>2. Running.kind = "running" BY DEF Running, State
<1>3. Good(r, lifted, {})
  <2>1. [r.state EXCEPT !.hold = "none"] \in StateType
        /\ [r.state EXCEPT !.hold = "none"].kind = "parked"
    BY FieldsOf DEF StateType, HoldKind, IsParked
  <2>2. /\ lifted \in RunType /\ lifted.phase = r.phase /\ lifted.cancel = r.cancel
        /\ lifted.effects = r.effects
        /\ lifted.decision = r.decision /\ lifted.state = [r.state EXCEPT !.hold = "none"]
    BY <2>1, SetStateFits DEF RunType
  <2>3. ~IsEnded(lifted) BY <2>1, <2>2 DEF IsEnded
  <2> HIDE DEF lifted
  <2> QED BY <1>1, <2>2, <2>3, OpenStateGood
<1>4. Good(r, Reconcile(again), {})
  <2>1. /\ again \in RunType /\ again.phase = r.phase /\ again.cancel = r.cancel
        /\ again.effects = r.effects
        /\ again.decision = r.decision /\ again.state = Running
    BY SetStateFits, StatesFit DEF RunType
  <2>2. ~IsEnded(again) BY <1>2, <2>1 DEF IsEnded
  <2> HIDE DEF again
  <2> QED BY <1>1, <2>1, <2>2, SameTasks, ReconcileGood
<1>5. Good(r, Reconcile(anew), {})
  <2>1. /\ old \in RunType /\ old.phase = r.phase /\ old.cancel = r.cancel
        /\ old.effects = r.effects
        /\ old.decision = r.decision
    BY SupersedeFrame, DeadlinesFit DEF ClosedKind
  <2> HIDE DEF old
  <2>2. /\ anew \in RunType /\ anew.phase = r.phase /\ anew.cancel = r.cancel
        /\ anew.effects = r.effects
        /\ anew.decision = r.decision /\ anew.state = Running
    BY <2>1, SetStateFits, StatesFit DEF RunType
  <2>3. ~IsEnded(anew) BY <1>2, <2>2 DEF IsEnded
  <2> HIDE DEF anew
  <2> QED BY <1>1, <2>2, <2>3, SameTasks, ReconcileGood
<1>6. ResumeRun(r) = Advance(r) => Good(r, ResumeRun(r), {}) BY AdvanceGood
<1>7. ResumeRun(r) \in {lifted, Reconcile(again), Reconcile(anew), Advance(r)}
  BY Zenon DEF ResumeRun, refused, lifted, again, old, anew
<1> QED BY <1>3, <1>4, <1>5, <1>6, <1>7

----------------------------------------------------------------------------
(* Refusals and probes *)

\* Giving up a probe's custody only frees its slot.
LEMMA WithoutCustodyMoves ==
  ASSUME NEW r \in RunType, NEW t \in Task, NEW S, Sound(r)
  PROVE  LET q == WithoutCustody(r, t)
         IN /\ q \in RunType /\ Sound(q) /\ Moves(r, q, S) /\ q.phase = r.phase
            /\ q.state = r.state /\ q.effects \subseteq r.effects
            /\ r.bind[t].probes => t \notin q.effects
<1> DEFINE q == WithoutCustody(r, t)
<1>1. q \in RunType BY WithoutCustodyFits
<1>2. /\ q.phase = r.phase /\ q.state = r.state /\ q.decision = r.decision /\ q.cancel = r.cancel
      /\ q.effects \subseteq r.effects /\ (r.bind[t].probes => t \notin q.effects)
  BY DEF WithoutCustody, RunType
<1> HIDE DEF q
<1>3. Moves(r, q, S) BY <1>2, MovesNothing
<1>4. Asks(q) /\ EffectsOpen(q)
  BY <1>2 DEF Sound, Asks, EffectsOpen, Awaiting
<1>5. Sound(q) BY <1>1, <1>2, <1>3, <1>4, SoundStep
<1> QED BY <1>1, <1>2, <1>3, <1>5 DEF q

\* A refusal moves its task, which is active and holds no effects: back to
\* pending under an environment park, or to its failure.
LEMMA ClosureGood ==
  ASSUME NEW r \in RunType, NEW t \in Task, NEW refusal, Clock, Sound(r), ~IsEnded(r),
         r.phase[t] = "active", t \notin r.effects
  PROVE  Good(r, Closure(r, t, refusal), {t})
<1> DEFINE effects == IF refusal = "env-uncertain" THEN r.effects \cup {t} ELSE r.effects
           kind == IF refusal = "handoff-refused" THEN refusal ELSE "launch-refused"
           parked == [r EXCEPT !.state = EnvironmentPark(r), !.phase[t] = "pending",
                               !.effects = effects, !.bind[t].kind = "launch-refused"]
           failed == [r EXCEPT !.phase[t] = "failed", !.bind[t].kind = kind]
<1>1. EnvironmentPark(r) \in StateType /\ EnvironmentPark(r).kind # "terminal"
  <2>1. r.state \in StateType /\ r.state.hold \in HoldKind BY FieldsOf DEF StateType
  <2>2. /\ Parked("environment-not-ready", r.state.hold, now + Timeout) \in StateType
        /\ Parked("environment-not-ready", r.state.hold, now + Timeout).kind = "parked"
    BY <2>1, DeadlinesFit, StatesFit, ReasonsFit DEF Parked, State
  <2> QED BY <2>1, <2>2 DEF EnvironmentPark, IsEnded
<1>2. r.phase \in [Task -> Phase] /\ r.effects \in SUBSET Task /\ r.bind \in [Task -> BindType]
  BY FieldsOf
<1>3. effects \in SUBSET Task BY <1>2
<1>4. kind \in ObservedKind /\ "launch-refused" \in ObservedKind BY DEF ObservedKind
<1> HIDE DEF effects, kind
<1>5. /\ [r.phase EXCEPT ![t] = "pending"] \in [Task -> Phase]
      /\ [r.phase EXCEPT ![t] = "failed"] \in [Task -> Phase]
  BY <1>2 DEF Phase
<1>6. /\ [r.bind EXCEPT ![t].kind = "launch-refused"] \in [Task -> BindType]
      /\ [r.bind EXCEPT ![t].kind = kind] \in [Task -> BindType]
  BY <1>2, <1>4 DEF BindType
<1>7. /\ parked \in RunType /\ parked.phase = [r.phase EXCEPT ![t] = "pending"]
      /\ parked.cancel = r.cancel /\ parked.effects = effects /\ parked.decision = r.decision
      /\ parked.state = EnvironmentPark(r)
  BY <1>1, <1>3, <1>5, <1>6 DEF RunType
<1>8. /\ failed \in RunType /\ failed.phase = [r.phase EXCEPT ![t] = "failed"]
      /\ failed.cancel = r.cancel /\ failed.effects = r.effects
      /\ failed.decision = r.decision /\ failed.state = r.state
  BY <1>5, <1>6 DEF RunType
<1>9. Closure(r, t, refusal) \in {Reconcile(parked), Reconcile(failed)}
  BY Zenon DEF Closure, parked, failed, effects, kind
<1> HIDE DEF parked, failed
<1>10. r.decision[t].reason = "none" /\ "active" \in Working
  BY DEF Sound, Asks, Awaiting, PhaseIn, Working
<1>11. \A u \in Task \ {t} : u \in effects <=> u \in r.effects BY DEF effects
<1>12. Sound(parked) /\ Moves(r, parked, {t})
  BY <1>7, <1>10, <1>11, MoveOne DEF Phase
<1>13. Sound(failed) /\ Moves(r, failed, {t})
  BY <1>8, <1>10, MoveOne DEF Phase
<1>14. ~IsEnded(parked) /\ ~IsEnded(failed) BY <1>1, <1>7, <1>8 DEF IsEnded
<1> QED BY <1>7, <1>8, <1>9, <1>12, <1>13, <1>14, ReconcileGood

----------------------------------------------------------------------------
(* The invariant *)

\* A claimed launch has not begun: its task is active, holds no effects and its
\* attempt has no observation; the writer of a refusal has recorded one.
Launches == \A t \in Task :
  /\ attempt[t].launch = "pending" =>
       attempt[t].obs = "none" /\ run.phase[t] = "active" /\ t \notin run.effects
  /\ attempt[t].closing => attempt[t].obs # "none"

Inv == Sound(run) /\ Honest(run) /\ Launches

\* What a step must never undo, and the one transaction that begins tasks.
Final == /\ run.cancel => run'.cancel
         /\ \A t \in Task : run.phase[t] \in Settled => run'.phase[t] = run.phase[t]
         /\ \/ \A t \in Task : run.phase[t] = "pending" => run'.phase[t] \in Dead \cup {"pending"}
            \/ \E S \in SUBSET Task : Reserve(S)
         /\ IsEnded(run) => run'.state = run.state

\* An ended Run has no task in work and no effects.
LEMMA EndedIsIdle ==
  ASSUME NEW r \in RunType, Honest(r), IsEnded(r)
  PROVE  r.effects = {} /\ \A t \in Task : r.phase[t] \in Settled
  BY DEF Honest, Closed, PhaseIn

\* A good step keeps an ended Run honest, for nothing of it changes.
LEMMA HonestyKept ==
  ASSUME NEW r \in RunType, NEW q \in RunType, NEW S, Honest(r), Good(r, q, S) PROVE Honest(q)
<1>1. CASE ~IsEnded(r) BY <1>1 DEF Good
<1>2. CASE IsEnded(r)
  <2>1. \A t \in Task : q.phase[t] = r.phase[t] /\ r.phase[t] \in Settled
    BY <1>2, EndedIsIdle DEF Good, Moves
  <2>2. q.effects = {}
    <3>1. \A t \in Task : q.phase[t] \notin {"active", "reconciling", "pending"}
      BY <2>1, PhaseKinds DEF Working
    <3> QED BY <3>1, FieldsOf DEF Good, Sound, EffectsOpen, PhaseIn
  <2>3. Closed(q) BY <2>1, <2>2 DEF Closed, PhaseIn
  <2>4. Accepted(q) = Accepted(r) BY <2>1 DEF Accepted, PhaseIn
  <2>5. q.state = r.state /\ (r.cancel => q.cancel) BY <1>2 DEF Good, Moves
  <2> QED BY <1>2, <2>3, <2>4, <2>5 DEF Honest, IsEnded
<1> QED BY <1>1, <1>2

\* A good step of the Run keeps the invariant when the attempts follow it: the
\* tasks it moved have no claimed launch, and no launch is claimed by it.
LEMMA GoodKeeps ==
  ASSUME TypeOK, TypeOK', Inv, NEW S, Good(run, run', S),
         \A t \in Task \cap S : attempt'[t].launch # "pending",
         \A t \in Task : attempt'[t].launch = "pending" =>
                           attempt[t].launch = "pending" /\ attempt'[t].obs = attempt[t].obs,
         \A t \in Task : attempt'[t].closing => attempt'[t].obs # "none"
  PROVE  Inv' /\ Final
<1>1. run \in RunType /\ run' \in RunType BY DEF TypeOK
<1>2. Sound(run') /\ Moves(run, run', S) BY DEF Good
<1>3. Honest(run') BY <1>1, HonestyKept DEF Inv
<1>4. ASSUME NEW t \in Task, attempt'[t].launch = "pending"
      PROVE  attempt'[t].obs = "none" /\ run'.phase[t] = "active" /\ t \notin run'.effects
  <2>1. t \notin S /\ attempt[t].launch = "pending" /\ attempt'[t].obs = attempt[t].obs BY <1>4
  <2> QED BY <1>2, <2>1 DEF Inv, Launches, Moves
<1>5. Launches' BY <1>4 DEF Launches
<1> QED BY <1>2, <1>3, <1>5 DEF Inv, Final, Good, Moves

\* The same for a step that leaves the attempts alone and touches no active task.
LEMMA GoodCommits ==
  ASSUME TypeOK, TypeOK', Inv, NEW S, NEW r, Commit(r), Good(run, r, S),
         \A t \in Task \cap S : run.phase[t] # "active"
  PROVE  Inv' /\ Final
<1>1. run' = r /\ attempt' = attempt BY DEF Commit
<1>2. \A t \in Task \cap S : attempt'[t].launch # "pending" BY <1>1 DEF Inv, Launches
<1>3. \A t \in Task : attempt'[t].closing => attempt'[t].obs # "none"
  BY <1>1 DEF Inv, Launches
<1> QED BY <1>1, <1>2, <1>3, GoodKeeps

\* A step of an attempt alone.
LEMMA RunUnmoved == ASSUME Inv PROVE \A S : Good(run, run, S)
  BY MovesNothing DEF Inv, Good

\* A new Run satisfies the invariant.
LEMMA InvInit == Init => Inv
<1> SUFFICES ASSUME Init PROVE Inv OBVIOUS
<1>1. run.phase = [t \in Task |-> "pending"] /\ run.effects = {} /\ run.state = Running
      /\ run.decision = [t \in Task |-> NoDecision]
  BY DEF Init
<1>2. Accepted(run) = {} /\ PhaseIn(run.phase, {"awaiting"}) = {} BY <1>1 DEF Accepted, PhaseIn
<1>3. Awaiting(run) = {} BY <1>1 DEF Awaiting, NoDecision
<1>4. Sound(run)
  BY <1>1, <1>2, <1>3 DEF Sound, Ordered, Asks, EffectsOpen, EffectsReady, Working
<1>5. Honest(run) BY <1>1, <1>2, GraphAssumption DEF Honest, IsEnded, Running, State
<1>6. Launches BY DEF Init, Launches, NoAttempt
<1> QED BY <1>4, <1>5, <1>6 DEF Inv

----------------------------------------------------------------------------
(* The actions *)

\* The clock, the timer of the runtime and its progression park.
LEMMA TimeSafe ==
  ASSUME TypeOK, TypeOK', Inv, Tick \/ AdvanceRun \/ ParkProgression PROVE Inv' /\ Final
<1>1. run \in RunType /\ Clock BY DEF TypeOK, Clock
<1>2. CASE Tick
  BY <1>2 DEF Tick, Inv, Launches, Final
<1>3. CASE AdvanceRun
  <2>1. Commit(Advance(run)) /\ ~Refused(Advance(run)) BY <1>3 DEF AdvanceRun
  <2>2. Good(run, Advance(run), {}) BY <1>1, <2>1, AdvanceGood DEF Inv
  <2> QED BY <2>1, <2>2, GoodCommits
<1>4. CASE ParkProgression
  <2> DEFINE state == Parked("progression-failed", "none", now + Timeout)
             q == [run EXCEPT !.state = state]
  <2>1. state.kind = "parked" BY DEF Parked, State
  <2>2. Commit(q) /\ ~IsEnded(run) BY <1>4 DEF ParkProgression, IsEnded
  <2> HIDE DEF state
  <2>3. q \in RunType BY <1>1, <2>2 DEF Commit, TypeOK
  <2>4. q.phase = run.phase /\ q.cancel = run.cancel /\ q.effects = run.effects
        /\ q.decision = run.decision
        /\ q.state = state
    BY <1>1 DEF RunType
  <2>5. ~IsEnded(q) BY <2>1, <2>4 DEF IsEnded
  <2> HIDE DEF q
  <2>6. Good(run, q, {}) BY <1>1, <2>2, <2>3, <2>4, <2>5, OpenStateGood DEF Inv
  <2> QED BY <2>2, <2>6, GoodCommits
<1> QED BY <1>2, <1>3, <1>4

\* A reservation starts tasks whose dependencies are done, and no other.
LEMMA ReserveSafe ==
  ASSUME TypeOK, TypeOK', Inv, NEW S \in SUBSET Task, Reserve(S) PROVE Inv' /\ Final
<1>1. run \in RunType /\ run' \in RunType BY DEF TypeOK
<1>2. /\ \A t \in Task : run'.phase[t] = IF t \in S THEN "active" ELSE run.phase[t]
      /\ run'.cancel = run.cancel /\ run'.effects = run.effects
      /\ run'.decision = run.decision /\ run'.state = run.state
  BY <1>1 DEF Reserve, SetPhases, RunType
<1>3. \A t \in S : /\ run.phase[t] = "pending" /\ t \notin run.effects
                   /\ OpenDependencies(run.phase, t) = {}
  BY DEF Reserve, Ready, Startable
<1>4. Accepted(run') = Accepted(run) /\ PhaseIn(run'.phase, Settled) = PhaseIn(run.phase, Settled)
  BY <1>2, <1>3 DEF Accepted, PhaseIn, Settled, Dead
<1>5. \A t \in S : Blocking[t] \subseteq Accepted(run)
      /\ Ordering[t] \subseteq PhaseIn(run.phase, Settled)
  BY <1>3 DEF OpenDependencies, Accepted
<1>6. Ordered(run') BY <1>2, <1>4, <1>5 DEF Inv, Sound, Ordered
<1>7. Asks(run')
  <2>1. PhaseIn(run'.phase, {"awaiting"}) = PhaseIn(run.phase, {"awaiting"})
    BY <1>2, <1>3 DEF PhaseIn
  <2>2. Awaiting(run') = Awaiting(run) BY <1>2 DEF Awaiting
  <2> QED BY <2>1, <2>2 DEF Inv, Sound, Asks
<1>8. EffectsOpen(run') BY <1>2, <1>3 DEF Inv, Sound, EffectsOpen, PhaseIn
<1>9. EffectsReady(run') BY <1>2, <1>4 DEF Inv, Sound, EffectsReady
<1>10. Honest(run')
  <2>1. ~IsEnded(run) /\ ~IsEnded(run') BY <1>2 DEF Reserve, IsEnded
  <2> QED BY <1>4, <2>1 DEF Inv, Honest
<1>11. Launches'
  <2>1. \A t \in Task : attempt'[t] = IF t \in S THEN NoAttempt ELSE attempt[t] BY DEF Reserve
  <2>2. ASSUME NEW t \in Task
        PROVE  /\ attempt'[t].launch = "pending" =>
                    attempt'[t].obs = "none" /\ run'.phase[t] = "active" /\ t \notin run'.effects
               /\ attempt'[t].closing => attempt'[t].obs # "none"
    <3>1. CASE t \in S BY <2>1, <3>1 DEF NoAttempt
    <3>2. CASE t \notin S BY <1>2, <2>1, <3>2 DEF Inv, Launches
    <3> QED BY <3>1, <3>2
  <2> QED BY <2>2 DEF Launches
<1>12. Final BY <1>2, <1>3 DEF Final, Settled, Dead
<1> QED BY <1>6, <1>7, <1>8, <1>9, <1>10, <1>11, <1>12 DEF Inv, Sound

\* A Run with a task that is not settled has not ended.
LEMMA OpenWithWork ==
  ASSUME NEW r \in RunType, Honest(r), NEW t \in Task, r.phase[t] \notin Settled PROVE ~IsEnded(r)
  BY EndedIsIdle

\* A task in work that holds no effects may be settled.
LEMMA SettleOne ==
  ASSUME NEW r \in RunType, NEW t \in Task, NEW p \in Settled, Clock, Sound(r),
         r.phase[t] \in Working, t \notin r.effects
  PROVE  LET q == SetPhase(r, t, p)
         IN /\ q \in RunType /\ Sound(q) /\ Moves(r, q, {t}) /\ q.state = r.state
            /\ Good(r, Reconcile(q), {t})
<1> DEFINE q == SetPhase(r, t, p)
<1>1. p \in Phase /\ p # "awaiting" BY PhaseKinds
<1>2. /\ q \in RunType /\ q.phase = [r.phase EXCEPT ![t] = p] /\ q.cancel = r.cancel
      /\ q.effects = r.effects
      /\ q.decision = r.decision /\ q.state = r.state
  BY <1>1, SetPhaseFits DEF SetPhase, RunType
<1> HIDE DEF q
<1>3. r.decision[t].reason = "none"
  BY PhaseKinds DEF Sound, Asks, Awaiting, PhaseIn
<1>4. Sound(q) /\ Moves(r, q, {t}) BY <1>1, <1>2, <1>3, MoveOne
<1>5. Good(r, Reconcile(q), {t}) BY <1>2, <1>4, ReconcileGood DEF IsEnded
<1> QED BY <1>2, <1>4, <1>5 DEF q

\* The writers of environment probes and refusals.
LEMMA ProbeSafe ==
  ASSUME TypeOK, TypeOK', Inv, NEW t \in Task,
         HoldProbes(t) \/ EndProbes(t) \/ SettleProbe(t) \/ ProjectClosure(t)
  PROVE  Inv' /\ Final
<1>1. /\ run \in RunType /\ run' \in RunType /\ Clock
      /\ run.phase \in [Task -> Phase] /\ run.effects \in SUBSET Task
  BY FieldsOf DEF TypeOK, Clock
<1>2. "active" \in Working /\ "active" \notin Settled /\ "pending" \notin Settled
  BY DEF Working, Settled, Dead
<1>3. CASE HoldProbes(t)
  <2> DEFINE q == [run EXCEPT !.effects = run.effects \cup {t}, !.bind[t].probes = TRUE]
  <2>1. Commit(q) /\ run.phase[t] = "active" /\ attempt[t].launch = "none"
    BY <1>3 DEF HoldProbes, Unlaunched, Unobserved
  <2>2. /\ q.phase = run.phase /\ q.cancel = run.cancel /\ q.effects = run.effects \cup {t}
        /\ q.decision = run.decision
        /\ q.state = run.state
    BY <1>1 DEF RunType
  <2> HIDE DEF q
  <2>3. q \in RunType BY <1>1, <2>1 DEF Commit
  <2>4. ~IsEnded(run) BY <1>1, <1>2, <2>1, OpenWithWork DEF Inv
  <2>5. Moves(run, q, {t}) BY <2>2 DEF Moves
  <2>6. Asks(q) BY <2>2 DEF Inv, Sound, Asks, Awaiting
  <2>7. EffectsOpen(q) BY <1>1, <2>1, <2>2 DEF Inv, Sound, EffectsOpen, PhaseIn
  <2>8. Blocking[t] \subseteq Accepted(run) BY <1>2, <2>1 DEF Inv, Sound, Ordered
  <2>9. Sound(q) BY <1>1, <2>2, <2>3, <2>5, <2>6, <2>7, <2>8, SoundStep DEF Inv
  <2>10. Good(run, q, {t})
    BY <1>1, <2>2, <2>3, <2>4, <2>5, <2>9, QuietGood DEF Inv, IsEnded, Accepted
  <2>11. attempt' = attempt /\ run' = q BY <2>1 DEF Commit
  <2>12. \A u \in Task \cap {t} : attempt'[u].launch # "pending" BY <2>1, <2>11
  <2>13. \A u \in Task : attempt'[u].closing => attempt'[u].obs # "none"
    BY <2>11 DEF Inv, Launches
  <2> QED BY <2>10, <2>11, <2>12, <2>13, GoodKeeps
<1>4. CASE EndProbes(t)
  <2> DEFINE clear == WithoutCustody(run, t)
  <2>1. /\ run.bind[t].probes /\ run.phase[t] = "active" /\ t \in run.effects
        /\ \/ run' = Closure(clear, t, attempt[t].obs)
           \/ run' = Reconcile(clear) \/ run' = Reconcile(SetPhase(clear, t, "cancelled"))
    BY <1>4 DEF EndProbes
  <2>2. /\ clear \in RunType /\ Sound(clear) /\ Moves(run, clear, {t})
        /\ clear.phase = run.phase /\ clear.state = run.state /\ t \notin clear.effects
    BY <1>1, <2>1, WithoutCustodyMoves DEF Inv
  <2> HIDE DEF clear
  <2>3. ~IsEnded(run) /\ ~IsEnded(clear)
    BY <1>1, <1>2, <2>1, <2>2, OpenWithWork DEF Inv, IsEnded
  <2>4. Good(clear, Closure(clear, t, attempt[t].obs), {t})
    BY <1>1, <2>1, <2>2, <2>3, ClosureGood
  <2>5. Good(clear, Reconcile(clear), {t})
    BY <1>1, <2>2, <2>3, MovesNothing, ReconcileGood
  <2>6. Good(clear, Reconcile(SetPhase(clear, t, "cancelled")), {t})
    BY <1>1, <1>2, <2>1, <2>2, SettleOne DEF Settled, Dead
  <2>7. Good(run, run', {t}) BY <2>1, <2>2, <2>4, <2>5, <2>6, GoodAfter
  <2>8. attempt[t].launch # "pending" BY <2>1 DEF Inv, Launches
  <2>9. \A u \in Task : /\ attempt'[u].launch = attempt[u].launch /\ attempt'[u].obs = attempt[u].obs
                        /\ attempt'[u].closing => attempt[u].closing
    BY <1>4 DEF EndProbes, TypeOK, AttemptType
  <2>10. \A u \in Task : attempt'[u].closing => attempt'[u].obs # "none"
    BY <2>9 DEF Inv, Launches
  <2> QED BY <2>7, <2>8, <2>9, <2>10, GoodKeeps
<1>5. CASE SettleProbe(t)
  <2> DEFINE p == IF run.cancel THEN "cancelled" ELSE "pending"
             q == [run EXCEPT !.effects = run.effects \ {t},
                              !.phase[t] = IF run.cancel THEN "cancelled" ELSE run.phase[t]]
  <2>1. Commit(Reconcile(q)) /\ run.phase[t] = "pending" BY <1>5 DEF SettleProbe
  <2>2. /\ [run.phase EXCEPT ![t] = p] \in [Task -> Phase]
        /\ run.effects \ {t} \in SUBSET Task
    BY <1>1 DEF Phase
  <2>3. /\ q \in RunType /\ q.phase = [run.phase EXCEPT ![t] = p]
        /\ q.cancel = run.cancel /\ q.effects = run.effects \ {t}
        /\ q.decision = run.decision /\ q.state = run.state
    BY <1>1, <2>1, <2>2 DEF RunType
  <2>4. p \in Dead \cup {"pending"} /\ p \in Phase /\ p # "awaiting" BY DEF Dead, Phase
  <2> HIDE DEF q, p
  <2>5. run.decision[t].reason = "none" BY <2>1 DEF Inv, Sound, Asks, Awaiting, PhaseIn
  <2>6. Sound(q) /\ Moves(run, q, {t})
    BY <1>1, <2>1, <2>3, <2>4, <2>5, MoveOne DEF Inv
  <2>7. Good(run, Reconcile(q), {t}) BY <1>1, <2>3, <2>6, ReconcileGood DEF IsEnded
  <2> QED BY <2>1, <2>7, GoodCommits
<1>6. CASE ProjectClosure(t)
  <2> DEFINE r == Answered(run, t)
  <2>1. /\ attempt[t].closing /\ ~IsEnded(run) /\ CanClose(r, t)
        /\ run' = Closure(r, t, attempt[t].obs)
    BY <1>6 DEF ProjectClosure
  <2>2. r \in RunType /\ Sound(r) /\ Moves(run, r, {t}) /\ r.state = run.state
    BY <1>1, WithoutCustodyMoves, MovesNothing DEF Answered, Inv
  <2>3. r.phase[t] = "active" /\ t \notin r.effects /\ ~IsEnded(r)
    BY <2>1, <2>2 DEF CanClose, IsEnded
  <2> HIDE DEF r
  <2>4. Good(r, Closure(r, t, attempt[t].obs), {t}) BY <1>1, <2>2, <2>3, ClosureGood
  <2>5. Good(run, run', {t}) BY <2>1, <2>2, <2>4, GoodAfter
  <2>6. attempt[t].launch # "pending" BY <2>1 DEF Inv, Launches
  <2>7. \A u \in Task : /\ attempt'[u].launch = attempt[u].launch /\ attempt'[u].obs = attempt[u].obs
                        /\ attempt'[u].closing => attempt[u].closing
    BY <1>6 DEF ProjectClosure, TypeOK, AttemptType
  <2>8. \A u \in Task : attempt'[u].closing => attempt'[u].obs # "none"
    BY <2>7 DEF Inv, Launches
  <2> QED BY <2>5, <2>6, <2>7, <2>8, GoodKeeps
<1> QED BY <1>3, <1>4, <1>5, <1>6

\* Steps of an attempt that leave the Run alone.
LEMMA AttemptSafe ==
  ASSUME TypeOK, TypeOK', Inv, NEW t \in Task,
         \/ \E refusal \in Refusals : RefuseLaunch(t, refusal)
         \/ CloserStops(t) \/ Claim(t) \/ CancelAttempt(t)
  PROVE  Inv' /\ Final
<1>1. Sound(run) /\ Honest(run) /\ Launches BY DEF Inv
<1>2. run' = run /\ \A u \in Task \ {t} : attempt'[u] = attempt[u]
  BY DEF RefuseLaunch, CloserStops, Claim, CancelAttempt, TypeOK
<1>3. attempt \in [Task -> AttemptType] /\ attempt[t] \in AttemptType BY DEF TypeOK
<1>4. /\ attempt'[t].launch = "pending" =>
           attempt'[t].obs = "none" /\ run.phase[t] = "active" /\ t \notin run.effects
      /\ attempt'[t].closing => attempt'[t].obs # "none"
  <2>1. ASSUME NEW refusal \in Refusals, RefuseLaunch(t, refusal)
        PROVE  /\ attempt'[t].launch = "none" /\ attempt'[t].obs # "none"
    <3>1. refusal # "none" BY Bounds DEF RefusalKind
    <3> QED BY <1>3, <2>1, <3>1 DEF RefuseLaunch, Unobserved, AttemptType
  <2>2. CASE CloserStops(t)
    <3>1. ~attempt'[t].closing /\ attempt'[t].launch = attempt[t].launch
          /\ attempt'[t].obs = attempt[t].obs
      BY <1>3, <2>2 DEF CloserStops, AttemptType
    <3> QED BY <1>1, <3>1 DEF Launches
  <2>3. CASE Claim(t)
    <3>1. /\ attempt'[t].obs = "none" /\ run.phase[t] = "active" /\ t \notin run.effects
          /\ attempt'[t].closing = attempt[t].closing /\ attempt[t].obs = "none"
      BY <1>3, <2>3 DEF Claim, Unlaunched, Unobserved, AttemptType
    <3> QED BY <1>1, <3>1 DEF Launches
  <2>4. CASE CancelAttempt(t)
    <3>1. /\ attempt'[t].closing = attempt[t].closing /\ attempt'[t].launch = attempt[t].launch
          /\ attempt'[t].obs = attempt[t].obs
      BY <1>3, <2>4 DEF CancelAttempt, AttemptType
    <3> QED BY <1>1, <3>1 DEF Launches
  <2> QED BY <2>1, <2>2, <2>3, <2>4
<1>5. Launches' BY <1>1, <1>2, <1>4 DEF Launches
<1> QED BY <1>1, <1>2, <1>5 DEF Inv, Final

\* What is observed of a worker moves its task on, and holds its slot while
\* nobody can say what became of it.
LEMMA ProjectMoves ==
  ASSUME NEW r \in RunType, NEW t \in Task, NEW kind \in {"exited", "unknown"}, Sound(r),
         r.phase[t] \in Working
  PROVE  LET q == Project(r, t, kind)
         IN /\ q \in RunType /\ Sound(q) /\ Moves(r, q, {t}) /\ q.state = r.state
            /\ Accepted(q) \subseteq Accepted(r)
            /\ q.phase[t] = "evaluating" => t \notin q.effects
<1> DEFINE q == Project(r, t, kind)
           p == IF kind = "exited" /\ t \notin r.effects THEN "evaluating" ELSE "reconciling"
           effects == IF kind = "unknown" THEN r.effects \cup {t} ELSE r.effects
<1>1. q \in RunType BY ProjectFits
<1>2. p \in Phase /\ p # "awaiting" /\ p # "accepted" /\ (t \in effects => p = "reconciling")
  BY DEF Phase
<1>3. \A u \in Task \ {t} : u \in effects <=> u \in r.effects OBVIOUS
<1>4. /\ q.phase = [r.phase EXCEPT ![t] = p] /\ q.cancel = r.cancel /\ q.effects = effects
      /\ q.decision = r.decision /\ q.state = r.state
  BY DEF Project, RunType
<1> HIDE DEF q, p, effects
<1>5. r.decision[t].reason = "none"
  BY PhaseKinds DEF Sound, Asks, Awaiting, PhaseIn
<1>6. Sound(q) /\ Moves(r, q, {t}) BY <1>1, <1>2, <1>3, <1>4, <1>5, MoveOne
<1>7. Accepted(q) \subseteq Accepted(r) BY <1>2, <1>4, FieldsOf DEF Accepted, PhaseIn
<1>8. q.phase[t] = "evaluating" => t \notin q.effects BY <1>2, <1>4, FieldsOf
<1> QED BY <1>1, <1>4, <1>6, <1>7, <1>8 DEF q

\* A launch, its end, its loss and its continuation.
LEMMA LaunchSafe ==
  ASSUME TypeOK, TypeOK', Inv, NEW t \in Task,
         GrantLaunch(t) \/ Exit(t) \/ Lose(t) \/ ReleaseCustody(t) \/ ContinueLost(t)
  PROVE  Inv' /\ Final
<1>1. /\ run \in RunType /\ run' \in RunType /\ Clock
      /\ run.phase \in [Task -> Phase] /\ run.effects \in SUBSET Task
      /\ attempt \in [Task -> AttemptType] /\ attempt[t] \in AttemptType
  BY FieldsOf DEF TypeOK, Clock
<1>2. Sound(run) /\ Honest(run) /\ Launches BY DEF Inv
<1>3. CASE GrantLaunch(t)
  <2>1. /\ attempt[t].launch = "pending" /\ attempt[t].obs = "none"
        /\ run' = run \/ run' = Reconcile(SetPhase(run, t, "cancelled"))
    BY <1>3 DEF GrantLaunch
  <2>2. run.phase[t] \in Working /\ t \notin run.effects BY <1>2, <2>1 DEF Launches, Working
  <2>3. Good(run, run', {t})
    BY <1>1, <1>2, <2>1, <2>2, RunUnmoved, SettleOne DEF Settled, Dead
  <2>4. /\ attempt'[t].launch # "pending" /\ attempt'[t].closing = attempt[t].closing
        /\ attempt'[t].obs = attempt[t].obs
        /\ \A u \in Task \ {t} : attempt'[u] = attempt[u]
    BY <1>1, <1>3 DEF GrantLaunch, AttemptType
  <2> QED BY <1>2, <2>3, <2>4, GoodKeeps DEF Launches
<1>4. CASE Exit(t)
  <2> DEFINE seen == Project(run, t, "exited")
  <2>1. /\ run.phase[t] \in Working /\ attempt[t].launch = "granted"
        /\ \/ run' = seen
           \/ seen.phase[t] = "evaluating" /\ run' = Reconcile(SetPhase(seen, t, "cancelled"))
    BY <1>4 DEF Exit
  <2>2. ~IsEnded(run) BY <1>1, <1>2, <2>1, PhaseKinds, OpenWithWork
  <2>3. /\ seen \in RunType /\ Sound(seen) /\ Moves(run, seen, {t}) /\ seen.state = run.state
        /\ Accepted(seen) \subseteq Accepted(run)
        /\ seen.phase[t] = "evaluating" => t \notin seen.effects
    BY <1>1, <1>2, <2>1, ProjectMoves
  <2> HIDE DEF seen
  <2>4. Good(run, seen, {t}) BY <1>1, <1>2, <2>2, <2>3, QuietGood DEF IsEnded
  <2>5. seen.phase[t] = "evaluating" => Good(seen, Reconcile(SetPhase(seen, t, "cancelled")), {t})
    BY <1>1, <2>3, SettleOne DEF Settled, Dead, Working
  <2>6. Good(run, run', {t}) BY <2>1, <2>3, <2>4, <2>5, GoodAfter
  <2>7. /\ attempt'[t].launch = "granted" /\ attempt'[t].obs = "exited"
        /\ \A u \in Task \ {t} : attempt'[u] = attempt[u]
    BY <1>1, <1>4 DEF Exit, AttemptType
  <2> QED BY <1>2, <2>6, <2>7, GoodKeeps DEF Launches
<1>5. CASE Lose(t)
  <2> DEFINE seen == Project(run, t, "unknown")
  <2>1. run.phase[t] \in Working /\ run' = seen BY <1>5 DEF Lose, Working
  <2>2. ~IsEnded(run) BY <1>1, <1>2, <2>1, PhaseKinds, OpenWithWork
  <2>3. /\ seen \in RunType /\ Sound(seen) /\ Moves(run, seen, {t}) /\ seen.state = run.state
        /\ Accepted(seen) \subseteq Accepted(run)
    BY <1>1, <1>2, <2>1, ProjectMoves
  <2> HIDE DEF seen
  <2>4. Good(run, seen, {t}) BY <1>1, <1>2, <2>2, <2>3, QuietGood DEF IsEnded
  <2>5. /\ attempt'[t].launch = "granted" /\ attempt'[t].obs = "unknown"
        /\ \A u \in Task \ {t} : attempt'[u] = attempt[u]
    BY <1>1, <1>5 DEF Lose, AttemptType
  <2> QED BY <1>2, <2>1, <2>4, <2>5, GoodKeeps DEF Launches
<1>6. CASE ReleaseCustody(t)
  <2> DEFINE q == [run EXCEPT !.freed = run.freed \cup {t}]
  <2>1. Commit(q) /\ run.phase[t] \notin Settled BY <1>6 DEF ReleaseCustody, Settled, Dead
  <2>2. /\ q.phase = run.phase /\ q.cancel = run.cancel /\ q.effects = run.effects
        /\ q.decision = run.decision
        /\ q.state = run.state
    BY <1>1 DEF RunType
  <2> HIDE DEF q
  <2>3. q \in RunType BY <1>1, <2>1 DEF Commit
  <2>4. ~IsEnded(run) /\ ~IsEnded(q) BY <1>1, <1>2, <2>1, <2>2, OpenWithWork DEF IsEnded
  <2>5. Good(run, q, {}) BY <1>1, <1>2, <2>2, <2>3, <2>4, OpenStateGood
  <2> QED BY <2>1, <2>5, GoodCommits
<1>7. CASE ContinueLost(t)
  <2> DEFINE old == Supersede(run, {t}, "lost")
             q == [old EXCEPT !.phase[t] = "pending", !.effects = old.effects \ {t},
                              !.freed = old.freed \ {t}, !.notBefore[t] = 0]
  <2>1. Commit(Reconcile(q)) /\ run.phase[t] = "reconciling" /\ ~IsEnded(run)
    BY <1>7 DEF ContinueLost
  <2>2. /\ old \in RunType /\ old.phase = run.phase /\ old.cancel = run.cancel
        /\ old.effects = run.effects
        /\ old.decision = run.decision /\ old.state = run.state
    BY <1>1, SupersedeFrame, DeadlinesFit DEF ClosedKind
  <2> HIDE DEF old
  <2>3. [old.phase EXCEPT ![t] = "pending"] \in [Task -> Phase]
        /\ [old.notBefore EXCEPT ![t] = 0] \in [Task -> Nat]
        /\ old.effects \ {t} \in SUBSET Task /\ old.freed \ {t} \in SUBSET Task
    BY <2>2, FieldsOf DEF Phase
  <2>4. /\ q \in RunType /\ q.phase = [run.phase EXCEPT ![t] = "pending"]
        /\ q.cancel = run.cancel /\ q.effects = run.effects \ {t}
        /\ q.decision = run.decision /\ q.state = run.state
    BY <2>2, <2>3 DEF RunType
  <2> HIDE DEF q
  <2>5. run.decision[t].reason = "none" BY <1>2, <2>1 DEF Sound, Asks, Awaiting, PhaseIn
  <2>6. Sound(q) /\ Moves(run, q, {t})
    BY <1>1, <1>2, <2>1, <2>4, <2>5, MoveOne DEF Phase, Working
  <2>7. Good(run, Reconcile(q), {t}) BY <1>1, <2>4, <2>6, ReconcileGood DEF IsEnded
  <2> QED BY <2>1, <2>7, GoodCommits
<1> QED BY <1>3, <1>4, <1>5, <1>6, <1>7

----------------------------------------------------------------------------
(* Evaluations and people *)

\* A verdict settles its task and closes its question.
LEMMA JudgeOne ==
  ASSUME NEW r \in RunType, NEW t \in Task, NEW p \in Settled, Clock, Sound(r),
         r.phase[t] \in Working \cup {"awaiting"}, t \notin r.effects
  PROVE  Good(r, Reconcile(ClearDecisions(SetPhase(r, t, p), {t})), {t})
<1> DEFINE moved == SetPhase(r, t, p)
           q == ClearDecisions(moved, {t})
<1>1. p \in Phase /\ p # "awaiting" BY PhaseKinds
<1>2. moved \in RunType /\ q \in RunType
  BY <1>1, SetPhaseFits, ClearDecisionsFits, DeadlinesFit
<1>3. /\ q.phase = [r.phase EXCEPT ![t] = p] /\ q.cancel = r.cancel /\ q.effects = r.effects
      /\ q.state = r.state
      /\ \A u \in Task : q.decision[u] = IF u = t THEN NoDecision ELSE r.decision[u]
  BY DEF ClearDecisions, SetPhase, RunType
<1> HIDE DEF q
<1>4. q.decision[t].reason = "none" BY <1>3 DEF NoDecision
<1>5. \A u \in Task \ {t} : q.decision[u].reason = r.decision[u].reason BY <1>3
<1>6. Sound(q) /\ Moves(r, q, {t}) BY <1>1, <1>2, <1>3, <1>4, <1>5, MoveOne
<1> QED BY <1>2, <1>3, <1>6, ReconcileGood DEF IsEnded, q

\* An evaluation that cannot be told leaves its task with a question to a person.
LEMMA WaitGood ==
  ASSUME NEW r \in RunType, NEW t \in Task, NEW reason \in {"unknown", "not-ready", "needs-input"},
         Clock, Sound(r), r.phase[t] \in Working \cup {"awaiting"}, t \notin r.effects
  PROVE  Good(r, Reconcile(Wait(r, t, reason)), {t})
<1> DEFINE q == Wait(r, t, reason)
<1>1. q \in RunType BY WaitFits
<1>2. /\ q.phase = [r.phase EXCEPT ![t] = "awaiting"] /\ q.cancel = r.cancel
      /\ q.effects = r.effects /\ q.state = r.state
      /\ q.decision[t].reason = reason
      /\ \A u \in Task \ {t} : q.decision[u] = r.decision[u]
  BY DEF Wait, RunType
<1> HIDE DEF q
<1>3. Sound(q) /\ Moves(r, q, {t}) BY <1>1, <1>2, MoveOne DEF Phase
<1> QED BY <1>1, <1>2, <1>3, ReconcileGood DEF IsEnded, q

\* A spent quota offers its task again and parks the Run.
LEMMA ParkQuotaGood ==
  ASSUME NEW r \in RunType, NEW t \in Task, NEW wait \in WaitType, Clock, Sound(r), Honest(r),
         ~IsEnded(r), r.phase[t] \in Working
  PROVE  Good(r, ParkQuota(r, t, wait), {t})
<1> DEFINE q == ParkQuota(r, t, wait)
<1>1. q \in RunType BY ParkQuotaFits
<1>2. /\ q.phase = [r.phase EXCEPT ![t] = "pending"] /\ q.cancel = r.cancel
      /\ q.effects = r.effects
      /\ q.decision = r.decision
  BY DEF ParkQuota, RunType
<1>3. q.state.kind # "terminal"
  <2>1. \A why, hold, deadline : Parked(why, hold, deadline).kind = "parked" BY DEF Parked, State
  <2>2. q.state = r.state \/ \E why, hold, deadline : q.state = Parked(why, hold, deadline)
    <3> DEFINE prior == IF ParkedFor(r, {"quota-exhausted"}) THEN r.state.deadline ELSE 0
               state == IF ParkedFor(r, {"operator-hold"}) THEN r.state
                   ELSE IF wait.beyond \/ ParkedFor(r, {"quota-ask"})
                     THEN Parked("quota-ask", r.state.hold, AskOpen)
                   ELSE Parked("quota-exhausted", r.state.hold, Latest({wait.deadline, prior}))
    <3>1. q.state = state BY DEF ParkQuota, RunType
    <3>2. state \in {r.state, Parked("quota-ask", r.state.hold, AskOpen),
                     Parked("quota-exhausted", r.state.hold, Latest({wait.deadline, prior}))}
      OBVIOUS
    <3> HIDE DEF q, state, prior
    <3> QED BY <3>1, <3>2
  <2> HIDE DEF q
  <2> QED BY <2>1, <2>2 DEF IsEnded
<1> HIDE DEF q
<1>4. r.decision[t].reason = "none" BY PhaseKinds DEF Sound, Asks, Awaiting, PhaseIn
<1>5. Sound(q) /\ Moves(r, q, {t}) BY <1>1, <1>2, <1>4, MoveOne DEF Phase
<1>6. Accepted(q) \subseteq Accepted(r) BY <1>2, FieldsOf DEF Accepted, PhaseIn
<1> QED BY <1>1, <1>3, <1>5, <1>6, QuietGood DEF IsEnded, q

\* Evaluations of an exited attempt, whatever they conclude.
LEMMA EvaluationSafe ==
  ASSUME TypeOK, TypeOK', Inv, NEW t \in Task,
         \/ \E conclusion \in Conclusions : Evaluate(t, conclusion)
         \/ \E reset \in Resets : EvaluateQuota(t, reset)
         \/ EvaluateStall(t) \/ ParkTask(t)
  PROVE  Inv' /\ Final
<1>1. /\ run \in RunType /\ run' \in RunType /\ Clock
      /\ run.phase \in [Task -> Phase]
      /\ attempt \in [Task -> AttemptType] /\ attempt[t] \in AttemptType
  BY FieldsOf DEF TypeOK, Clock
<1>2. Sound(run) /\ Honest(run) /\ Launches BY DEF Inv
<1>3. /\ {"accepted", "failed"} \subseteq Settled /\ "evaluating" \in Working
      /\ "active" # "evaluating"
      /\ "active" # "awaiting"
  BY DEF Settled, Dead, Working
<1>4. Evaluable(t) => /\ ~IsEnded(run) /\ t \notin run.effects
                      /\ run.phase[t] \in {"evaluating", "awaiting"}
  BY DEF Evaluable
<1>5. ASSUME NEW conclusion \in Conclusions, Evaluate(t, conclusion) PROVE Inv' /\ Final
  <2> DEFINE known(phase) == ClearDecisions(SetPhase(run, t, phase), {t})
  <2>1. Evaluable(t) BY <1>5 DEF Evaluate
  <2>2. run.phase[t] \in Working \cup {"awaiting"} /\ run.phase[t] # "active"
        /\ t \notin run.effects
    BY <1>3, <1>4, <2>1
  <2>3. \/ Commit(Reconcile(known("accepted"))) \/ Commit(Reconcile(known("failed")))
        \/ Commit(Reconcile(Wait(run, t, "unknown"))) \/ Commit(Reconcile(Wait(run, t, "needs-input")))
    BY <1>5 DEF Evaluate
  <2>4. /\ Good(run, Reconcile(known("accepted")), {t})
        /\ Good(run, Reconcile(known("failed")), {t})
    BY <1>1, <1>2, <1>3, <2>2, JudgeOne
  <2>5. /\ Good(run, Reconcile(Wait(run, t, "unknown")), {t})
        /\ Good(run, Reconcile(Wait(run, t, "needs-input")), {t})
    BY <1>1, <1>2, <2>2, WaitGood
  <2>6. PICK r : Commit(r) /\ Good(run, r, {t}) BY <2>3, <2>4, <2>5
  <2> QED BY <2>2, <2>6, GoodCommits
<1>6. ASSUME NEW reset \in Resets, EvaluateQuota(t, reset) PROVE Inv' /\ Final
  <2> DEFINE ahead == reset > now
             beyond == ahead /\ reset - now > MaxWait
             wait == [NoWait EXCEPT !.reset = IF ahead THEN reset ELSE 0, !.beyond = beyond,
                        !.deadline = IF ahead /\ ~beyond THEN reset ELSE now + MaxWait]
  <2>1. NoWait \in WaitType BY <1>1, DeadlinesFit, UnboundFits
  <2>2. wait \in WaitType BY <1>1, <2>1, DeadlinesFit DEF WaitType
  <2>3. run' = ParkQuota(run, t, wait) BY <1>6 DEF EvaluateQuota
  <2> HIDE DEF wait
  <2>4. run.phase[t] = "evaluating" /\ ~IsEnded(run) BY <1>4, <1>6 DEF EvaluateQuota
  <2>5. Good(run, run', {t}) BY <1>1, <1>2, <1>3, <2>2, <2>3, <2>4, ParkQuotaGood
  <2>6. /\ attempt'[t].launch = attempt[t].launch /\ attempt'[t].obs = "quota-exhausted"
        /\ \A u \in Task \ {t} : attempt'[u] = attempt[u]
    BY <1>1, <1>6 DEF EvaluateQuota, AttemptType
  <2>7. attempt[t].launch # "pending" BY <1>2, <2>4 DEF Launches
  <2> QED BY <1>2, <2>5, <2>6, <2>7, GoodKeeps DEF Launches
<1>7. CASE EvaluateStall(t)
  <2> DEFINE time == IF Backoff > 0 THEN now + Backoff ELSE 0
             old == Supersede(run, {t}, "stalled")
             again == [old EXCEPT !.phase[t] = "pending", !.notBefore[t] = time]
  <2>1. /\ run.phase[t] = "evaluating" /\ t \notin run.effects /\ ~IsEnded(run)
        /\ Commit(Reconcile(again)) \/ Commit(Reconcile(SetPhase(run, t, "failed")))
    BY <1>4, <1>7 DEF EvaluateStall
  <2>2. time \in Nat BY <1>1, Bounds DEF Clock
  <2> HIDE DEF time
  <2>3. /\ old \in RunType /\ old.phase = run.phase /\ old.cancel = run.cancel
        /\ old.effects = run.effects
        /\ old.decision = run.decision /\ old.state = run.state
    BY <1>1, SupersedeFrame, DeadlinesFit DEF ClosedKind
  <2> HIDE DEF old
  <2>4. [old.phase EXCEPT ![t] = "pending"] \in [Task -> Phase]
        /\ [old.notBefore EXCEPT ![t] = time] \in [Task -> Nat]
    BY <2>2, <2>3, FieldsOf DEF Phase
  <2>5. /\ again \in RunType /\ again.phase = [run.phase EXCEPT ![t] = "pending"]
        /\ again.cancel = run.cancel /\ again.effects = run.effects
        /\ again.decision = run.decision /\ again.state = run.state
    BY <2>3, <2>4 DEF RunType
  <2> HIDE DEF again
  <2>6. run.decision[t].reason = "none" BY <1>2, <2>1 DEF Sound, Asks, Awaiting, PhaseIn
  <2>7. Sound(again) /\ Moves(run, again, {t})
    BY <1>1, <1>2, <1>3, <2>1, <2>5, <2>6, MoveOne DEF Phase
  <2>8. Good(run, Reconcile(again), {t}) BY <1>1, <2>5, <2>7, ReconcileGood DEF IsEnded
  <2>9. Good(run, Reconcile(SetPhase(run, t, "failed")), {t})
    BY <1>1, <1>2, <1>3, <2>1, SettleOne
  <2>10. PICK r : Commit(r) /\ Good(run, r, {t}) BY <2>1, <2>8, <2>9
  <2> QED BY <2>1, <2>10, GoodCommits
<1>8. CASE ParkTask(t)
  <2>1. /\ run.phase[t] = "evaluating" /\ t \notin run.effects
        /\ Commit(Reconcile(Wait(run, t, "not-ready")))
    BY <1>8 DEF ParkTask
  <2>2. Good(run, Reconcile(Wait(run, t, "not-ready")), {t})
    BY <1>1, <1>2, <1>3, <2>1, WaitGood
  <2> QED BY <2>1, <2>2, GoodCommits
<1> QED BY <1>5, <1>6, <1>7, <1>8

\* A person's verdict or answer.
LEMMA PersonSafe ==
  ASSUME TypeOK, TypeOK', Inv, NEW t \in Task,
         (\E verdict \in {"accepted", "failed"} : Resolve(t, verdict)) \/ Answer(t)
  PROVE  Inv' /\ Final
<1>1. run \in RunType /\ Clock /\ run.phase \in [Task -> Phase] BY FieldsOf DEF TypeOK, Clock
<1>2. Sound(run) /\ Honest(run) BY DEF Inv
<1>3. ASSUME NEW verdict \in {"accepted", "failed"}, Resolve(t, verdict) PROVE Inv' /\ Final
  <2>1. /\ run.phase[t] = "awaiting" /\ t \notin run.effects
        /\ Commit(Reconcile(ClearDecisions(SetPhase(run, t, verdict), {t})))
    BY <1>3 DEF Resolve, Open
  <2>2. Good(run, Reconcile(ClearDecisions(SetPhase(run, t, verdict), {t})), {t})
    BY <1>1, <1>2, <2>1, JudgeOne DEF Settled, Dead
  <2> QED BY <2>1, <2>2, GoodCommits
<1>4. CASE Answer(t)
  <2> DEFINE gone == Supersede(run, {t}, "exited")
             old == ClearDecisions(gone, {t})
             state == IF ParkedFor(run, {"operator-hold"}) THEN run.state ELSE Released(run)
             q == [old EXCEPT !.phase[t] = "pending", !.notBefore[t] = 0, !.state = state]
  <2>1. /\ run.phase[t] = "awaiting" /\ t \notin run.effects /\ ~IsEnded(run)
        /\ Commit(Reconcile(q))
    BY <1>4 DEF Answer, Open
  <2>2. state \in StateType BY <1>1, ReleasedFits, FieldsOf
  <2>3. state.kind # "terminal"
    BY <2>1 DEF IsEnded, Released, Held, Parked, Running, State
  <2> HIDE DEF state
  <2>4. /\ gone \in RunType /\ gone.phase = run.phase /\ gone.cancel = run.cancel
        /\ gone.effects = run.effects
        /\ gone.decision = run.decision
    BY <1>1, SupersedeFrame, DeadlinesFit DEF ClosedKind
  <2> HIDE DEF gone
  <2>5. old \in RunType BY <1>1, <2>4, ClearDecisionsFits, DeadlinesFit
  <2>6. /\ old.phase = run.phase /\ old.cancel = run.cancel /\ old.effects = run.effects
        /\ \A u \in Task : old.decision[u] = IF u = t THEN NoDecision ELSE run.decision[u]
    BY <2>4 DEF ClearDecisions, RunType
  <2> HIDE DEF old
  <2>7. [old.phase EXCEPT ![t] = "pending"] \in [Task -> Phase]
        /\ [old.notBefore EXCEPT ![t] = 0] \in [Task -> Nat]
    BY <2>5, FieldsOf DEF Phase
  <2>8. /\ q \in RunType /\ q.phase = [run.phase EXCEPT ![t] = "pending"]
        /\ q.cancel = run.cancel /\ q.effects = run.effects /\ q.decision = old.decision
        /\ q.state = state
    BY <2>2, <2>5, <2>6, <2>7 DEF RunType
  <2> HIDE DEF q
  <2>9. q.decision[t].reason = "none"
        /\ \A u \in Task \ {t} : q.decision[u].reason = run.decision[u].reason
    BY <2>6, <2>8 DEF NoDecision
  <2>10. Sound(q) /\ Moves(run, q, {t}) BY <1>1, <1>2, <2>1, <2>8, <2>9, MoveOne DEF Phase
  <2>11. ~IsEnded(q) BY <2>3, <2>8 DEF IsEnded
  <2>12. Good(run, Reconcile(q), {t}) BY <1>1, <2>1, <2>8, <2>10, <2>11, ReconcileGood
  <2> QED BY <2>1, <2>12, GoodCommits
<1> QED BY <1>3, <1>4

\* Holds, resumes and closes.
LEMMA OperatorSafe ==
  ASSUME TypeOK, TypeOK', Inv,
         \/ \E source \in HoldSources : Hold(source)
         \/ \E decider \in Decider : Resume(decider)
         \/ Close
  PROVE  Inv' /\ Final
<1>1. run \in RunType /\ run' \in RunType /\ Clock /\ run.phase \in [Task -> Phase]
  BY FieldsOf DEF TypeOK, Clock
<1>2. Sound(run) /\ Honest(run) BY DEF Inv
<1>3. ASSUME NEW source \in HoldSources, Hold(source) PROVE Inv' /\ Final
  <2> DEFINE state == IF IsParked(run) THEN [run.state EXCEPT !.hold = source]
                      ELSE Held(source, now + Timeout)
             q == [run EXCEPT !.state = state]
  <2>1. ~IsEnded(run) /\ Commit(q) BY <1>3 DEF Hold
  <2>2. state.kind # "terminal"
    <3>1. [run.state EXCEPT !.hold = source].kind = run.state.kind
      BY <1>1, FieldsOf DEF StateType
    <3>2. Held(source, now + Timeout).kind = "parked" BY DEF Held, Parked, State
    <3> QED BY <2>1, <3>1, <3>2 DEF IsEnded
  <2> HIDE DEF state
  <2>3. q.phase = run.phase /\ q.cancel = run.cancel /\ q.effects = run.effects
        /\ q.decision = run.decision /\ q.state = state
    BY <1>1 DEF RunType
  <2> HIDE DEF q
  <2>4. q \in RunType BY <1>1, <2>1 DEF Commit
  <2>5. ~IsEnded(q) BY <2>2, <2>3 DEF IsEnded
  <2>6. Good(run, q, {}) BY <1>1, <1>2, <2>1, <2>3, <2>4, <2>5, OpenStateGood
  <2> QED BY <2>1, <2>6, GoodCommits
<1>4. ASSUME NEW decider \in Decider, Resume(decider) PROVE Inv' /\ Final
  <2>1. IsParked(run) /\ ~Refused(ResumeRun(run)) /\ Commit(ResumeRun(run)) BY <1>4 DEF Resume
  <2>2. Good(run, ResumeRun(run), {}) BY <1>1, <1>2, <2>1, ResumeGood
  <2> QED BY <2>1, <2>2, GoodCommits
<1>5. CASE Close
  <2> DEFINE dropped == SetPhases(run, PhaseIn(run.phase, {"pending"}), "cancelled")
             settled == SetPhases(dropped, PhaseIn(run.phase, {"awaiting"}), "failed")
             q == ClearDecisions(settled, Awaiting(run))
             next == Reconcile(q)
             end == Ended(IF HasAccepted(next) THEN "incomplete" ELSE "failed", "operator-close")
             ended == [next EXCEPT !.state = end]
             U == PhaseIn(run.phase, {"pending", "awaiting"})
  <2>1. IsParked(run) /\ ~Live(run) /\ Commit(ended) BY <1>5 DEF Close
  <2>2. ~IsEnded(run) BY <2>1 DEF IsParked, IsEnded
  <2>3. run.effects = {} /\ \A t \in Task : run.phase[t] \notin Working BY <2>1 DEF Live, PhaseIn
  <2>4. dropped \in RunType /\ settled \in RunType /\ q \in RunType
    BY <1>1, SetPhasesFits, ClearDecisionsFits, DeadlinesFit DEF Phase
  <2>5. /\ q.effects = {} /\ q.state = run.state /\ q.cancel = run.cancel
        /\ \A t \in Task : q.phase[t] = IF run.phase[t] = "awaiting" THEN "failed"
                                        ELSE IF run.phase[t] = "pending" THEN "cancelled"
                                        ELSE run.phase[t]
        /\ \A t \in Task : q.decision[t] = IF t \in Awaiting(run) THEN NoDecision ELSE run.decision[t]
    BY <1>1, <2>3 DEF SetPhases, ClearDecisions, RunType, PhaseIn
  <2> HIDE DEF dropped, settled, q
  <2>6. \A t \in Task : q.decision[t].reason = "none" BY <2>5 DEF Awaiting, NoDecision
  <2>7. \A t \in Task : q.phase[t] \in Settled
    BY <1>1, <2>3, <2>5, PhaseKinds DEF Dead
  <2>8. Sound(q) /\ Moves(run, q, U)
    <3>1. \A t \in Task \ U : /\ q.phase[t] = run.phase[t]
                              /\ q.decision[t].reason = run.decision[t].reason
      BY <1>2, <2>5, <2>6 DEF Sound, Asks, Awaiting, PhaseIn
    <3>2. \A t \in Task \cap U : run.phase[t] \notin Settled /\ q.phase[t] \in Dead
      BY <2>5 DEF PhaseIn, Settled, Dead
    <3> HIDE DEF U
    <3> QED BY <1>1, <1>2, <2>3, <2>4, <2>5, <2>6, <3>1, <3>2, MoveMany
  <2>9. Moves(run, q, {})
    <3>1. \A t \in Task \cap U : run.phase[t] # "active" BY DEF PhaseIn
    <3> QED BY <2>8, <3>1, MovesNarrow
  <2>10. Good(run, next, {}) BY <1>1, <2>2, <2>4, <2>5, <2>8, <2>9, ReconcileGood DEF IsEnded
  <2>11. /\ next \in RunType /\ next.effects = {}
         /\ \A t \in Task : next.phase[t] = q.phase[t]
    BY <1>1, <2>4, <2>5, <2>7, <2>8, ReconcileFits, ReconcileSound DEF Moves
  <2> HIDE DEF next
  <2>12. /\ ended.phase = next.phase /\ ended.cancel = next.cancel /\ ended.effects = next.effects
         /\ ended.decision = next.decision /\ ended.state = end
    BY <2>11 DEF RunType
  <2>13. /\ end.kind = "terminal"
         /\ end.outcome = IF Accepted(next) # {} THEN "incomplete" ELSE "failed"
    BY DEF Ended, State, HasAccepted, Accepted
  <2> HIDE DEF end, ended
  <2>14. Closed(ended) BY <2>7, <2>11, <2>12 DEF Closed, PhaseIn
  <2>15. Accepted(next) # Task
    <3>1. Accepted(next) \subseteq Accepted(run) BY <2>5, <2>11 DEF Accepted, PhaseIn
    <3>2. Accepted(run) # Task BY <1>2, <2>2 DEF Honest
    <3> QED BY <3>1, <3>2 DEF Accepted, PhaseIn
  <2>16. Honest(ended) BY <2>12, <2>13, <2>14, <2>15 DEF Honest, IsEnded, Accepted
  <2>17. Sound(ended) /\ Moves(run, ended, {}) BY <2>10, <2>12, SameTasks DEF Good, Moves
  <2>18. Good(run, ended, {}) BY <2>2, <2>16, <2>17 DEF Good
  <2> QED BY <2>1, <2>18, GoodCommits
<1> QED BY <1>3, <1>4, <1>5

\* Answers about quota, and channels released.
LEMMA QuotaSafe ==
  ASSUME TypeOK, TypeOK', Inv,
         \/ \E choice \in {"wait", "next-candidate"} : QuotaAnswer(choice)
         \/ \E channel \in {ChannelOf[t] : t \in Task} : ReleaseQuota(channel)
  PROVE  Inv' /\ Final
<1>1. run \in RunType /\ run' \in RunType /\ Clock BY DEF TypeOK, Clock
<1>2. Sound(run) /\ Honest(run) BY DEF Inv
<1>3. \A why, hold, deadline : Parked(why, hold, deadline).kind # "terminal" BY DEF Parked, State
<1>4. Released(run).kind # "terminal" BY DEF Released, Held, Parked, Running, State
<1>5. ASSUME run'.phase = run.phase, run'.cancel = run.cancel, run'.effects = run.effects,
             run'.decision = run.decision, attempt' = attempt, IsEnded(run) => run'.state = run.state,
             ~IsEnded(run) => run'.state.kind # "terminal"
      PROVE  Inv' /\ Final
  <2>1. Sound(run') /\ Moves(run, run', {}) /\ Accepted(run') = Accepted(run)
    BY <1>2, <1>5, SameTasks
  <2>2. Good(run, run', {}) BY <1>1, <1>2, <1>5, <2>1, QuietGood DEF IsEnded
  <2> QED BY <1>5, <2>2, GoodKeeps DEF Inv, Launches
<1>6. ASSUME NEW choice \in {"wait", "next-candidate"}, QuotaAnswer(choice) PROVE Inv' /\ Final
  <2>1. ~IsEnded(run) /\ attempt' = attempt
    BY <1>6 DEF QuotaAnswer, ParkedFor, IsParked, IsEnded, Commit
  <2>2. /\ run'.phase = run.phase /\ run'.cancel = run.cancel /\ run'.effects = run.effects
        /\ run'.decision = run.decision
        /\ \/ \E until : run'.state = Parked("quota-exhausted", run.state.hold, until)
           \/ run'.state = Released(run)
    <3> DEFINE open == OpenWaits(run)
               known == {run.bind[t].wait.reset : t \in open} \ (0 .. now)
               all == \A t \in open : run.bind[t].wait.reset > now
               until == IF all THEN Latest(known) ELSE now + MaxWait
               rearmed(w) == [w EXCEPT !.deadline = until, !.rewaits = @ + 1, !.beyond = FALSE]
               longer == [SetWaits(run, open, rearmed) EXCEPT
                            !.state = Parked("quota-exhausted", run.state.hold, until)]
               again == [Supersede(run, open, "quota-exhausted") EXCEPT !.state = Released(run)]
    <3>1. run' = longer \/ run' = again BY <1>6 DEF QuotaAnswer, Commit
    <3> HIDE DEF open, until
    <3>2. CASE run' = longer BY <1>1, <3>2 DEF SetWaits, RunType
    <3>3. CASE run' = again BY <1>1, <3>3 DEF Supersede, RunType
    <3> QED BY <3>1, <3>2, <3>3
  <2>3. run'.state.kind # "terminal" BY <1>3, <1>4, <2>2
  <2> QED BY <1>5, <2>1, <2>2, <2>3
<1>7. ASSUME NEW channel \in {ChannelOf[t] : t \in Task}, ReleaseQuota(channel) PROVE Inv' /\ Final
  <2> DEFINE left == Waiting(run) \ {t \in OpenWaits(run) : /\ ChannelOf[t] = channel
                                                            /\ run.bind[t].wait.deadline > now}
             state == IF run.cancel \/ ~ParkedFor(run, {"quota-exhausted"}) THEN run.state
                      ELSE IF left # {}
                        THEN Parked("quota-exhausted", run.state.hold, Latest(WaitsOf(run, left)))
                      ELSE Released(run)
  <2>1. attempt' = attempt BY <1>7 DEF ReleaseQuota, Commit
  <2>2. /\ run'.phase = run.phase /\ run'.cancel = run.cancel /\ run'.effects = run.effects
        /\ run'.decision = run.decision
        /\ run'.state = state
    BY <1>1, <1>7 DEF ReleaseQuota, Commit, SetWaits, Supersede, RunType
  <2>3. \/ state = run.state
        \/ ~IsEnded(run) /\ state.kind # "terminal"
    BY <1>3, <1>4 DEF ParkedFor, IsParked, IsEnded
  <2> HIDE DEF state
  <2> QED BY <1>5, <2>1, <2>2, <2>3 DEF IsEnded
<1> QED BY <1>6, <1>7

\* A request to cancel closes what has no attempt to wait for, and nothing else.
LEMMA RequestGood ==
  ASSUME NEW r \in RunType, Clock, Sound(r), Honest(r)
  PROVE  RequestCancellation(r) \in RunType /\ Good(r, RequestCancellation(r), {})
<1> DEFINE U == Closable(r)
           moved == SetPhases(r, U, "cancelled")
           closed == ClearDecisions(moved, Awaiting(r))
           q == [closed EXCEPT !.cancel = TRUE]
<1>1. r.phase \in [Task -> Phase] BY FieldsOf
<1>2. moved \in RunType /\ closed \in RunType
  BY SetPhasesFits, ClearDecisionsFits, DeadlinesFit DEF Phase
<1>3. /\ q \in RunType /\ q.cancel = TRUE /\ q.effects = r.effects /\ q.state = r.state
      /\ \A t \in Task : q.phase[t] = IF t \in U THEN "cancelled" ELSE r.phase[t]
      /\ \A t \in Task : q.decision[t] = IF t \in Awaiting(r) THEN NoDecision ELSE r.decision[t]
  BY <1>2 DEF SetPhases, ClearDecisions, RunType
<1>4. RequestCancellation(r) \in {r, Reconcile(q)} BY Zenon DEF RequestCancellation, q, closed, moved, U
<1> HIDE DEF moved, closed, q
<1>5. U \cap r.effects = {} /\ \A t \in U : r.phase[t] \in {"pending", "awaiting"}
  BY DEF Closable, PhaseIn, Sound, EffectsOpen
<1>6. \A t \in Task : q.decision[t].reason = "none" BY <1>3 DEF Awaiting, NoDecision
<1>7. Sound(q) /\ Moves(r, q, U)
  <2>1. \A t \in Task \ U : q.phase[t] = r.phase[t] /\ q.decision[t].reason = r.decision[t].reason
    BY <1>3, <1>6 DEF Sound, Asks, Awaiting, PhaseIn, Closable
  <2>2. \A t \in Task \cap U : r.phase[t] \notin Settled /\ q.phase[t] \in Dead
    BY <1>3, <1>5 DEF Settled, Dead
  <2> HIDE DEF U
  <2> QED BY <1>3, <1>5, <1>6, <2>1, <2>2, MoveMany
<1>8. Moves(r, q, {})
  <2>1. \A t \in Task \cap U : r.phase[t] # "active" BY <1>5
  <2> QED BY <1>7, <2>1, MovesNarrow
<1>9. Good(r, Reconcile(q), {}) BY <1>3, <1>7, <1>8, ReconcileGood DEF IsEnded
<1>10. Good(r, r, {}) BY MovesNothing DEF Good
<1> QED BY <1>3, <1>4, <1>9, <1>10, ReconcileFits

\* cancelRun: it closes, marks and settles, and never stops a claimed launch
\* without the launch knowing.
LEMMA CancelSafe ==
  ASSUME TypeOK, TypeOK', Inv, CancelRun PROVE Inv' /\ Final
<1>1. /\ run \in RunType /\ run' \in RunType /\ Clock
      /\ attempt \in [Task -> AttemptType] /\ attempt' \in [Task -> AttemptType]
  BY DEF TypeOK, Clock
<1>2. Sound(run) /\ Honest(run) /\ Launches BY DEF Inv
<1> DEFINE r == RequestCancellation(run)
           U == Settleable(r, attempt')
           q == SetPhases(r, U, "cancelled")
<1>3. r \in RunType /\ Good(run, r, {}) BY <1>1, <1>2, RequestGood
<1>4. Sound(r) /\ Moves(run, r, {}) /\ Honest(r) BY <1>1, <1>2, <1>3, HonestyKept DEF Good
<1>5. run' = IF U = {} THEN r ELSE Reconcile(q) BY DEF CancelRun
<1> HIDE DEF r
<1>6. /\ U \subseteq Task /\ U \cap r.effects = {}
      /\ \A t \in U : \/ r.phase[t] = "active" /\ attempt'[t].launch = "none"
                      \/ r.phase[t] = "evaluating"
  BY DEF Settleable
<1> HIDE DEF U
<1>7. Moves(run, r, U) BY <1>4, MovesWiden
<1>8. Good(run, run', U)
  <2>1. CASE U = {} BY <1>3, <1>5, <2>1
  <2>2. CASE U # {}
    <3>1. ~IsEnded(r)
      <4>1. PICK t \in U : TRUE BY <2>2
      <4>2. r.phase[t] \notin Settled BY <1>6 DEF Settled, Dead
      <4> QED BY <1>3, <1>4, <1>6, <4>2, OpenWithWork
    <3>2. ~IsEnded(run) BY <1>3, <3>1 DEF Good, IsEnded
    <3>3. q \in RunType BY <1>3, SetPhasesFits DEF Phase
    <3>4. /\ q.cancel = r.cancel /\ q.effects = r.effects /\ q.decision = r.decision
          /\ q.state = r.state
          /\ \A t \in Task : q.phase[t] = IF t \in U THEN "cancelled" ELSE r.phase[t]
      BY <1>3 DEF SetPhases, RunType
    <3> HIDE DEF q
    <3>5. \A t \in U : r.decision[t].reason = "none"
      BY <1>4, <1>6 DEF Sound, Asks, Awaiting, PhaseIn
    <3>6. \A t \in Task \cap U : r.phase[t] \notin Settled /\ q.phase[t] \in Dead
      BY <1>6, <3>4 DEF Settled, Dead
    <3>7. Sound(q) /\ Moves(r, q, U)
      <4>1. \A t \in Task \ U : q.phase[t] = r.phase[t]
            /\ q.decision[t].reason = r.decision[t].reason
        BY <3>4
      <4>2. \A t \in Task \cap U : q.decision[t].reason = "none" BY <3>4, <3>5
      <4>3. U \cap r.effects = {} /\ q.effects = r.effects /\ q.cancel = r.cancel BY <1>6, <3>4
      <4> QED BY <1>3, <1>4, <3>3, <3>6, <4>1, <4>2, <4>3, MoveMany
    <3>8. Moves(run, q, U) BY <1>7, <3>7, MovesCompose
    <3>9. ~IsEnded(q) BY <3>1, <3>4 DEF IsEnded
    <3>10. Good(run, Reconcile(q), U) BY <1>1, <3>2, <3>3, <3>7, <3>8, <3>9, ReconcileGood
    <3> QED BY <1>5, <2>2, <3>10
  <2> QED BY <2>1, <2>2
<1>9. \A t \in Task : /\ attempt'[t].launch = attempt[t].launch /\ attempt'[t].obs = attempt[t].obs
                      /\ attempt'[t].closing = attempt[t].closing
  BY <1>1 DEF CancelRun, CancelAttempts, AttemptType
<1>10. ASSUME NEW t \in Task \cap U PROVE attempt'[t].launch # "pending"
  <2>1. attempt[t].launch = "pending" => r.phase[t] = "active"
    BY <1>2, <1>4 DEF Launches, Moves
  <2> QED BY <1>6, <1>9, <2>1
<1> QED BY <1>2, <1>8, <1>9, <1>10, GoodKeeps DEF Launches

\* Every transaction keeps the invariant and undoes nothing that is final.
LEMMA StepSafe == TypeOK /\ TypeOK' /\ Inv /\ [Next]_vars => Inv' /\ Final
<1> SUFFICES ASSUME TypeOK, TypeOK', Inv, [Next]_vars PROVE Inv' /\ Final OBVIOUS
<1>1. CASE Tick \/ AdvanceRun \/ ParkProgression BY <1>1, TimeSafe
<1>2. CASE \E S \in SUBSET Task : Reserve(S) BY <1>2, ReserveSafe
<1>3. CASE LaunchStep BY <1>3, ProbeSafe, AttemptSafe, LaunchSafe DEF LaunchStep
<1>4. CASE EvaluationStep BY <1>4, EvaluationSafe DEF EvaluationStep
<1>5. CASE PersonStep BY <1>5, PersonSafe, OperatorSafe, QuotaSafe DEF PersonStep
<1>6. CASE CancelStep BY <1>6, CancelSafe, AttemptSafe DEF CancelStep
<1>7. CASE UNCHANGED vars BY <1>7 DEF vars, Inv, Launches, Final
<1> QED BY <1>1, <1>2, <1>3, <1>4, <1>5, <1>6, <1>7 DEF Next

----------------------------------------------------------------------------
(* What follows *)

\* A sound and honest Run, and launches that wait with their task active, are
\* kept by every order of the ledger's transactions.
THEOREM Invariance == Spec => []Inv
<1>1. TypeOK /\ TypeOK' /\ Inv /\ [Next]_vars => Inv' BY StepSafe
<1> QED BY <1>1, InvInit, TypeCorrect, PTL DEF Spec

\* Whatever was retried, answered, resumed or lost since, no task is in work or
\* accepted before the results it needs are accepted and the work it must follow
\* has settled (inspectTaskReadiness, which a reservation asks, and every writer that
\* moves a phase after it).
THEOREM OrderIsKept == Spec => []StartsInOrder
<1>1. Inv => StartsInOrder BY DEF Inv, Sound, Ordered, StartsInOrder, Accepted
<1> QED BY <1>1, Invariance, PTL

\* Uncertain effects are only ever held by open work, so the slot they keep is
\* one the recovery of probes or of lost workers still answers for.
THEOREM EffectsAreOpen == Spec => []EffectsStayOpen
<1>1. Inv => EffectsStayOpen BY DEF Inv, Sound, EffectsOpen, EffectsStayOpen
<1> QED BY <1>1, Invariance, PTL

\* A question to a person is open exactly while its task waits.
THEOREM QuestionsAreOpen == Spec => []DecisionWhileAwaiting
<1>1. Inv => DecisionWhileAwaiting BY DEF Inv, Sound, Asks, DecisionWhileAwaiting
<1> QED BY <1>1, Invariance, PTL

\* Every ending, by completion, cancellation, expiry or close, leaves nothing
\* open and says what became of the tasks: a cancelled Run with neither work nor
\* a startable task has settled, because the graph has no cycle.
THEOREM EndingsAreHonest == Spec => []EndIsHonest
<1>1. Inv => EndIsHonest BY DEF Inv, Honest, EndIsHonest, Accepted
<1> QED BY <1>1, Invariance, PTL

\* No transaction revokes a settled task, reopens or rewrites an ended Run or takes
\* back a cancellation.
THEOREM SettlementIsFinal == Spec => SettledIsFinal
<1>1. TypeOK /\ TypeOK' /\ Inv /\ [Next]_vars =>
        [/\ \A t \in Task : run.phase[t] \in Settled => run'.phase[t] = run.phase[t]
         /\ IsEnded(run) => run'.state = run.state
         /\ run.cancel => run'.cancel]_vars
  BY StepSafe DEF Final
<1> QED BY <1>1, Invariance, TypeCorrect, PTL DEF Spec, SettledIsFinal
=============================================================================
