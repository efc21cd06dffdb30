------------------------- MODULE RunLifecycleParks -------------------------
(***************************************************************************)
(* Why a Run is parked: the waits for quota a park stands for, the refused *)
(* attempts and the holds behind the others, and what may lift or end it.  *)
(*                                                                         *)
(* The state of a Run is written apart from the bindings that justify it.  *)
(* The invariant relates them in two strengths: what every reducer is      *)
(* handed (Proper) and what every transaction leaves (Sorted), the         *)
(* difference being what a reclassification restores.                      *)
(***************************************************************************)
EXTENDS RunLifecycleAttempts

\* A state is a park for one of some reasons.
In(s, reasons) == s.kind = "parked" /\ s.why \in reasons
\* The parks that keep a task waiting for quota from being forgotten.
Covering == {"quota-exhausted", "quota-ask", "operator-hold"}

\* State s has its reason in the bindings of r.
ProperAs(r, s) ==
  /\ s.hold # "none" => s.kind = "parked"
  /\ In(s, {"operator-hold"}) => s.hold # "none"
  /\ In(s, {"environment-not-ready"}) => Binds(r, "launch-refused") # {}
  /\ In(s, {"quota-exhausted"}) => s.deadline \in WaitsOf(r, Waiting(r))
  /\ ~r.cancel /\ In(s, {"quota-exhausted"}) /\ RefusedWaits(r) = {} =>
       \A t \in PendingWaits(r) : r.bind[t].wait.deadline <= s.deadline
  /\ ~r.cancel /\ In(s, OwnedPark) /\ PendingWaits(r) # {} =>
       In(s, Covering) \/ RefusedWaits(r) # {}
\* A wait that can be tried again was not released, and a task that started once
\* has the results it needs.
Waits(r) ==
  /\ \A t \in PendingWaits(r) : r.bind[t].wait.released => r.cancel
  /\ \A t \in PendingWaits(r) \cup RefusedWaits(r) : Blocking[t] \subseteq Accepted(r)
Proper(r) == ProperAs(r, r.state) /\ Waits(r)

\* What a transaction leaves besides: no park that needs a Run without work has
\* any, a cancelled Run waits for no quota, and no wait is left uncovered.
SettledAs(r, s) ==
  /\ In(s, {"awaiting-decision", "dependency"}) => ~Live(r)
  /\ r.cancel => ~In(s, {"quota-exhausted"})
  /\ ~r.cancel /\ s.kind # "terminal" /\ PendingWaits(r) # {} =>
       In(s, Covering) \/ RefusedWaits(r) # {}
Sorted(r) == Proper(r) /\ SettledAs(r, r.state)

\* A step from r to q keeps the hold of r, and ends it only for what its tasks
\* have come to.
Honours(r, q) ==
  /\ r.state.hold # "none" /\ ~q.cancel => q.state.hold = r.state.hold \/ IsEnded(q)
  /\ ~IsEnded(r) /\ IsEnded(q) => q.state.why # "park-timeout"

\* What a step from r to m leaves of the waits and refusals of task t.
KeepsAt(r, m, t) ==
  /\ r.bind[t].kind = "launch-refused" => m.bind[t].kind = "launch-refused"
  /\ r.bind[t].kind = "quota-exhausted" => m.bind[t] = r.bind[t]
  /\ m.phase[t] = "pending" /\ m.bind[t].kind \in {"quota-exhausted", "launch-refused"} =>
       \/ m.bind[t] = r.bind[t] /\ r.phase[t] = "pending"
       \/ m.bind[t].kind = "launch-refused" /\ r.phase[t] \in Working
  /\ r.phase[t] = "accepted" => m.phase[t] = "accepted"
Keeps(r, m) ==
  /\ r.cancel => m.cancel
  /\ \A t \in Task : KeepsAt(r, m, t)
  /\ RefusedWaits(r) \subseteq RefusedWaits(m) \/ m.cancel \/ PendingWaits(m) = {}

\* The tasks that may start, now or after their backoff, as far as their results
\* and effects go.
Offered(r) == {t \in Task : Startable(r.phase, r.effects, t)}
\* Every task a Run waits with may start, none waits that was refused, and a
\* cancelled Run starts nothing.
Eligible(r) ==
  /\ r.cancel => PhaseIn(r.phase, {"pending"}) = {}
  /\ PendingWaits(r) \subseteq Offered(r)
  /\ RefusedWaits(r) = {}
\* A Run runs only while it has something to do.
Busy(r) == Eligible(r) /\ (r.state.kind = "running" => Live(r) \/ Offered(r) # {})

\* No wait for quota outlives its task while the Run is open.
Kept(r) == ~r.cancel /\ ~IsEnded(r) => Waiting(r) \subseteq PendingWaits(r)
\* A Run that is never held, or that never waits for quota.
Spared(r) == \/ HoldSources = {} /\ r.state.hold = "none"
             \/ "quota" \notin Conclusions /\ Waiting(r) = {}
\* A step from r to q leaves a Run with something to do, and drops no wait of a
\* Run that was spared.
Works(r, q) == Kept(r) /\ Busy(r) => Busy(q) /\ (Spared(r) => Spared(q) /\ Kept(q))

\* What a step from r to m leaves of task t for those that may start.
EasesAt(r, m, t) ==
  /\ r.phase[t] \in Settled => m.phase[t] = r.phase[t]
  /\ m.bind[t].kind = "quota-exhausted" =>
       m.bind[t] = r.bind[t] /\ (r.phase[t] = "pending" => m.phase[t] = "pending")
  /\ m.phase[t] = "pending" =>
       \/ r.phase[t] = "pending" /\ m.bind[t] = r.bind[t] /\ (t \in m.effects => t \in r.effects)
       \/ ~m.cancel /\ m.bind[t].kind \notin {"quota-exhausted", "launch-refused"}
Eases(r, m) == m.cancel = r.cancel /\ \A t \in Task : EasesAt(r, m, t)

----------------------------------------------------------------------------
(* Waits *)

\* The latest of some deadlines is one of them, and none is later.
LEMMA LatestIsMember ==
  ASSUME NEW S \in SUBSET Horizon, S # {}
  PROVE  Latest(S) \in S /\ \A x \in S : x <= Latest(S)
<1> DEFINE Least == {d \in Horizon : \A x \in S : x <= d}
           IsLatest(d) == /\ \A x \in S : x <= d
                          /\ \A e \in Horizon : (\A x \in S : x <= e) => d <= e
           L == Latest(S)
<1>1. AskOpen \in Least BY HorizonIsNat DEF Horizon
<1>2. PICK d \in Least : \A e \in Least : d <= e BY <1>1, LeastNatural, HorizonIsNat
<1>3. \E d0 \in Horizon : IsLatest(d0) BY <1>2
<1>4. L \in Horizon /\ IsLatest(L) BY <1>3 DEF Latest
<1>5. L \in S
  <2> SUFFICES ASSUME L \notin S PROVE FALSE OBVIOUS
  <2> HIDE DEF L
  <2>1. PICK x \in S : TRUE OBVIOUS
  <2>2. L \in Nat /\ \A y \in S : y \in Nat /\ y <= L - 1
    BY <1>4, HorizonIsNat
  <2>3. L - 1 \in Horizon BY <1>4, <2>1, <2>2, HorizonIsNat DEF Horizon
  <2>4. L <= L - 1 BY <1>4, <2>2, <2>3
  <2> QED BY <2>2, <2>4
<1> QED BY <1>4, <1>5

\* A reason to park reads the state only.
LEMMA ParkedIsIn == \A r, reasons : ParkedFor(r, reasons) <=> In(r.state, reasons)
  BY DEF ParkedFor, IsParked, In

\* The sets of waits, task by task.
LEMMA WaitSets ==
  ASSUME NEW r
  PROVE  /\ \A t : t \in Waiting(r) <=> t \in Task /\ r.bind[t].kind = "quota-exhausted"
         /\ \A t : t \in PendingWaits(r) <=>
              t \in Task /\ r.bind[t].kind = "quota-exhausted" /\ r.phase[t] = "pending"
         /\ \A t : t \in RefusedWaits(r) <=>
              t \in Task /\ r.bind[t].kind = "launch-refused" /\ r.phase[t] = "pending"
  BY DEF Waiting, PendingWaits, RefusedWaits, Binds

\* What is kept of the waits of a Run is what its state needs of them.
LEMMA KeepsProper ==
  ASSUME NEW r \in RunType, NEW m \in RunType, NEW s, Keeps(r, m), ProperAs(r, s)
  PROVE  ProperAs(m, s)
<1>1. PendingWaits(m) \subseteq PendingWaits(r)
      /\ \A t \in PendingWaits(m) : m.bind[t] = r.bind[t]
  BY WaitSets DEF Keeps, KeepsAt
<1>2. Binds(r, "launch-refused") \subseteq Binds(m, "launch-refused")
  BY DEF Keeps, KeepsAt, Binds
<1>3. WaitsOf(r, Waiting(r)) \subseteq WaitsOf(m, Waiting(m))
  <2>1. \A t \in Waiting(r) : t \in Waiting(m) /\ m.bind[t] = r.bind[t]
    BY WaitSets DEF Keeps, KeepsAt
  <2> QED BY <2>1 DEF WaitsOf
<1>4. RefusedWaits(r) \subseteq RefusedWaits(m) \/ m.cancel \/ PendingWaits(m) = {}
  BY DEF Keeps
<1>5. ~m.cancel => ~r.cancel BY DEF Keeps
<1> HIDE DEF Keeps
<1> QED BY <1>1, <1>2, <1>3, <1>4, <1>5 DEF ProperAs

\* Tasks that started once keep the results they need.
LEMMA KeepsWaits ==
  ASSUME NEW r \in RunType, NEW m \in RunType, Keeps(r, m), Waits(r), Ordered(r)
  PROVE  Waits(m)
<1>1. Accepted(r) \subseteq Accepted(m) BY DEF Keeps, KeepsAt, Accepted, PhaseIn
<1>2. ASSUME NEW t \in PendingWaits(m), m.bind[t].wait.released PROVE m.cancel
  <2>1. t \in PendingWaits(r) /\ m.bind[t] = r.bind[t] BY WaitSets DEF Keeps, KeepsAt
  <2> QED BY <1>2, <2>1 DEF Waits, Keeps
<1>3. ASSUME NEW t \in PendingWaits(m) \cup RefusedWaits(m)
      PROVE  Blocking[t] \subseteq Accepted(m)
  <2>1. t \in Task /\ KeepsAt(r, m, t) BY <1>3, WaitSets DEF Keeps
  <2>2. m.phase[t] = "pending" /\ m.bind[t].kind \in {"quota-exhausted", "launch-refused"}
    BY <1>3, WaitSets
  <2>3. t \in PendingWaits(r) \cup RefusedWaits(r) \/ r.phase[t] \in Working
    BY <2>1, <2>2, WaitSets DEF KeepsAt
  <2>4. Blocking[t] \subseteq Accepted(r) BY <2>1, <2>3 DEF Waits, Ordered
  <2> QED BY <1>1, <2>4
<1> QED BY <1>2, <1>3 DEF Waits

\* A step that keeps the state too, and starts no work in a Run without any,
\* leaves the Run as sorted as it was.
LEMMA KeepsSorted ==
  ASSUME NEW r \in RunType, NEW m \in RunType, Keeps(r, m), Sorted(r), Ordered(r),
         m.state = r.state, m.cancel = r.cancel,
         Live(m) => Live(r) \/ ~In(r.state, {"awaiting-decision", "dependency"})
  PROVE  Sorted(m)
<1>1. ProperAs(m, m.state) BY KeepsProper DEF Sorted, Proper
<1>2. Waits(m) BY KeepsWaits DEF Sorted, Proper
<1>3. PendingWaits(m) \subseteq PendingWaits(r) BY WaitSets DEF Keeps, KeepsAt
<1>4. RefusedWaits(r) \subseteq RefusedWaits(m) \/ m.cancel \/ PendingWaits(m) = {}
  BY DEF Keeps
<1>5. SettledAs(m, m.state)
  <2>1. SettledAs(r, r.state) BY DEF Sorted
  <2> HIDE DEF Keeps
  <2> QED BY <1>3, <1>4, <2>1 DEF SettledAs
<1> QED BY <1>1, <1>2, <1>5 DEF Sorted, Proper

\* A step about one task that was at work or asked a person.
LEMMA KeepsOne ==
  ASSUME NEW r \in RunType, NEW m \in RunType, NEW t \in Task, NEW a, LinkAt(r, a, t),
         r.cancel => m.cancel, r.phase[t] \in Working \cup {"awaiting"},
         \A u \in Task \ {t} : m.bind[u] = r.bind[u] /\ m.phase[u] = r.phase[u],
         m.phase[t] = "pending" => m.bind[t].kind # "quota-exhausted",
         m.phase[t] = "pending" /\ m.bind[t].kind = "launch-refused" => r.phase[t] \in Working
  PROVE  Keeps(r, m)
<1>1. r.bind[t].kind \notin {"quota-exhausted", "launch-refused"} /\ r.phase[t] \notin {"pending", "accepted"}
  BY DEF LinkAt, Working, Settled, Dead
<1>2. KeepsAt(r, m, t) BY <1>1 DEF KeepsAt
<1>3. \A u \in Task \ {t} : KeepsAt(r, m, u) BY DEF KeepsAt
<1>4. RefusedWaits(r) \subseteq RefusedWaits(m)
  <2>1. t \notin RefusedWaits(r) BY <1>1, WaitSets
  <2> QED BY <2>1, WaitSets
<1> QED BY <1>2, <1>3, <1>4 DEF Keeps

\* A step that only settles tasks.
LEMMA KeepsClosing ==
  ASSUME NEW r \in RunType, NEW m \in RunType, m.bind = r.bind, r.cancel => m.cancel,
         \A t \in Task : \/ m.phase[t] = r.phase[t]
                         \/ r.phase[t] \notin Settled /\ m.phase[t] \in Settled,
         RefusedWaits(r) \subseteq RefusedWaits(m) \/ m.cancel \/ PendingWaits(m) = {}
  PROVE  Keeps(r, m)
<1>1. \A t \in Task : KeepsAt(r, m, t) BY PhaseKinds DEF KeepsAt, Settled, Dead
<1> QED BY <1>1 DEF Keeps

----------------------------------------------------------------------------
(* Reclassification *)

\* The closure loop skips no task that waits or was refused: it has its results.
LEMMA SkipKeeps ==
  ASSUME NEW r \in RunType, Waits(r)
  PROVE  LET q == [r EXCEPT !.phase = SkipDoomed(r.phase)]
         IN /\ q \in RunType /\ q.state = r.state /\ q.cancel = r.cancel /\ q.effects = r.effects
            /\ q.bind = r.bind /\ Keeps(r, q)
            /\ PendingWaits(q) = PendingWaits(r) /\ RefusedWaits(q) = RefusedWaits(r)
            /\ Live(q) <=> Live(r)
<1> DEFINE q == [r EXCEPT !.phase = SkipDoomed(r.phase)]
           U == Doomed(r.phase)
<1>1. r.phase \in [Task -> Phase] BY FieldsOf
<1>2. SkipDoomed(r.phase) \in [Task -> Phase] BY <1>1, SkipFits
<1>3. /\ q \in RunType /\ q.phase = SkipDoomed(r.phase) /\ q.state = r.state
      /\ q.cancel = r.cancel /\ q.effects = r.effects /\ q.bind = r.bind
  BY <1>2 DEF RunType
<1>4. U \subseteq PhaseIn(r.phase, {"pending"}) BY DEF Doomed
<1>5. ASSUME NEW t \in PendingWaits(r) \cup RefusedWaits(r) PROVE t \notin U
  <2>1. t \in PhaseIn(r.phase, {"pending"}) BY <1>5, WaitSets DEF PhaseIn
  <2>2. Blocking[t] \subseteq PhaseIn(r.phase, {"accepted"}) BY <1>5 DEF Waits, Accepted
  <2>3. Untouched(r.phase, {t}) BY <2>2, PhaseKinds DEF Untouched, PhaseIn
  <2>4. t \in Survivors(r.phase) BY <2>1, <2>3 DEF Survivors
  <2> QED BY <2>4 DEF Doomed
<1>6. \A t \in Task : q.phase[t] = IF t \in U THEN "skipped" ELSE r.phase[t]
  BY <1>3 DEF SkipDoomed
<1> HIDE DEF q, U
<1>7. PendingWaits(q) = PendingWaits(r) /\ RefusedWaits(q) = RefusedWaits(r)
  <2>1. \A t \in Task : q.phase[t] = "pending" => r.phase[t] = "pending" BY <1>6
  <2>2. \A t \in PendingWaits(r) \cup RefusedWaits(r) : q.phase[t] = "pending"
    BY <1>5, <1>6, WaitSets
  <2>3. \A t : t \in PendingWaits(q) <=> t \in PendingWaits(r)
    BY <1>3, <2>1, <2>2, WaitSets
  <2>4. \A t : t \in RefusedWaits(q) <=> t \in RefusedWaits(r)
    BY <1>3, <2>1, <2>2, WaitSets
  <2> QED BY <2>3, <2>4
<1>8. Keeps(r, q)
  <2>1. \A t \in Task : \/ q.phase[t] = r.phase[t]
                        \/ r.phase[t] \notin Settled /\ q.phase[t] \in Settled
    BY <1>4, <1>6 DEF PhaseIn, Settled, Dead
  <2> QED BY <1>3, <1>7, <2>1, KeepsClosing
<1>9. PhaseIn(q.phase, Working) = PhaseIn(r.phase, Working)
  BY <1>4, <1>6 DEF PhaseIn, Working
<1> QED BY <1>3, <1>7, <1>8, <1>9 DEF q, Live

\* Which states a Run is classified as.
ClassifiedAs(r, s) ==
  \/ s.kind = "terminal" /\ s.why \in {"completed", "cancelled"} /\ s.hold = "none"
  \/ ~r.cancel /\ In(r.state, OwnedPark) /\ s = r.state
  \/ /\ ~r.cancel /\ ~In(r.state, OwnedPark) /\ PendingWaits(r) # {}
     /\ s = Parked("quota-exhausted", "none", Latest(WaitsOf(r, Waiting(r))))
  \/ /\ r.cancel \/ (PendingWaits(r) = {} /\ ~In(r.state, OwnedPark))
     /\ \/ s = Running /\ (Live(r) \/ \E t \in Task : Startable(r.phase, r.effects, t))
        \/ s.kind = "parked" /\ s.why = "needs-input" /\ s.hold = "none"
        \/ /\ s.kind = "parked" /\ s.why \in {"awaiting-decision", "dependency"} /\ ~Live(r)
           /\ s.hold = IF IsParked(r) THEN r.state.hold ELSE "none"

LEMMA ClassifyCases == ASSUME NEW r \in RunType PROVE ClassifiedAs(r, Classify(r))
<1> DEFINE startable == {t \in Task : Startable(r.phase, r.effects, t)}
           why == IF Awaiting(r) # {} THEN "awaiting-decision" ELSE "dependency"
           s == Classify(r)
<1>1. PendingWaits(r) = {t \in Binds(r, "quota-exhausted") : r.phase[t] = "pending"}
      /\ Waiting(r) = Binds(r, "quota-exhausted")
  BY DEF PendingWaits, Waiting
<1>2. ParkedFor(r, OwnedPark) <=> In(r.state, OwnedPark) BY ParkedIsIn
<1>3. why \in {"awaiting-decision", "dependency"} OBVIOUS
<1> HIDE DEF why
<1> SUFFICES ClassifiedAs(r, s) OBVIOUS
<1>4. CASE PhaseIn(r.phase, {"accepted"}) = Task
  <2>1. s = Ended("completed", "completed") BY <1>4 DEF Classify
  <2> HIDE DEF s
  <2> QED BY <2>1 DEF ClassifiedAs, Ended, State
<1>5. CASE PhaseIn(r.phase, {"accepted"}) # Task /\ ~r.cancel /\ In(r.state, OwnedPark)
  <2>1. s = r.state BY <1>2, <1>5 DEF Classify
  <2> HIDE DEF s
  <2> QED BY <1>5, <2>1 DEF ClassifiedAs
<1>6. CASE PhaseIn(r.phase, {"accepted"}) # Task /\ ~(~r.cancel /\ In(r.state, OwnedPark))
  <2>1. CASE ~r.cancel /\ PendingWaits(r) # {}
    <3>1. s = Parked("quota-exhausted", "none", Latest(WaitsOf(r, Waiting(r))))
      BY <1>1, <1>2, <1>6, <2>1 DEF Classify
    <3> HIDE DEF s
    <3> QED BY <1>6, <2>1, <3>1 DEF ClassifiedAs
  <2>2. CASE r.cancel \/ PendingWaits(r) = {}
    <3>1. CASE ~r.cancel /\ Asking(r) # {}
      <4>1. s = Parked("needs-input", "none", r.decision[First(Asking(r))].deadline)
        BY <1>1, <1>2, <1>6, <2>2, <3>1 DEF Classify
      <4> HIDE DEF s
      <4> QED BY <1>6, <2>2, <3>1, <4>1 DEF ClassifiedAs, Parked, State
    <3>2. CASE ~(~r.cancel /\ Asking(r) # {}) /\ (Live(r) \/ startable # {})
      <4>1. s = Running
        BY <1>1, <1>2, <1>6, <2>2, <3>2 DEF Classify
      <4> HIDE DEF s
      <4> QED BY <1>6, <2>2, <3>2, <4>1 DEF ClassifiedAs
    <3>3. CASE ~(~r.cancel /\ Asking(r) # {}) /\ ~(Live(r) \/ startable # {})
      <4>1. s \in {Ended(IF HasAccepted(r) THEN "incomplete" ELSE "cancelled", "cancelled"),
                   IF IsParked(r) THEN Parked(why, r.state.hold, r.state.deadline)
                   ELSE Parked(why, "none", now + Timeout)}
        BY <1>1, <1>2, <1>6, <2>2, <3>3 DEF Classify, why
      <4> HIDE DEF s
      <4> QED BY <1>3, <1>6, <2>2, <3>3, <4>1 DEF ClassifiedAs, Parked, Ended, State
    <3> QED BY <3>1, <3>2, <3>3
  <2> QED BY <2>1, <2>2
<1> QED BY <1>4, <1>5, <1>6

\* A state that is classified has its reasons, holds included.
LEMMA ClassifySorts ==
  ASSUME NEW r \in RunType, Clock, Proper(r), ~IsEnded(r),
         NEW s \in StateType, ClassifiedAs(r, s)
  PROVE  LET k == KeepHold(r, s)
         IN /\ ProperAs(r, k) /\ SettledAs(r, k)
            /\ r.state.hold # "none" /\ ~r.cancel => k.hold = r.state.hold \/ k.kind = "terminal"
            /\ k.kind = "terminal" => k.why # "park-timeout"
<1> DEFINE k == KeepHold(r, s)
           none == ~IsParked(r) \/ r.state.hold = "none" \/ In(r.state, {"operator-hold"})
<1>1. /\ s.kind = "terminal" => k = s
      /\ none => k = s
      /\ s.kind = "parked" /\ ~none => k = [s EXCEPT !.hold = r.state.hold]
      /\ s.kind = "running" /\ ~none => k = Held(r.state.hold, r.state.deadline)
  BY ParkedIsIn DEF KeepHold
<1>2. s.kind \in {"running", "parked", "terminal"} BY DEF StateType
<1>3. LET p == [s EXCEPT !.hold = r.state.hold]
      IN p.kind = s.kind /\ p.why = s.why /\ p.deadline = s.deadline /\ p.hold = r.state.hold
  BY DEF StateType
<1>4. LET p == Held(r.state.hold, r.state.deadline)
      IN p.kind = "parked" /\ p.why = "operator-hold" /\ p.hold = r.state.hold
  BY DEF Held, Parked, State
<1>5. r.state.hold # "none" => IsParked(r) BY DEF Proper, ProperAs, IsParked
<1>6. In(r.state, {"operator-hold"}) => In(r.state, OwnedPark) BY DEF In, OwnedPark
<1> SUFFICES /\ ProperAs(r, k) /\ SettledAs(r, k)
             /\ r.state.hold # "none" /\ ~r.cancel => k.hold = r.state.hold \/ k.kind = "terminal"
             /\ k.kind = "terminal" => k.why # "park-timeout"
  OBVIOUS
<1> HIDE DEF k
<1>7. CASE s.kind = "terminal" /\ s.why \in {"completed", "cancelled"} /\ s.hold = "none"
  BY <1>1, <1>7 DEF ProperAs, SettledAs, In
<1>8. CASE ~r.cancel /\ In(r.state, OwnedPark) /\ s = r.state
  <2>1. k.kind = s.kind /\ k.why = s.why /\ k.deadline = s.deadline /\ k.hold = r.state.hold
    BY <1>1, <1>2, <1>3, <1>8 DEF In
  <2>2. ProperAs(r, k) BY <1>8, <2>1 DEF Proper, ProperAs, In
  <2>3. SettledAs(r, k)
    BY <1>8, <2>1 DEF Proper, ProperAs, SettledAs, In, OwnedPark
  <2> QED BY <1>8, <2>1, <2>2, <2>3 DEF In
<1>9. CASE /\ ~r.cancel /\ ~In(r.state, OwnedPark) /\ PendingWaits(r) # {}
           /\ s = Parked("quota-exhausted", "none", Latest(WaitsOf(r, Waiting(r))))
  <2> DEFINE L == Latest(WaitsOf(r, Waiting(r)))
  <2>1. Waiting(r) \in SUBSET Task /\ PendingWaits(r) \subseteq Waiting(r) BY WaitSets
  <2>2. WaitsOf(r, Waiting(r)) \in SUBSET Horizon BY <2>1, WaitsFit
  <2>3. WaitsOf(r, Waiting(r)) # {} BY <1>9, <2>1 DEF WaitsOf
  <2>4. L \in WaitsOf(r, Waiting(r)) /\ \A x \in WaitsOf(r, Waiting(r)) : x <= L
    BY <2>2, <2>3, LatestIsMember
  <2>5. \A t \in PendingWaits(r) : r.bind[t].wait.deadline <= L BY <2>1, <2>4 DEF WaitsOf
  <2> HIDE DEF L
  <2>6. s.kind = "parked" /\ s.why = "quota-exhausted" /\ s.deadline = L /\ s.hold = "none"
    BY <1>9 DEF Parked, State, L
  <2>7. /\ k.kind = "parked" /\ k.why = "quota-exhausted" /\ k.deadline = L
        /\ k.hold = IF none THEN "none" ELSE r.state.hold
    BY <1>1, <1>3, <2>6
  <2>8. r.state.hold # "none" => k.hold = r.state.hold BY <1>5, <1>6, <1>9, <2>7
  <2> QED BY <1>9, <2>4, <2>5, <2>7, <2>8 DEF ProperAs, SettledAs, In, Covering
<1>10. CASE /\ r.cancel \/ (PendingWaits(r) = {} /\ ~In(r.state, OwnedPark))
            /\ \/ s = Running
               \/ s.kind = "parked" /\ s.why = "needs-input" /\ s.hold = "none"
               \/ /\ s.kind = "parked" /\ s.why \in {"awaiting-decision", "dependency"} /\ ~Live(r)
                  /\ s.hold = IF IsParked(r) THEN r.state.hold ELSE "none"
  <2> DEFINE Goal == /\ k.kind # "terminal"
                     /\ \/ k.kind = "running" /\ k.hold = "none"
                        \/ k.kind = "parked" /\ k.why = "needs-input"
                        \/ k.kind = "parked" /\ k.why \in {"awaiting-decision", "dependency"} /\ ~Live(r)
                        \/ k.kind = "parked" /\ k.why = "operator-hold" /\ k.hold # "none"
  <2>1. /\ Running.kind = "running" /\ Running.hold = "none" BY DEF Running, State
  <2>2. /\ s.kind \in {"running", "parked"}
        /\ s.kind = "running" => s.hold = "none"
        /\ s.kind = "parked" => \/ s.why = "needs-input"
                                \/ s.why \in {"awaiting-decision", "dependency"} /\ ~Live(r)
    BY <1>10, <2>1
  <2>3. Goal
    <3>1. CASE none BY <1>1, <2>2, <3>1
    <3>2. CASE ~none /\ s.kind = "parked" BY <1>1, <1>3, <2>2, <3>2
    <3>3. CASE ~none /\ s.kind = "running" BY <1>1, <1>4, <2>2, <3>3
    <3> QED BY <2>2, <3>1, <3>2, <3>3
  <2>6. r.state.hold # "none" /\ ~r.cancel => k.hold = r.state.hold
    <3> SUFFICES ASSUME r.state.hold # "none", ~r.cancel PROVE k.hold = r.state.hold OBVIOUS
    <3>1. ~none BY <1>5, <1>6, <1>10
    <3>2. CASE s.kind = "parked" BY <1>1, <1>3, <3>1, <3>2
    <3>3. CASE s.kind = "running" BY <1>1, <1>4, <3>1, <3>3
    <3> QED BY <2>2, <3>2, <3>3
  <2>4. ProperAs(r, k) BY <1>10, <2>3 DEF ProperAs, In
  <2>5. SettledAs(r, k) BY <1>10, <2>3 DEF SettledAs, In
  <2> QED BY <2>3, <2>4, <2>5, <2>6
<1> QED BY <1>7, <1>8, <1>9, <1>10 DEF ClassifiedAs

\* A reclassification sorts a Run that has its reasons, keeps its hold, and
\* ends it for no deadline.
LEMMA ReconcileSorts ==
  ASSUME NEW r \in RunType, Clock, Proper(r)
  PROVE  Sorted(Reconcile(r)) /\ Honours(r, Reconcile(r))
<1>1. CASE IsEnded(r)
  <2>1. Reconcile(r) = r BY <1>1 DEF Reconcile
  <2>2. SettledAs(r, r.state) BY <1>1 DEF SettledAs, In, IsEnded
  <2> QED BY <1>1, <2>1, <2>2 DEF Sorted, Honours
<1>2. CASE ~IsEnded(r)
  <2> DEFINE closed == [r EXCEPT !.phase = SkipDoomed(r.phase)]
             s == Classify(closed)
             k == KeepHold(closed, s)
             next == [closed EXCEPT !.state = k]
  <2>1. Waits(r) BY DEF Proper
  <2>2. /\ closed \in RunType /\ closed.state = r.state /\ closed.cancel = r.cancel
        /\ closed.effects = r.effects /\ closed.bind = r.bind /\ Keeps(r, closed)
        /\ PendingWaits(closed) = PendingWaits(r) /\ RefusedWaits(closed) = RefusedWaits(r)
        /\ Live(closed) <=> Live(r)
    BY <2>1, SkipKeeps
  <2>3. Reconcile(r) = next
    BY <1>2, <2>2 DEF Reconcile, KeepHold, ParkedFor, IsParked
  <2>4. s \in StateType BY <2>2, ClassifyFits
  <2>5. ClassifiedAs(closed, s) BY <2>2, ClassifyCases
  <2> HIDE DEF s
  <2>6. Accepted(r) \subseteq Accepted(closed)
    BY <2>2 DEF Keeps, KeepsAt, Accepted, PhaseIn
  <2> HIDE DEF closed
  <2>7. Waits(closed)
    BY <2>1, <2>2, <2>6 DEF Waits
  <2>8. Proper(closed)
    <3>1. ProperAs(closed, closed.state) BY <2>2, KeepsProper DEF Proper
    <3> QED BY <2>7, <3>1 DEF Proper
  <2>9. ~IsEnded(closed) BY <1>2, <2>2 DEF IsEnded
  <2>10. /\ ProperAs(closed, k) /\ SettledAs(closed, k)
         /\ r.state.hold # "none" /\ ~r.cancel => k.hold = r.state.hold \/ k.kind = "terminal"
         /\ k.kind = "terminal" => k.why # "park-timeout"
    BY <2>2, <2>4, <2>5, <2>8, <2>9, ClassifySorts
  <2>11. k \in StateType BY <2>2, <2>4, KeepHoldFits
  <2> HIDE DEF k
  <2>12. /\ next \in RunType /\ next.state = k /\ next.cancel = r.cancel
         /\ next.phase = closed.phase /\ next.bind = closed.bind /\ next.effects = closed.effects
    BY <2>2, <2>11, SetStateFits DEF RunType
  <2> HIDE DEF next
  <2>13. ProperAs(next, k) /\ SettledAs(next, k) /\ Waits(next)
    <3>1. /\ PendingWaits(next) = PendingWaits(closed) /\ RefusedWaits(next) = RefusedWaits(closed)
          /\ Binds(next, "launch-refused") = Binds(closed, "launch-refused")
          /\ Waiting(next) = Waiting(closed) /\ Accepted(next) = Accepted(closed)
          /\ Live(next) <=> Live(closed)
      BY <2>12 DEF PendingWaits, RefusedWaits, Binds, Waiting, Accepted, Live
    <3>2. WaitsOf(next, Waiting(next)) = WaitsOf(closed, Waiting(closed))
      BY <2>12, <3>1 DEF WaitsOf
    <3> QED BY <2>2, <2>7, <2>10, <2>12, <3>1, <3>2 DEF ProperAs, SettledAs, Waits
  <2> QED BY <2>3, <2>10, <2>12, <2>13 DEF Sorted, Proper, Honours, IsEnded
<1> QED BY <1>1, <1>2

\* A reclassification closes no wait.
LEMMA ReconcileWaits ==
  ASSUME NEW r \in RunType, Clock, Waits(r)
  PROVE  PendingWaits(Reconcile(r)) = PendingWaits(r)
<1>1. CASE IsEnded(r) BY <1>1, ReconcileFits
<1>2. CASE ~IsEnded(r)
  <2> DEFINE closed == [r EXCEPT !.phase = SkipDoomed(r.phase)]
             q == Reconcile(r)
  <2>1. closed.phase = SkipDoomed(r.phase) /\ closed.bind = r.bind BY DEF RunType
  <2>2. q.phase = closed.phase /\ q.bind = closed.bind BY <1>2, <2>1, ReconcileFits
  <2>3. PendingWaits(closed) = PendingWaits(r) BY SkipKeeps
  <2> HIDE DEF q, closed
  <2>4. PendingWaits(q) = PendingWaits(closed) BY <2>2 DEF PendingWaits, Waiting, Binds
  <2> QED BY <2>3, <2>4 DEF q
<1> QED BY <1>1, <1>2

\* A Run with nothing in work and nothing to start is not classified as running.
LEMMA ReconcileStops ==
  ASSUME NEW r \in RunType, Clock, ~IsParked(r), ~IsEnded(r), ~Live(r),
         PhaseIn(r.phase, {"pending"}) = {}
  PROVE  Reconcile(r).state.kind # "running"
<1> DEFINE closed == [r EXCEPT !.phase = SkipDoomed(r.phase)]
           s == Classify(closed)
<1>1. r.phase \in [Task -> Phase] /\ SkipDoomed(r.phase) \in [Task -> Phase]
  BY FieldsOf, SkipFits
<1>2. \A t \in Task : SkipDoomed(r.phase)[t] = r.phase[t]
  BY DEF SkipDoomed, Doomed
<1>3. SkipDoomed(r.phase) = r.phase BY <1>1, <1>2
<1>4. closed \in RunType /\ closed.phase = r.phase /\ closed.effects = r.effects /\ closed.state = r.state
  BY <1>3 DEF RunType
<1>5. Reconcile(r) = [closed EXCEPT !.state = s]
  BY DEF Reconcile, KeepHold
<1>6. ClassifiedAs(closed, s) BY <1>4, ClassifyCases
<1> HIDE DEF s
<1>7. Reconcile(r).state = s BY <1>4, <1>5 DEF RunType
<1> HIDE DEF closed
<1>8. ~Live(closed) BY <1>4 DEF Live
<1>9. \A t \in Task : ~Startable(closed.phase, closed.effects, t)
  BY <1>4 DEF Startable, PhaseIn
<1>10. s.kind # "running"
  BY <1>4, <1>6, <1>8, <1>9 DEF ClassifiedAs, In, Parked, State
<1> QED BY <1>7, <1>10

\* A task that may start still may, when it is pending and no task is unsettled.
LEMMA OfferedGrows ==
  ASSUME NEW r \in RunType, NEW m \in RunType, NEW t \in Offered(r),
         m.phase[t] = "pending", t \notin m.effects,
         \A u \in Task : r.phase[u] \in Settled => m.phase[u] = r.phase[u]
  PROVE  t \in Offered(m)
<1>1. t \in Task /\ OpenDependencies(r.phase, t) = {} BY DEF Offered, Startable
<1>2. PhaseIn(r.phase, {"accepted"}) \subseteq PhaseIn(m.phase, {"accepted"})
      /\ PhaseIn(r.phase, Settled) \subseteq PhaseIn(m.phase, Settled)
  BY DEF PhaseIn, Settled
<1>3. OpenDependencies(m.phase, t) = {} BY <1>1, <1>2 DEF OpenDependencies
<1> QED BY <1>1, <1>3 DEF Offered, Startable

\* A change that leaves the tasks alone eases them, and a park made of it needs no
\* work.
LEMMA EasesTasks ==
  ASSUME NEW r, NEW m, m.bind = r.bind, m.phase = r.phase, m.effects = r.effects, m.cancel = r.cancel
  PROVE  Eases(r, m)
  BY DEF Eases, EasesAt

\* What a step eases stays eligible, and no wait is left behind.
LEMMA EasesEligible ==
  ASSUME NEW r \in RunType, NEW m \in RunType, Eases(r, m), Eligible(r)
  PROVE  /\ Eligible(m)
         /\ Waiting(m) \subseteq Waiting(r)
         /\ Kept(r) /\ (IsEnded(r) => IsEnded(m)) => Kept(m)
<1>1. m.cancel => PhaseIn(m.phase, {"pending"}) = {}
  BY DEF Eases, EasesAt, Eligible, PhaseIn
<1>2. ASSUME NEW t \in PendingWaits(m) PROVE t \in Offered(m)
  <2>1. /\ t \in Task /\ m.bind[t].kind = "quota-exhausted" /\ m.phase[t] = "pending"
        /\ EasesAt(r, m, t)
    BY <1>2, WaitSets DEF Eases
  <2>2. r.phase[t] = "pending" /\ m.bind[t] = r.bind[t] /\ (t \in m.effects => t \in r.effects)
    BY <2>1 DEF EasesAt
  <2>3. t \in PendingWaits(r) BY <2>1, <2>2, WaitSets
  <2>4. t \in Offered(r) /\ t \notin m.effects
    BY <2>2, <2>3 DEF Eligible, Offered, Startable
  <2> QED BY <2>1, <2>4, OfferedGrows DEF Eases, EasesAt
<1>3. RefusedWaits(m) = {}
  <2> SUFFICES ASSUME NEW t \in RefusedWaits(m) PROVE FALSE OBVIOUS
  <2>1. /\ t \in Task /\ m.bind[t].kind = "launch-refused" /\ m.phase[t] = "pending"
        /\ EasesAt(r, m, t)
    BY WaitSets DEF Eases
  <2>2. t \in RefusedWaits(r) BY <2>1, WaitSets DEF EasesAt
  <2> QED BY <2>2 DEF Eligible
<1>4. \A t \in Waiting(m) : t \in Waiting(r) /\ (r.phase[t] = "pending" => m.phase[t] = "pending")
  BY WaitSets DEF Eases, EasesAt
<1>5. ASSUME Kept(r), IsEnded(r) => IsEnded(m) PROVE Kept(m)
  <2> SUFFICES ASSUME ~m.cancel, ~IsEnded(m), NEW t \in Waiting(m) PROVE t \in PendingWaits(m)
    BY DEF Kept
  <2>1. t \in PendingWaits(r) BY <1>4, <1>5 DEF Kept, Eases
  <2> QED BY <1>4, <2>1, WaitSets
<1> QED BY <1>1, <1>2, <1>3, <1>4, <1>5 DEF Eligible

\* A reclassified Run runs only when it has work, drops no wait and takes no hold.
LEMMA ReconcileBusy ==
  ASSUME NEW r \in RunType, Clock, Waits(r), Eligible(r)
  PROVE  LET q == Reconcile(r)
         IN Busy(q) /\ (Kept(r) => Kept(q)) /\ (Spared(r) => Spared(q))
<1>1. CASE IsEnded(r)
  <2>1. Reconcile(r) = r BY <1>1 DEF Reconcile
  <2> QED BY <1>1, <2>1 DEF Busy, IsEnded
<1>2. CASE ~IsEnded(r)
  <2> DEFINE closed == [r EXCEPT !.phase = SkipDoomed(r.phase)]
             s == Classify(closed)
             k == KeepHold(closed, s)
             next == [closed EXCEPT !.state = k]
  <2>1. /\ closed \in RunType /\ closed.state = r.state /\ closed.cancel = r.cancel
        /\ closed.effects = r.effects /\ closed.bind = r.bind
        /\ PendingWaits(closed) = PendingWaits(r) /\ RefusedWaits(closed) = RefusedWaits(r)
    BY SkipKeeps
  <2>2. \A t \in Task : \/ closed.phase[t] = r.phase[t]
                        \/ r.phase[t] = "pending" /\ closed.phase[t] = "skipped"
    BY DEF RunType, SkipDoomed, Doomed, PhaseIn
  <2>3. Reconcile(r) = next
    BY <1>2, <2>1 DEF Reconcile, KeepHold, ParkedFor, IsParked
  <2>4. ClassifiedAs(closed, s) /\ s \in StateType BY <2>1, ClassifyCases, ClassifyFits
  <2> HIDE DEF s, closed
  <2>5. /\ k.kind = "running" => s.kind = "running"
        /\ r.state.hold = "none" => k.hold = "none"
        /\ k \in StateType
    <3>1. k \in StateType BY <2>1, <2>4, KeepHoldFits
    <3>2. k.kind = "running" => s.kind = "running"
      BY <2>4 DEF KeepHold, Held, Parked, State, StateType
    <3>3. r.state.hold = "none" => k = s BY <2>1 DEF KeepHold
    <3>4. r.state.hold = "none" => s.hold = "none"
      BY <2>1, <2>4 DEF ClassifiedAs, Parked, Running, State
    <3> QED BY <3>1, <3>2, <3>3, <3>4
  <2>6. s.kind = "running" => Live(closed) \/ Offered(closed) # {}
    BY <2>4 DEF ClassifiedAs, In, Parked, State, Offered
  <2>7. Eligible(closed)
    <3>1. \A t \in Task : closed.phase[t] = "pending" => r.phase[t] = "pending" BY <2>2
    <3>2. \A t \in Task : r.phase[t] \in Settled => closed.phase[t] = r.phase[t]
      BY <2>2 DEF Settled, Dead
    <3>3. ASSUME NEW t \in PendingWaits(closed) PROVE t \in Offered(closed)
      <4>1. t \in Offered(r) /\ closed.phase[t] = "pending" /\ t \notin closed.effects
        BY <2>1, <3>3, WaitSets DEF Eligible, Offered, Startable
      <4> QED BY <2>1, <3>2, <4>1, OfferedGrows
    <3> QED BY <2>1, <3>1, <3>3 DEF Eligible, PhaseIn
  <2> HIDE DEF k
  <2>8. /\ next \in RunType /\ next.state = k /\ next.cancel = r.cancel
        /\ next.phase = closed.phase /\ next.bind = closed.bind /\ next.effects = closed.effects
    BY <2>1, <2>5, SetStateFits DEF RunType
  <2> HIDE DEF next
  <2>9. /\ PendingWaits(next) = PendingWaits(closed) /\ RefusedWaits(next) = RefusedWaits(closed)
        /\ Waiting(next) = Waiting(r) /\ Offered(next) = Offered(closed)
        /\ Live(next) <=> Live(closed)
    BY <2>1, <2>8 DEF PendingWaits, RefusedWaits, Waiting, Binds, Offered, Live
  <2>10. Busy(next) BY <2>1, <2>5, <2>6, <2>7, <2>8, <2>9 DEF Busy, Eligible
  <2>11. Kept(r) => Kept(next) BY <1>2, <2>1, <2>8, <2>9 DEF Kept
  <2>12. Spared(r) => Spared(next) BY <2>5, <2>8, <2>9 DEF Spared
  <2> QED BY <2>3, <2>10, <2>11, <2>12
<1> QED BY <1>1, <1>2

\* A Run whose tasks are left alone and which does not run needs no work.
LEMMA WorksTasks ==
  ASSUME NEW r \in RunType, NEW q \in RunType, q.bind = r.bind, q.phase = r.phase,
         q.effects = r.effects, q.cancel = r.cancel, q.state.kind # "running",
         IsEnded(r) => IsEnded(q),
         HoldSources = {} /\ r.state.hold = "none" => q.state.hold = "none"
  PROVE  Works(r, q)
<1> SUFFICES ASSUME Kept(r), Busy(r) PROVE Busy(q) /\ (Spared(r) => Spared(q) /\ Kept(q))
  BY DEF Works
<1>1. Eases(r, q) BY EasesTasks
<1>2. Eligible(q) /\ Kept(q) /\ Waiting(q) \subseteq Waiting(r) BY <1>1, EasesEligible DEF Busy
<1> QED BY <1>2 DEF Busy, Spared

\* A running state needs no reason, and an ended one no park.
LEMMA RunningProper == \A r : ProperAs(r, Running)
  BY DEF ProperAs, In, Running, State

LEMMA EndedSorts ==
  ASSUME NEW q, q.state.kind = "terminal", q.state.hold = "none", Waits(q) PROVE Sorted(q)
  BY DEF Sorted, Proper, ProperAs, SettledAs, In

\* Waits look at bindings, phases and cancellation only.
LEMMA SameWaits ==
  ASSUME NEW r, NEW q, q.bind = r.bind, q.phase = r.phase, q.cancel = r.cancel
  PROVE  /\ PendingWaits(q) = PendingWaits(r) /\ RefusedWaits(q) = RefusedWaits(r)
         /\ Waiting(q) = Waiting(r) /\ Waits(q) <=> Waits(r)
         /\ \A s : ProperAs(q, s) <=> ProperAs(r, s)
<1>1. PendingWaits(q) = PendingWaits(r) /\ RefusedWaits(q) = RefusedWaits(r) /\ Waiting(q) = Waiting(r)
      /\ Binds(q, "launch-refused") = Binds(r, "launch-refused") /\ Accepted(q) = Accepted(r)
  BY DEF PendingWaits, RefusedWaits, Waiting, Binds, Accepted
<1>2. WaitsOf(q, Waiting(q)) = WaitsOf(r, Waiting(r)) BY <1>1 DEF WaitsOf
<1>3. Waits(q) <=> Waits(r) BY <1>1 DEF Waits
<1>4. \A s : ProperAs(q, s) <=> ProperAs(r, s) BY <1>1, <1>2 DEF ProperAs
<1> QED BY <1>1, <1>3, <1>4

----------------------------------------------------------------------------
(* Time *)

\* What time does to the park of a Run: its hold stays until it ends, while a task
\* waits for quota the deadline that ends it is not that of the wait, and a Run
\* that is let go has something to do.
TimeKeeps(r, q) ==
  /\ Sorted(q)
  /\ r.state.hold # "none" /\ ~q.cancel => q.state.hold = r.state.hold \/ IsEnded(q)
  /\ In(r.state, {"quota-exhausted"}) /\ r.state.hold = "none" /\ PendingWaits(r) # {} /\ ~r.cancel
       => ~(IsEnded(q) /\ q.state.why = "park-timeout")
  /\ Works(r, q)

\* A wait that ended at its reset is superseded, and one that ran out is asked
\* about.
LEMMA QuotaTime ==
  ASSUME NEW r \in RunType, Clock, Sorted(r), Ordered(r)
  PROVE  /\ QuotaReset(r) => TimeKeeps(r, ResetQuota(r))
         /\ QuotaAskDue(r) => TimeKeeps(r, AskQuota(r))
<1>1. ASSUME QuotaReset(r) PROVE TimeKeeps(r, ResetQuota(r))
  <2> DEFINE S == Waiting(r)
             m == Supersede(r, S, "quota-exhausted")
             q == [m EXCEPT !.state = Running]
  <2>1. m \in RunType /\ Retires(r, m, S, "quota-exhausted")
    BY SupersedeFits, SupersedeRetires, DeadlinesFit DEF ClosedKind
  <2>2. ResetQuota(r) = q BY DEF ResetQuota
  <2> HIDE DEF m
  <2>3. /\ q \in RunType /\ q.state = Running /\ q.cancel = r.cancel /\ q.phase = r.phase
        /\ q.effects = r.effects
        /\ \A t \in Task : q.bind[t] = IF t \in S THEN Unbound ELSE r.bind[t]
    BY <2>1, SetStateFits, StatesFit DEF Retires, RunType
  <2> HIDE DEF q
  <2>4. PendingWaits(q) = {}
    <3> SUFFICES ASSUME NEW t \in PendingWaits(q) PROVE FALSE OBVIOUS
    <3>1. t \in Task /\ q.bind[t].kind = "quota-exhausted" BY WaitSets
    <3>2. t \notin S BY <2>3, <3>1 DEF Unbound
    <3> QED BY <2>3, <3>1, <3>2, WaitSets
  <2>5. \A t \in RefusedWaits(q) : t \in RefusedWaits(r)
    <3> TAKE t \in RefusedWaits(q)
    <3>1. t \in Task /\ q.bind[t].kind = "launch-refused" /\ r.phase[t] = "pending"
      BY <2>3, WaitSets
    <3>2. t \notin S BY <2>3, <3>1 DEF Unbound
    <3> QED BY <2>3, <3>1, <3>2, WaitSets
  <2>6. Accepted(q) = Accepted(r) BY <2>3 DEF Accepted
  <2>7. Waits(q) BY <2>4, <2>5, <2>6 DEF Waits, Sorted, Proper
  <2>8. Proper(q) BY <2>3, <2>7, RunningProper DEF Proper
  <2>9. q.state.kind = "running" /\ r.state.hold = "none"
    BY <1>1, <2>3 DEF QuotaReset, Running, State
  <2>10. SettledAs(q, q.state) BY <2>4, <2>9 DEF SettledAs, In
  <2>11. ASSUME Kept(r), Busy(r) PROVE Busy(q) /\ (Spared(r) => Spared(q) /\ Kept(q))
    <3>1. /\ ~r.cancel /\ ~IsEnded(r) /\ \E t : t \in Waiting(r)
      BY <1>1 DEF QuotaReset, ParkedFor, IsParked, IsEnded
    <3>2. PICK t \in Waiting(r) : TRUE BY <3>1
    <3>3. t \in Offered(r) BY <2>11, <3>1, <3>2 DEF Kept, Busy, Eligible
    <3>4. Offered(q) = Offered(r) BY <2>3 DEF Offered
    <3>5. Waiting(q) = {}
      <4> SUFFICES ASSUME NEW u \in Waiting(q) PROVE FALSE OBVIOUS
      <4>1. u \in Task /\ q.bind[u].kind = "quota-exhausted" BY WaitSets
      <4>2. u \notin S BY <2>3, <4>1 DEF Unbound
      <4> QED BY <2>3, <4>1, <4>2, WaitSets
    <3>6. RefusedWaits(q) = {} BY <2>5, <2>11 DEF Busy, Eligible
    <3>7. Eligible(q) BY <2>3, <2>4, <3>1, <3>6 DEF Eligible
    <3>8. q.state.hold = "none" BY <2>3 DEF Running, State
    <3> QED BY <3>3, <3>4, <3>5, <3>7, <3>8 DEF Busy, Spared, Kept
  <2> QED BY <2>2, <2>8, <2>9, <2>10, <2>11 DEF TimeKeeps, Works, Sorted, IsEnded
<1>2. ASSUME QuotaAskDue(r) PROVE TimeKeeps(r, AskQuota(r))
  <2> DEFINE s == Parked("quota-ask", "none", AskOpen)
             q == [r EXCEPT !.state = s]
  <2>1. AskQuota(r) = q BY DEF AskQuota
  <2>2. /\ q.state = s /\ q.cancel = r.cancel /\ q.phase = r.phase /\ q.bind = r.bind
        /\ q.effects = r.effects /\ q \in RunType
    <3>1. s \in StateType BY StatesFit, ReasonsFit, DeadlinesFit DEF HoldKind
    <3> HIDE DEF s
    <3> QED BY <3>1, SetStateFits DEF RunType
  <2>3. s.kind = "parked" /\ s.why = "quota-ask" /\ s.hold = "none" BY DEF Parked, State
  <2> HIDE DEF q, s
  <2>7. Works(r, q)
    <3>1. ~IsEnded(r) /\ q.state.kind # "running" /\ q.state.hold = "none"
      BY <1>2, <2>2, <2>3 DEF QuotaAskDue, ParkedFor, IsParked, IsEnded
    <3> QED BY <2>2, <3>1, WorksTasks
  <2>4. Waits(q) BY <2>2, SameWaits DEF Sorted, Proper
  <2>5. ProperAs(q, s) /\ SettledAs(q, s) BY <2>3 DEF ProperAs, SettledAs, In, Covering
  <2>6. r.state.hold = "none" BY <1>2 DEF QuotaAskDue
  <2> QED BY <2>1, <2>2, <2>3, <2>4, <2>5, <2>6, <2>7 DEF TimeKeeps, Sorted, Proper, IsEnded
<1> QED BY <1>1, <1>2

\* Passed deadlines.
LEMMA ExpireParks ==
  ASSUME NEW r \in RunType, Clock, Sound(r), Sorted(r), NEW att, Linked(r, att), ~IsEnded(r),
         ~QuotaAskDue(r), ~Refused(Expire(r))
  PROVE  TimeKeeps(r, Expire(r))
<1> DEFINE drop == IF Due(r) /\ ParkedFor(r, Expiring)
                   THEN PhaseIn(r.phase, {"pending"}) \ r.effects ELSE {}
           late == {t \in Awaiting(r) : r.decision[t].deadline <= now \/ Due(r)}
           past == \E t \in Task : r.decision[t].reason # "none" /\ r.decision[t].deadline <= now
           dropped == SetPhases(r, drop, "cancelled")
           failed == SetPhases(dropped, late, "failed")
           settled == ClearDecisions(failed, late)
           over == Due(r) /\ ParkedFor(r, Expiring \ {"needs-input"}) /\ ~Live(settled)
           freed == IF over THEN [settled EXCEPT !.state = Running] ELSE settled
           next == Reconcile(freed)
           end == Ended(IF HasAccepted(next) THEN "incomplete" ELSE "failed", "park-timeout")
           ended == [next EXCEPT !.state = end]
           out == (Due(r) \/ (past /\ IsParked(next))) /\ IsParked(next) /\ ~Live(settled)
<1>1. late \subseteq PhaseIn(r.phase, {"awaiting"}) BY DEF Sound, Asks
<1>2. drop \subseteq PhaseIn(r.phase, {"pending"}) OBVIOUS
<1>3. Due(r) => Awaiting(r) \subseteq late OBVIOUS
<1>4. /\ Due(r) /\ ParkedFor(r, Expiring) => PhaseIn(r.phase, {"pending"}) \ r.effects \subseteq drop
      /\ ~(Due(r) /\ ParkedFor(r, Expiring)) => drop = {}
  OBVIOUS
<1> HIDE DEF drop
<1>5. dropped \in RunType /\ failed \in RunType /\ settled \in RunType
  BY SetPhasesFits, ClearDecisionsFits, DeadlinesFit DEF Phase
<1> HIDE DEF late
<1>6. /\ settled.effects = r.effects /\ settled.bind = r.bind /\ settled.state = r.state
      /\ settled.cancel = r.cancel
      /\ \A t \in Task : settled.phase[t] = IF t \in late THEN "failed"
                                            ELSE IF t \in drop THEN "cancelled" ELSE r.phase[t]
  BY DEF SetPhases, ClearDecisions, RunType
<1>7. Expire(r) = IF out THEN ended ELSE next
  BY Zenon DEF Expire, ended, end, drop, late, past, dropped, failed, settled, freed, next, over, out
<1> HIDE DEF settled, failed, dropped
<1>8. Keeps(r, settled)
  <2>1. \A t \in Task : \/ settled.phase[t] = r.phase[t]
                        \/ r.phase[t] \notin Settled /\ settled.phase[t] \in Settled
    BY <1>1, <1>2, <1>6 DEF PhaseIn, Settled, Dead
  <2>2. RefusedWaits(r) \subseteq RefusedWaits(settled) \/ PendingWaits(settled) = {}
    <3>1. CASE drop = {}
      <4>1. \A t \in RefusedWaits(r) : settled.phase[t] = "pending"
        BY <1>1, <1>6, <3>1, WaitSets DEF PhaseIn
      <4> QED BY <1>6, <4>1, WaitSets
    <3>2. CASE drop # {}
      <4> SUFFICES ASSUME NEW t \in PendingWaits(settled) PROVE FALSE OBVIOUS
      <4>1. t \in Task /\ r.bind[t].kind = "quota-exhausted" /\ settled.phase[t] = "pending"
        BY <1>6, WaitSets
      <4>2. t \notin r.effects BY <4>1 DEF Linked, LinkAt
      <4>3. r.phase[t] = "pending" /\ t \notin drop BY <1>6, <4>1
      <4> QED BY <1>4, <3>2, <4>1, <4>2, <4>3 DEF PhaseIn
    <3> QED BY <3>1, <3>2
  <2> QED BY <1>5, <1>6, <2>1, <2>2, KeepsClosing
<1>9. Waits(settled) BY <1>5, <1>8, KeepsWaits DEF Sorted, Proper, Sound
<1>10. Proper(freed)
  <2>1. CASE over
    <3>1. /\ freed.state = Running /\ freed.bind = settled.bind /\ freed.phase = settled.phase
          /\ freed.cancel = settled.cancel
      BY <1>5, <2>1 DEF RunType
    <3> HIDE DEF freed
    <3> QED BY <1>9, <3>1, SameWaits, RunningProper DEF Proper
  <2>2. CASE ~over
    <3>1. freed = settled BY <2>2
    <3>2. ProperAs(settled, settled.state) BY <1>5, <1>6, <1>8, KeepsProper DEF Sorted, Proper
    <3> QED BY <1>9, <3>1, <3>2 DEF Proper
  <2> QED BY <2>1, <2>2
<1>11. /\ freed \in RunType /\ freed.phase = settled.phase /\ freed.effects = settled.effects
       /\ freed.bind = settled.bind /\ freed.cancel = settled.cancel
       /\ freed.state = IF over THEN Running ELSE r.state
  BY <1>5, <1>6, SetStateFits, StatesFit DEF RunType
<1>12. ~IsEnded(freed) BY <1>11 DEF IsEnded, Running, State
<1> HIDE DEF freed
<1>13. next \in RunType /\ next.cancel = r.cancel /\ Sorted(next) /\ Honours(freed, next)
  BY <1>6, <1>10, <1>11, ReconcileSorts, ReconcileFits
<1>14. PendingWaits(next) = PendingWaits(freed) BY <1>10, <1>11, ReconcileWaits DEF Proper
<1>15. over => next.state.kind # "running"
  <2> SUFFICES ASSUME over PROVE next.state.kind # "running" OBVIOUS
  <2>1. ParkedFor(r, Expiring) BY DEF ParkedFor, Expiring
  <2>2. r.effects = {} BY <1>6 DEF Live
  <2>3. PhaseIn(freed.phase, {"pending"}) = {}
    BY <1>4, <1>6, <1>11, <2>1, <2>2 DEF PhaseIn
  <2>4. ~Live(freed) BY <1>11 DEF Live
  <2>5. ~IsParked(freed) BY <1>11 DEF IsParked, Running, State
  <2> HIDE DEF over
  <2> QED BY <1>11, <1>12, <2>3, <2>4, <2>5, ReconcileStops
<1> HIDE DEF next
<1>16. /\ ended.state = end /\ ended.bind = next.bind /\ ended.phase = next.phase
       /\ ended.cancel = next.cancel /\ ended.effects = next.effects
       /\ ended \in RunType
  <2>1. end \in StateType BY StatesFit DEF Outcome, EndReason
  <2> HIDE DEF end
  <2> QED BY <1>13, <2>1, SetStateFits DEF RunType
<1>17. end.kind = "terminal" /\ end.why = "park-timeout" /\ end.hold = "none"
  BY DEF Ended, State
<1> HIDE DEF ended, end
<1>18. Sorted(ended)
  <2>1. Waits(ended) BY <1>13, <1>16, SameWaits DEF Sorted, Proper
  <2> QED BY <1>16, <1>17, <2>1, EndedSorts
<1>19. ASSUME Kept(r), Busy(r) PROVE Busy(next) /\ (Spared(r) => Spared(next) /\ Kept(next))
  <2>1. Spared(r) => Spared(freed)
    <3>1. Waiting(freed) = Waiting(r) BY <1>6, <1>11 DEF Waiting, Binds
    <3>2. r.state.hold = "none" => freed.state.hold = "none" BY <1>11 DEF Running, State
    <3> QED BY <3>1, <3>2 DEF Spared
  <2>2. CASE drop = {}
    <3>1. \A t \in Task : freed.phase[t] = IF t \in late THEN "failed" ELSE r.phase[t]
      BY <1>6, <1>11, <2>2
    <3>2. \A t \in late : r.phase[t] = "awaiting" BY <1>1 DEF PhaseIn
    <3>3. Eases(r, freed)
      BY <1>6, <1>11, <3>1, <3>2 DEF Eases, EasesAt, Settled, Dead
    <3>4. Eligible(freed) /\ Kept(freed) BY <1>11, <1>19, <3>3, EasesEligible DEF Busy
    <3> QED BY <1>10, <1>11, <2>1, <3>4, ReconcileBusy DEF Proper, next
  <2>3. CASE drop # {}
    <3>1. Due(r) /\ ParkedFor(r, Expiring) /\ PhaseIn(r.phase, {"pending"}) # {}
      BY <1>2, <1>4, <2>3
    <3>2. ~r.cancel BY <1>19, <3>1 DEF Busy, Eligible
    <3>3. ASSUME NEW t \in Task, freed.phase[t] = "pending" PROVE FALSE
      <4>1. r.phase[t] = "pending" /\ t \notin drop BY <1>6, <1>11, <3>3
      <4>2. t \in r.effects BY <1>4, <3>1, <4>1 DEF PhaseIn
      <4>3. r.bind[t].kind = "launch-refused"
        BY <4>1, <4>2, FieldsOf DEF Linked, LinkAt, BindType, ObservedKind, Settled, Dead
      <4>4. t \in RefusedWaits(r) BY <4>1, <4>3, WaitSets
      <4> QED BY <1>19, <4>4 DEF Busy, Eligible
    <3>4. Eligible(freed)
      <4>1. PendingWaits(freed) = {} /\ RefusedWaits(freed) = {} BY <3>3, WaitSets
      <4> QED BY <1>6, <1>11, <3>2, <4>1 DEF Eligible
    <3>5. Busy(next) /\ (Spared(freed) => Spared(next))
      BY <1>10, <1>11, <3>4, ReconcileBusy DEF Proper, next
    <3>6. ASSUME Spared(r) PROVE Kept(next)
      <4>1. Waiting(next) = Waiting(r) BY <1>6, <1>11, ReconcileFits DEF next, Waiting, Binds
      <4> SUFFICES ASSUME NEW t \in Waiting(r) PROVE FALSE BY <4>1 DEF Kept
      <4>2. r.state.hold = "none" BY <3>6 DEF Spared
      <4>3. t \in PendingWaits(r) BY <1>19, <3>2 DEF Kept
      <4>4. In(r.state, Covering) BY <1>19, <3>2, <4>3 DEF Busy, Eligible, Sorted, SettledAs, IsEnded
      <4>5. In(r.state, {"quota-exhausted"})
        BY <3>1, <4>2, <4>4, ParkedIsIn DEF In, Covering, Expiring, Sorted, Proper, ProperAs
      <4> QED BY <3>1, <3>2, <4>2, <4>5, ParkedIsIn DEF QuotaAskDue
    <3> QED BY <2>1, <3>5, <3>6
  <2> QED BY <2>2, <2>3
<1>20. Works(r, Expire(r))
  <2>1. CASE ~out BY <1>7, <1>19, <2>1 DEF Works
  <2>2. CASE out
    <3> SUFFICES ASSUME Kept(r), Busy(r)
                 PROVE  Busy(ended) /\ (Spared(r) => Spared(ended) /\ Kept(ended))
      BY <1>7, <2>2 DEF Works
    <3>1. Eligible(next) /\ (Spared(r) => Spared(next)) BY <1>19 DEF Busy
    <3>2. Eligible(ended) /\ Waiting(ended) \subseteq Waiting(next)
      BY <1>13, <1>16, <3>1, EasesTasks, EasesEligible
    <3> QED BY <1>16, <1>17, <3>1, <3>2 DEF Busy, Spared, Kept, IsEnded
  <2> QED BY <2>1, <2>2
<1>21. CASE ~out
  <2>1. Expire(r) = next BY <1>7, <1>21
  <2>2. ~IsEnded(next) => ~over
    BY <1>13, <1>15, <1>21, FieldsOf DEF IsEnded, IsParked, StateType
  <2>3. r.state.hold # "none" /\ ~next.cancel => next.state.hold = r.state.hold \/ IsEnded(next)
    BY <1>11, <1>13, <2>2 DEF Honours
  <2>4. ~(IsEnded(next) /\ next.state.why = "park-timeout") BY <1>12, <1>13 DEF Honours
  <2> QED BY <1>13, <1>20, <2>1, <2>3, <2>4 DEF TimeKeeps
<1>22. CASE out
  <2>1. Expire(r) = ended /\ IsEnded(ended) BY <1>7, <1>16, <1>17, <1>22 DEF IsEnded
  <2>2. Closed(ended) BY <2>1 DEF Refused
  <2>3. ASSUME In(r.state, {"quota-exhausted"}), r.state.hold = "none", PendingWaits(r) # {}, ~r.cancel
        PROVE  FALSE
    <3>1. PICK t \in PendingWaits(r) : TRUE BY <2>3
    <3>2. t \in Waiting(r) /\ t \in Task /\ r.phase[t] = "pending" /\ r.bind[t].kind = "quota-exhausted"
      BY WaitSets
    <3>3. ~Due(r) BY <2>3, <3>2, ParkedIsIn DEF QuotaAskDue
    <3>4. drop = {} /\ t \notin late BY <1>1, <1>4, <3>2, <3>3 DEF PhaseIn
    <3>5. t \in PendingWaits(freed) BY <1>6, <1>11, <3>2, <3>4, WaitSets
    <3>6. t \in PendingWaits(next) BY <1>14, <3>5
    <3>7. ended.phase[t] = "pending" BY <1>16, <3>6, WaitSets
    <3> QED BY <2>2, <3>2, <3>7, PhaseKinds DEF Closed, PhaseIn
  <2> QED BY <1>18, <1>20, <2>1, <2>3 DEF TimeKeeps
<1> QED BY <1>21, <1>22

\* Time on every path of advanceRunLifecycle.
LEMMA AdvanceParks ==
  ASSUME NEW r \in RunType, Clock, Sound(r), Sorted(r), NEW att, Linked(r, att),
         ~Refused(Advance(r))
  PROVE  TimeKeeps(r, Advance(r))
<1>1. CASE IsEnded(r)
  <2>1. Advance(r) = r /\ ~In(r.state, {"quota-exhausted"}) BY <1>1 DEF Advance, IsEnded, In
  <2> QED BY <2>1 DEF TimeKeeps, Works
<1>2. CASE ~IsEnded(r) /\ QuotaReset(r)
  <2>1. Advance(r) = ResetQuota(r) BY <1>2 DEF Advance
  <2> QED BY <1>2, <2>1, QuotaTime DEF Sound
<1>3. CASE ~IsEnded(r) /\ ~QuotaReset(r) /\ QuotaAskDue(r)
  <2>1. Advance(r) = AskQuota(r) BY <1>3 DEF Advance
  <2> QED BY <1>3, <2>1, QuotaTime DEF Sound
<1>4. CASE ~IsEnded(r) /\ ~QuotaReset(r) /\ ~QuotaAskDue(r)
  <2>1. Advance(r) = Expire(r) BY <1>4 DEF Advance
  <2> QED BY <1>4, <2>1, ExpireParks
<1> QED BY <1>1, <1>2, <1>3, <1>4

----------------------------------------------------------------------------
(* Steps of the ledger *)

Placed == Traced /\ Sorted(run)

\* What a transaction leaves: a sorted Run, its safety hold unless a person or
\* an ending lifted it, no ending by the deadline of a wait for quota and, where
\* no environment refused an attempt, something to do for a Run that runs.
HoldStep == run.state.hold = "safety" /\ ~run'.cancel =>
  run'.state.hold = "safety" \/ IsEnded(run') \/ Resume("person")
WaitStep ==
  ParkedFor(run, {"quota-exhausted"}) /\ run.state.hold = "none" /\ PendingWaits(run) # {} /\ ~run.cancel
    => ~(IsEnded(run') /\ run'.state.why = "park-timeout")
EnvironmentAnswer == {"env-refused", "env-uncertain"}
Unrefused == \A t \in Task : attempt[t].obs \notin EnvironmentAnswer
WorkStep == Unrefused => Works(run, run')
ParkStep == Sorted(run') /\ HoldStep /\ WaitStep /\ WorkStep

\* A transaction that ends in a state which honours one with the hold of the Run.
LEMMA StepHonours ==
  ASSUME Sorted(run'), NEW m, Honours(m, run'), m.state.hold = run.state.hold,
         IsParked(run) => ~IsEnded(m), WorkStep
  PROVE  ParkStep
  BY DEF ParkStep, HoldStep, WaitStep, Honours, ParkedFor

\* One that leaves the state alone.
LEMMA StepStill ==
  ASSUME Placed, Keeps(run, run'), run'.state = run.state, run'.cancel = run.cancel,
         Live(run') => Live(run) \/ ~In(run.state, {"awaiting-decision", "dependency"}),
         Eases(run, run'),
         Live(run') \/ (run'.phase = run.phase /\ run'.effects = run.effects)
  PROVE  ParkStep
<1>1. Sorted(run') BY TracedTypes, KeepsSorted DEF Placed, Sound
<1>2. Honours(run, run') BY DEF Honours, IsEnded
<1>3. IsParked(run) => ~IsEnded(run) BY DEF IsParked, IsEnded
<1>4. WorkStep
  <2> SUFFICES ASSUME Kept(run), Busy(run)
               PROVE  Busy(run') /\ (Spared(run) => Spared(run') /\ Kept(run'))
    BY DEF WorkStep, Works
  <2>1. run \in RunType /\ run' \in RunType BY TracedTypes DEF Placed
  <2>2. Eligible(run') /\ Waiting(run') \subseteq Waiting(run) /\ Kept(run')
    BY <2>1, EasesEligible DEF Busy, IsEnded
  <2>3. run'.phase = run.phase /\ run'.effects = run.effects =>
          Offered(run') = Offered(run) /\ (Live(run') <=> Live(run))
    BY DEF Offered, Live
  <2> QED BY <2>2, <2>3 DEF Busy, Spared
<1> QED BY <1>1, <1>2, <1>3, <1>4, StepHonours

\* One that does not touch the Run.
LEMMA StepNothing == ASSUME Placed, run' = run PROVE ParkStep
<1>1. Keeps(run, run)
  BY WaitSets DEF Keeps, KeepsAt
<1> QED BY <1>1, EasesTasks, StepStill

\* One that is reclassified after a change which leaves the Run something to do.
LEMMA StepWorks ==
  ASSUME Placed, NEW m \in RunType, Keeps(run, m), Unrefused /\ Busy(run) => Eases(run, m),
         IsEnded(run) => IsEnded(m), run.state.hold = "none" => m.state.hold = "none",
         run' = Reconcile(m)
  PROVE  WorkStep
<1> SUFFICES ASSUME Unrefused, Kept(run), Busy(run)
             PROVE  Busy(run') /\ (Spared(run) => Spared(run') /\ Kept(run'))
  BY DEF WorkStep, Works
<1>1. run \in RunType /\ Clock /\ Ordered(run) BY TracedTypes DEF Placed, Sound
<1>2. Waits(m) BY <1>1, KeepsWaits DEF Placed, Sorted, Proper
<1>3. Eligible(m) /\ Waiting(m) \subseteq Waiting(run) /\ Kept(m)
  BY <1>1, EasesEligible DEF Busy
<1>4. Spared(run) => Spared(m) BY <1>3 DEF Spared
<1> QED BY <1>1, <1>2, <1>3, <1>4, ReconcileBusy

\* One that keeps the state too.
LEMMA StepSorts ==
  ASSUME Placed, NEW m \in RunType, Keeps(run, m), Unrefused /\ Busy(run) => Eases(run, m),
         m.state = run.state, run' = Reconcile(m)
  PROVE  ParkStep
<1>1. run \in RunType /\ Clock /\ Ordered(run) BY TracedTypes DEF Placed, Sound
<1>2. ProperAs(m, m.state) /\ Waits(m)
  BY <1>1, KeepsProper, KeepsWaits DEF Placed, Sorted, Proper
<1>3. Sorted(run') /\ Honours(m, run') BY <1>1, <1>2, ReconcileSorts DEF Proper
<1>4. IsParked(run) => ~IsEnded(m) BY DEF IsParked, IsEnded
<1>5. WorkStep BY StepWorks DEF IsEnded
<1> QED BY <1>3, <1>4, <1>5, StepHonours

\* One that advances the Run.
LEMMA StepAdvances == ASSUME Placed, ~Refused(Advance(run)), run' = Advance(run) PROVE ParkStep
<1>1. run \in RunType /\ Clock /\ Sound(run) /\ Linked(run, attempt)
  BY TracedTypes DEF Placed, Traced
<1>2. TimeKeeps(run, Advance(run)) BY <1>1, AdvanceParks DEF Placed
<1>3. In(run.state, {"quota-exhausted"}) <=> ParkedFor(run, {"quota-exhausted"}) BY ParkedIsIn
<1> QED BY <1>2, <1>3 DEF TimeKeeps, ParkStep, HoldStep, WaitStep, WorkStep

\* A Run with another open state that has its reasons and keeps its waits.
LEMMA StepRestates ==
  ASSUME Placed, NEW m \in RunType, Keeps(run, m), m.cancel = run.cancel,
         run' = m, ProperAs(m, m.state), SettledAs(m, m.state),
         m.state.kind # "terminal", run.state.hold = "safety" => m.state.hold = "safety" \/ Resume("person"),
         Works(run, m)
  PROVE  ParkStep
<1>1. Waits(m) BY TracedTypes, KeepsWaits DEF Placed, Sorted, Proper, Sound
<1>2. Sorted(run') BY <1>1 DEF Sorted, Proper
<1> QED BY <1>2 DEF ParkStep, HoldStep, WaitStep, WorkStep, IsEnded

\* What a Run with the same tasks keeps.
LEMMA KeepsTasks ==
  ASSUME NEW r \in RunType, NEW m \in RunType, m.bind = r.bind, m.phase = r.phase,
         r.cancel => m.cancel
  PROVE  Keeps(r, m)
<1>1. RefusedWaits(m) = RefusedWaits(r) BY DEF RefusedWaits, Binds
<1> QED BY <1>1, KeepsClosing

\* The clock, the runtime's timer and its progression park.
LEMMA TimeParks == ASSUME Placed, Tick \/ AdvanceRun \/ ParkProgression PROVE ParkStep
<1>1. CASE Tick BY <1>1, StepNothing DEF Tick
<1>2. CASE AdvanceRun BY <1>2, StepAdvances DEF AdvanceRun, Commit
<1>3. CASE ParkProgression
  <2> DEFINE s == Parked("progression-failed", "none", now + Timeout)
             m == [run EXCEPT !.state = s]
  <2>1. run \in RunType /\ Clock /\ run.state.kind = "running" /\ ~run.cancel /\ run' = m
    BY <1>3, TracedTypes DEF Placed, ParkProgression, Commit
  <2>2. s \in StateType BY <2>1, StatesFit, ReasonsFit, DeadlinesFit DEF HoldKind
  <2>3. s.kind = "parked" /\ s.why = "progression-failed" /\ s.hold = "none" BY DEF Parked, State
  <2> HIDE DEF s
  <2>4. /\ m \in RunType /\ m.state = s /\ m.cancel = run.cancel /\ m.phase = run.phase
        /\ m.bind = run.bind /\ m.effects = run.effects
    BY <2>1, <2>2, SetStateFits DEF RunType
  <2> HIDE DEF m
  <2>5. Keeps(run, m) BY <2>1, <2>4, KeepsTasks
  <2>6. PendingWaits(run) # {} => RefusedWaits(run) # {}
    BY <2>1 DEF Placed, Sorted, SettledAs, In
  <2>7. PendingWaits(m) = PendingWaits(run) /\ RefusedWaits(m) = RefusedWaits(run)
    BY <2>4, SameWaits
  <2>8. ProperAs(m, s) /\ SettledAs(m, s) BY <2>3, <2>6, <2>7 DEF ProperAs, SettledAs, In
  <2>9. run.state.hold = "none" BY <2>1 DEF Placed, Sorted, Proper, ProperAs
  <2>10. Works(run, m) BY <2>1, <2>3, <2>4, WorksTasks DEF IsEnded
  <2> QED BY <2>1, <2>3, <2>4, <2>5, <2>8, <2>9, <2>10, StepRestates
<1> QED BY <1>1, <1>2, <1>3

\* A hold parks the Run, or joins the park it is in.
LEMMA HoldParks == ASSUME Placed, NEW source \in HoldSources, Hold(source) PROVE ParkStep
<1> DEFINE s == IF IsParked(run) THEN [run.state EXCEPT !.hold = source] ELSE Held(source, now + Timeout)
           m == [run EXCEPT !.state = s]
<1>1. /\ run \in RunType /\ Clock /\ run.state \in StateType /\ ~run.cancel /\ ~IsEnded(run)
      /\ source \in HoldKind \ {"none"}
  BY TracedTypes, FieldsOf, Bounds DEF Placed, Hold
<1>2. run' = m BY <1>1 DEF Hold, Commit, StateType
<1>3. IF IsParked(run) THEN s = [run.state EXCEPT !.hold = source] ELSE s = Held(source, now + Timeout)
  OBVIOUS
<1>4. /\ s \in StateType /\ s.kind = "parked" /\ s.hold = source
      /\ s.why = IF IsParked(run) THEN run.state.why ELSE "operator-hold"
      /\ IsParked(run) => s.deadline = run.state.deadline
  <2>1. CASE IsParked(run) BY <1>1, <1>3, <2>1 DEF StateType, IsParked
  <2>2. CASE ~IsParked(run)
    <3>1. Held(source, now + Timeout) \in StateType
      BY <1>1, StatesFit, ReasonsFit, DeadlinesFit DEF Held
    <3> QED BY <1>3, <2>2, <3>1 DEF Held, Parked, State
  <2> QED BY <2>1, <2>2
<1> HIDE DEF s
<1>5. /\ m \in RunType /\ m.state = s /\ m.cancel = run.cancel /\ m.phase = run.phase
      /\ m.bind = run.bind /\ m.effects = run.effects
  BY <1>1, <1>4, SetStateFits DEF RunType
<1> HIDE DEF m
<1>6. Keeps(run, m) BY <1>1, <1>5, KeepsTasks
<1>7. ProperAs(m, s) /\ SettledAs(m, s)
  <2>1. ProperAs(run, run.state) /\ SettledAs(run, run.state) BY DEF Placed, Sorted, Proper
  <2>2. ProperAs(run, s) /\ SettledAs(run, s)
    <3>1. CASE IsParked(run)
      BY <1>1, <1>4, <2>1, <3>1 DEF ProperAs, SettledAs, In, IsParked
    <3>2. CASE ~IsParked(run)
      BY <1>1, <1>4, <3>2 DEF ProperAs, SettledAs, In, Covering
    <3> QED BY <3>1, <3>2
  <2>3. ProperAs(m, s) BY <1>5, <2>2, SameWaits
  <2>4. Live(m) <=> Live(run) BY <1>5 DEF Live
  <2> QED BY <1>5, <2>2, <2>3, <2>4, SameWaits DEF SettledAs
<1>8. run.state.hold # "safety" \/ source = "safety"
  BY DEF Hold
<1>9. Works(run, m) BY <1>1, <1>4, <1>5, WorksTasks DEF Hold
<1> QED BY <1>2, <1>4, <1>5, <1>6, <1>7, <1>8, <1>9, StepRestates

\* A reservation starts tasks that never waited, in a Run that is not parked.
LEMMA ReserveParks == ASSUME Placed, NEW S \in SUBSET Task, Reserve(S) PROVE ParkStep
<1>1. /\ run' = [SetPhases(run, S, "active") EXCEPT
                   !.bind = [t \in Task |-> IF t \in S THEN Bound ELSE run.bind[t]]]
      /\ \A t \in S : run.bind[t].kind = "unbound" /\ run.phase[t] = "pending"
      /\ run.state.kind = "running"
  BY DEF Reserve, Ready, Startable
<1>2. run \in RunType /\ run' \in RunType BY TracedTypes DEF Placed
<1>3. /\ run'.cancel = run.cancel /\ run'.state = run.state
      /\ \A t \in Task : /\ run'.phase[t] = IF t \in S THEN "active" ELSE run.phase[t]
                         /\ run'.bind[t] = IF t \in S THEN Bound ELSE run.bind[t]
      /\ run'.effects = run.effects
  <2> DEFINE b == [t \in Task |-> IF t \in S THEN Bound ELSE run.bind[t]]
             f == [t \in Task |-> IF t \in S THEN "active" ELSE run.phase[t]]
  <2>1. /\ \A t \in Task : b[t] = IF t \in S THEN Bound ELSE run.bind[t]
        /\ \A t \in Task : f[t] = IF t \in S THEN "active" ELSE run.phase[t]
    OBVIOUS
  <2>2. run' = [[run EXCEPT !.phase = f] EXCEPT !.bind = b] BY <1>1 DEF SetPhases
  <2> HIDE DEF b, f
  <2>3. /\ run'.cancel = run.cancel /\ run'.state = run.state /\ run'.effects = run.effects
        /\ run'.phase = f /\ run'.bind = b
    BY <1>2, <2>2 DEF RunType
  <2> QED BY <2>1, <2>3
<1>4. Keeps(run, run')
  <2>1. \A t \in Task : KeepsAt(run, run', t) BY <1>1, <1>3 DEF KeepsAt
  <2>2. \A t \in RefusedWaits(run) : t \in Task /\ t \notin S BY <1>1, WaitSets
  <2>3. RefusedWaits(run) \subseteq RefusedWaits(run') BY <1>3, <2>2, WaitSets
  <2> QED BY <1>3, <2>1, <2>3 DEF Keeps
<1>5. Eases(run, run') BY <1>1, <1>3 DEF Eases, EasesAt, Bound, Unbound, Settled, Dead
<1>6. Live(run')
  <2>1. PICK t \in S : TRUE BY DEF Reserve
  <2> QED BY <1>3, <2>1 DEF Live, PhaseIn, Working
<1> QED BY <1>1, <1>3, <1>4, <1>5, <1>6, StepStill DEF In

\* A state whose hold is lifted keeps its reasons.
LEMMA LiftedKeeps ==
  ASSUME NEW r, NEW s \in StateType, ~In(s, {"operator-hold"}), ProperAs(r, s), SettledAs(r, s)
  PROVE  LET q == [s EXCEPT !.hold = "none"]
         IN q \in StateType /\ q.hold = "none" /\ q.kind = s.kind /\ ProperAs(r, q) /\ SettledAs(r, q)
<1> DEFINE q == [s EXCEPT !.hold = "none"]
<1>1. /\ q \in StateType /\ q.hold = "none" /\ q.kind = s.kind /\ q.why = s.why
      /\ q.deadline = s.deadline
  BY DEF StateType, HoldKind
<1> HIDE DEF q
<1>2. ProperAs(r, q) BY <1>1 DEF ProperAs, In
<1>3. SettledAs(r, q) BY <1>1 DEF SettledAs, In
<1> QED BY <1>1, <1>2, <1>3 DEF q

\* A resume that is reclassified, out of a park that was its own to end.
LEMMA StepResumes ==
  ASSUME Placed, NEW m \in RunType, Waits(m), m.state = Running, run' = Reconcile(m),
         ~ParkedFor(run, {"quota-exhausted"}),
         run.state.hold = "safety" => Resume("person"),
         IsParked(run), Busy(run) => Eases(run, m)
  PROVE  ParkStep
<1>1. Proper(m) BY RunningProper DEF Proper
<1>2. run \in RunType /\ Clock BY TracedTypes DEF Placed
<1>3. Sorted(run') BY <1>1, <1>2, ReconcileSorts
<1>4. ASSUME Kept(run), Busy(run) PROVE Busy(run') /\ (Spared(run) => Spared(run') /\ Kept(run'))
  <2>1. Eligible(m) /\ Waiting(m) \subseteq Waiting(run) /\ Kept(m)
    BY <1>2, <1>4, EasesEligible DEF Busy, IsParked, IsEnded
  <2>2. Spared(run) => Spared(m) BY <2>1 DEF Spared, Running, State
  <2> QED BY <1>2, <2>1, <2>2, ReconcileBusy
<1> QED BY <1>3, <1>4 DEF ParkStep, HoldStep, WaitStep, WorkStep, Works

\* A person lifts a hold, an operator ends a park, or time is seen.
LEMMA ResumeParks == ASSUME Placed, NEW decider \in Decider, Resume(decider) PROVE ParkStep
<1> DEFINE refused == {t \in Binds(run, "launch-refused") : run.phase[t] = "pending"}
           s == [run.state EXCEPT !.hold = "none"]
           lifted == [run EXCEPT !.state.hold = "none"]
           again == [run EXCEPT !.state = Running]
           old == Supersede(run, refused, "launch-refused")
           anew == [old EXCEPT !.state = Running]
           q == ResumeRun(run)
<1>1. run \in RunType /\ Clock /\ run.state \in StateType BY TracedTypes, FieldsOf DEF Placed
<1>2. run' = q /\ ~Refused(q) BY DEF Resume, Commit
<1>3. run.state.hold = "safety" => Resume("person") BY DEF Resume
<1>4. \/ /\ q = lifted /\ run.state.hold # "none" /\ ~ParkedFor(run, {"operator-hold"})
      \/ q = Reconcile(again) /\ ParkedFor(run, {"operator-hold", "progression-failed"})
      \/ q = Reconcile(anew) /\ ParkedFor(run, {"environment-not-ready"})
      \/ q = Advance(run)
  BY Zenon DEF ResumeRun, refused, lifted, again, old, anew
<1> HIDE DEF q
<1>5. CASE q = lifted /\ ~ParkedFor(run, {"operator-hold"})
  <2>1. IsParked(run) /\ ~In(run.state, {"operator-hold"}) BY <1>5, ParkedIsIn DEF Resume
  <2>2. ProperAs(run, run.state) /\ SettledAs(run, run.state) BY DEF Placed, Sorted, Proper
  <2>3. /\ s \in StateType /\ s.hold = "none" /\ s.kind = run.state.kind
        /\ ProperAs(run, s) /\ SettledAs(run, s)
    BY <1>1, <2>1, <2>2, LiftedKeeps
  <2>4. /\ lifted \in RunType /\ lifted.state = s /\ lifted.cancel = run.cancel
        /\ lifted.phase = run.phase /\ lifted.bind = run.bind /\ lifted.effects = run.effects
    <3>1. lifted = [run EXCEPT !.state = s] BY <1>1 DEF RunType
    <3> QED BY <1>1, <2>3, <3>1, SetStateFits DEF RunType
  <2> HIDE DEF lifted, s
  <2>5. Keeps(run, lifted) BY <1>1, <2>4, KeepsTasks
  <2>6. ProperAs(lifted, s) BY <2>3, <2>4, SameWaits
  <2>7. SettledAs(lifted, s)
    <3>1. Live(lifted) <=> Live(run) BY <2>4 DEF Live
    <3> QED BY <2>3, <2>4, <3>1, SameWaits DEF SettledAs
  <2>8. s.kind # "terminal" BY <2>1, <2>3 DEF IsParked
  <2>9. Works(run, lifted) BY <1>1, <2>1, <2>3, <2>4, WorksTasks DEF IsParked, IsEnded
  <2> QED BY <1>2, <1>3, <1>5, <2>4, <2>5, <2>6, <2>7, <2>8, <2>9, StepRestates
<1>6. CASE q = Reconcile(again) /\ ParkedFor(run, {"operator-hold", "progression-failed"})
  <2>1. /\ again \in RunType /\ again.state = Running /\ again.cancel = run.cancel
        /\ again.phase = run.phase /\ again.bind = run.bind /\ again.effects = run.effects
    BY <1>1, SetStateFits, StatesFit DEF RunType
  <2> HIDE DEF again
  <2>2. Waits(again) BY <2>1, SameWaits DEF Placed, Sorted, Proper
  <2>3. ~ParkedFor(run, {"quota-exhausted"}) /\ IsParked(run) BY <1>6 DEF ParkedFor
  <2>4. Eases(run, again) BY <2>1, EasesTasks
  <2>5. run' = Reconcile(again) BY <1>2, <1>6
  <2> QED BY <1>3, <2>1, <2>2, <2>3, <2>4, <2>5, StepResumes
<1>7. CASE q = Reconcile(anew) /\ ParkedFor(run, {"environment-not-ready"})
  <2>1. old \in RunType /\ Retires(run, old, refused, "launch-refused")
    BY <1>1, SupersedeFits, SupersedeRetires, DeadlinesFit DEF ClosedKind
  <2> HIDE DEF old
  <2>2. /\ anew \in RunType /\ anew.state = Running /\ anew.cancel = run.cancel
        /\ anew.phase = run.phase /\ anew.effects = run.effects
        /\ \A t \in Task : anew.bind[t] = IF t \in refused THEN Unbound ELSE run.bind[t]
    BY <2>1, SetStateFits, StatesFit DEF Retires, RunType
  <2>3. Busy(run) => Eases(run, anew)
    <3>1. RefusedWaits(run) = refused BY DEF RefusedWaits
    <3> QED BY <2>2, <3>1 DEF Busy, Eligible, Eases, EasesAt
  <2> HIDE DEF anew, refused
  <2>4. \A t \in PendingWaits(anew) : t \in PendingWaits(run) /\ anew.bind[t] = run.bind[t]
    BY <2>2, WaitSets DEF Unbound
  <2>5. \A t \in RefusedWaits(anew) : t \in RefusedWaits(run)
    BY <2>2, WaitSets DEF Unbound
  <2>6. Accepted(anew) = Accepted(run) BY <2>2 DEF Accepted
  <2>7. Waits(anew) BY <2>2, <2>4, <2>5, <2>6 DEF Waits, Placed, Sorted, Proper
  <2>8. ~ParkedFor(run, {"quota-exhausted"}) /\ IsParked(run) BY <1>7 DEF ParkedFor
  <2>9. run' = Reconcile(anew) BY <1>2, <1>7
  <2> QED BY <1>3, <2>2, <2>3, <2>7, <2>8, <2>9, StepResumes
<1>8. CASE q = Advance(run) BY <1>2, <1>8, StepAdvances
<1> QED BY <1>4, <1>5, <1>6, <1>7, <1>8

\* A close leaves nothing that waits.
LEMMA CloseParks == ASSUME Placed, Close PROVE ParkStep
<1> DEFINE dropped == SetPhases(run, PhaseIn(run.phase, {"pending"}), "cancelled")
           settled == SetPhases(dropped, PhaseIn(run.phase, {"awaiting"}), "failed")
           m == ClearDecisions(settled, Awaiting(run))
           next == Reconcile(m)
           end == Ended(IF HasAccepted(next) THEN "incomplete" ELSE "failed", "operator-close")
           ended == [next EXCEPT !.state = end]
<1>1. run \in RunType /\ Clock BY TracedTypes DEF Placed
<1>2. run' = ended BY DEF Close, Commit
<1>3. dropped \in RunType /\ settled \in RunType /\ m \in RunType
  BY <1>1, SetPhasesFits, ClearDecisionsFits, DeadlinesFit DEF Phase
<1>4. \A t \in Task : m.phase[t] # "pending"
  <2>1. \A t \in Task : m.phase[t] = IF run.phase[t] = "awaiting" THEN "failed"
                                     ELSE IF run.phase[t] = "pending" THEN "cancelled"
                                     ELSE run.phase[t]
    BY <1>1 DEF SetPhases, ClearDecisions, RunType, PhaseIn
  <2> HIDE DEF m
  <2> QED BY <2>1
<1>13. m.bind = run.bind BY <1>1 DEF SetPhases, ClearDecisions, RunType
<1> HIDE DEF m
<1>5. next \in RunType /\ next.bind = m.bind
  BY <1>1, <1>3, ReconcileFits
<1>6. \A t \in Task : next.phase[t] # "pending"
  <2>1. Follows(m, next, {}) BY <1>1, <1>3, ReconcileFollows
  <2> QED BY <1>4, <2>1 DEF Follows, Same, Settled, Dead
<1> HIDE DEF next
<1>7. ended.state = end /\ ended.phase = next.phase /\ ended.bind = next.bind BY <1>5 DEF RunType
<1>8. end.kind = "terminal" /\ end.hold = "none" /\ end.why = "operator-close"
  BY DEF Ended, State
<1> HIDE DEF ended, end
<1>9. PendingWaits(ended) = {} /\ RefusedWaits(ended) = {}
  BY <1>6, <1>7 DEF PendingWaits, RefusedWaits, Waiting, Binds
<1>10. Waits(ended) BY <1>9 DEF Waits
<1>11. Sorted(run') BY <1>2, <1>7, <1>8, <1>10, EndedSorts
<1>12. WorkStep
  <2>1. \A t \in Task : ended.phase[t] # "pending" BY <1>6, <1>7
  <2>2. Eligible(ended) BY <1>9, <2>1 DEF Eligible, PhaseIn
  <2>3. Waiting(ended) = Waiting(run)
    <3>1. ended.bind = run.bind BY <1>5, <1>7, <1>13
    <3> QED BY <3>1 DEF Waiting, Binds
  <2> QED BY <1>2, <1>7, <1>8, <2>2, <2>3 DEF WorkStep, Works, Busy, Spared, Kept, IsEnded
<1> QED BY <1>2, <1>7, <1>8, <1>11, <1>12 DEF ParkStep, HoldStep, WaitStep, IsEnded

----------------------------------------------------------------------------
(* Launches and what is observed of them *)

\* From r to m only task t changes, which worked or waited for a person, and it
\* does not come to wait for quota.
Touches(r, m, t) ==
  /\ m.cancel = r.cancel
  /\ r.phase[t] \in Working \cup {"awaiting"}
  /\ \A u \in Task \ {t} : /\ m.bind[u] = r.bind[u] /\ m.phase[u] = r.phase[u]
                           /\ u \in m.effects => u \in r.effects
  /\ m.bind[t].kind = "quota-exhausted" => m.bind[t] = r.bind[t]
  /\ m.phase[t] = "pending" => m.bind[t].kind # "quota-exhausted"
  /\ m.phase[t] = "pending" /\ m.bind[t].kind = "launch-refused" => r.phase[t] \in Working

\* And t, if it is pending again, is not to wait for a refusal or a cancellation.
Frees(m, t) == m.phase[t] = "pending" => ~m.cancel /\ m.bind[t].kind # "launch-refused"

LEMMA TouchKeeps ==
  ASSUME Placed, NEW m \in RunType, NEW t \in Task, Touches(run, m, t)
  PROVE  Keeps(run, m)
<1>1. run \in RunType /\ LinkAt(run, attempt[t], t) BY TracedTypes, TracedAt DEF Placed
<1> QED BY <1>1, KeepsOne DEF Touches

LEMMA TouchEases ==
  ASSUME Placed, NEW m \in RunType, NEW t \in Task, Touches(run, m, t), Frees(m, t)
  PROVE  Eases(run, m)
<1>1. LinkAt(run, attempt[t], t) BY TracedAt DEF Placed
<1>2. run.bind[t].kind # "quota-exhausted" /\ run.phase[t] \notin Settled \cup {"pending"}
  BY <1>1 DEF LinkAt, Touches, Working, Settled, Dead
<1>3. EasesAt(run, m, t) BY <1>2 DEF EasesAt, Touches, Frees
<1>4. \A u \in Task \ {t} : EasesAt(run, m, u) BY DEF EasesAt, Touches
<1> QED BY <1>3, <1>4 DEF Eases, Touches

\* Such a change, reclassified.
LEMMA TouchSorts ==
  ASSUME Placed, NEW m \in RunType, NEW t \in Task, Touches(run, m, t), m.state = run.state,
         Unrefused => Frees(m, t), run' = Reconcile(m)
  PROVE  ParkStep
  BY TouchKeeps, TouchEases, StepSorts

\* Such a change of a task at work, written as it is.
LEMMA TouchStill ==
  ASSUME Placed, NEW t \in Task, Touches(run, run', t), run'.state = run.state,
         run.phase[t] \in Working, run'.phase[t] \in Working
  PROVE  ParkStep
<1>1. Live(run) /\ Live(run') BY DEF Live, PhaseIn
<1>2. run' \in RunType BY TracedTypes DEF Placed
<1>3. Frees(run', t) BY DEF Frees, Working
<1>4. Keeps(run, run') /\ Eases(run, run') BY <1>2, <1>3, TouchKeeps, TouchEases
<1> QED BY <1>1, <1>4, StepStill DEF Touches

\* Steps of the attempt alone, a probe's custody, and the proof that a lost worker
\* stopped.
LEMMA AttemptParks ==
  ASSUME Placed, NEW t \in Task,
         \/ \E refusal \in Refusals : RefuseLaunch(t, refusal)
         \/ CloserStops(t) \/ Claim(t) \/ CancelAttempt(t) \/ HoldProbes(t) \/ ReleaseCustody(t)
  PROVE  ParkStep
<1>1. run \in RunType BY TracedTypes DEF Placed
<1>2. CASE run' = run BY <1>2, StepNothing
<1>3. CASE HoldProbes(t)
  <2>1. /\ run' = [run EXCEPT !.effects = run.effects \cup {t}, !.bind[t].probes = TRUE]
        /\ run.bind[t].kind = "none" /\ run.phase[t] = "active"
    BY <1>3 DEF HoldProbes, Unlaunched, Unobserved, Commit
  <2>2. /\ run'.cancel = run.cancel /\ run'.phase = run.phase /\ run'.state = run.state
        /\ \A u \in Task \ {t} : run'.bind[u] = run.bind[u]
    BY <1>1, <2>1 DEF RunType, BindType
  <2>3. run'.bind[t].kind = "none" /\ run'.effects = run.effects \cup {t}
    BY <1>1, <2>1 DEF RunType, BindType
  <2>4. Touches(run, run', t) BY <2>1, <2>2, <2>3 DEF Touches, Working
  <2> QED BY <2>1, <2>2, <2>4, TouchStill DEF Working
<1>4. CASE ReleaseCustody(t)
  <2>1. /\ run'.cancel = run.cancel /\ run'.bind = run.bind /\ run'.phase = run.phase
        /\ run'.state = run.state /\ run'.effects = run.effects
    BY <1>1, <1>4 DEF ReleaseCustody, Commit, RunType
  <2>2. run' \in RunType BY TracedTypes DEF Placed
  <2>3. Keeps(run, run') BY <1>1, <2>1, <2>2, KeepsTasks
  <2>4. Eases(run, run') BY <2>1, EasesTasks
  <2> QED BY <2>1, <2>3, <2>4, StepStill DEF Live
<1> QED BY <1>2, <1>3, <1>4 DEF RefuseLaunch, CloserStops, Claim, CancelAttempt

\* A claimed launch is granted or prevented.
LEMMA GrantParks == ASSUME Placed, NEW t \in Task, GrantLaunch(t) PROVE ParkStep
<1> DEFINE q == SetPhase(run, t, "cancelled")
<1>1. /\ run \in RunType /\ run.phase[t] = "active"
      /\ run' = IF attempt[t].cancel THEN Reconcile(q) ELSE run
  BY TracedTypes, TracedAt DEF Placed, GrantLaunch
<1>2. CASE ~attempt[t].cancel BY <1>1, <1>2, StepNothing
<1>3. CASE attempt[t].cancel
  <2>1. /\ q \in RunType /\ q.cancel = run.cancel /\ q.bind = run.bind /\ q.state = run.state
        /\ \A u \in Task \ {t} : q.phase[u] = run.phase[u]
        /\ q.phase[t] = "cancelled" /\ q.effects = run.effects
    BY <1>1 DEF SetPhase, RunType, Phase
  <2> HIDE DEF q
  <2>2. Touches(run, q, t) BY <1>1, <2>1 DEF Touches, Working
  <2>3. Frees(q, t) BY <2>1 DEF Frees
  <2> QED BY <1>1, <1>3, <2>1, <2>2, <2>3, TouchSorts
<1> QED BY <1>2, <1>3

\* What the Run shows of a worker that is over or lost, its state unmoved.
LEMMA ProjectShows ==
  ASSUME NEW r \in RunType, NEW t \in Task, NEW kind \in {"exited", "unknown"}, Sound(r),
         r.phase[t] \in Working
  PROVE  LET q == Project(r, t, kind)
         IN /\ q \in RunType /\ q.cancel = r.cancel /\ q.bind[t].kind = kind /\ q.state = r.state
            /\ \A u \in Task \ {t} : /\ q.bind[u] = r.bind[u] /\ q.phase[u] = r.phase[u]
                                     /\ u \in q.effects => u \in r.effects
            /\ q.phase[t] \in {"evaluating", "reconciling"}
<1> DEFINE q == Project(r, t, kind)
           base == [r EXCEPT !.bind[t].kind = kind]
<1>1. kind \in ObservedKind BY DEF ObservedKind
<1>2. base.bind[t].kind = kind /\ \A u \in Task \ {t} : base.bind[u] = r.bind[u]
  BY <1>1, KindFrame
<1>3. q \in RunType /\ q.state = r.state BY ProjectMoves
<1>4. /\ q.cancel = r.cancel /\ q.bind = base.bind
      /\ \A u \in Task \ {t} : q.phase[u] = r.phase[u]
  BY DEF Project, RunType
<1>5. /\ q.phase[t] \in {"evaluating", "reconciling"}
      /\ q.effects \subseteq r.effects \cup {t}
  BY DEF Project, RunType
<1> HIDE DEF q, base
<1> QED BY <1>2, <1>3, <1>4, <1>5 DEF q

\* The end of a launched worker.
LEMMA ExitParks == ASSUME Placed, NEW t \in Task, Exit(t) PROVE ParkStep
<1> DEFINE seen == Project(run, t, "exited")
           over == (run.cancel \/ attempt[t].cancel) /\ seen.phase[t] = "evaluating"
           q == SetPhase(seen, t, "cancelled")
<1>1. /\ run \in RunType /\ Sound(run) /\ run.phase[t] \in Working
      /\ run' = IF over THEN Reconcile(q) ELSE seen
  BY TracedTypes DEF Placed, Exit
<1>2. /\ seen \in RunType /\ seen.cancel = run.cancel /\ seen.bind[t].kind = "exited"
      /\ \A u \in Task \ {t} : /\ seen.bind[u] = run.bind[u] /\ seen.phase[u] = run.phase[u]
                               /\ u \in seen.effects => u \in run.effects
      /\ seen.state = run.state /\ seen.phase[t] \in {"evaluating", "reconciling"}
  BY <1>1, ProjectShows
<1> HIDE DEF seen, over
<1>3. CASE over
  <2>1. /\ q \in RunType /\ q.cancel = run.cancel /\ q.bind = seen.bind /\ q.state = run.state
        /\ \A u \in Task \ {t} : q.phase[u] = run.phase[u]
        /\ q.phase[t] = "cancelled" /\ q.effects = seen.effects
    BY <1>2 DEF SetPhase, RunType, Phase
  <2> HIDE DEF q
  <2>2. Touches(run, q, t) BY <1>1, <1>2, <2>1 DEF Touches
  <2>3. Frees(q, t) BY <2>1 DEF Frees
  <2> QED BY <1>1, <1>3, <2>1, <2>2, <2>3, TouchSorts
<1>4. CASE ~over
  <2>1. Touches(run, run', t) BY <1>1, <1>2, <1>4 DEF Touches
  <2> QED BY <1>1, <1>2, <1>4, <2>1, TouchStill DEF Working
<1> QED BY <1>3, <1>4

\* A worker that is lost.
LEMMA LoseParks == ASSUME Placed, NEW t \in Task, Lose(t) PROVE ParkStep
<1> DEFINE q == Project(run, t, "unknown")
<1>1. run \in RunType /\ Sound(run) /\ run.phase[t] \in Working /\ run' = q
  BY TracedTypes DEF Placed, Lose, Working
<1>2. /\ q.cancel = run.cancel /\ q.bind[t].kind = "unknown"
      /\ \A u \in Task \ {t} : /\ q.bind[u] = run.bind[u] /\ q.phase[u] = run.phase[u]
                               /\ u \in q.effects => u \in run.effects
      /\ q.state = run.state /\ q.phase[t] \in {"evaluating", "reconciling"}
  BY <1>1, ProjectShows
<1> HIDE DEF q
<1>3. Touches(run, q, t) BY <1>1, <1>2 DEF Touches
<1> QED BY <1>1, <1>2, <1>3, TouchStill DEF Working

\* A lost task that is tried again.
LEMMA ContinueParks == ASSUME Placed, NEW t \in Task, ContinueLost(t) PROVE ParkStep
<1> DEFINE old == Supersede(run, {t}, "lost")
           q == [old EXCEPT !.phase[t] = "pending", !.effects = old.effects \ {t},
                            !.freed = old.freed \ {t}, !.notBefore[t] = 0]
<1>1. run \in RunType /\ Clock /\ run.phase[t] = "reconciling" /\ ~run.cancel /\ run' = Reconcile(q)
  BY TracedTypes DEF Placed, ContinueLost, Commit
<1>2. /\ old \in RunType /\ Retires(run, old, {t}, "lost") /\ old.state = run.state
  BY <1>1, SupersedeFits, SupersedeRetires, SupersedeFrame, DeadlinesFit DEF ClosedKind
<1> HIDE DEF old
<1>3. /\ q \in RunType /\ q.cancel = run.cancel /\ q.bind = old.bind /\ q.state = run.state
      /\ \A u \in Task \ {t} : q.phase[u] = run.phase[u]
      /\ q.phase[t] = "pending" /\ q.effects = run.effects \ {t}
  BY <1>2 DEF Retires, RunType, Phase
<1> HIDE DEF q
<1>4. q.bind[t] = Unbound /\ \A u \in Task \ {t} : q.bind[u] = run.bind[u]
  BY <1>2, <1>3 DEF Retires
<1>5. Touches(run, q, t) BY <1>1, <1>3, <1>4 DEF Touches, Unbound, Working
<1>6. Frees(q, t) BY <1>1, <1>3, <1>4 DEF Frees, Unbound
<1> QED BY <1>1, <1>3, <1>5, <1>6, TouchSorts

----------------------------------------------------------------------------
(* Refusals and probes *)

\* The Run takes up a refusal: the task it leaves pending is the reason of the
\* park that stops the Run.
LEMMA ClosureParks ==
  ASSUME Placed, NEW t \in Task, NEW r \in RunType, NEW refusal \in RefusalKind,
         r.cancel = run.cancel, r.phase = run.phase, r.state = run.state,
         \A u \in Task \ {t} : r.bind[u] = run.bind[u], r.effects \subseteq run.effects,
         run.phase[t] = "active", refusal = attempt[t].obs, run' = Closure(r, t, refusal)
  PROVE  ParkStep
<1> DEFINE effects == IF refusal = "env-uncertain" THEN r.effects \cup {t} ELSE r.effects
           kind == IF refusal = "handoff-refused" THEN refusal ELSE "launch-refused"
           s == EnvironmentPark(r)
           base(k) == [r EXCEPT !.bind[t].kind = k]
           parked == [r EXCEPT !.state = s, !.phase[t] = "pending",
                               !.effects = effects, !.bind[t].kind = "launch-refused"]
           failed == [r EXCEPT !.phase[t] = "failed", !.bind[t].kind = kind]
<1>1. run \in RunType /\ Clock /\ Ordered(run) /\ r.state \in StateType /\ r.state.hold \in HoldKind
  BY TracedTypes, FieldsOf DEF Placed, Sound, StateType
<1>2. run' = Reconcile(IF ParksForEnvironment(r, refusal) THEN parked ELSE failed)
  BY Zenon DEF Closure, parked, failed, effects, kind, s
<1>3. /\ effects \in SUBSET Task /\ kind \in ObservedKind /\ "launch-refused" \in ObservedKind
      /\ effects \subseteq run.effects \cup {t}
      /\ kind # "quota-exhausted"
  BY FieldsOf DEF ObservedKind
<1>4. s \in StateType BY <1>1, StatesFit, ReasonsFit, DeadlinesFit DEF EnvironmentPark
<1>5. \/ s = run.state
      \/ /\ s.kind = "parked" /\ s.why = "environment-not-ready" /\ s.hold = run.state.hold
         /\ ~run.cancel
  BY DEF EnvironmentPark, Parked, State
<1>12. ParksForEnvironment(r, refusal) => ~Unrefused
  BY DEF ParksForEnvironment, Unrefused, EnvironmentAnswer
<1> HIDE DEF effects, s, kind
<1>6. /\ parked \in RunType /\ parked.cancel = r.cancel /\ parked.state = s
      /\ \A u \in Task \ {t} : parked.bind[u] = run.bind[u] /\ parked.phase[u] = run.phase[u]
      /\ parked.bind[t].kind = "launch-refused" /\ parked.phase[t] = "pending"
      /\ parked.effects = effects
  <2> DEFINE q == base("launch-refused")
  <2>1. /\ q \in RunType /\ q.cancel = r.cancel /\ q.phase = r.phase
        /\ \A u \in Task \ {t} : q.bind[u] = r.bind[u]
        /\ q.bind[t].kind = "launch-refused"
    BY <1>3, KindFrame
  <2>2. parked = [q EXCEPT !.state = s, !.phase[t] = "pending", !.effects = effects]
    BY DEF RunType
  <2> HIDE DEF q, parked
  <2> QED BY <1>3, <1>4, <2>1, <2>2 DEF RunType, Phase
<1>7. /\ failed \in RunType /\ failed.cancel = r.cancel /\ failed.state = run.state
      /\ \A u \in Task \ {t} : failed.bind[u] = run.bind[u] /\ failed.phase[u] = run.phase[u]
      /\ failed.phase[t] = "failed" /\ failed.bind[t].kind = kind /\ failed.effects = r.effects
  <2> DEFINE q == base(kind)
  <2>1. /\ q \in RunType /\ q.cancel = r.cancel /\ q.phase = r.phase /\ q.state = r.state
        /\ \A u \in Task \ {t} : q.bind[u] = r.bind[u]
        /\ q.bind[t].kind = kind /\ q.effects = r.effects
    BY <1>3, KindFrame
  <2>2. failed = [q EXCEPT !.phase[t] = "failed"] BY DEF RunType
  <2> HIDE DEF q, failed
  <2> QED BY <2>1, <2>2 DEF RunType, Phase
<1> HIDE DEF parked, failed
<1>8. Touches(run, parked, t) /\ Touches(run, failed, t) /\ Frees(failed, t)
  BY <1>3, <1>6, <1>7 DEF Touches, Frees, Working
<1>9. CASE ParksForEnvironment(r, refusal) /\ s = run.state
  BY <1>2, <1>6, <1>8, <1>9, <1>12, TouchSorts
<1>10. CASE /\ ParksForEnvironment(r, refusal) /\ ~run.cancel
            /\ s.kind = "parked" /\ s.why = "environment-not-ready" /\ s.hold = run.state.hold
  <2>1. Keeps(run, parked) BY <1>6, <1>8, TouchKeeps
  <2>2. Waits(parked) BY <1>1, <1>6, <2>1, KeepsWaits DEF Placed, Sorted, Proper
  <2>3. t \in Binds(parked, "launch-refused") /\ t \in RefusedWaits(parked)
    BY <1>6 DEF Binds, RefusedWaits
  <2>4. ProperAs(parked, s) BY <1>10, <2>3 DEF ProperAs, In
  <2>5. run' = Reconcile(parked) BY <1>2, <1>10
  <2>6. Sorted(run') /\ Honours(parked, run')
    BY <1>1, <1>6, <2>2, <2>4, <2>5, ReconcileSorts DEF Proper
  <2>7. ~IsEnded(parked) BY <1>6, <1>10 DEF IsEnded
  <2>8. WorkStep BY <1>10, <1>12 DEF WorkStep
  <2> QED BY <1>6, <1>10, <2>6, <2>7, <2>8, StepHonours
<1>11. CASE ~ParksForEnvironment(r, refusal)
  BY <1>2, <1>7, <1>8, <1>11, TouchSorts
<1> QED BY <1>5, <1>9, <1>10, <1>11

\* A refusal that reaches the Run.
LEMMA ProjectClosureParks == ASSUME Placed, NEW t \in Task, ProjectClosure(t) PROVE ParkStep
<1> DEFINE r == Answered(run, t)
<1>1. run \in RunType /\ Sound(run) /\ LinkAt(run, attempt[t], t) /\ attempt[t].obs # "none"
  BY TracedTypes, TracedAt DEF Placed, ProjectClosure
<1>2. r.bind[t].kind = "none" /\ r.phase[t] = "active" /\ run' = Closure(r, t, attempt[t].obs)
  BY DEF ProjectClosure, CanClose
<1>3. run.bind[t].probes => t \in run.effects BY <1>1 DEF LinkAt
<1>4. /\ r \in RunType /\ r.cancel = run.cancel /\ r.phase = run.phase /\ r.state = run.state
      /\ \A u \in Task \ {t} : r.bind[u] = run.bind[u]
      /\ r.bind[t].kind = run.bind[t].kind /\ r.effects \subseteq run.effects
  <2>1. CASE r = run BY <1>1, <2>1
  <2>2. CASE r = WithoutCustody(run, t)
    <3>1. r.state = run.state BY <1>1, <2>2, WithoutCustodyMoves
    <3>2. r.effects \subseteq run.effects BY <2>2 DEF WithoutCustody, RunType
    <3> HIDE DEF r
    <3> QED BY <1>1, <1>3, <2>2, <3>1, <3>2, WithoutCustodyFrame
  <2> QED BY <2>1, <2>2 DEF Answered
<1> HIDE DEF r
<1>5. attempt[t].obs \in RefusalKind BY <1>1, <1>2, <1>4 DEF LinkAt
<1> QED BY <1>2, <1>4, <1>5, ClosureParks

\* Probes that end, with an answer or without.
LEMMA EndProbesParks == ASSUME Placed, NEW t \in Task, EndProbes(t) PROVE ParkStep
<1> DEFINE clear == WithoutCustody(run, t)
           stop == IF run.cancel \/ attempt[t].cancel THEN SetPhase(clear, t, "cancelled") ELSE clear
<1>1. /\ run \in RunType /\ Sound(run) /\ LinkAt(run, attempt[t], t)
      /\ t \in run.effects /\ run.phase[t] = "active"
      /\ run.bind[t].kind = "none"
  BY TracedTypes, TracedAt DEF Placed, EndProbes, LinkAt
<1>2. /\ clear \in RunType /\ clear.cancel = run.cancel /\ clear.phase = run.phase
      /\ clear.state = run.state
      /\ \A u \in Task \ {t} : clear.bind[u] = run.bind[u]
      /\ clear.bind[t].kind = "none" /\ clear.effects \subseteq run.effects
  <2>1. clear.state = run.state BY <1>1, WithoutCustodyMoves
  <2>2. clear.effects \subseteq run.effects BY <1>1 DEF WithoutCustody, RunType
  <2> QED BY <1>1, <2>1, <2>2, WithoutCustodyFrame
<1>3. \/ attempt[t].obs \in RefusalKind /\ run' = Closure(clear, t, attempt[t].obs)
      \/ run' = Reconcile(stop)
  BY DEF EndProbes, RefusalKind
<1> HIDE DEF clear
<1>4. CASE attempt[t].obs \in RefusalKind /\ run' = Closure(clear, t, attempt[t].obs)
  BY <1>1, <1>2, <1>4, ClosureParks
<1>5. CASE run' = Reconcile(stop)
  <2>1. /\ stop \in RunType /\ stop.cancel = run.cancel /\ stop.bind = clear.bind
        /\ stop.state = run.state
        /\ \A u \in Task \ {t} : stop.phase[u] = run.phase[u]
        /\ stop.effects = clear.effects /\ stop.phase[t] # "pending"
    BY <1>1, <1>2 DEF SetPhase, RunType, Phase
  <2> HIDE DEF stop
  <2>2. Touches(run, stop, t) BY <1>1, <1>2, <2>1 DEF Touches, Working
  <2>3. Frees(stop, t) BY <2>1 DEF Frees
  <2> QED BY <1>5, <2>1, <2>2, <2>3, TouchSorts
<1> QED BY <1>3, <1>4, <1>5

\* A refused task whose uncertain probe is proven gone still waits, or is
\* cancelled with its Run.
LEMMA SettleProbeParks == ASSUME Placed, NEW t \in Task, SettleProbe(t) PROVE ParkStep
<1> DEFINE q == [run EXCEPT !.effects = run.effects \ {t},
                            !.phase[t] = IF run.cancel THEN "cancelled" ELSE run.phase[t]]
<1>1. /\ run \in RunType /\ run.phase[t] = "pending" /\ run' = Reconcile(q)
      /\ t \in RefusedWaits(run)
  BY TracedTypes, WaitSets DEF Placed, SettleProbe, Commit
<1>2. /\ q \in RunType /\ q.cancel = run.cancel /\ q.bind = run.bind /\ q.state = run.state
      /\ \A u \in Task \ {t} : q.phase[u] = run.phase[u]
      /\ q.phase[t] = IF run.cancel THEN "cancelled" ELSE run.phase[t]
  BY <1>1 DEF RunType, Phase
<1> HIDE DEF q
<1>3. RefusedWaits(run) \subseteq RefusedWaits(q) \/ q.cancel
  BY <1>2, WaitSets
<1>4. \A u \in Task : \/ q.phase[u] = run.phase[u]
                      \/ run.phase[u] \notin Settled /\ q.phase[u] \in Settled
  BY <1>1, <1>2 DEF Settled, Dead
<1>5. Keeps(run, q) BY <1>1, <1>2, <1>3, <1>4, KeepsClosing
<1>6. ~Busy(run) BY <1>1 DEF Busy, Eligible
<1> QED BY <1>1, <1>2, <1>5, <1>6, StepSorts

\* Every transaction before an attempt is judged.
LEMMA LaunchParks == ASSUME Placed, LaunchStep PROVE ParkStep
  BY AttemptParks, EndProbesParks, SettleProbeParks, ProjectClosureParks, GrantParks, ExitParks,
     LoseParks, ContinueParks DEF LaunchStep

----------------------------------------------------------------------------
(* Evaluation *)

\* A judgement that leaves the state to the reclassification.
LEMMA JudgeParks ==
  ASSUME Placed, NEW t \in Task, NEW q \in RunType, run' = Reconcile(q),
         run.phase[t] \in {"evaluating", "awaiting"},
         q.cancel = run.cancel, q.state = run.state,
         \A u \in Task \ {t} : q.bind[u] = run.bind[u] /\ q.phase[u] = run.phase[u],
         q.effects = run.effects, q.bind[t] \in {run.bind[t], Unbound},
         q.phase[t] # "pending" \/ (q.bind[t] = Unbound /\ ~run.cancel)
  PROVE  ParkStep
<1>1. Touches(run, q, t) BY DEF Touches, Working, Unbound
<1>2. Frees(q, t) BY DEF Frees, Unbound
<1> QED BY <1>1, <1>2, TouchSorts

LEMMA VerdictParks ==
  ASSUME Placed, NEW t \in Task, NEW p \in Settled, run.phase[t] \in {"evaluating", "awaiting"},
         Commit(Reconcile(ClearDecisions(SetPhase(run, t, p), {t})))
  PROVE  ParkStep
<1> DEFINE q == ClearDecisions(SetPhase(run, t, p), {t})
<1>1. run \in RunType /\ Clock /\ p \in Phase /\ p # "pending" /\ run' = Reconcile(q)
  BY TracedTypes, PhaseKinds DEF Placed, Commit, Settled, Dead
<1>2. SetPhase(run, t, p) \in RunType /\ q \in RunType
  BY <1>1, SetPhaseFits, ClearDecisionsFits, DeadlinesFit
<1>3. /\ q.cancel = run.cancel /\ q.bind = run.bind /\ q.state = run.state
      /\ \A u \in Task \ {t} : q.phase[u] = run.phase[u]
      /\ q.phase[t] = p /\ q.effects = run.effects
  BY <1>1 DEF ClearDecisions, SetPhase, RunType
<1> HIDE DEF q
<1> QED BY <1>1, <1>2, <1>3, JudgeParks

LEMMA WaitParks ==
  ASSUME Placed, NEW t \in Task, NEW reason \in {"unknown", "not-ready", "needs-input"},
         run.phase[t] \in {"evaluating", "awaiting"}, Commit(Reconcile(Wait(run, t, reason)))
  PROVE  ParkStep
<1> DEFINE q == Wait(run, t, reason)
<1>1. run \in RunType /\ Clock /\ run' = Reconcile(q) BY TracedTypes DEF Placed, Commit
<1>2. q \in RunType BY <1>1, WaitFits
<1>3. /\ q.cancel = run.cancel /\ q.bind = run.bind /\ q.state = run.state
      /\ \A u \in Task \ {t} : q.phase[u] = run.phase[u]
      /\ q.phase[t] = "awaiting" /\ q.effects = run.effects
  BY <1>1 DEF Wait, RunType
<1> HIDE DEF q
<1> QED BY <1>1, <1>2, <1>3, JudgeParks

\* A silent worker's task is tried again, or fails.
LEMMA StallParks == ASSUME Placed, NEW t \in Task, EvaluateStall(t) PROVE ParkStep
<1> DEFINE retry == Count(run, {t}, "stalled") < StallRetries /\ ~CeilingReached(run, t)
           old == Supersede(run, {t}, "stalled")
           time == IF Backoff > 0 THEN now + Backoff ELSE 0
           q == [old EXCEPT !.phase[t] = "pending", !.notBefore[t] = time]
           over == SetPhase(run, t, "failed")
<1>1. /\ run \in RunType /\ Clock /\ run.phase[t] = "evaluating" /\ ~run.cancel
      /\ run' = Reconcile(IF retry THEN q ELSE over)
  BY TracedTypes DEF Placed, EvaluateStall, Evaluable, Cancelled, Commit
<1>2. CASE retry
  <2>1. old \in RunType /\ Retires(run, old, {t}, "stalled") /\ old.state = run.state
    BY <1>1, SupersedeFits, SupersedeRetires, SupersedeFrame, DeadlinesFit DEF ClosedKind
  <2>2. time \in Nat BY <1>1, Bounds, DeadlinesFit
  <2> HIDE DEF old, time
  <2>3. /\ q \in RunType /\ q.cancel = run.cancel /\ q.bind = old.bind /\ q.state = run.state
        /\ \A u \in Task \ {t} : q.phase[u] = run.phase[u]
        /\ q.effects = run.effects
    BY <2>1, <2>2 DEF Retires, RunType, Phase
  <2>4. q.bind[t] = Unbound /\ \A u \in Task \ {t} : q.bind[u] = run.bind[u]
    BY <2>1, <2>3 DEF Retires
  <2>5. run' = Reconcile(q) BY <1>1, <1>2
  <2> HIDE DEF q, retry
  <2> QED BY <1>1, <2>3, <2>4, <2>5, JudgeParks
<1>3. CASE ~retry
  <2>1. /\ over \in RunType /\ over.cancel = run.cancel /\ over.bind = run.bind
        /\ over.state = run.state /\ over.phase[t] = "failed" /\ over.effects = run.effects
        /\ \A u \in Task \ {t} : over.phase[u] = run.phase[u]
    BY <1>1 DEF SetPhase, RunType, Phase
  <2>2. run' = Reconcile(over) BY <1>1, <1>3
  <2> HIDE DEF over
  <2> QED BY <1>1, <2>1, <2>2, JudgeParks
<1> QED BY <1>2, <1>3

\* Which park a spent quota leaves: the hold that is there, a question, or the
\* latest of the waits.
LEMMA ParkQuotaState ==
  ASSUME NEW r \in RunType, NEW t \in Task, NEW wait \in WaitType, Clock
  PROVE  LET s == ParkQuota(r, t, wait).state
         IN /\ s.hold = r.state.hold
            /\ \/ In(r.state, {"operator-hold"}) /\ s = r.state
               \/ s.kind = "parked" /\ s.why = "quota-ask"
               \/ /\ ~In(r.state, {"operator-hold", "quota-ask"})
                  /\ s.kind = "parked" /\ s.why = "quota-exhausted"
                  /\ wait.deadline <= s.deadline
                  /\ IF In(r.state, {"quota-exhausted"})
                     THEN s.deadline \in {wait.deadline, r.state.deadline} /\ r.state.deadline <= s.deadline
                     ELSE s.deadline = wait.deadline
<1> DEFINE s == ParkQuota(r, t, wait).state
           prior == IF In(r.state, {"quota-exhausted"}) THEN r.state.deadline ELSE 0
           L == Latest({wait.deadline, prior})
<1>1. wait.deadline \in Horizon /\ prior \in Horizon
  BY DeadlinesFit, FieldsOf DEF WaitType, StateType
<1>2. s = IF In(r.state, {"operator-hold"}) THEN r.state
          ELSE IF wait.beyond \/ In(r.state, {"quota-ask"}) THEN Parked("quota-ask", r.state.hold, AskOpen)
          ELSE Parked("quota-exhausted", r.state.hold, L)
  BY ParkedIsIn DEF ParkQuota, RunType
<1>3. L \in {wait.deadline, prior} /\ wait.deadline <= L /\ prior <= L
  <2> HIDE DEF prior
  <2> QED BY <1>1, LatestIsMember
<1> HIDE DEF L
<1>4. ~In(r.state, {"quota-exhausted"}) => L = wait.deadline
  <2>1. wait.deadline \in Nat BY <1>1, HorizonIsNat
  <2>2. ~In(r.state, {"quota-exhausted"}) => prior = 0 OBVIOUS
  <2> HIDE DEF prior
  <2> QED BY <1>3, <2>1, <2>2
<1> SUFFICES /\ s.hold = r.state.hold
             /\ \/ In(r.state, {"operator-hold"}) /\ s = r.state
                \/ s.kind = "parked" /\ s.why = "quota-ask"
                \/ /\ ~In(r.state, {"operator-hold", "quota-ask"})
                   /\ s.kind = "parked" /\ s.why = "quota-exhausted"
                   /\ wait.deadline <= s.deadline
                   /\ IF In(r.state, {"quota-exhausted"})
                      THEN s.deadline \in {wait.deadline, r.state.deadline} /\ r.state.deadline <= s.deadline
                      ELSE s.deadline = wait.deadline
  OBVIOUS
<1>5. CASE In(r.state, {"operator-hold"}) BY <1>2, <1>5
<1>6. CASE ~In(r.state, {"operator-hold"}) /\ (wait.beyond \/ In(r.state, {"quota-ask"}))
  <2>1. s = Parked("quota-ask", r.state.hold, AskOpen) BY <1>2, <1>6
  <2> HIDE DEF s
  <2> QED BY <2>1 DEF Parked, State
<1>7. CASE ~In(r.state, {"operator-hold", "quota-ask"})
           /\ ~(wait.beyond \/ In(r.state, {"quota-ask"}))
  <2>1. s = Parked("quota-exhausted", r.state.hold, L) BY <1>2, <1>7 DEF In
  <2> HIDE DEF s
  <2>2. s.kind = "parked" /\ s.why = "quota-exhausted" /\ s.deadline = L /\ s.hold = r.state.hold
    BY <2>1 DEF Parked, State
  <2> QED BY <1>3, <1>4, <1>7, <2>2
<1> QED BY <1>5, <1>6, <1>7 DEF In

\* A spent quota parks the Run until the latest of its waits.
LEMMA QuotaParks ==
  ASSUME Placed, NEW t \in Task, NEW reset \in Resets, EvaluateQuota(t, reset) PROVE ParkStep
<1> DEFINE ahead  == reset > now
           beyond == ahead /\ reset - now > MaxWait
           wait   == [NoWait EXCEPT !.reset = IF ahead THEN reset ELSE 0, !.beyond = beyond,
                        !.deadline = IF ahead /\ ~beyond THEN reset ELSE now + MaxWait]
           q == ParkQuota(run, t, wait)
           s == q.state
<1>1. /\ run \in RunType /\ Clock /\ Ordered(run) /\ LinkAt(run, attempt[t], t)
      /\ ~run.cancel /\ ~IsEnded(run) /\ run.bind[t].kind = "exited" /\ run.phase[t] = "evaluating"
      /\ t \notin run.effects /\ run' = q
  BY TracedTypes, TracedAt DEF Placed, Sound, EvaluateQuota, Evaluable, Cancelled
<1>2. wait \in WaitType /\ ~wait.released
  <2>1. wait \in WaitType BY <1>1, QuotaWaitFits
  <2> QED BY <2>1 DEF NoWait
<1> HIDE DEF wait
<1>3. /\ q \in RunType /\ q.cancel = run.cancel /\ q.effects = run.effects
      /\ \A u \in Task \ {t} : q.bind[u] = run.bind[u] /\ q.phase[u] = run.phase[u]
      /\ q.bind[t].kind = "quota-exhausted" /\ q.bind[t].wait = wait /\ q.phase[t] = "pending"
  BY <1>1, <1>2, ParkQuotaFrame
<1>4. /\ s.hold = run.state.hold
      /\ \/ In(run.state, {"operator-hold"}) /\ s = run.state
         \/ s.kind = "parked" /\ s.why = "quota-ask"
         \/ /\ ~In(run.state, {"operator-hold", "quota-ask"})
            /\ s.kind = "parked" /\ s.why = "quota-exhausted"
            /\ wait.deadline <= s.deadline
            /\ IF In(run.state, {"quota-exhausted"})
               THEN s.deadline \in {wait.deadline, run.state.deadline} /\ run.state.deadline <= s.deadline
               ELSE s.deadline = wait.deadline
  BY <1>1, <1>2, ParkQuotaState
<1> HIDE DEF q
<1>5. /\ \A u : u \in PendingWaits(q) <=> u = t \/ u \in PendingWaits(run)
      /\ \A u : u \in RefusedWaits(q) <=> u \in RefusedWaits(run)
      /\ \A u : u \in Waiting(q) <=> u = t \/ u \in Waiting(run)
  <2>1. \A u : u # t => /\ u \in PendingWaits(q) <=> u \in PendingWaits(run)
                        /\ u \in RefusedWaits(q) <=> u \in RefusedWaits(run)
                        /\ u \in Waiting(q) <=> u \in Waiting(run)
    BY <1>3, WaitSets
  <2>2. t \in PendingWaits(q) /\ t \in Waiting(q) /\ t \notin RefusedWaits(q) /\ t \notin RefusedWaits(run)
    BY <1>1, <1>3, WaitSets
  <2> QED BY <2>1, <2>2
<1>6. Accepted(run) \subseteq Accepted(q) BY <1>1, <1>3 DEF Accepted, PhaseIn
<1>7. Waits(q)
  <2>1. Blocking[t] \subseteq Accepted(run) BY <1>1 DEF Ordered, Working
  <2>2. Waits(run) BY DEF Placed, Sorted, Proper
  <2>3. \A u \in PendingWaits(run) \cup RefusedWaits(run) : u # t /\ u \in Task
    BY <1>1, WaitSets
  <2> QED BY <1>2, <1>3, <1>5, <1>6, <2>1, <2>2, <2>3 DEF Waits
<1>8. ProperAs(run, run.state) /\ SettledAs(run, run.state) BY DEF Placed, Sorted, Proper
<1>9. In(s, Covering)
  BY <1>4 DEF In, Covering
<1>10. In(s, {"quota-exhausted"}) => s.deadline \in WaitsOf(q, Waiting(q))
  <2>1. wait.deadline \in WaitsOf(q, Waiting(q)) BY <1>3, <1>5 DEF WaitsOf
  <2>2. \A u \in Waiting(run) : u # t /\ u \in Task BY <1>1, WaitSets
  <2>3. WaitsOf(run, Waiting(run)) \subseteq WaitsOf(q, Waiting(q))
    BY <1>3, <1>5, <2>2 DEF WaitsOf
  <2>4. In(run.state, {"quota-exhausted"}) => run.state.deadline \in WaitsOf(run, Waiting(run))
    BY <1>8 DEF ProperAs
  <2> QED BY <1>4, <2>1, <2>3, <2>4 DEF In
<1>11. ASSUME In(s, {"quota-exhausted"}), RefusedWaits(q) = {}, NEW u \in PendingWaits(q)
       PROVE  q.bind[u].wait.deadline <= s.deadline
  <2>1. /\ ~In(run.state, {"operator-hold", "quota-ask"}) /\ wait.deadline <= s.deadline
        /\ In(run.state, {"quota-exhausted"}) => run.state.deadline <= s.deadline
    BY <1>4, <1>11 DEF In
  <2>2. CASE u = t BY <1>3, <2>1, <2>2
  <2>3. CASE u # t
    <3>1. u \in PendingWaits(run) /\ u \in Task BY <1>5, <1>11, <2>3, WaitSets
    <3>2. RefusedWaits(run) = {} BY <1>5, <1>11
    <3>3. In(run.state, {"quota-exhausted"})
      BY <1>1, <1>8, <2>1, <3>1, <3>2 DEF SettledAs, In, Covering, IsEnded
    <3>4. run.bind[u].wait.deadline <= run.state.deadline
      BY <1>1, <1>8, <3>1, <3>2, <3>3 DEF ProperAs
    <3>5. q.bind[u] = run.bind[u] BY <1>3, <2>3, <3>1
    <3>6. {run.bind[u].wait.deadline, run.state.deadline, s.deadline} \subseteq Nat
      <4>1. run.bind[u].wait.deadline \in Horizon /\ run.state.deadline \in Horizon /\ s.deadline \in Horizon
        BY <1>1, <1>3, <3>1, FieldsOf DEF BindType, WaitType, StateType
      <4> QED BY <4>1, HorizonIsNat
    <3> QED BY <2>1, <3>3, <3>4, <3>5, <3>6
  <2> QED BY <2>2, <2>3
<1>12. ProperAs(q, s)
  <2>1. s.hold # "none" => s.kind = "parked" BY <1>4, <1>8 DEF ProperAs
  <2>2. In(s, {"operator-hold"}) => s.hold # "none" BY <1>4, <1>8 DEF ProperAs, In
  <2>3. ~In(s, {"environment-not-ready"}) BY <1>9 DEF In, Covering
  <2> QED BY <1>9, <1>10, <1>11, <2>1, <2>2, <2>3 DEF ProperAs
<1>13. SettledAs(q, s) BY <1>1, <1>3, <1>9 DEF SettledAs, In, Covering
<1>14. Sorted(run') BY <1>1, <1>7, <1>12, <1>13 DEF Sorted, Proper
<1>15. ~IsEnded(run') BY <1>1, <1>9 DEF IsEnded, In
<1>16. ASSUME Kept(run), Busy(run) PROVE Busy(q) /\ (Spared(run) => Spared(q) /\ Kept(q))
  <2>1. \A u \in Task : run.phase[u] \in Settled => q.phase[u] = run.phase[u]
    BY <1>1, <1>3 DEF Settled, Dead
  <2>2. t \in Offered(q)
    <3>1. Blocking[t] \subseteq Accepted(run) /\ Ordering[t] \subseteq PhaseIn(run.phase, Settled)
      BY <1>1 DEF Ordered, Working
    <3>2. Accepted(run) \subseteq PhaseIn(q.phase, {"accepted"})
          /\ PhaseIn(run.phase, Settled) \subseteq PhaseIn(q.phase, Settled)
      BY <2>1 DEF Accepted, PhaseIn, Settled
    <3>3. OpenDependencies(q.phase, t) = {} BY <3>1, <3>2 DEF OpenDependencies
    <3> QED BY <1>1, <1>3, <3>3 DEF Offered, Startable
  <2>3. ASSUME NEW u \in PendingWaits(run) PROVE u \in Offered(q)
    <3>1. u \in Task /\ u # t /\ run.phase[u] = "pending" BY <1>1, WaitSets
    <3>2. u \in Offered(run) /\ u \notin run.effects BY <1>16 DEF Busy, Eligible, Offered, Startable
    <3> QED BY <1>1, <1>3, <2>1, <3>1, <3>2, OfferedGrows
  <2>4. Eligible(q)
    <3>1. RefusedWaits(q) = {} BY <1>5, <1>16 DEF Busy, Eligible
    <3> QED BY <1>1, <1>3, <1>5, <2>2, <2>3, <3>1 DEF Eligible
  <2>5. q.state.kind # "running" BY <1>9 DEF In
  <2>6. Kept(q)
    <3>1. \A u \in Waiting(run) : u \in PendingWaits(run) BY <1>1, <1>16 DEF Kept
    <3> QED BY <1>5, <3>1 DEF Kept
  <2>7. Spared(run) => Spared(q)
    <3>1. "quota" \in Conclusions BY DEF EvaluateQuota
    <3> QED BY <1>4, <3>1 DEF Spared
  <2> QED BY <2>4, <2>5, <2>6, <2>7 DEF Busy
<1>17. WorkStep BY <1>1, <1>16 DEF WorkStep, Works
<1> QED BY <1>1, <1>4, <1>14, <1>15, <1>17 DEF ParkStep, HoldStep, WaitStep

\* Every judgement of an attempt that exited.
LEMMA EvaluationParks == ASSUME Placed, EvaluationStep PROVE ParkStep
<1> SUFFICES ASSUME NEW t \in Task,
                    \/ \E conclusion \in Conclusions : Evaluate(t, conclusion)
                    \/ \E reset \in Resets : EvaluateQuota(t, reset)
                    \/ EvaluateStall(t) \/ ParkTask(t)
             PROVE  ParkStep
  BY DEF EvaluationStep
<1>1. ASSUME NEW conclusion \in Conclusions, Evaluate(t, conclusion) PROVE ParkStep
  <2>1. /\ run.phase[t] \in {"evaluating", "awaiting"}
        /\ \/ Commit(Reconcile(ClearDecisions(SetPhase(run, t, "accepted"), {t})))
           \/ Commit(Reconcile(ClearDecisions(SetPhase(run, t, "failed"), {t})))
           \/ Commit(Reconcile(Wait(run, t, "unknown")))
           \/ Commit(Reconcile(Wait(run, t, "needs-input")))
    BY <1>1 DEF Evaluate, Evaluable
  <2>2. "accepted" \in Settled /\ "failed" \in Settled BY DEF Settled, Dead
  <2> QED BY <2>1, <2>2, VerdictParks, WaitParks
<1>2. CASE ParkTask(t)
  <2>1. run.phase[t] = "evaluating" /\ Commit(Reconcile(Wait(run, t, "not-ready")))
    BY <1>2 DEF ParkTask
  <2> QED BY <2>1, WaitParks
<1> QED BY <1>1, <1>2, QuotaParks, StallParks

----------------------------------------------------------------------------
(* People *)

\* A Run released from its park runs, or is held by the hold it carried.
LEMMA ReleasedProper ==
  ASSUME NEW r
  PROVE  LET s == Released(r)
         IN /\ s.hold = r.state.hold /\ s.kind # "terminal"
            /\ s.kind = "running" \/ In(s, {"operator-hold"})
            /\ \A m : ProperAs(m, s)
<1> DEFINE s == Released(r)
<1>1. CASE r.state.hold = "none"
  <2>1. s = Running BY <1>1 DEF Released
  <2>2. \A m : ProperAs(m, Running) BY RunningProper
  <2>3. Running.hold = "none" /\ Running.kind = "running" BY DEF Running, State
  <2> HIDE DEF s
  <2> QED BY <1>1, <2>1, <2>2, <2>3 DEF s
<1>2. CASE r.state.hold # "none"
  <2>1. s = Held(r.state.hold, r.state.deadline) BY <1>2 DEF Released
  <2> HIDE DEF s
  <2>2. s.hold = r.state.hold /\ s.kind = "parked" /\ s.why = "operator-hold"
    BY <2>1 DEF Held, Parked, State
  <2>3. \A m : ProperAs(m, s) BY <1>2, <2>2 DEF ProperAs, In, Covering
  <2> QED BY <2>2, <2>3 DEF s, In
<1> QED BY <1>1, <1>2

\* A step that leaves the hold, and ends nothing.
LEMMA StepHeld ==
  ASSUME Placed, Sorted(run'), run'.state.hold = run.state.hold, IsEnded(run') => IsEnded(run),
         WorkStep
  PROVE  ParkStep
  BY DEF ParkStep, HoldStep, WaitStep, ParkedFor, IsParked, IsEnded

\* The answer to a question lets its task be tried again, in the hold the Run is in.
LEMMA AnswerParks == ASSUME Placed, NEW t \in Task, Answer(t) PROVE ParkStep
<1> DEFINE state == IF ParkedFor(run, {"operator-hold"}) THEN run.state ELSE Released(run)
           old == Supersede(run, {t}, "exited")
           told == ClearDecisions(old, {t})
           q == [told EXCEPT !.phase[t] = "pending", !.notBefore[t] = 0, !.state = state]
<1>1. /\ run \in RunType /\ Clock /\ Ordered(run) /\ run.phase[t] = "awaiting" /\ ~IsEnded(run)
      /\ ~run.cancel /\ run' = Reconcile(q)
  BY TracedTypes DEF Placed, Sound, Answer, Open, Commit
<1>2. old \in RunType /\ Retires(run, old, {t}, "exited")
  BY <1>1, SupersedeFits, SupersedeRetires, DeadlinesFit DEF ClosedKind
<1> HIDE DEF old
<1>3. /\ told \in RunType /\ told.cancel = old.cancel /\ told.bind = old.bind
      /\ told.phase = old.phase /\ told.effects = old.effects
  <2>1. told \in RunType BY <1>1, <1>2, ClearDecisionsFits, DeadlinesFit
  <2>2. /\ told.cancel = old.cancel /\ told.bind = old.bind /\ told.phase = old.phase
        /\ told.effects = old.effects
    BY <1>2 DEF ClearDecisions, RunType
  <2> QED BY <2>1, <2>2
<1>4. state \in StateType BY <1>1, ReleasedFits, FieldsOf
<1>5. ProperAs(run, state) /\ state.hold = run.state.hold /\ state.kind # "terminal"
  <2>1. ProperAs(run, run.state) BY DEF Placed, Sorted, Proper
  <2>2. /\ ProperAs(run, Released(run)) /\ Released(run).hold = run.state.hold
        /\ Released(run).kind # "terminal"
    BY ReleasedProper
  <2> QED BY <1>1, <2>1, <2>2 DEF IsEnded
<1> HIDE DEF told, state
<1>6. /\ q \in RunType /\ q.cancel = run.cancel /\ q.bind = old.bind /\ q.state = state
      /\ q.effects = run.effects
      /\ \A u \in Task \ {t} : q.phase[u] = run.phase[u]
  BY <1>2, <1>3, <1>4 DEF Retires, RunType, Phase
<1> HIDE DEF q
<1>7. q.bind[t] = Unbound /\ \A u \in Task \ {t} : q.bind[u] = run.bind[u]
  BY <1>2, <1>6 DEF Retires
<1>8. Touches(run, q, t) BY <1>1, <1>6, <1>7 DEF Touches, Unbound
<1>9. Keeps(run, q) BY <1>6, <1>8, TouchKeeps
<1>10. ProperAs(q, state) BY <1>1, <1>5, <1>6, <1>9, KeepsProper
<1>11. Waits(q) BY <1>1, <1>6, <1>9, KeepsWaits DEF Placed, Sorted, Proper
<1>12. Sorted(run') /\ Honours(q, run')
  BY <1>1, <1>6, <1>10, <1>11, ReconcileSorts DEF Proper
<1>13. ~IsEnded(q) BY <1>5, <1>6 DEF IsEnded
<1>14. Frees(q, t) BY <1>1, <1>6, <1>7 DEF Frees, Unbound
<1>15. Eases(run, q) BY <1>6, <1>8, <1>14, TouchEases
<1>16. WorkStep BY <1>1, <1>5, <1>6, <1>9, <1>15, StepWorks
<1> QED BY <1>5, <1>6, <1>12, <1>13, <1>16, StepHonours

\* A person waits on for quota, or lets the tasks be tried again.
LEMMA QuotaAnswerParks ==
  ASSUME Placed, NEW choice \in {"wait", "next-candidate"}, QuotaAnswer(choice) PROVE ParkStep
<1> DEFINE open == OpenWaits(run)
           known == {run.bind[t].wait.reset : t \in open} \ (0 .. now)
           all == \A t \in open : run.bind[t].wait.reset > now
           until == IF all THEN Latest(known) ELSE now + MaxWait
           rearmed(w) == [w EXCEPT !.deadline = until, !.rewaits = @ + 1, !.beyond = FALSE]
<1>1. /\ run \in RunType /\ run' \in RunType /\ Clock /\ run.bind \in [Task -> BindType]
      /\ ~run.cancel /\ In(run.state, {"quota-ask"}) /\ open # {}
  BY TracedTypes, FieldsOf, ParkedIsIn DEF Placed, QuotaAnswer
<1>2. /\ open \in SUBSET Task /\ PendingWaits(run) \subseteq open
      /\ \A t \in open : run.bind[t].kind = "quota-exhausted" /\ ~run.bind[t].wait.released
  BY <1>1 DEF OpenWaits, Waiting, Binds, PendingWaits, Placed, Sorted, Proper, Waits
<1>3. Waits(run) /\ ProperAs(run, run.state) BY DEF Placed, Sorted, Proper
<1> HIDE DEF open
<1>4. CASE choice = "wait"
  <2> DEFINE wait == [t \in Task |-> IF t \in open THEN rearmed(run.bind[t].wait) ELSE run.bind[t].wait]
             bind == [t \in Task |-> IF t \in open THEN [run.bind[t] EXCEPT !.wait = wait[t]]
                                     ELSE run.bind[t]]
             q == [run EXCEPT !.bind = bind]
             s == Parked("quota-exhausted", run.state.hold, until)
  <2>1. until \in Horizon
    <3>1. known \in SUBSET Horizon BY <1>1, <1>2 DEF BindType, WaitType
    <3> HIDE DEF known
    <3> QED BY <1>1, <3>1, DeadlinesFit, LatestInHorizon
  <2>2. \A t \in open : run.bind[t].wait.rewaits < MaxRewaits
    BY <1>4 DEF QuotaAnswer, open
  <2>3. run' = [SetWaits(run, open, rearmed) EXCEPT !.state = s]
    BY <1>4 DEF QuotaAnswer, open, Commit
  <2> HIDE DEF until
  <2>4. /\ wait \in [Task -> WaitType]
        /\ \A t \in open : wait[t].deadline = until /\ wait[t].released = run.bind[t].wait.released
    <3>1. \A t \in Task : run.bind[t].wait \in WaitType BY <1>1 DEF BindType
    <3>2. \A t \in open : rearmed(run.bind[t].wait) \in WaitType
      BY <1>2, <2>1, <2>2, <3>1, RearmedFit
    <3>3. \A t \in open : /\ rearmed(run.bind[t].wait).deadline = until
                          /\ rearmed(run.bind[t].wait).released = run.bind[t].wait.released
      BY <1>2, <3>1 DEF WaitType
    <3>4. \A t \in open : t \in Task BY <1>2
    <3> HIDE DEF rearmed
    <3> QED BY <3>1, <3>2, <3>3, <3>4
  <2>5. SetWaits(run, open, rearmed) = q BY DEF SetWaits
  <2>6. /\ q \in RunType /\ q.cancel = run.cancel /\ q.phase = run.phase /\ q.effects = run.effects
        /\ \A t \in Task \ open : q.bind[t] = run.bind[t]
        /\ \A t \in open : q.bind[t].kind = run.bind[t].kind /\ q.bind[t].wait = wait[t]
    <3>1. run \in RunType /\ open \in SUBSET Task BY <1>1, <1>2
    <3> HIDE DEF wait
    <3> QED BY <3>1, <2>4, WaitsFrame
  <2> HIDE DEF wait, q
  <2>7. /\ s.kind = "parked" /\ s.why = "quota-exhausted" /\ s.hold = run.state.hold
        /\ s.deadline = until
    BY DEF Parked, State
  <2> HIDE DEF s
  <2> DEFINE next == [q EXCEPT !.state = s]
  <2>8. /\ next.state = s /\ next.cancel = run.cancel /\ next.phase = run.phase /\ next.bind = q.bind
        /\ next.effects = run.effects
    BY <2>6 DEF RunType
  <2>9. run' = next BY <2>3, <2>5
  <2> HIDE DEF next
  <2>10. /\ \A t : t \in PendingWaits(next) <=> t \in PendingWaits(run)
         /\ \A t : t \in RefusedWaits(next) <=> t \in RefusedWaits(run)
         /\ \A t : t \in Waiting(next) <=> t \in Waiting(run)
    <3>1. \A t \in Task : next.bind[t].kind = run.bind[t].kind BY <2>6, <2>8
    <3> QED BY <2>8, <3>1, WaitSets
  <2>11. \A t \in PendingWaits(next) : t \in open /\ next.bind[t].wait.deadline = until
                                       /\ ~next.bind[t].wait.released
    BY <1>2, <2>4, <2>6, <2>8, <2>10
  <2>12. until \in WaitsOf(next, Waiting(next))
    <3>1. PICK t \in open : TRUE BY <1>1
    <3>2. t \in Waiting(next) BY <1>2, <2>10, <3>1, WaitSets
    <3>3. next.bind[t].wait.deadline = until BY <2>4, <2>6, <2>8, <3>1
    <3> QED BY <3>2, <3>3 DEF WaitsOf
  <2>13. Waits(next)
    <3>1. Accepted(next) = Accepted(run) BY <2>8 DEF Accepted
    <3> QED BY <1>3, <2>10, <2>11, <3>1 DEF Waits
  <2>14. until <= until BY <2>1, HorizonIsNat
  <2>15. ProperAs(next, s) /\ SettledAs(next, s)
    BY <1>1, <2>7, <2>8, <2>11, <2>12, <2>14 DEF ProperAs, SettledAs, In, Covering
  <2>16. Sorted(run') BY <2>8, <2>9, <2>13, <2>15 DEF Sorted, Proper
  <2>17. WorkStep
    <3> SUFFICES ASSUME Kept(run), Busy(run)
                 PROVE  Busy(next) /\ (Spared(run) => Spared(next) /\ Kept(next))
      BY <2>9 DEF WorkStep, Works
    <3>1. Offered(next) = Offered(run) BY <2>8 DEF Offered
    <3>2. Eligible(next) BY <1>1, <2>8, <2>10, <3>1 DEF Busy, Eligible
    <3>3. Kept(next)
      <4>1. Waiting(run) \subseteq PendingWaits(run) BY <1>1 DEF Kept, In, IsEnded
      <4> QED BY <2>10, <4>1 DEF Kept
    <3>4. Spared(run) => Spared(next) BY <2>7, <2>8, <2>10 DEF Spared
    <3> QED BY <2>7, <2>8, <3>2, <3>3, <3>4 DEF Busy
  <2> QED BY <2>7, <2>8, <2>9, <2>16, <2>17, StepHeld DEF IsEnded
<1>5. CASE choice = "next-candidate"
  <2> DEFINE q == Supersede(run, open, "quota-exhausted")
             s == Released(run)
             next == [q EXCEPT !.state = s]
  <2>1. q \in RunType /\ Retires(run, q, open, "quota-exhausted")
    BY <1>1, SupersedeFits, SupersedeRetires, DeadlinesFit DEF ClosedKind
  <2>2. run' = next BY <1>5 DEF QuotaAnswer, open, Commit
  <2> HIDE DEF q
  <2>3. /\ s.hold = run.state.hold /\ s.kind # "terminal"
        /\ s.kind = "running" \/ In(s, {"operator-hold"})
        /\ \A m : ProperAs(m, s)
    BY ReleasedProper
  <2> HIDE DEF s
  <2>4. /\ next.state = s /\ next.cancel = run.cancel /\ next.phase = run.phase
        /\ next.effects = run.effects
        /\ \A t \in Task : next.bind[t] = IF t \in open THEN Unbound ELSE run.bind[t]
    BY <2>1 DEF Retires, RunType
  <2> HIDE DEF next
  <2>5. \A t : t \notin PendingWaits(next)
    BY <1>2, <2>4, WaitSets DEF Unbound
  <2>6. \A t \in RefusedWaits(next) : t \in RefusedWaits(run)
    BY <2>4, WaitSets DEF Unbound
  <2>7. Waits(next)
    <3>1. Accepted(next) = Accepted(run) BY <2>4 DEF Accepted
    <3> QED BY <1>3, <2>5, <2>6, <3>1 DEF Waits
  <2>8. SettledAs(next, s) BY <1>1, <2>3, <2>4, <2>5 DEF SettledAs, In
  <2>9. Sorted(run') BY <2>2, <2>3, <2>4, <2>7, <2>8 DEF Sorted, Proper
  <2>10. WorkStep
    <3> SUFFICES ASSUME Kept(run), Busy(run)
                 PROVE  Busy(next) /\ (Spared(run) => Spared(next) /\ Kept(next))
      BY <2>2 DEF WorkStep, Works
    <3>1. Offered(next) = Offered(run) BY <2>4 DEF Offered
    <3>2. Eligible(next) BY <1>1, <2>4, <2>5, <2>6 DEF Busy, Eligible
    <3>3. Waiting(run) \subseteq PendingWaits(run) /\ Waiting(run) \subseteq open
      BY <1>1, <1>2 DEF Kept, In, IsEnded
    <3>4. \A t : t \notin Waiting(next)
      BY <2>4, <3>3, WaitSets DEF Unbound
    <3>5. Offered(next) # {}
      <4>1. PICK t \in open : TRUE BY <1>1
      <4>2. t \in Waiting(run) BY <1>2, <4>1, WaitSets
      <4> QED BY <3>1, <3>3, <4>2 DEF Busy, Eligible
    <3> QED BY <2>3, <2>4, <3>2, <3>4, <3>5 DEF Busy, Kept, Spared
  <2> QED BY <2>2, <2>3, <2>4, <2>9, <2>10, StepHeld DEF IsEnded
<1> QED BY <1>4, <1>5

\* A channel declared usable: its waits are released, those that can be tried
\* again are superseded, and a park for quota keeps the others.
LEMMA ReleaseQuotaParks == ASSUME Placed, NEW channel, ReleaseQuota(channel) PROVE ParkStep
<1> DEFINE chosen == {t \in OpenWaits(run) : /\ ChannelOf[t] = channel
                                             /\ run.bind[t].wait.deadline > now}
           held == IF run.cancel \/ IsEnded(run) THEN {}
                   ELSE {t \in chosen : run.phase[t] = "pending"}
           left == Waiting(run) \ chosen
           s == IF run.cancel \/ ~ParkedFor(run, {"quota-exhausted"}) THEN run.state
                ELSE IF left # {}
                  THEN Parked("quota-exhausted", run.state.hold, Latest(WaitsOf(run, left)))
                ELSE Released(run)
           freed(w) == [w EXCEPT !.released = TRUE]
           wait == [t \in Task |-> freed(run.bind[t].wait)]
           bind == [t \in Task |-> IF t \in chosen THEN [run.bind[t] EXCEPT !.wait = wait[t]]
                                   ELSE run.bind[t]]
           m == [run EXCEPT !.bind = bind]
           q == Supersede(m, held, "quota-exhausted")
           next == [q EXCEPT !.state = s]
<1>1. run \in RunType /\ Clock /\ run.bind \in [Task -> BindType] BY TracedTypes, FieldsOf DEF Placed
<1>2. /\ chosen \in SUBSET Task /\ held \in SUBSET chosen
      /\ \A t \in chosen : run.bind[t].kind = "quota-exhausted"
      /\ ~run.cancel /\ ~IsEnded(run) => \A t \in chosen : t \in held <=> run.phase[t] = "pending"
      /\ run.cancel \/ IsEnded(run) => held = {}
      /\ chosen # {} /\ chosen \subseteq Waiting(run)
  BY DEF OpenWaits, Waiting, Binds, ReleaseQuota
<1>3. run' = [Supersede(SetWaits(run, chosen, freed), held, "quota-exhausted") EXCEPT !.state = s]
  BY DEF ReleaseQuota, Commit
<1>4. SetWaits(run, chosen, freed) = m BY DEF SetWaits
<1>5. /\ wait \in [Task -> WaitType]
      /\ \A t \in Task : wait[t].deadline = run.bind[t].wait.deadline
  <2>1. \A t \in Task : run.bind[t].wait \in WaitType BY <1>1 DEF BindType
  <2>2. \A t \in Task : freed(run.bind[t].wait) \in WaitType
                       /\ freed(run.bind[t].wait).deadline = run.bind[t].wait.deadline
    BY <2>1 DEF WaitType
  <2> HIDE DEF freed
  <2> QED BY <2>2
<1>6. left \in SUBSET Task /\ \A t : t \in left <=> t \in Waiting(run) /\ t \notin chosen
  BY WaitSets
<1>7. /\ run.cancel \/ ~In(run.state, {"quota-exhausted"}) => s = run.state
      /\ ~run.cancel /\ In(run.state, {"quota-exhausted"}) =>
           s = IF left # {} THEN Parked("quota-exhausted", run.state.hold, Latest(WaitsOf(run, left)))
               ELSE Released(run)
  BY ParkedIsIn
<1> HIDE DEF chosen, held, wait, left, s
<1>8. /\ m \in RunType /\ m.cancel = run.cancel /\ m.effects = run.effects /\ m.phase = run.phase
      /\ \A t \in Task \ chosen : m.bind[t] = run.bind[t]
      /\ \A t \in chosen : /\ m.bind[t].kind = run.bind[t].kind
                           /\ m.bind[t].wait = wait[t]
  <2>1. run \in RunType /\ chosen \in SUBSET Task /\ wait \in [Task -> WaitType]
    BY <1>1, <1>2, <1>5
  <2> QED BY <2>1, WaitsFrame
<1> HIDE DEF m
<1>9. q \in RunType /\ Retires(m, q, held, "quota-exhausted")
  BY <1>1, <1>8, SupersedeFits, SupersedeRetires, DeadlinesFit DEF ClosedKind
<1>10. run' = next BY <1>3, <1>4
<1> HIDE DEF q
<1>11. /\ next.state = s /\ next.cancel = run.cancel /\ next.effects = run.effects
       /\ next.phase = run.phase
       /\ \A t \in Task : next.bind[t] = IF t \in held THEN Unbound ELSE m.bind[t]
  BY <1>8, <1>9 DEF Retires, RunType
<1> HIDE DEF next
<1>12. ASSUME NEW t \in Task
       PROVE  /\ t \in held => next.bind[t] = Unbound
              /\ t \notin chosen => next.bind[t] = run.bind[t]
              /\ t \notin held => /\ next.bind[t].kind = run.bind[t].kind
                                  /\ run.bind[t].kind = "quota-exhausted" =>
                                       next.bind[t].wait.deadline = run.bind[t].wait.deadline
              /\ t \in held => run.bind[t].kind = "quota-exhausted"
  BY <1>2, <1>5, <1>8, <1>11
<1>13. Binds(next, "launch-refused") = Binds(run, "launch-refused")
       /\ Accepted(next) = Accepted(run) /\ (Live(next) <=> Live(run))
  BY <1>11, <1>12 DEF Binds, Accepted, Unbound, Live
<1>14. /\ \A t : t \in RefusedWaits(next) <=> t \in RefusedWaits(run)
       /\ \A t \in PendingWaits(next) : t \in PendingWaits(run) /\ t \in Task
       /\ \A t \in Waiting(run) : t \notin held => t \in Waiting(next) /\ t \in Task
  BY <1>11, <1>12, WaitSets DEF Unbound
<1>15. /\ Waits(run) /\ ProperAs(run, run.state) /\ SettledAs(run, run.state)
       /\ Honest(run)
  BY DEF Placed, Sorted, Proper, Traced, Inv
<1>16. s.hold = run.state.hold /\ (s.kind = "terminal" => IsEnded(run))
  <2>1. CASE run.cancel \/ ~In(run.state, {"quota-exhausted"}) BY <1>7, <2>1 DEF IsEnded
  <2>2. CASE ~run.cancel /\ In(run.state, {"quota-exhausted"}) /\ left # {}
    <3>1. s = Parked("quota-exhausted", run.state.hold, Latest(WaitsOf(run, left))) BY <1>7, <2>2
    <3> QED BY <3>1 DEF Parked, State
  <2>3. CASE ~run.cancel /\ In(run.state, {"quota-exhausted"}) /\ left = {}
    BY <1>7, <2>3, ReleasedProper
  <2> QED BY <2>1, <2>2, <2>3
<1>20. WorkStep
  <2> SUFFICES ASSUME Kept(run), Busy(run)
               PROVE  Busy(next) /\ (Spared(run) => Spared(next) /\ Kept(next))
    BY <1>10 DEF WorkStep, Works
  <2>1. Offered(next) = Offered(run) BY <1>11 DEF Offered
  <2>2. Eligible(next)
    <3>1. PhaseIn(next.phase, {"pending"}) = PhaseIn(run.phase, {"pending"}) BY <1>11
    <3> QED BY <1>11, <1>14, <2>1, <3>1 DEF Busy, Eligible
  <2>3. s.kind = "running" => Live(next) \/ Offered(next) # {}
    <3>1. CASE s = run.state BY <1>13, <2>1, <3>1 DEF Busy
    <3>2. CASE s # run.state
      <4>1. ~run.cancel /\ ~IsEnded(run) BY <1>7, <3>2 DEF In, IsEnded
      <4>2. PICK t \in chosen : TRUE BY <1>2
      <4>3. t \in Offered(run) BY <1>2, <4>1 DEF Kept, Busy, Eligible
      <4> QED BY <2>1, <4>3
    <3> QED BY <3>1, <3>2
  <2>4. \A t \in Waiting(next) : t \in Waiting(run)
    BY <1>12, WaitSets DEF Unbound
  <2>5. IsEnded(run) => IsEnded(next) BY <1>7, <1>11 DEF In, IsEnded
  <2>6. Kept(next)
    <3> SUFFICES ASSUME ~next.cancel, ~IsEnded(next), NEW t \in Waiting(next)
                 PROVE  t \in PendingWaits(next)
      BY DEF Kept
    <3>1. t \in PendingWaits(run) BY <1>11, <2>4, <2>5 DEF Kept
    <3> QED BY <1>11, <3>1, WaitSets
  <2>7. Spared(run) => Spared(next) BY <1>11, <1>16, <2>4 DEF Spared
  <2> QED BY <1>11, <2>2, <2>3, <2>6, <2>7 DEF Busy
<1>17. CASE run.cancel
  <2>1. s = run.state /\ held = {} BY <1>2, <1>7, <1>17
  <2>2. Waits(next) BY <1>11, <1>13, <1>14, <1>15, <1>17 DEF Waits
  <2>3. ~In(s, {"quota-exhausted"}) BY <1>15, <1>17, <2>1 DEF SettledAs
  <2>4. ProperAs(next, s) BY <1>11, <1>13, <1>15, <1>17, <2>1, <2>3 DEF ProperAs
  <2>5. SettledAs(next, s) BY <1>11, <1>13, <1>15, <1>17, <2>1, <2>3 DEF SettledAs
  <2>6. Sorted(run') BY <1>10, <1>11, <2>2, <2>4, <2>5 DEF Sorted, Proper
  <2> QED BY <1>10, <1>11, <1>16, <1>20, <2>6, StepHeld DEF IsEnded
<1>18. CASE ~run.cancel /\ IsEnded(run)
  <2>1. s = run.state BY <1>7, <1>18 DEF In, IsEnded
  <2>2. \A t \in Task : run.phase[t] # "pending"
    BY <1>15, <1>18 DEF Honest, Closed, PhaseIn, Settled, Dead
  <2>3. (\A t : t \notin PendingWaits(next)) /\ (\A t : t \notin RefusedWaits(next))
    BY <1>11, <2>2, WaitSets
  <2>4. Waits(next) BY <2>3 DEF Waits
  <2>5. ProperAs(next, s) BY <1>15, <1>18, <2>1 DEF ProperAs, In, IsEnded
  <2>6. SettledAs(next, s) BY <1>11, <1>18, <2>1 DEF SettledAs, In, IsEnded
  <2>7. Sorted(run') BY <1>10, <1>11, <2>4, <2>5, <2>6 DEF Sorted, Proper
  <2> QED BY <1>10, <1>11, <1>16, <1>20, <2>7, StepHeld DEF IsEnded
<1>19. CASE ~run.cancel /\ ~IsEnded(run)
  <2>1. \A t \in PendingWaits(next) : t \in left /\ next.bind[t] = run.bind[t]
    <3>1. \A t \in PendingWaits(next) : /\ t \in PendingWaits(run) /\ t \in Task
                                        /\ t \notin held /\ run.phase[t] = "pending"
      BY <1>11, <1>12, <1>14, WaitSets DEF Unbound
    <3>2. \A t \in PendingWaits(next) : t \notin chosen BY <1>2, <1>19, <3>1
    <3> QED BY <1>6, <1>12, <3>1, <3>2, WaitSets
  <2>2. Waits(next)
    <3>1. \A t \in PendingWaits(next) : ~next.bind[t].wait.released
      BY <1>14, <1>15, <1>19, <2>1 DEF Waits
    <3> QED BY <1>13, <1>14, <1>15, <3>1 DEF Waits
  <2>3. PendingWaits(next) \subseteq PendingWaits(run)
        /\ (RefusedWaits(next) = {} <=> RefusedWaits(run) = {})
    BY <1>14
  <2>4. CASE ~In(run.state, {"quota-exhausted"})
    <3>1. s = run.state BY <1>7, <2>4
    <3>2. ProperAs(next, s) BY <1>13, <1>15, <1>19, <2>3, <2>4, <3>1 DEF ProperAs
    <3>3. SettledAs(next, s) BY <1>11, <1>13, <1>15, <1>19, <2>3, <3>1 DEF SettledAs
    <3> QED BY <1>10, <1>11, <1>16, <1>20, <2>2, <3>2, <3>3, StepHeld DEF Sorted, Proper, IsEnded
  <2>5. CASE In(run.state, {"quota-exhausted"}) /\ left # {}
    <3> DEFINE L == Latest(WaitsOf(run, left))
    <3>1. s = Parked("quota-exhausted", run.state.hold, L) BY <1>7, <1>19, <2>5
    <3>2. L \in WaitsOf(run, left) /\ \A x \in WaitsOf(run, left) : x <= L
      <4>1. WaitsOf(run, left) \in SUBSET Horizon BY <1>1, <1>6, WaitsFit
      <4>2. WaitsOf(run, left) # {} BY <2>5 DEF WaitsOf
      <4> QED BY <4>1, <4>2, LatestIsMember
    <3> HIDE DEF L
    <3>3. s.kind = "parked" /\ s.why = "quota-exhausted" /\ s.hold = run.state.hold /\ s.deadline = L
      BY <3>1 DEF Parked, State
    <3>4. L \in WaitsOf(next, Waiting(next))
      <4>1. PICK t \in left : L = run.bind[t].wait.deadline BY <3>2 DEF WaitsOf
      <4>2. t \in Waiting(run) /\ t \notin held /\ t \in Task /\ run.bind[t].kind = "quota-exhausted"
        BY <1>2, <1>6, <4>1, WaitSets
      <4>3. t \in Waiting(next) /\ next.bind[t].wait.deadline = L
        BY <1>12, <1>14, <4>1, <4>2
      <4> QED BY <4>3 DEF WaitsOf
    <3>5. \A t \in PendingWaits(next) : next.bind[t].wait.deadline <= L
      BY <2>1, <3>2 DEF WaitsOf
    <3>6. ProperAs(next, s) /\ SettledAs(next, s)
      BY <1>11, <1>19, <3>3, <3>4, <3>5 DEF ProperAs, SettledAs, In, Covering
    <3> QED BY <1>10, <1>11, <1>16, <1>20, <2>2, <3>6, StepHeld DEF Sorted, Proper, IsEnded
  <2>6. CASE In(run.state, {"quota-exhausted"}) /\ left = {}
    <3>1. s = Released(run) BY <1>7, <1>19, <2>6
    <3>2. /\ s.kind # "terminal"
          /\ s.kind = "running" \/ In(s, {"operator-hold"})
          /\ ProperAs(next, s)
      BY <3>1, ReleasedProper
    <3>3. \A t : t \notin PendingWaits(next) BY <2>1, <2>6
    <3>4. SettledAs(next, s) BY <1>11, <1>19, <3>2, <3>3 DEF SettledAs, In
    <3> QED BY <1>10, <1>11, <1>16, <1>20, <2>2, <3>2, <3>4, StepHeld DEF Sorted, Proper, IsEnded
  <2> QED BY <2>4, <2>5, <2>6
<1> QED BY <1>17, <1>18, <1>19

\* Whatever a person or an operator decides.
LEMMA PersonParks == ASSUME Placed, PersonStep PROVE ParkStep
<1>1. ASSUME NEW t \in Task, NEW verdict \in {"accepted", "failed"}, Resolve(t, verdict) PROVE ParkStep
  <2>1. /\ run.phase[t] = "awaiting"
        /\ Commit(Reconcile(ClearDecisions(SetPhase(run, t, verdict), {t})))
    BY <1>1 DEF Resolve, Open
  <2>2. verdict \in Settled BY DEF Settled, Dead
  <2> QED BY <2>1, <2>2, VerdictParks
<1> QED BY <1>1, AnswerParks, HoldParks, ResumeParks, CloseParks, QuotaAnswerParks, ReleaseQuotaParks
        DEF PersonStep

----------------------------------------------------------------------------
(* Cancellation *)

\* A request to cancel leaves a sorted Run, ends it for no deadline, and leaves no
\* task pending where none was refused.
LEMMA RequestSorts ==
  ASSUME NEW r \in RunType, Clock, Sound(r), Sorted(r), NEW att, Linked(r, att)
  PROVE  LET q == RequestCancellation(r)
         IN /\ Sorted(q) /\ Works(r, q)
            /\ ~IsEnded(r) /\ IsEnded(q) => q.state.why # "park-timeout"
<1> DEFINE U == Closable(r)
           moved == SetPhases(r, U, "cancelled")
           closed == ClearDecisions(moved, Awaiting(r))
           q == [closed EXCEPT !.cancel = TRUE]
<1>1. moved \in RunType /\ closed \in RunType
  BY SetPhasesFits, ClearDecisionsFits, DeadlinesFit DEF Phase
<1>2. /\ q \in RunType /\ q.bind = r.bind /\ q.cancel /\ q.state = r.state
      /\ \A t \in Task : q.phase[t] = IF t \in U THEN "cancelled" ELSE r.phase[t]
  BY <1>1 DEF SetPhases, ClearDecisions, RunType
<1>3. \A t \in U : r.phase[t] \in {"pending", "awaiting"} BY DEF Closable, PhaseIn
<1>10. \A t \in Task \ U : r.phase[t] = "pending" => t \in RefusedWaits(r)
  <2> SUFFICES ASSUME NEW t \in Task \ U, r.phase[t] = "pending" PROVE t \in RefusedWaits(r)
    OBVIOUS
  <2>1. t \in r.effects \/ r.bind[t].kind \notin {"unbound", "quota-exhausted", "launch-refused"}
    BY DEF Closable
  <2>2. r.bind[t].kind \in ObservedKind \cup {"unbound"} BY FieldsOf DEF BindType
  <2>3. LinkAt(r, att[t], t) BY DEF Linked
  <2>4. r.bind[t].kind = "launch-refused"
    BY <2>1, <2>2, <2>3 DEF LinkAt, ObservedKind, Settled, Dead
  <2> QED BY <2>4, WaitSets
<1>4. RequestCancellation(r) \in {r, Reconcile(q)}
  BY Zenon DEF RequestCancellation, q, closed, moved, U
<1> HIDE DEF q, U, moved, closed
<1>5. \A t \in Task : \/ q.phase[t] = r.phase[t]
                      \/ r.phase[t] \notin Settled /\ q.phase[t] \in Settled
  BY <1>2, <1>3 DEF Settled, Dead
<1>6. Keeps(r, q) BY <1>2, <1>5, KeepsClosing
<1>7. ProperAs(q, q.state) /\ Waits(q)
  BY <1>2, <1>6, KeepsProper, KeepsWaits DEF Sorted, Proper, Sound
<1>8. Sorted(Reconcile(q)) /\ Honours(q, Reconcile(q)) BY <1>2, <1>7, ReconcileSorts DEF Proper
<1>9. IsEnded(q) <=> IsEnded(r) BY <1>2 DEF IsEnded
<1>11. Works(r, Reconcile(q))
  <2> SUFFICES ASSUME Busy(r)
               PROVE  Busy(Reconcile(q)) /\ (Spared(r) => Spared(Reconcile(q)) /\ Kept(Reconcile(q)))
    BY DEF Works
  <2>1. \A t \in Task : q.phase[t] # "pending" BY <1>2, <1>10 DEF Busy, Eligible
  <2>2. Eligible(q) BY <2>1, WaitSets DEF Eligible, PhaseIn
  <2>3. Kept(q) BY <1>2 DEF Kept
  <2>4. Waiting(q) = Waiting(r) BY <1>2 DEF Waiting, Binds
  <2>5. Spared(r) => Spared(q) BY <1>2, <2>4 DEF Spared
  <2> QED BY <1>2, <1>7, <2>2, <2>3, <2>5, ReconcileBusy
<1>12. Works(r, r) BY DEF Works
<1> QED BY <1>4, <1>8, <1>9, <1>11, <1>12 DEF Honours

\* The request and the settlement of one transaction.
LEMMA CancelParks == ASSUME Placed, CancelRun PROVE ParkStep
<1> DEFINE r == RequestCancellation(run)
           U == Settleable(r, attempt')
           q == SetPhases(r, U, "cancelled")
<1>1. run \in RunType /\ Clock /\ Sound(run) /\ Honest(run) /\ Linked(run, attempt)
  BY TracedTypes DEF Placed, Traced, Inv
<1>2. /\ r \in RunType /\ r.cancel /\ Sound(r) /\ Works(run, r)
      /\ Sorted(r) /\ (~IsEnded(run) /\ IsEnded(r) => r.state.why # "park-timeout")
  BY <1>1, RequestSame, RequestGood, RequestSorts DEF Placed, Good
<1>3. run' = IF U = {} THEN r ELSE Reconcile(q) BY DEF CancelRun
<1>4. \A t \in U : r.phase[t] \in {"active", "evaluating"} BY DEF Settleable
<1> HIDE DEF r, U
<1>5. /\ q \in RunType /\ q.cancel /\ q.bind = r.bind /\ q.state = r.state
      /\ \A t \in Task : q.phase[t] = IF t \in U THEN "cancelled" ELSE r.phase[t]
  <2>1. q \in RunType BY <1>2, SetPhasesFits DEF Phase
  <2>2. q = [r EXCEPT !.phase = [t \in Task |-> IF t \in U THEN "cancelled" ELSE r.phase[t]]]
    BY DEF SetPhases
  <2> HIDE DEF q
  <2> QED BY <1>2, <2>1, <2>2 DEF RunType
<1> HIDE DEF q
<1>6. \A t \in Task : \/ q.phase[t] = r.phase[t]
                      \/ r.phase[t] \notin Settled /\ q.phase[t] \in Settled
  BY <1>4, <1>5 DEF Settled, Dead
<1>7. Keeps(r, q) BY <1>2, <1>5, <1>6, KeepsClosing
<1>8. ProperAs(q, q.state) /\ Waits(q)
  BY <1>2, <1>5, <1>7, KeepsProper, KeepsWaits DEF Sorted, Proper, Sound
<1>9. /\ Sorted(Reconcile(q)) /\ Honours(q, Reconcile(q))
      /\ IsEnded(q) => Reconcile(q) = q
      /\ Reconcile(q).cancel
  BY <1>1, <1>5, <1>8, ReconcileSorts, ReconcileFits DEF Proper
<1>10. Sorted(run') /\ run'.cancel BY <1>2, <1>3, <1>9
<1>11. ~IsEnded(run) /\ IsEnded(run') => run'.state.why # "park-timeout"
  <2>1. IsEnded(q) <=> IsEnded(r) BY <1>5 DEF IsEnded
  <2>2. CASE run' = r BY <1>2, <2>2
  <2>3. CASE run' = Reconcile(q) /\ IsEnded(q) BY <1>2, <1>5, <1>9, <2>1, <2>3
  <2>4. CASE run' = Reconcile(q) /\ ~IsEnded(q) BY <1>9, <2>4 DEF Honours
  <2> QED BY <1>3, <2>2, <2>3, <2>4
<1>12. Works(run, Reconcile(q))
  <2> SUFFICES ASSUME Busy(r), Spared(run) => Spared(r)
               PROVE  Busy(Reconcile(q)) /\ (Spared(run) => Spared(Reconcile(q)) /\ Kept(Reconcile(q)))
    BY <1>2 DEF Works
  <2>1. \A t \in Task : q.phase[t] # "pending"
    BY <1>2, <1>5 DEF Busy, Eligible, PhaseIn
  <2>2. Eligible(q) BY <2>1, WaitSets DEF Eligible, PhaseIn
  <2>3. Kept(q) BY <1>5 DEF Kept
  <2>4. Waiting(q) = Waiting(r) BY <1>5 DEF Waiting, Binds
  <2>5. Spared(r) => Spared(q) BY <1>5, <2>4 DEF Spared
  <2> QED BY <1>1, <1>5, <1>8, <2>2, <2>3, <2>5, ReconcileBusy
<1>13. WorkStep BY <1>2, <1>3, <1>12 DEF WorkStep
<1> QED BY <1>10, <1>11, <1>13 DEF ParkStep, HoldStep, WaitStep, ParkedFor, IsParked, IsEnded

----------------------------------------------------------------------------
(* What holds of every Run *)

\* Every transaction leaves a Run whose park has its reasons.
LEMMA NextParks ==
  TypeOK /\ TypeOK' /\ Inv /\ Linked(run, attempt) /\ Sorted(run) /\ [Next]_vars => ParkStep
<1> SUFFICES ASSUME TypeOK, TypeOK', Inv, Linked(run, attempt), Sorted(run), [Next]_vars
             PROVE  ParkStep
  OBVIOUS
<1>1. Placed BY DEF Placed, Traced
<1>2. CASE UNCHANGED vars BY <1>1, <1>2, StepNothing DEF vars
<1>3. CASE CancelStep BY <1>1, <1>3, CancelParks, AttemptParks DEF CancelStep
<1> QED BY <1>1, <1>2, <1>3, TimeParks, ReserveParks, LaunchParks, EvaluationParks, PersonParks
        DEF Next

\* A Run that was just created runs, and none of its tasks waits.
LEMMA SortedInit == Init => Sorted(run)
<1> SUFFICES ASSUME Init PROVE Sorted(run) OBVIOUS
<1>1. \A t \in Task : run.bind[t].kind = "unbound" BY DEF Init, Unbound
<1>2. (\A t : t \notin PendingWaits(run)) /\ (\A t : t \notin RefusedWaits(run))
  BY <1>1, WaitSets
<1>3. Waits(run) BY <1>2 DEF Waits
<1>4. run.state = Running BY DEF Init
<1>5. Running.kind = "running" /\ Running.hold = "none" BY DEF Running, State
<1>6. ProperAs(run, run.state) /\ SettledAs(run, run.state)
  BY <1>2, <1>4, <1>5 DEF ProperAs, SettledAs, In
<1> QED BY <1>3, <1>6 DEF Sorted, Proper

\* Whatever order its writers come in, a Run is only ever in a park that its own
\* tasks explain, and its tasks wait in no park that forgets them.
THEOREM ParksAreSorted == Spec => []Sorted(run)
<1>1. TypeOK /\ TypeOK' /\ Inv /\ Linked(run, attempt) /\ Sorted(run) /\ [Next]_vars => Sorted(run)'
  BY NextParks DEF ParkStep
<1> QED BY <1>1, SortedInit, Agreement, Invariance, TypeCorrect, PTL DEF Spec

\* No reducer, and no order of them, commits a snapshot that the rules of its own
\* schema refuse (contract.ts: work without an attempt, effects nobody holds, a
\* park without its reason, a probe without its slot, a question nobody waits for).
THEOREM SnapshotsParse == Spec => []SnapshotParses
<1>1. Sorted(run) => ParkHasCause
  <2> SUFFICES ASSUME Sorted(run) PROVE ParkHasCause OBVIOUS
  <2>1. ProperAs(run, run.state) /\ SettledAs(run, run.state) BY DEF Sorted, Proper
  <2>2. In(run.state, {"quota-exhausted"}) => Waiting(run) # {} BY <2>1 DEF ProperAs, WaitsOf
  <2>3. In(run.state, {"operator-hold"}) => run.state.hold # "none" BY <2>1 DEF ProperAs
  <2>4. /\ In(run.state, {"environment-not-ready"}) => Binds(run, "launch-refused") # {}
        /\ In(run.state, {"awaiting-decision", "dependency"}) => ~Live(run)
    BY <2>1 DEF ProperAs, SettledAs
  <2> QED BY <2>2, <2>3, <2>4, ParkedIsIn DEF ParkHasCause, In, IsParked
<1>2. Inv => EffectsStayOpen /\ DecisionWhileAwaiting
  BY DEF Inv, Sound, EffectsOpen, Asks, EffectsStayOpen, DecisionWhileAwaiting
<1>3. TypeOK /\ Inv /\ Linked(run, attempt) /\ Sorted(run) => SnapshotParses
  BY <1>1, <1>2, WorkIsBound, ProbesHoldSlots DEF SnapshotParses
<1> QED BY <1>3, ParksAreSorted, Agreement, Invariance, TypeCorrect, PTL

\* A park for quota ends at the deadline of one of the waits it stands for and,
\* unless the environment refused a task meanwhile, at the latest of those that
\* can be tried again (parkRunQuota, releaseRunQuota, answerRunQuota and every
\* reclassification compute it apart).
THEOREM QuotaParksCover == Spec => []QuotaParkCoversWaits
<1>1. Sorted(run) => QuotaParkCoversWaits
  <2> SUFFICES ASSUME Sorted(run), ParkedFor(run, {"quota-exhausted"})
               PROVE  /\ run.state.deadline \in WaitsOf(run, Waiting(run))
                      /\ RefusedWaits(run) = {} =>
                           \A t \in PendingWaits(run) : run.bind[t].wait.deadline <= run.state.deadline
    BY DEF QuotaParkCoversWaits
  <2>1. ProperAs(run, run.state) /\ SettledAs(run, run.state) BY DEF Sorted, Proper
  <2>2. In(run.state, {"quota-exhausted"}) BY ParkedIsIn
  <2>3. ~run.cancel BY <2>1, <2>2 DEF SettledAs
  <2> QED BY <2>1, <2>2, <2>3 DEF ProperAs
<1> QED BY <1>1, ParksAreSorted, PTL

\* A safety hold outlives every park the Run enters and leaves: while the Run is
\* open and nobody cancels it, only a person's resume lifts it (holdRun).
THEOREM SafetyHoldsStay == Spec => SafetyHoldStays
<1>1. TypeOK /\ TypeOK' /\ Inv /\ Linked(run, attempt) /\ Sorted(run) /\ [Next]_vars =>
        [run.state.hold = "safety" /\ ~run'.cancel =>
           run'.state.hold = "safety" \/ IsEnded(run') \/ Resume("person")]_vars
  BY NextParks DEF ParkStep, HoldStep
<1> QED BY <1>1, ParksAreSorted, Agreement, Invariance, TypeCorrect, PTL DEF Spec, SafetyHoldStays

\* A wait for quota asks a person when it runs out and never ends the Run, in a
\* park that nobody holds (advanceRunLifecycle looks for resets and questions
\* before it looks for what expired).
THEOREM QuotaWaitsEndNothing == Spec => QuotaWaitNeverEndsRun
<1>1. TypeOK /\ TypeOK' /\ Inv /\ Linked(run, attempt) /\ Sorted(run) /\ [Next]_vars =>
        [ParkedFor(run, {"quota-exhausted"}) /\ run.state.hold = "none"
           /\ PendingWaits(run) # {} /\ ~run.cancel
           => ~(IsEnded(run') /\ run'.state.why = "park-timeout")]_vars
  BY NextParks DEF ParkStep, WaitStep
<1> QED BY <1>1, ParksAreSorted, Agreement, Invariance, TypeCorrect, PTL DEF Spec, QuotaWaitNeverEndsRun

----------------------------------------------------------------------------
(* A running Run has work *)

\* No refusal of the environment is among those a launch may meet.
NoEnvironment == Refusals \cap EnvironmentAnswer = {}

\* No attempt comes to have an answer of the environment.
LEMMA UnrefusedStays ==
  ASSUME NoEnvironment, attempt \in [Task -> AttemptType], Unrefused, [Next]_vars
  PROVE  Unrefused'
<1> DEFINE Fresh == {"none", "exited", "unknown", "quota-exhausted"} \cup Refusals
           Fine == \A u \in Task : attempt'[u].obs \in Fresh \cup {attempt[u].obs}
<1>1. Fine => Unrefused' BY DEF Unrefused, NoEnvironment, EnvironmentAnswer
<1>2. CASE attempt' = attempt BY <1>1, <1>2
<1>3. ASSUME NEW S \in SUBSET Task, Reserve(S) PROVE Fine
  BY <1>3 DEF Reserve, NoAttempt
<1>4. ASSUME NEW t \in Task, NEW obs \in Fresh, attempt' = [attempt EXCEPT ![t].obs = obs] PROVE Fine
  BY <1>4 DEF AttemptType
<1>5. ASSUME NEW t \in Task, NEW refusal \in Refusals, RefuseLaunch(t, refusal) PROVE Fine
  BY <1>5 DEF RefuseLaunch, AttemptType
<1>6. ASSUME NEW t \in Task, CloserStops(t) \/ ProjectClosure(t) \/ EndProbes(t) PROVE Fine
  BY <1>6 DEF CloserStops, ProjectClosure, EndProbes, AttemptType
<1>7. ASSUME NEW t \in Task, Claim(t) \/ GrantLaunch(t) PROVE Fine
  BY <1>7 DEF Claim, GrantLaunch, AttemptType
<1>8. ASSUME NEW t \in Task, Exit(t) \/ Lose(t) PROVE Fine
  BY <1>4, <1>8 DEF Exit, Lose
<1>9. ASSUME NEW t \in Task, NEW reset \in Resets, EvaluateQuota(t, reset) PROVE Fine
  BY <1>4, <1>9 DEF EvaluateQuota
<1>10. ASSUME CancelStep PROVE Fine
  <2>1. CASE CancelRun BY <2>1 DEF CancelRun, CancelAttempts, AttemptType
  <2>2. ASSUME NEW t \in Task, CancelAttempt(t) PROVE Fine
    BY <2>2 DEF CancelAttempt, AttemptType
  <2> QED BY <1>10, <2>1, <2>2 DEF CancelStep
<1> HIDE DEF Fine
<1>11. CASE LaunchStep
  <2>1. ASSUME NEW t \in Task, HoldProbes(t) \/ SettleProbe(t) \/ ReleaseCustody(t) \/ ContinueLost(t)
        PROVE  attempt' = attempt
    BY <2>1 DEF HoldProbes, SettleProbe, ReleaseCustody, ContinueLost, Commit
  <2> QED BY <1>1, <1>2, <1>5, <1>6, <1>7, <1>8, <1>11, <2>1 DEF LaunchStep
<1>12. CASE EvaluationStep
  <2>1. ASSUME NEW t \in Task, \/ \E conclusion \in Conclusions : Evaluate(t, conclusion)
                               \/ EvaluateStall(t) \/ ParkTask(t)
        PROVE  attempt' = attempt
    BY <2>1 DEF Evaluate, EvaluateStall, ParkTask, Commit
  <2> QED BY <1>1, <1>2, <1>9, <1>12, <2>1 DEF EvaluationStep
<1>13. CASE PersonStep
  <2>1. attempt' = attempt
    BY <1>13 DEF PersonStep, Resolve, Answer, Hold, Resume, Close, QuotaAnswer, ReleaseQuota, Commit
  <2> QED BY <1>2, <2>1
<1>14. CASE Tick \/ AdvanceRun \/ ParkProgression \/ UNCHANGED vars
  BY <1>2, <1>14 DEF Tick, AdvanceRun, ParkProgression, Commit, vars
<1> QED BY <1>1, <1>3, <1>10, <1>11, <1>12, <1>13, <1>14 DEF Next

\* A Run that was just created has a task that needs no other.
LEMMA BusyInit == ASSUME Init PROVE Busy(run) /\ Kept(run) /\ Unrefused /\ run.state.hold = "none"
                                    /\ Waiting(run) = {}
<1>1. /\ \A t \in Task : run.bind[t].kind = "unbound" /\ run.phase[t] = "pending"
      /\ run.effects = {} /\ ~run.cancel /\ run.state = Running
      /\ \A t \in Task : attempt[t].obs = "none"
  BY DEF Init, Unbound, NoAttempt
<1>2. PICK t \in Task : (Blocking[t] \cup Ordering[t]) \cap Task = {} BY GraphAssumption
<1>3. Blocking[t] = {} /\ Ordering[t] = {} BY <1>2, GraphAssumption
<1>4. t \in Offered(run) BY <1>1, <1>3 DEF Offered, Startable, OpenDependencies
<1>5. /\ \A u : u \notin PendingWaits(run) /\ u \notin RefusedWaits(run) /\ u \notin Waiting(run)
  BY <1>1, WaitSets
<1> QED BY <1>1, <1>4, <1>5 DEF Busy, Eligible, Kept, Unrefused, EnvironmentAnswer, Running, State

\* A Run that has something to do has work in flight, or a task free to start: one
\* that waits for quota is covered by a park.
LEMMA BusyHasWork ==
  ASSUME TypeOK, Linked(run, attempt), Sorted(run), Busy(run)
  PROVE  RunningHasWork
<1> SUFFICES ASSUME run.state.kind = "running", ~Live(run)
             PROVE  /\ ~run.cancel
                    /\ \E t \in Task : Startable(run.phase, run.effects, t) /\ run.bind[t].kind = "unbound"
  BY DEF RunningHasWork
<1>1. PICK t \in Offered(run) : TRUE BY DEF Busy
<1>2. /\ t \in Task /\ Startable(run.phase, run.effects, t)
      /\ run.phase[t] = "pending" /\ t \notin run.effects
  BY <1>1 DEF Offered, Startable
<1>3. ~run.cancel BY <1>2 DEF Busy, Eligible, PhaseIn
<1>4. RefusedWaits(run) = {} BY DEF Busy, Eligible
<1>5. PendingWaits(run) = {} BY <1>3, <1>4 DEF Sorted, SettledAs, In
<1>6. run.bind[t].kind \notin {"quota-exhausted", "launch-refused"}
  BY <1>2, <1>4, <1>5, WaitSets
<1>7. run.bind[t].kind \in ObservedKind \cup {"unbound"} BY <1>2, FieldsOf DEF TypeOK, BindType
<1>8. LinkAt(run, attempt[t], t) BY <1>2 DEF Linked
<1>9. run.bind[t].kind = "unbound"
  BY <1>2, <1>6, <1>7, <1>8 DEF LinkAt, ObservedKind, Settled, Dead
<1> QED BY <1>2, <1>3, <1>9

\* Where no launch meets a refusal of the environment, a Run whose waits for quota
\* end with their tasks never runs for nothing: no transaction, and no order of
\* them, loses the wake-up of a Run that has no deadline (reconcileRunLifecycle,
\* resetRunQuota, answerRunQuota and releaseRunQuota each make a Run run).
THEOREM RunsHaveWork == NoEnvironment => (Spec /\ []Kept(run) => []RunningHasWork)
<1> SUFFICES ASSUME NoEnvironment PROVE Spec /\ []Kept(run) => []RunningHasWork OBVIOUS
<1>1. Init => Busy(run) /\ Unrefused BY BusyInit
<1>2. /\ TypeOK /\ TypeOK' /\ Inv /\ Linked(run, attempt) /\ Sorted(run)
      /\ Kept(run) /\ Busy(run) /\ Unrefused /\ [Next]_vars
      => (Busy(run) /\ Unrefused)'
  <2> SUFFICES ASSUME TypeOK, TypeOK', Inv, Linked(run, attempt), Sorted(run), Kept(run),
                      Busy(run), Unrefused, [Next]_vars
               PROVE  Busy(run') /\ Unrefused'
    OBVIOUS
  <2>1. Unrefused' BY UnrefusedStays DEF TypeOK
  <2>2. Busy(run') BY NextParks DEF ParkStep, WorkStep, Works
  <2> QED BY <2>1, <2>2
<1>3. TypeOK /\ Linked(run, attempt) /\ Sorted(run) /\ Busy(run) => RunningHasWork
  BY BusyHasWork
<1> QED BY <1>1, <1>2, <1>3, ParksAreSorted, Agreement, Invariance, TypeCorrect, PTL DEF Spec

\* So it never does where nobody holds the Run, or no worker runs out of quota: a
\* park that is due drops a wait for quota only when a hold keeps the question of
\* askRunQuota from being put.
THEOREM SparedRunsHaveWork ==
  NoEnvironment /\ (HoldSources = {} \/ "quota" \notin Conclusions) => (Spec => []RunningHasWork)
<1> SUFFICES ASSUME NoEnvironment, HoldSources = {} \/ "quota" \notin Conclusions
             PROVE  Spec => []RunningHasWork
  OBVIOUS
<1>1. Init => Spared(run) /\ Kept(run) /\ Busy(run) /\ Unrefused BY BusyInit DEF Spared
<1>2. /\ TypeOK /\ TypeOK' /\ Inv /\ Linked(run, attempt) /\ Sorted(run)
      /\ Spared(run) /\ Kept(run) /\ Busy(run) /\ Unrefused /\ [Next]_vars
      => (Spared(run) /\ Kept(run) /\ Busy(run) /\ Unrefused)'
  <2> SUFFICES ASSUME TypeOK, TypeOK', Inv, Linked(run, attempt), Sorted(run), Spared(run),
                      Kept(run), Busy(run), Unrefused, [Next]_vars
               PROVE  Spared(run') /\ Kept(run') /\ Busy(run') /\ Unrefused'
    OBVIOUS
  <2>1. Unrefused' BY UnrefusedStays DEF TypeOK
  <2>2. Spared(run') /\ Kept(run') /\ Busy(run') BY NextParks DEF ParkStep, WorkStep, Works
  <2> QED BY <2>1, <2>2
<1>3. Spec => []Kept(run)
  BY <1>1, <1>2, ParksAreSorted, Agreement, Invariance, TypeCorrect, PTL DEF Spec
<1> QED BY <1>3, RunsHaveWork, PTL
=============================================================================
