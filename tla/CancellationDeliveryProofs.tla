-------------------- MODULE CancellationDeliveryProofs --------------------
(***************************************************************************)
(* Proofs about CancellationDelivery, for any number of workers and any    *)
(* limits: its types, the bound on deliveries, and that neither a lease    *)
(* nor a decided delivery is taken from whoever holds it.                  *)
(***************************************************************************)
EXTENDS CancellationDelivery, TLAPS

(* The inductive invariant: each lease is one attempt, no sample of a clock  *)
(* is ahead of it, and an answer of the dispatch is what became of it.       *)
Leases == record.token = record.attempts /\ \A w \in Worker : token[w] <= record.token
Samples == \A w \in Worker : at[w] <= Clock(w)
Answers == \A w \in Worker : outcome[w] # "unresolved" => dispatch = outcome[w]
Inv == TypeOK /\ Leases /\ Samples /\ Answers /\ EndIsReal

\* Clocks are natural numbers, apart by at most the skew.
LEMMA ClocksAreNatural == TypeOK => \A w \in Worker : Clock(w) \in Nat /\ SkewOf[w] \in 0..Skew
  BY ClocksAgree DEF TypeOK, Clock

\* The invariant holds at the start.
LEMMA InvInit == Init => Inv
<1> SUFFICES ASSUME Init PROVE Inv OBVIOUS
<1>1. TypeOK BY LimitsArePositive DEF Init, TypeOK, Final
<1>2. Leases BY DEF Init, Leases
<1>3. ASSUME NEW w \in Worker PROVE at[w] <= Clock(w)
  <2>1. SkewOf[w] \in Nat BY ClocksAgree
  <2> QED BY <2>1 DEF Init, Clock
<1>4. Answers /\ EndIsReal BY DEF Init, Answers, EndIsReal
<1> QED BY <1>1, <1>2, <1>3, <1>4 DEF Inv, Samples

\* Every step keeps the types.
LEMMA TypeStep == Inv /\ [Next]_vars => TypeOK'
<1> SUFFICES ASSUME Inv, [Next]_vars PROVE TypeOK' OBVIOUS
<1> USE LimitsArePositive, ClocksAgree DEF Inv, TypeOK, Final, Clock
<1>1. CASE Tick
  BY <1>1 DEF Tick
<1>2. CASE Ends
  BY <1>2 DEF Ends
<1>3. ASSUME NEW w \in Worker, Step(w) PROVE TypeOK'
  <2>1. CASE Sample(w)
    BY <2>1 DEF Sample, Goes
  <2>2. CASE Claim(w)
    BY <2>2 DEF Claim, Returns, Goes, Fresh, Spent, Refused
  <2>3. CASE Deliver(w)
    BY <2>3 DEF Deliver, Goes
  <2>4. CASE Finish(w)
    <3>1. Concluded(outcome[w], record.attempts) \in {"queued"} \cup Final
      BY DEF Concluded
    <3>2. at[w] + RetryDelay \in Nat
      OBVIOUS
    <3>3. record' \in [state : {"absent", "claimed", "queued"} \cup Final,
                      attempts : 0..MaxAttempts, token : Nat, claimUntil : Nat,
                      nextEligibleAt : Nat]
      BY <2>4, <3>1, <3>2 DEF Finish
    <3> QED BY <2>4, <3>3 DEF Finish, Returns, Goes
  <2>5. CASE Crash(w)
    BY <2>5 DEF Crash, Returns, Goes
  <2> QED BY <1>3, <2>1, <2>2, <2>3, <2>4, <2>5 DEF Step
<1>4. CASE UNCHANGED vars
  BY <1>4 DEF vars
<1> QED BY <1>1, <1>2, <1>3, <1>4 DEF Next

\* Every step keeps one lease per attempt: Claim draws both together.
LEMMA LeasesStep == Inv /\ [Next]_vars => Leases'
<1> SUFFICES ASSUME Inv, [Next]_vars PROVE Leases' OBVIOUS
<1> USE LimitsArePositive, ClocksAgree DEF Inv, TypeOK, Leases
<1>1. CASE Tick
  BY <1>1 DEF Tick
<1>2. CASE Ends
  BY <1>2 DEF Ends
<1>3. ASSUME NEW w \in Worker, Step(w) PROVE Leases'
  <2>1. CASE Sample(w)
    BY <2>1 DEF Sample, Goes
  <2>2. CASE Claim(w)
    BY <2>2 DEF Claim, Returns, Goes, Fresh, Spent, Refused
  <2>3. CASE Deliver(w)
    BY <2>3 DEF Deliver, Goes
  <2>4. CASE Finish(w)
    BY <2>4 DEF Finish, Returns, Goes, Concluded, Held
  <2>5. CASE Crash(w)
    BY <2>5 DEF Crash, Returns, Goes
  <2> QED BY <1>3, <2>1, <2>2, <2>3, <2>4, <2>5 DEF Step
<1>4. CASE UNCHANGED vars
  BY <1>4 DEF vars
<1> QED BY <1>1, <1>2, <1>3, <1>4 DEF Next

\* Clocks only run forward, so no step puts a sample ahead of its clock.
LEMMA SamplesStep == Inv /\ [Next]_vars => Samples'
<1> SUFFICES ASSUME Inv, [Next]_vars PROVE Samples' OBVIOUS
<1> USE LimitsArePositive, ClocksAgree DEF Inv, TypeOK, Samples, Clock
<1>1. CASE Tick
  BY <1>1 DEF Tick
<1>2. CASE Ends
  BY <1>2 DEF Ends
<1>3. ASSUME NEW w \in Worker, Step(w) PROVE Samples'
  <2>1. CASE Sample(w)
    BY <2>1 DEF Sample, Goes
  <2>2. CASE Claim(w)
    BY <2>2 DEF Claim, Returns, Goes, Fresh, Spent, Refused
  <2>3. CASE Deliver(w)
    BY <2>3 DEF Deliver, Goes
  <2>4. CASE Finish(w)
    BY <2>4 DEF Finish, Returns, Goes, Concluded, Held
  <2>5. CASE Crash(w)
    BY <2>5 DEF Crash, Returns, Goes
  <2> QED BY <1>3, <2>1, <2>2, <2>3, <2>4, <2>5 DEF Step
<1>4. CASE UNCHANGED vars
  BY <1>4 DEF vars
<1> QED BY <1>1, <1>2, <1>3, <1>4 DEF Next

\* A dispatch that ended stays ended, so every answer stays true.
LEMMA AnswersStep == Inv /\ [Next]_vars => Answers'
<1> SUFFICES ASSUME Inv, [Next]_vars PROVE Answers' OBVIOUS
<1> USE LimitsArePositive, ClocksAgree DEF Inv, TypeOK, Answers
<1>1. CASE Tick
  BY <1>1 DEF Tick
<1>2. CASE Ends
  BY <1>2 DEF Ends
<1>3. ASSUME NEW w \in Worker, Step(w) PROVE Answers'
  <2>1. CASE Sample(w)
    BY <2>1 DEF Sample, Goes
  <2>2. CASE Claim(w)
    BY <2>2 DEF Claim, Returns, Goes, Fresh, Spent, Refused
  <2>3. CASE Deliver(w)
    BY <2>3 DEF Deliver, Goes
  <2>4. CASE Finish(w)
    BY <2>4 DEF Finish, Returns, Goes, Concluded, Held
  <2>5. CASE Crash(w)
    BY <2>5 DEF Crash, Returns, Goes
  <2> QED BY <1>3, <2>1, <2>2, <2>3, <2>4, <2>5 DEF Step
<1>4. CASE UNCHANGED vars
  BY <1>4 DEF vars
<1> QED BY <1>1, <1>2, <1>3, <1>4 DEF Next

\* Finish records the end of the dispatch that its holder was answered.
LEMMA EndStep == Inv /\ [Next]_vars => EndIsReal'
<1> SUFFICES ASSUME Inv, [Next]_vars PROVE EndIsReal' OBVIOUS
<1> USE LimitsArePositive, ClocksAgree DEF Inv, TypeOK, Answers, EndIsReal
<1>1. CASE Tick
  BY <1>1 DEF Tick
<1>2. CASE Ends
  BY <1>2 DEF Ends
<1>3. ASSUME NEW w \in Worker, Step(w) PROVE EndIsReal'
  <2>1. CASE Sample(w)
    BY <2>1 DEF Sample, Goes
  <2>2. CASE Claim(w)
    BY <2>2 DEF Claim, Returns, Goes, Fresh, Spent, Refused
  <2>3. CASE Deliver(w)
    BY <2>3 DEF Deliver, Goes
  <2>4. CASE Finish(w)
    BY <2>4 DEF Finish, Returns, Goes, Concluded, Held
  <2>5. CASE Crash(w)
    BY <2>5 DEF Crash, Returns, Goes
  <2> QED BY <1>3, <2>1, <2>2, <2>3, <2>4, <2>5 DEF Step
<1>4. CASE UNCHANGED vars
  BY <1>4 DEF vars
<1> QED BY <1>1, <1>2, <1>3, <1>4 DEF Next

\* Every step keeps the invariant.
LEMMA InvStep == Inv /\ [Next]_vars => Inv'
  BY TypeStep, LeasesStep, SamplesStep, AnswersStep, EndStep DEF Inv

\* The invariant holds in every state of every behaviour.
THEOREM Invariance == Spec => []Inv
<1>1. Init => Inv BY InvInit
<1>2. Inv /\ [Next]_vars => Inv' BY InvStep
<1> QED BY <1>1, <1>2, PTL DEF Spec

\* Every variable keeps to its values.
THEOREM TypeCorrect == Spec => []TypeOK
<1>1. Inv => TypeOK BY DEF Inv
<1> QED BY <1>1, Invariance, PTL

\* The dispatch is called under at most MaxAttempts leases.
THEOREM DeliveriesAreBounded == Spec => []AttemptsBounded
<1>1. Inv => AttemptsBounded
  BY LimitsArePositive DEF Inv, TypeOK, Leases, AttemptsBounded
<1> QED BY <1>1, Invariance, PTL

\* A delivery says it ended the dispatch only when the dispatch did.
THEOREM EndsAreReal == Spec => []EndIsReal
<1>1. Inv => EndIsReal BY DEF Inv
<1> QED BY <1>1, Invariance, PTL

\* Whoever takes a delivery over waited out more than its clock can be ahead by.
LEMMA DueStep == Inv /\ [Next]_vars => TakenWhenDue
<1> SUFFICES ASSUME Inv, [Next]_vars PROVE TakenWhenDue OBVIOUS
<1> USE LimitsArePositive, ClocksAgree DEF Inv, TypeOK, Samples, Clock, Final, TakenWhenDue
<1>1. CASE Tick
  BY <1>1 DEF Tick
<1>2. CASE Ends
  BY <1>2 DEF Ends
<1>3. ASSUME NEW w \in Worker, Step(w) PROVE TakenWhenDue
  <2>1. CASE Sample(w)
    BY <2>1 DEF Sample, Goes
  <2>2. CASE Claim(w)
    BY <2>2 DEF Claim, Returns, Goes, Fresh, Spent, Refused
  <2>3. CASE Deliver(w)
    BY <2>3 DEF Deliver, Goes
  <2>4. CASE Finish(w)
    BY <2>4 DEF Finish, Returns, Goes, Concluded, Held
  <2>5. CASE Crash(w)
    BY <2>5 DEF Crash, Returns, Goes
  <2> QED BY <1>3, <2>1, <2>2, <2>3, <2>4, <2>5 DEF Step
<1>4. CASE UNCHANGED vars
  BY <1>4 DEF vars
<1> QED BY <1>1, <1>2, <1>3, <1>4 DEF Next

\* A delivery is taken over only when its lease is over on every clock.
THEOREM LeasesAreRespected == Spec => TakenOnlyWhenDue
<1>1. Inv /\ [Next]_vars => [TakenWhenDue]_vars
  BY DueStep
<1> QED BY <1>1, Invariance, PTL DEF Spec, TakenOnlyWhenDue

\* Only an undecided record is claimed, and only a standing lease is finished.
LEMMA FinalStep == Inv /\ [Next]_vars => DecisionStands
<1> SUFFICES ASSUME Inv, [Next]_vars PROVE DecisionStands OBVIOUS
<1> USE LimitsArePositive, ClocksAgree DEF Inv, TypeOK, Final, DecisionStands
<1>1. CASE Tick
  BY <1>1 DEF Tick
<1>2. CASE Ends
  BY <1>2 DEF Ends
<1>3. ASSUME NEW w \in Worker, Step(w) PROVE DecisionStands
  <2>1. CASE Sample(w)
    BY <2>1 DEF Sample, Goes
  <2>2. CASE Claim(w)
    BY <2>2 DEF Claim, Returns, Goes, Fresh, Spent, Refused
  <2>3. CASE Deliver(w)
    BY <2>3 DEF Deliver, Goes
  <2>4. CASE Finish(w)
    BY <2>4 DEF Finish, Returns, Goes, Concluded, Held
  <2>5. CASE Crash(w)
    BY <2>5 DEF Crash, Returns, Goes
  <2> QED BY <1>3, <2>1, <2>2, <2>3, <2>4, <2>5 DEF Step
<1>4. CASE UNCHANGED vars
  BY <1>4 DEF vars
<1> QED BY <1>1, <1>2, <1>3, <1>4 DEF Next

\* A decided delivery stays as it is.
THEOREM DecisionsStand == Spec => DecidedIsFinal
<1>1. Inv /\ [Next]_vars => [DecisionStands]_vars
  BY FinalStep
<1> QED BY <1>1, Invariance, PTL DEF Spec, DecidedIsFinal
===========================================================================
