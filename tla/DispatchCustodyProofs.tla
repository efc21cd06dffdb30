----------------------- MODULE DispatchCustodyProofs -----------------------
(***************************************************************************)
(* Proofs about DispatchCustody, for any number of pages, recoverers and   *)
(* cancellers: its type invariant, the safety of the slot and of the fence *)
(* and the implementation of WorkerCustody.                                *)
(***************************************************************************)
EXTENDS DispatchCustody, TLAPS

(* The inductive invariant: what everyone who has looked, and the journal,   *)
(* know of a container that only moves forward.                              *)
Started == container \in {"running", "exited", "removed"}
Over == container \in {"exited", "removed"}

OwnerKnows ==
  /\ owner \in {"granted", "created", "named", "attached", "looked", "outputting",
                "finishing"} => record.launch = "granted"
  /\ owner \in {"idle", "claimed", "granted"} => container = "none"
  /\ owner = "created" => container = "created"
  /\ owner \in {"idle", "claimed", "granted", "created"} => ~record.named
  /\ owner = "named" => record.named
  /\ ownerSaw # "unknown" => Started
  /\ ownerSaw = "exited" => Over
  /\ owner \in {"outputting", "finishing"} => Over

ProcessKnows == \A p \in Process :
  /\ saw[p] # "unknown" => Started
  /\ saw[p] = "exited" => Over
  /\ step[p] = "settling" => Over
  /\ step[p] \in {"observed", "unresolved", "settling", "fencing"} => record.launch = "granted"
  /\ step[p] \in {"fence written", "stopped", "proving", "proven"} => fenced
  /\ step[p] = "cancelling" /\ p \in Recoverer => fenced
  /\ step[p] = "proven" => container \in {"exited", "discarded"}

JournalKnows ==
  /\ container # "none" => record.launch = "granted"
  /\ Started => record.named
  /\ record.worker => Started
  /\ record.terminal # "none" => Over /\ ~fenced
  /\ container = "removed" => record.terminal # "none"
  /\ fenced => record.launch = "granted"
  /\ SlotFreedAfterStop

Inv == TypeOK /\ OwnerKnows /\ ProcessKnows /\ JournalKnows

\* The invariant holds at the start.
LEMMA InvInit == Init => Inv
<1> SUFFICES ASSUME Init PROVE Inv OBVIOUS
<1>1. TypeOK
  BY DEF Init, TypeOK, Idle, Records, Launches, Containers, Sights, OwnerSteps, Steps
<1>2. OwnerKnows
  BY DEF Init, OwnerKnows, Started, Over, Idle
<1>3. ProcessKnows
  BY DEF Init, ProcessKnows, Started, Over, Idle
<1>4. JournalKnows
  BY DEF Init, JournalKnows, SlotFreedAfterStop, Started, Over, Idle
<1> QED BY <1>1, <1>2, <1>3, <1>4 DEF Inv

\* Every step keeps the types.
LEMMA TypeStep == Inv /\ [Next]_vars => TypeOK'
<1> SUFFICES ASSUME Inv, [Next]_vars PROVE TypeOK' OBVIOUS
<1> USE DEF Inv, TypeOK, journal, Launches, Containers, Sights, OwnerSteps, Steps
<1>1. CASE Claim
  BY <1>1 DEF Claim, OwnerGoes, OwnerOnly, Records
<1>2. CASE Grant
  BY <1>2 DEF Grant, OwnerOnly, Decided, Records
<1>3. CASE Create
  BY <1>3 DEF Create, OwnerOnly
<1>4. CASE NameContainer
  BY <1>4 DEF NameContainer, OwnerOnly, Records
<1>5. CASE StartContainer
  BY <1>5 DEF StartContainer, OwnerOnly
<1>6. CASE Look
  BY <1>6 DEF Look, OwnerOnly
<1>7. CASE OwnerRetainsWorker
  BY <1>7 DEF OwnerRetainsWorker, OwnerOnly, Records
<1>8. CASE OwnerRetainsOutput
  <2>1. record' \in Records /\ owner' \in {"done", "finishing"}
    BY <1>8 DEF OwnerRetainsOutput, Records
  <2> QED BY <1>8, <2>1 DEF OwnerRetainsOutput, OwnerOnly
<1>9. CASE OwnerFinishes
  BY <1>9 DEF OwnerFinishes, OwnerGoes, OwnerOnly, Finished, Merged, Records
<1>10. CASE OwnerDies
  BY <1>10 DEF OwnerDies, OwnerGoes, OwnerOnly
<1>11. CASE WorkerEnds
  BY <1>11 DEF WorkerEnds
<1>12. CASE RecoverOutput
  BY <1>12 DEF RecoverOutput, Records
<1>13. CASE RemoveContainer
  BY <1>13 DEF RemoveContainer
<1>14. ASSUME NEW p \in Process, ProcessStep(p) PROVE TypeOK'
  <2>1. CASE Reconcile(p)
    <3>1. Seen \in Sights BY DEF Seen
    <3>2. saw' = [saw EXCEPT ![p] = Seen] BY <2>1 DEF Reconcile, Observes
    <3>3. saw' \in [Process -> Sights] BY <3>1, <3>2
    <3>4. step' \in [Process -> Steps] /\ expected' \in [Process -> BOOLEAN]
      BY <2>1 DEF Reconcile, Goes, Records
    <3> QED BY <2>1, <3>3, <3>4 DEF Reconcile
  <2>2. CASE RetainWorker(p)
    BY <2>2, RolesAreDistinct DEF RetainWorker, Unresolved, Records
  <2>3. CASE Settle(p)
    <3>1. Merged(record.terminal, "exit") \in {"exit", "natural", "interrupted"}
      BY DEF Merged, Records
    <3>2. record' \in Records BY <2>3, <3>1 DEF Settle, Finished, Records
    <3>3. step' \in [Process -> Steps] BY <2>3 DEF Settle, Goes
    <3> QED BY <2>3, <3>2, <3>3 DEF Settle
  <2>4. CASE RequestCancellation(p)
    BY <2>4, RolesAreDistinct DEF RequestCancellation, Goes, Records
  <2>5. CASE PreventLaunch(p)
    <3>1. Decided(record) \in Records BY DEF Decided, Records
    <3>2. record' \in Records BY <2>5, <3>1 DEF PreventLaunch
    <3>3. step' \in [Process -> Steps] BY <2>5 DEF PreventLaunch, Goes
    <3> QED BY <2>5, <3>2, <3>3 DEF PreventLaunch
  <2>6. CASE Kill(p)
    BY <2>6, RolesAreDistinct DEF Kill
  <2>7. CASE SeeNoExit(p)
    BY <2>7, RolesAreDistinct DEF SeeNoExit, Goes
  <2>8. CASE Fence(p)
    BY <2>8, RolesAreDistinct DEF Fence, Goes, FenceRefused
  <2>9. CASE Resume(p)
    BY <2>9, RolesAreDistinct DEF Resume, Goes
  <2>10. CASE Stop(p)
    BY <2>10, RolesAreDistinct DEF Stop, Goes, Records
  <2>11. CASE RemoveCreated(p)
    BY <2>11, RolesAreDistinct DEF RemoveCreated, Goes
  <2>12. CASE Prove(p)
    BY <2>12, RolesAreDistinct DEF Prove, Proof
  <2>13. CASE Release(p)
    BY <2>13, RolesAreDistinct DEF Release, Goes
  <2>14. CASE Abandon(p)
    BY <2>14, RolesAreDistinct DEF Abandon, Goes
  <2> QED BY <1>14, <2>1, <2>2, <2>3, <2>4, <2>5, <2>6, <2>7, <2>8, <2>9, <2>10, <2>11, <2>12, <2>13, <2>14 DEF ProcessStep
<1>15. CASE UNCHANGED vars
  BY <1>15 DEF vars
<1> QED BY <1>1, <1>2, <1>3, <1>4, <1>5, <1>6, <1>7, <1>8, <1>9, <1>10, <1>11, <1>12, <1>13, <1>14, <1>15 DEF Next, OwnerStep

\* Every step keeps what the owner of the launch may rely on.
LEMMA OwnerStepKept == Inv /\ [Next]_vars => OwnerKnows'
<1> SUFFICES ASSUME Inv, [Next]_vars PROVE OwnerKnows' OBVIOUS
<1> USE DEF Inv, TypeOK, OwnerKnows, ProcessKnows, JournalKnows, Started, Over, journal, Records, Launches, Containers, Sights, OwnerSteps, Steps
<1>1. CASE Claim
  BY <1>1 DEF Claim, OwnerGoes, OwnerOnly
<1>2. CASE Grant
  BY <1>2 DEF Grant, OwnerOnly, Decided
<1>3. CASE Create
  BY <1>3 DEF Create, OwnerOnly
<1>4. CASE NameContainer
  BY <1>4 DEF NameContainer, OwnerOnly
<1>5. CASE StartContainer
  BY <1>5 DEF StartContainer, OwnerOnly
<1>6. CASE Look
  BY <1>6 DEF Look, OwnerOnly
<1>7. CASE OwnerRetainsWorker
  BY <1>7 DEF OwnerRetainsWorker, OwnerOnly
<1>8. CASE OwnerRetainsOutput
  BY <1>8 DEF OwnerRetainsOutput, OwnerOnly
<1>9. CASE OwnerFinishes
  BY <1>9 DEF OwnerFinishes, OwnerGoes, OwnerOnly, Finished, Merged
<1>10. CASE OwnerDies
  BY <1>10 DEF OwnerDies, OwnerGoes, OwnerOnly
<1>11. CASE WorkerEnds
  BY <1>11 DEF WorkerEnds
<1>12. CASE RecoverOutput
  BY <1>12 DEF RecoverOutput
<1>13. CASE RemoveContainer
  BY <1>13 DEF RemoveContainer
<1>14. ASSUME NEW p \in Process, ProcessStep(p) PROVE OwnerKnows'
  <2>1. CASE Reconcile(p)
    BY <2>1, RolesAreDistinct DEF Reconcile, Goes, Observes, Seen, Observable
  <2>2. CASE RetainWorker(p)
    BY <2>2, RolesAreDistinct DEF RetainWorker, Unresolved
  <2>3. CASE Settle(p)
    BY <2>3, RolesAreDistinct DEF Settle, Goes, Finished, Merged
  <2>4. CASE RequestCancellation(p)
    BY <2>4, RolesAreDistinct DEF RequestCancellation, Goes
  <2>5. CASE PreventLaunch(p)
    BY <2>5, RolesAreDistinct DEF PreventLaunch, Goes, Decided
  <2>6. CASE Kill(p)
    BY <2>6, RolesAreDistinct DEF Kill
  <2>7. CASE SeeNoExit(p)
    BY <2>7, RolesAreDistinct DEF SeeNoExit, Goes
  <2>8. CASE Fence(p)
    BY <2>8, RolesAreDistinct DEF Fence, Goes, FenceRefused
  <2>9. CASE Resume(p)
    BY <2>9, RolesAreDistinct DEF Resume, Goes
  <2>10. CASE Stop(p)
    BY <2>10, RolesAreDistinct DEF Stop, Goes
  <2>11. CASE RemoveCreated(p)
    BY <2>11, RolesAreDistinct DEF RemoveCreated, Goes
  <2>12. CASE Prove(p)
    BY <2>12, RolesAreDistinct DEF Prove, Proof
  <2>13. CASE Release(p)
    BY <2>13, RolesAreDistinct DEF Release, Goes
  <2>14. CASE Abandon(p)
    BY <2>14, RolesAreDistinct DEF Abandon, Goes
  <2> QED BY <1>14, <2>1, <2>2, <2>3, <2>4, <2>5, <2>6, <2>7, <2>8, <2>9, <2>10, <2>11, <2>12, <2>13, <2>14 DEF ProcessStep
<1>15. CASE UNCHANGED vars
  BY <1>15 DEF vars
<1> QED BY <1>1, <1>2, <1>3, <1>4, <1>5, <1>6, <1>7, <1>8, <1>9, <1>10, <1>11, <1>12, <1>13, <1>14, <1>15 DEF Next, OwnerStep

\* Every step keeps what is known of the container.
LEMMA ProcessStepKept == Inv /\ [Next]_vars => ProcessKnows'
<1> SUFFICES ASSUME Inv, [Next]_vars PROVE ProcessKnows' OBVIOUS
<1> USE DEF Inv, TypeOK, OwnerKnows, ProcessKnows, JournalKnows, Started, Over, journal, Process, Records, Launches, Containers, Sights, OwnerSteps, Steps
<1>1. CASE Claim
  BY <1>1 DEF Claim, OwnerGoes, OwnerOnly
<1>2. CASE Grant
  BY <1>2 DEF Grant, OwnerOnly, Decided
<1>3. CASE Create
  BY <1>3 DEF Create, OwnerOnly
<1>4. CASE NameContainer
  <2>1. record'.launch = record.launch /\ UNCHANGED <<fenced, container, step, saw>>
    BY <1>4 DEF NameContainer, OwnerOnly
  <2> QED BY <2>1
<1>5. CASE StartContainer
  BY <1>5 DEF StartContainer, OwnerOnly
<1>6. CASE Look
  BY <1>6 DEF Look, OwnerOnly
<1>7. CASE OwnerRetainsWorker
  BY <1>7 DEF OwnerRetainsWorker, OwnerOnly
<1>8. CASE OwnerRetainsOutput
  BY <1>8 DEF OwnerRetainsOutput, OwnerOnly
<1>9. CASE OwnerFinishes
  BY <1>9 DEF OwnerFinishes, OwnerGoes, OwnerOnly, Finished, Merged
<1>10. CASE OwnerDies
  BY <1>10 DEF OwnerDies, OwnerGoes, OwnerOnly
<1>11. CASE WorkerEnds
  BY <1>11 DEF WorkerEnds
<1>12. CASE RecoverOutput
  BY <1>12 DEF RecoverOutput
<1>13. CASE RemoveContainer
  BY <1>13 DEF RemoveContainer
<1>14. ASSUME NEW p \in Process, ProcessStep(p) PROVE ProcessKnows'
  <2>1. CASE Reconcile(p)
    BY <2>1, RolesAreDistinct DEF Reconcile, Goes, Observes, Seen, Observable
  <2>2. CASE RetainWorker(p)
    BY <2>2, RolesAreDistinct DEF RetainWorker, Unresolved
  <2>3. CASE Settle(p)
    BY <2>3, RolesAreDistinct DEF Settle, Goes, Finished, Merged
  <2>4. CASE RequestCancellation(p)
    <3>1. /\ record'.launch = record.launch /\ step' = [step EXCEPT ![p] = "cancelling"]
          /\ p \notin Recoverer /\ UNCHANGED <<fenced, container, saw>>
      BY <2>4, RolesAreDistinct DEF RequestCancellation, Goes
    <3> QED BY <3>1
  <2>5. CASE PreventLaunch(p)
    <3>1. /\ record.launch # "granted" /\ step' = [step EXCEPT ![p] = "idle"]
          /\ UNCHANGED <<fenced, container, saw>>
      BY <2>5 DEF PreventLaunch, Goes
    <3> QED BY <3>1
  <2>6. CASE Kill(p)
    BY <2>6, RolesAreDistinct DEF Kill
  <2>7. CASE SeeNoExit(p)
    BY <2>7, RolesAreDistinct DEF SeeNoExit, Goes
  <2>8. CASE Fence(p)
    <3>1. UNCHANGED <<record, container, saw>> BY <2>8 DEF Fence
    <3>2. CASE FenceRefused(p)
      <4>1. step' = [step EXCEPT ![p] = "idle"] /\ UNCHANGED fenced
        BY <2>8, <3>2 DEF Fence, Goes
      <4> QED BY <3>1, <4>1
    <3>3. CASE ~FenceRefused(p)
      <4>1. step' = [step EXCEPT ![p] = "fence written"] /\ fenced'
        BY <2>8, <3>3 DEF Fence
      <4> QED BY <3>1, <4>1
    <3> QED BY <3>2, <3>3
  <2>9. CASE Resume(p)
    BY <2>9, RolesAreDistinct DEF Resume, Goes
  <2>10. CASE Stop(p)
    BY <2>10, RolesAreDistinct DEF Stop, Goes
  <2>11. CASE RemoveCreated(p)
    BY <2>11, RolesAreDistinct DEF RemoveCreated, Goes
  <2>12. CASE Prove(p)
    BY <2>12, RolesAreDistinct DEF Prove, Proof
  <2>13. CASE Release(p)
    BY <2>13, RolesAreDistinct DEF Release, Goes
  <2>14. CASE Abandon(p)
    BY <2>14, RolesAreDistinct DEF Abandon, Goes
  <2> QED BY <1>14, <2>1, <2>2, <2>3, <2>4, <2>5, <2>6, <2>7, <2>8, <2>9, <2>10, <2>11, <2>12, <2>13, <2>14 DEF ProcessStep
<1>15. CASE UNCHANGED vars
  BY <1>15 DEF vars
<1> QED BY <1>1, <1>2, <1>3, <1>4, <1>5, <1>6, <1>7, <1>8, <1>9, <1>10, <1>11, <1>12, <1>13, <1>14, <1>15 DEF Next, OwnerStep

\* Every step keeps what the journal says of the dispatch.
LEMMA JournalStepKept == Inv /\ [Next]_vars => JournalKnows'
<1> SUFFICES ASSUME Inv, [Next]_vars PROVE JournalKnows' OBVIOUS
<1> USE DEF Inv, TypeOK, OwnerKnows, ProcessKnows, JournalKnows, SlotFreedAfterStop, Started, Over, journal, Records, Launches, Containers, Sights, OwnerSteps, Steps
<1>1. CASE Claim
  BY <1>1 DEF Claim, OwnerGoes, OwnerOnly
<1>2. CASE Grant
  BY <1>2 DEF Grant, OwnerOnly, Decided
<1>3. CASE Create
  BY <1>3 DEF Create, OwnerOnly
<1>4. CASE NameContainer
  <2>1. /\ record'.launch = record.launch /\ record'.worker = record.worker
        /\ record'.terminal = record.terminal /\ (record.named => record'.named)
        /\ UNCHANGED <<fenced, released, container>>
    <3>1. UNCHANGED <<fenced, released, container>> BY <1>4 DEF NameContainer
    <3>2. record' = record \/ record' = [record EXCEPT !.named = TRUE] BY <1>4 DEF NameContainer
    <3>3. CASE record' = record BY <3>1, <3>3
    <3>4. CASE record' = [record EXCEPT !.named = TRUE] BY <3>1, <3>4
    <3> QED BY <3>2, <3>3, <3>4
  <2> QED BY <2>1
<1>5. CASE StartContainer
  <2>1. record.named /\ record.launch = "granted" /\ UNCHANGED journal
    BY <1>5 DEF StartContainer
  <2>2. UNCHANGED container \/ (container = "created" /\ container' = "running")
    BY <1>5 DEF StartContainer
  <2> QED BY <2>1, <2>2
<1>6. CASE Look
  BY <1>6 DEF Look, OwnerOnly
<1>7. CASE OwnerRetainsWorker
  BY <1>7 DEF OwnerRetainsWorker, OwnerOnly
<1>8. CASE OwnerRetainsOutput
  BY <1>8 DEF OwnerRetainsOutput, OwnerOnly
<1>9. CASE OwnerFinishes
  BY <1>9 DEF OwnerFinishes, OwnerGoes, OwnerOnly, Finished, Merged
<1>10. CASE OwnerDies
  BY <1>10 DEF OwnerDies, OwnerGoes, OwnerOnly
<1>11. CASE WorkerEnds
  BY <1>11 DEF WorkerEnds
<1>12. CASE RecoverOutput
  BY <1>12 DEF RecoverOutput
<1>13. CASE RemoveContainer
  BY <1>13 DEF RemoveContainer
<1>14. ASSUME NEW p \in Process, ProcessStep(p) PROVE JournalKnows'
  <2>1. CASE Reconcile(p)
    BY <2>1, RolesAreDistinct DEF Reconcile, Goes, Observes, Seen, Observable
  <2>2. CASE RetainWorker(p)
    BY <2>2, RolesAreDistinct DEF RetainWorker, Unresolved
  <2>3. CASE Settle(p)
    BY <2>3, RolesAreDistinct DEF Settle, Goes, Finished, Merged
  <2>4. CASE RequestCancellation(p)
    BY <2>4, RolesAreDistinct DEF RequestCancellation, Goes
  <2>5. CASE PreventLaunch(p)
    BY <2>5, RolesAreDistinct DEF PreventLaunch, Goes, Decided
  <2>6. CASE Kill(p)
    BY <2>6, RolesAreDistinct DEF Kill
  <2>7. CASE SeeNoExit(p)
    BY <2>7, RolesAreDistinct DEF SeeNoExit, Goes
  <2>8. CASE Fence(p)
    BY <2>8, RolesAreDistinct DEF Fence, Goes, FenceRefused
  <2>9. CASE Resume(p)
    BY <2>9, RolesAreDistinct DEF Resume, Goes
  <2>10. CASE Stop(p)
    BY <2>10, RolesAreDistinct DEF Stop, Goes
  <2>11. CASE RemoveCreated(p)
    BY <2>11, RolesAreDistinct DEF RemoveCreated, Goes
  <2>12. CASE Prove(p)
    BY <2>12, RolesAreDistinct DEF Prove, Proof
  <2>13. CASE Release(p)
    BY <2>13, RolesAreDistinct DEF Release, Goes
  <2>14. CASE Abandon(p)
    BY <2>14, RolesAreDistinct DEF Abandon, Goes
  <2> QED BY <1>14, <2>1, <2>2, <2>3, <2>4, <2>5, <2>6, <2>7, <2>8, <2>9, <2>10, <2>11, <2>12, <2>13, <2>14 DEF ProcessStep
<1>15. CASE UNCHANGED vars
  BY <1>15 DEF vars
<1> QED BY <1>1, <1>2, <1>3, <1>4, <1>5, <1>6, <1>7, <1>8, <1>9, <1>10, <1>11, <1>12, <1>13, <1>14, <1>15 DEF Next, OwnerStep

\* Every step keeps the invariant.
LEMMA InvStep == Inv /\ [Next]_vars => Inv'
  BY TypeStep, OwnerStepKept, ProcessStepKept, JournalStepKept DEF Inv

\* The invariant holds in every state of every behaviour.
THEOREM Invariance == Spec => []Inv
<1>1. Init => Inv BY InvInit
<1>2. Inv /\ [Next]_vars => Inv' BY InvStep
<1> QED BY <1>1, <1>2, PTL DEF Spec

\* Every variable keeps to its values.
THEOREM TypeCorrect == Spec => []TypeOK
<1>1. Inv => TypeOK BY DEF Inv
<1> QED BY <1>1, Invariance, PTL

\* A slot is freed only when its worker can run no more.
THEOREM SlotSafety == Spec => []SlotFreedAfterStop
<1>1. Inv => SlotFreedAfterStop BY DEF Inv, JournalKnows
<1> QED BY <1>1, Invariance, PTL

\* Whatever was started was granted and is named in the journal.
THEOREM WorkersAreNamed == Spec => []StartedIsNamed
<1>1. Inv => StartedIsNamed BY DEF Inv, JournalKnows, StartedIsNamed, Started
<1> QED BY <1>1, Invariance, PTL

\* A settled dispatch was seen to end, and none is both settled and lost.
THEOREM OneFate == Spec => [](NeverSettledAndLost /\ EndIsObserved)
<1>1. Inv => NeverSettledAndLost /\ EndIsObserved
  BY DEF Inv, JournalKnows, NeverSettledAndLost, EndIsObserved, Over
<1> QED BY <1>1, Invariance, PTL

(* The fence: no step, of anyone, writes evidence to a fenced record.        *)

\* Once the fence stands, no step but a cancellation touches the record.
LEMMA FrozenStep == Inv /\ [Next]_vars => (fenced => record' = [record EXCEPT !.cancelled = record'.cancelled])
<1> SUFFICES ASSUME Inv, [Next]_vars PROVE (fenced => record' = [record EXCEPT !.cancelled = record'.cancelled]) OBVIOUS
<1> USE DEF Inv, TypeOK, OwnerKnows, ProcessKnows, JournalKnows, Started, Over, journal, Records
<1>1. CASE Claim
  BY <1>1 DEF Claim, OwnerGoes, OwnerOnly
<1>2. CASE Grant
  BY <1>2 DEF Grant, OwnerOnly, Decided
<1>3. CASE Create
  BY <1>3 DEF Create, OwnerOnly
<1>4. CASE NameContainer
  BY <1>4 DEF NameContainer, OwnerOnly
<1>5. CASE StartContainer
  BY <1>5 DEF StartContainer, OwnerOnly
<1>6. CASE Look
  BY <1>6 DEF Look, OwnerOnly
<1>7. CASE OwnerRetainsWorker
  BY <1>7 DEF OwnerRetainsWorker, OwnerOnly
<1>8. CASE OwnerRetainsOutput
  BY <1>8 DEF OwnerRetainsOutput, OwnerOnly
<1>9. CASE OwnerFinishes
  BY <1>9 DEF OwnerFinishes, OwnerGoes, OwnerOnly, Finished, Merged
<1>10. CASE OwnerDies
  BY <1>10 DEF OwnerDies, OwnerGoes, OwnerOnly
<1>11. CASE WorkerEnds
  BY <1>11 DEF WorkerEnds
<1>12. CASE RecoverOutput
  BY <1>12 DEF RecoverOutput
<1>13. CASE RemoveContainer
  BY <1>13 DEF RemoveContainer
<1>14. ASSUME NEW p \in Process, ProcessStep(p) PROVE (fenced => record' = [record EXCEPT !.cancelled = record'.cancelled])
  <2>1. CASE Reconcile(p)
    BY <2>1 DEF Reconcile, Goes, Observes, Seen, Observable
  <2>2. CASE RetainWorker(p)
    BY <2>2 DEF RetainWorker, Unresolved
  <2>3. CASE Settle(p)
    BY <2>3 DEF Settle, Goes, Finished, Merged
  <2>4. CASE RequestCancellation(p)
    BY <2>4 DEF RequestCancellation, Goes
  <2>5. CASE PreventLaunch(p)
    BY <2>5 DEF PreventLaunch, Goes, Decided
  <2>6. CASE Kill(p)
    BY <2>6 DEF Kill
  <2>7. CASE SeeNoExit(p)
    BY <2>7 DEF SeeNoExit, Goes
  <2>8. CASE Fence(p)
    BY <2>8 DEF Fence, Goes, FenceRefused
  <2>9. CASE Resume(p)
    BY <2>9 DEF Resume, Goes
  <2>10. CASE Stop(p)
    BY <2>10 DEF Stop, Goes
  <2>11. CASE RemoveCreated(p)
    BY <2>11 DEF RemoveCreated, Goes
  <2>12. CASE Prove(p)
    BY <2>12 DEF Prove, Proof
  <2>13. CASE Release(p)
    BY <2>13 DEF Release, Goes
  <2>14. CASE Abandon(p)
    BY <2>14 DEF Abandon, Goes
  <2> QED BY <1>14, <2>1, <2>2, <2>3, <2>4, <2>5, <2>6, <2>7, <2>8, <2>9, <2>10, <2>11, <2>12, <2>13, <2>14 DEF ProcessStep
<1>15. CASE UNCHANGED vars
  BY <1>15 DEF vars
<1> QED BY <1>1, <1>2, <1>3, <1>4, <1>5, <1>6, <1>7, <1>8, <1>9, <1>10, <1>11, <1>12, <1>13, <1>14, <1>15 DEF Next, OwnerStep

\* The evidence of a fenced dispatch stays as it is.
THEOREM FenceHolds == Spec => FencedRecordIsFrozen
<1>1. Inv /\ [Next]_vars => [fenced => record' = [record EXCEPT !.cancelled = record'.cancelled]]_vars
  BY FrozenStep
<1> QED BY <1>1, Invariance, PTL DEF Spec, FencedRecordIsFrozen

(* The refinement: every step is a step of the custody, or stutters on it.    *)

\* Every step is a step of the custody of one worker, or none.
LEMMA CustodyStep == Inv /\ [Next]_vars => [Custody!Next]_(Custody!custody)
<1> SUFFICES ASSUME Inv, [Next]_vars PROVE [Custody!Next]_(Custody!custody) OBVIOUS
<1> USE DEF Inv, TypeOK, OwnerKnows, ProcessKnows, JournalKnows, Started, Over, journal, SlotFreedAfterStop, Containers, Worker, Fate, Custody!Next, Custody!custody, Custody!Start, Custody!Stop, Custody!Settle, Custody!Lose, Custody!Free
<1>1. CASE Claim
  BY <1>1 DEF Claim, OwnerGoes, OwnerOnly, Records
<1>2. CASE Grant
  BY <1>2 DEF Grant, OwnerOnly, Decided, Records
<1>3. CASE Create
  BY <1>3 DEF Create, OwnerOnly
<1>4. CASE NameContainer
  BY <1>4 DEF NameContainer, OwnerOnly, Records
<1>5. CASE StartContainer
  BY <1>5 DEF StartContainer, OwnerOnly
<1>6. CASE Look
  BY <1>6 DEF Look, OwnerOnly
<1>7. CASE OwnerRetainsWorker
  BY <1>7 DEF OwnerRetainsWorker, OwnerOnly, Records
<1>8. CASE OwnerRetainsOutput
  BY <1>8 DEF OwnerRetainsOutput, OwnerOnly, Records
<1>9. CASE OwnerFinishes
  BY <1>9 DEF OwnerFinishes, OwnerGoes, OwnerOnly, Finished, Merged, Records
<1>10. CASE OwnerDies
  BY <1>10 DEF OwnerDies, OwnerGoes, OwnerOnly
<1>11. CASE WorkerEnds
  BY <1>11 DEF WorkerEnds
<1>12. CASE RecoverOutput
  BY <1>12 DEF RecoverOutput, Records
<1>13. CASE RemoveContainer
  BY <1>13 DEF RemoveContainer
<1>14. ASSUME NEW p \in Process, ProcessStep(p) PROVE [Custody!Next]_(Custody!custody)
  <2>1. CASE Reconcile(p)
    BY <2>1 DEF Reconcile, Goes, Observes, Seen, Observable
  <2>2. CASE RetainWorker(p)
    BY <2>2 DEF RetainWorker, Unresolved, Records
  <2>3. CASE Settle(p)
    BY <2>3 DEF Settle, Goes, Finished, Merged, Records
  <2>4. CASE RequestCancellation(p)
    BY <2>4 DEF RequestCancellation, Goes, Records
  <2>5. CASE PreventLaunch(p)
    BY <2>5 DEF PreventLaunch, Goes, Decided, Records
  <2>6. CASE Kill(p)
    BY <2>6 DEF Kill
  <2>7. CASE SeeNoExit(p)
    BY <2>7 DEF SeeNoExit, Goes
  <2>8. CASE Fence(p)
    BY <2>8 DEF Fence, Goes, FenceRefused
  <2>9. CASE Resume(p)
    BY <2>9 DEF Resume, Goes
  <2>10. CASE Stop(p)
    BY <2>10 DEF Stop, Goes, Records
  <2>11. CASE RemoveCreated(p)
    BY <2>11 DEF RemoveCreated, Goes
  <2>12. CASE Prove(p)
    BY <2>12 DEF Prove, Proof
  <2>13. CASE Release(p)
    BY <2>13 DEF Release, Goes
  <2>14. CASE Abandon(p)
    BY <2>14 DEF Abandon, Goes
  <2> QED BY <1>14, <2>1, <2>2, <2>3, <2>4, <2>5, <2>6, <2>7, <2>8, <2>9, <2>10, <2>11, <2>12, <2>13, <2>14 DEF ProcessStep
<1>15. CASE UNCHANGED vars
  BY <1>15 DEF vars
<1> QED BY <1>1, <1>2, <1>3, <1>4, <1>5, <1>6, <1>7, <1>8, <1>9, <1>10, <1>11, <1>12, <1>13, <1>14, <1>15 DEF Next, OwnerStep

\* The dispatch implements the custody of one worker.
THEOREM CustodyImplemented == Spec => CustodyKept
<1>1. Init => Custody!Init
  BY DEF Init, Idle, Custody!Init, Worker, Fate
<1>2. Inv /\ [Next]_vars => [Custody!Next]_(Custody!custody)
  BY CustodyStep
<1> QED BY <1>1, <1>2, Invariance, PTL DEF Spec, CustodyKept, Custody!Spec

(* Evidence: no step rewrites what the journal already knows.               *)

\* No step takes evidence away or rewrites it.
LEMMA GrowthStep == Inv /\ [Next]_vars => EvidenceGrows
<1> SUFFICES ASSUME Inv, [Next]_vars PROVE EvidenceGrows OBVIOUS
<1> USE DEF Inv, TypeOK, EvidenceGrows, Kept, journal
<1>1. CASE Claim
  BY <1>1 DEF Claim, Records, OwnerGoes, OwnerOnly
<1>2. CASE Grant
  BY <1>2 DEF Grant, Records, OwnerOnly, Decided
<1>3. CASE Create
  BY <1>3 DEF Create, OwnerOnly
<1>4. CASE NameContainer
  BY <1>4 DEF NameContainer, Records, OwnerOnly
<1>5. CASE StartContainer
  BY <1>5 DEF StartContainer, OwnerOnly
<1>6. CASE Look
  BY <1>6 DEF Look, OwnerOnly
<1>7. CASE OwnerRetainsWorker
  BY <1>7 DEF OwnerRetainsWorker, Records, OwnerOnly
<1>8. CASE OwnerRetainsOutput
  BY <1>8 DEF OwnerRetainsOutput, Records, OwnerOnly
<1>9. CASE OwnerFinishes
  BY <1>9 DEF OwnerFinishes, Records, OwnerGoes, OwnerOnly, Finished, Merged
<1>10. CASE OwnerDies
  BY <1>10 DEF OwnerDies, OwnerGoes, OwnerOnly
<1>11. CASE WorkerEnds
  BY <1>11 DEF WorkerEnds
<1>12. CASE RecoverOutput
  BY <1>12 DEF RecoverOutput, Records
<1>13. CASE RemoveContainer
  BY <1>13 DEF RemoveContainer
<1>14. ASSUME NEW p \in Process, ProcessStep(p) PROVE EvidenceGrows
  <2>1. CASE Reconcile(p)
    BY <2>1 DEF Reconcile, Goes, Observes, Seen, Observable
  <2>2. CASE RetainWorker(p)
    BY <2>2 DEF RetainWorker, Records, Unresolved
  <2>3. CASE Settle(p)
    BY <2>3 DEF Settle, Records, Goes, Finished, Merged
  <2>4. CASE RequestCancellation(p)
    BY <2>4 DEF RequestCancellation, Records, Goes
  <2>5. CASE PreventLaunch(p)
    BY <2>5 DEF PreventLaunch, Records, Goes, Decided
  <2>6. CASE Kill(p)
    BY <2>6 DEF Kill
  <2>7. CASE SeeNoExit(p)
    BY <2>7 DEF SeeNoExit, Goes
  <2>8. CASE Fence(p)
    BY <2>8 DEF Fence, Goes, FenceRefused
  <2>9. CASE Resume(p)
    BY <2>9 DEF Resume, Goes
  <2>10. CASE Stop(p)
    BY <2>10 DEF Stop, Records, Goes
  <2>11. CASE RemoveCreated(p)
    BY <2>11 DEF RemoveCreated, Goes
  <2>12. CASE Prove(p)
    BY <2>12 DEF Prove, Proof
  <2>13. CASE Release(p)
    BY <2>13 DEF Release, Goes
  <2>14. CASE Abandon(p)
    BY <2>14 DEF Abandon, Goes
  <2> QED BY <1>14, <2>1, <2>2, <2>3, <2>4, <2>5, <2>6, <2>7, <2>8, <2>9, <2>10, <2>11, <2>12, <2>13, <2>14 DEF ProcessStep
<1>15. CASE UNCHANGED vars
  BY <1>15 DEF vars
<1> QED BY <1>1, <1>2, <1>3, <1>4, <1>5, <1>6, <1>7, <1>8, <1>9, <1>10, <1>11, <1>12, <1>13, <1>14, <1>15 DEF Next, OwnerStep

\* Evidence only grows.
THEOREM EvidenceKept == Spec => EvidenceOnlyGrows
<1>1. Inv /\ [Next]_vars => [EvidenceGrows]_vars
  BY GrowthStep
<1> QED BY <1>1, Invariance, PTL DEF Spec, EvidenceOnlyGrows, EvidenceGrows
=============================================================================
