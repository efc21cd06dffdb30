-------------------------- MODULE DispatchCustody --------------------------
(***************************************************************************)
(* The dispatch of one attempt: the process that owns it, the container it *)
(* runs in, and the other processes that observe it, cancel it, declare it *)
(* lost and release it (src/src/engine/core/dispatch, the dispatch journal *)
(* of src/src/adapters/core/attempt-store and the Docker supervisor of     *)
(* src/src/adapters/core/docker-supervisor).                               *)
(*                                                                         *)
(* A write of the journal is one action: it is one transaction.  A look at *)
(* the container and the write that uses it are two, so that everything a  *)
(* caller saw may be old when it writes; the owner may stop at any point.  *)
(* Attempts do not share a dispatch, a fence or a container, so that one   *)
(* dispatch shows everything that can happen to any of them.               *)
(***************************************************************************)
CONSTANTS
  Reconciler,  \* processes that observe the worker and settle what they see
  Recoverer,   \* processes that declare the worker lost, stop and release it
  Canceller    \* processes that deliver a cancellation
ASSUME RolesAreDistinct ==
  /\ Reconciler \cap Recoverer = {} /\ Reconciler \cap Canceller = {}
  /\ Recoverer \cap Canceller = {}

VARIABLES
  record,     \* the dispatch record of the journal
  fenced,     \* does the journal hold the fence of this dispatch?
  released,   \* was the slot released on proof that the worker stopped?
  container,  \* the container, as the Docker daemon knows it
  owner,      \* where the owner's execution is
  ownerSaw,   \* what the owner's last look at the container showed
  step,       \* where each other process is
  saw,        \* what its last look at the container showed
  expected    \* was a cancellation recorded when it began?
vars == <<record, fenced, released, container, owner, ownerSaw, step, saw, expected>>
journal == <<record, fenced, released>>

Process == Reconciler \cup Recoverer \cup Canceller

\* A look at the container.  Only an exit is an outcome; a running worker is
\* known by its incarnation; a container that never ran, or none, is unknown.
Seen == CASE container \in {"running", "exited"} -> container
          [] OTHER -> "unknown"

Idle == [launch |-> "none", cancelled |-> FALSE, named |-> FALSE, worker |-> FALSE,
         output |-> "none", terminal |-> "none"]

Init ==
  /\ record = Idle /\ fenced = FALSE /\ released = FALSE
  /\ container = "none" /\ owner = "idle" /\ ownerSaw = "unknown"
  /\ step = [p \in Process |-> "idle"] /\ saw = [p \in Process |-> "unknown"]
  /\ expected = [p \in Process |-> FALSE]

----------------------------------------------------------------------------
(* The owner: DispatchApplication.execute and the supervisor's execute *)

OwnerOnly == UNCHANGED <<step, saw, expected>>
OwnerGoes(from, to) == owner = from /\ owner' = to /\ OwnerOnly

\* claimDispatch: custody only, once.
Claim == /\ OwnerGoes("idle", "claimed") /\ record.launch = "none"
         /\ record' = [record EXCEPT !.launch = "pending"]
         /\ UNCHANGED <<fenced, released, container, ownerSaw>>

\* decideDispatchLaunch: the one launch grant, unless cancellation came first.
Decided(r) == [r EXCEPT !.launch = IF r.cancelled THEN "prevented" ELSE "granted"]
Grant ==
  /\ owner = "claimed" /\ OwnerOnly
  /\ \/ /\ record.launch = "pending" /\ record' = Decided(record)
        /\ owner' = IF record.cancelled THEN "done" ELSE "granted"
     \/ /\ record.launch = "prevented" /\ owner' = "done" /\ UNCHANGED record
  /\ UNCHANGED <<fenced, released, container, ownerSaw>>

\* The daemon may create the container and still fail the command, or create
\* one whose mounts are refused: the owner then gives up, leaving it created.
Create ==
  /\ owner = "granted" /\ owner' \in {"created", "done"} /\ OwnerOnly
  /\ container' \in {"none", "created"} /\ (owner' = "created" => container' = "created")
  /\ UNCHANGED <<journal, ownerSaw>>

\* Slip: the refusal of the name does not stop the start.
NameUnlessFenced ==
  /\ owner = "created" /\ owner' = "named" /\ OwnerOnly
  /\ record' = IF fenced THEN record ELSE [record EXCEPT !.named = TRUE]
  /\ UNCHANGED <<fenced, released, container, ownerSaw>>
\* The launch evidence that retainLaunch writes: never on a fenced dispatch.
NameContainer ==
  /\ owner = "created" /\ OwnerOnly
  /\ IF fenced THEN owner' = "done" /\ UNCHANGED record
     ELSE owner' = "named" /\ record' = [record EXCEPT !.named = TRUE]
  /\ UNCHANGED <<fenced, released, container, ownerSaw>>

\* `start --attach'.  It may fail, and a container removed meanwhile cannot
\* start; the look that follows a failure finds nothing that ran.
StartContainer ==
  /\ owner = "named" /\ OwnerOnly
  /\ \/ container = "created" /\ container' = "running" /\ owner' = "attached"
     \/ owner' = "looked" /\ UNCHANGED container
  /\ ownerSaw' = "unknown" /\ UNCHANGED journal

\* The attached command returned, or was interrupted by the deadline, an abort
\* or its own failure; an interrupted one first kills, which may fail.
Look ==
  /\ owner = "attached" /\ owner' = "looked" /\ OwnerOnly
  /\ container' \in IF container = "running" THEN {"running", "exited"} ELSE {container}
  /\ ownerSaw' = CASE container' = "exited" -> "exited"
                   [] container' = "running" -> "running"
                   [] OTHER -> "unknown"
  /\ UNCHANGED journal

\* The retained incarnation, then the output, then the end: three writes, each
\* refused once the dispatch is fenced.
OwnerRetainsWorker ==
  /\ owner = "looked" /\ OwnerOnly
  /\ IF ownerSaw = "unknown" THEN owner' = "done" /\ UNCHANGED record
     ELSE IF fenced THEN owner' = "done" /\ UNCHANGED record
     ELSE /\ record' = [record EXCEPT !.worker = TRUE]
          /\ owner' = IF ownerSaw = "exited" THEN "outputting" ELSE "done"
  /\ UNCHANGED <<fenced, released, container, ownerSaw>>

\* One output is kept: another one conflicts and stops the owner.
OwnerRetainsOutput ==
  /\ owner = "outputting" /\ OwnerOnly
  /\ IF fenced \/ record.output # "none" THEN owner' = "done" /\ UNCHANGED record
     ELSE /\ owner' = "finishing"
          /\ \E kept \in {"complete", "partial"} : record' = [record EXCEPT !.output = kept]
  /\ UNCHANGED <<fenced, released, container, ownerSaw>>

\* Slip: the last writer decides what ended the worker.
LastCause(terminal, cause) == cause
\* mergeDispatchTerminal: how an exit was brought about may become known, and
\* is never rewritten; the exit itself is what the daemon said.
Merged(terminal, cause) == IF terminal \in {"none", "exit"} THEN cause ELSE terminal
\* Slip: the finish does not look at the fence.
FinishedLate(cause) == record' = [record EXCEPT !.terminal = Merged(record.terminal, cause)]
\* finishDispatch refuses a fenced dispatch.
Finished(cause) ==
  record' = IF fenced THEN record
            ELSE [record EXCEPT !.terminal = Merged(record.terminal, cause)]

OwnerFinishes ==
  /\ OwnerGoes("finishing", "done")
  /\ \E cause \in {"natural", "interrupted"} : Finished(cause)
  /\ UNCHANGED <<fenced, released, container, ownerSaw>>

\* The process that owns the dispatch dies.
OwnerDies == /\ owner \notin {"idle", "done"} /\ OwnerGoes(owner, "done")
             /\ UNCHANGED <<journal, container, ownerSaw>>

\* The worker's program ends.
WorkerEnds == /\ container = "running" /\ container' = "exited"
              /\ UNCHANGED <<journal, owner, ownerSaw, step, saw, expected>>

----------------------------------------------------------------------------
(* Reconciliation: DispatchApplication.reconcile *)

Goes(p, from, to) == step[p] = from /\ step' = [step EXCEPT ![p] = to]
Observes(p) == saw' = [saw EXCEPT ![p] = Seen]
\* Slip: a cancelled dispatch is left to its canceller.
ObservableUncancelled == record.launch = "granted" /\ record.terminal = "none"
                         /\ ~record.cancelled
Observable == record.launch = "granted" /\ record.terminal = "none"

\* A recoverer reconciles first, before it declares anything lost.
Reconcile(p) ==
  /\ p \in Reconciler \cup Recoverer /\ Observable /\ (p \in Recoverer => ~fenced)
  /\ Goes(p, "idle", "observed") /\ Observes(p)
  /\ expected' = [expected EXCEPT ![p] = record.cancelled]
  /\ UNCHANGED <<journal, container, owner, ownerSaw>>

Unresolved(p) == IF p \in Recoverer THEN "unresolved" ELSE "idle"
RetainWorker(p) ==
  /\ step[p] = "observed"
  /\ LET refused == fenced /\ saw[p] # "unknown"
     IN /\ record' = IF refused \/ saw[p] = "unknown" THEN record
                     ELSE [record EXCEPT !.worker = TRUE]
        /\ step' = [step EXCEPT ![p] = IF refused THEN "idle"
                                       ELSE IF saw[p] = "exited" THEN "settling"
                                       ELSE Unresolved(p)]
  /\ UNCHANGED <<fenced, released, container, owner, ownerSaw, saw, expected>>

\* Who settles from an observation does not know what ended the worker.
Settle(p) == /\ Goes(p, "settling", "idle") /\ Finished("exit")
             /\ UNCHANGED <<fenced, released, container, owner, ownerSaw, saw, expected>>

----------------------------------------------------------------------------
(* Cancellation: DispatchApplication.cancel *)

\* requestDispatchCancellation, before anything is done about it.
RequestCancellation(p) ==
  /\ p \in Canceller /\ record.launch # "none" /\ record.terminal = "none"
  /\ Goes(p, "idle", "cancelling") /\ record' = [record EXCEPT !.cancelled = TRUE]
  /\ UNCHANGED <<fenced, released, container, owner, ownerSaw, saw, expected>>

\* A pending launch is prevented by the canceller itself.
PreventLaunch(p) ==
  /\ step[p] = "cancelling" /\ record.launch # "granted"
  /\ Goes(p, "cancelling", "idle")
  /\ record' = IF record.launch = "pending" THEN Decided(record) ELSE record
  /\ UNCHANGED <<fenced, released, container, owner, ownerSaw, saw, expected>>

\* The supervisor's cancel: kill what runs, which may fail, and look again.
\* Nothing is launched or deleted to make an end.  What a recoverer would settle
\* then is refused by its fence, and it goes on to the proof.
Kill(p) ==
  /\ step[p] = "cancelling" /\ record.launch = "granted"
  /\ container' \in IF container = "running" THEN {"running", "exited"} ELSE {container}
  /\ step' = [step EXCEPT ![p] = IF p \in Recoverer THEN "stopped"
                                 ELSE IF container' = "exited" THEN "settling" ELSE "idle"]
  /\ UNCHANGED <<journal, owner, ownerSaw, saw, expected>>

----------------------------------------------------------------------------
(* Loss: reconcileAttemptFor with a step, and LostDispatchApplication *)

\* The fresh observation that the fence stands on: no exit to be seen.
SeeNoExit(p) ==
  /\ Goes(p, "unresolved", IF container = "exited" THEN "idle" ELSE "fencing")
  /\ UNCHANGED <<journal, container, owner, ownerSaw, saw, expected>>

\* Slip: an end recorded after the look does not stop the fence.
FenceSeesCancelOnly(p) == ~fenced /\ record.cancelled # expected[p]
\* fenceLostDispatch, under the revisions it began with: an attempt that was
\* settled or cancelled in between refuses it.  One already written is replayed.
FenceRefused(p) == ~fenced /\ (record.terminal # "none" \/ record.cancelled # expected[p])
Fence(p) ==
  /\ step[p] = "fencing"
  /\ IF FenceRefused(p) THEN Goes(p, "fencing", "idle") /\ UNCHANGED fenced
     ELSE fenced' = TRUE /\ step' = [step EXCEPT ![p] = "fence written"]
  /\ UNCHANGED <<record, released, container, owner, ownerSaw, saw, expected>>

\* Slip: only the broker goes on from a fence.
ResumeBroker(p) ==
  /\ p \in Recoverer /\ fenced /\ ~released /\ Goes(p, "idle", "fence written")
  /\ UNCHANGED <<journal, container, owner, ownerSaw, saw, expected>>
\* Whoever reconciles a fenced dispatch looks for the proof; a recoverer whose
\* step is `stop' cancels first.
Resume(p) ==
  /\ p \in Reconciler \cup Recoverer /\ fenced /\ ~released /\ Goes(p, "idle", "fence written")
  /\ UNCHANGED <<journal, container, owner, ownerSaw, saw, expected>>
Stop(p) ==
  /\ p \in Recoverer /\ Goes(p, "fence written", "cancelling")
  /\ record' = [record EXCEPT !.cancelled = TRUE]
  /\ UNCHANGED <<fenced, released, container, owner, ownerSaw, saw, expected>>

\* A container that was named and never started is removed by its id, so that
\* its absence can be proven; one that started is left alone.
RemoveCreated(p) ==
  /\ Goes(p, "stopped", "proving")
  /\ container' = IF record.named /\ ~record.worker /\ container = "created"
                  THEN "discarded" ELSE container
  /\ UNCHANGED <<journal, owner, ownerSaw, saw, expected>>

\* Slip: a container that is not there yet proves the worker gone.
AbsenceProof == container \in {"none", "exited", "discarded", "removed"}
\* A retained incarnation is proven stopped by its own exit or absence; a name
\* alone only by the absence of that container.  No proof: the slot is held.
Proof == IF record.worker THEN container \in {"exited", "removed"}
         ELSE record.named /\ container \in {"discarded", "removed"}
Prove(p) ==
  /\ step[p] \in {"fence written", "proving"}
  /\ step' = [step EXCEPT ![p] = IF Proof THEN "proven" ELSE "idle"]
  /\ UNCHANGED <<journal, container, owner, ownerSaw, saw, expected>>

\* releaseLostDispatch: the fence is there and the slot is given back.
Release(p) ==
  /\ Goes(p, "proven", "idle") /\ fenced /\ released' = TRUE
  /\ UNCHANGED <<record, fenced, container, owner, ownerSaw, saw, expected>>

----------------------------------------------------------------------------
(* Failure and what comes afterwards *)

\* A process dies, or one of its calls fails: it begins again.
Abandon(p) ==
  /\ step[p] # "idle" /\ Goes(p, step[p], "idle")
  /\ UNCHANGED <<journal, container, owner, ownerSaw, saw, expected>>

\* recoverOutput: what the logs still hold, when the owner kept nothing.
RecoverOutput ==
  /\ record.terminal # "none" /\ record.output = "none" /\ ~fenced /\ container = "exited"
  /\ record' = [record EXCEPT !.output = "partial"]
  /\ UNCHANGED <<fenced, released, container, owner, ownerSaw, step, saw, expected>>

\* release: the exited container goes, once its complete output is kept.
RemoveContainer ==
  /\ record.terminal # "none" /\ record.output = "complete" /\ container = "exited"
  /\ container' = "removed"
  /\ UNCHANGED <<journal, owner, ownerSaw, step, saw, expected>>

----------------------------------------------------------------------------
OwnerStep == \/ Claim \/ Grant \/ Create \/ NameContainer \/ StartContainer \/ Look
             \/ OwnerRetainsWorker \/ OwnerRetainsOutput \/ OwnerFinishes
ProcessStep(p) ==
  \/ Reconcile(p) \/ RetainWorker(p) \/ Settle(p)
  \/ RequestCancellation(p) \/ PreventLaunch(p) \/ Kill(p)
  \/ SeeNoExit(p) \/ Fence(p) \/ Resume(p) \/ Stop(p)
  \/ RemoveCreated(p) \/ Prove(p) \/ Release(p) \/ Abandon(p)
Next == OwnerStep \/ OwnerDies \/ WorkerEnds \/ RecoverOutput \/ RemoveContainer
        \/ \E p \in Process : ProcessStep(p)

Spec == Init /\ [][Next]_vars

\* The recovery page of the service comes back to every granted dispatch that is
\* fenced or has no end, and begins again whatever failed: each step is taken
\* that is possible again and again.  Nothing else is promised to happen: the
\* owner may be gone, the worker may run for ever, a person may never ask.
Pages == \A p \in Reconciler :
  /\ SF_vars(Reconcile(p)) /\ SF_vars(RetainWorker(p)) /\ SF_vars(Settle(p))
  /\ SF_vars(Resume(p)) /\ SF_vars(Prove(p)) /\ SF_vars(Release(p))
FairSpec == Spec /\ Pages

----------------------------------------------------------------------------
(* What must hold *)

Launches == {"none", "pending", "granted", "prevented"}
Containers == {"none", "created", "running", "exited", "removed", "discarded"}
Sights == {"unknown", "running", "exited"}
OwnerSteps == {"idle", "claimed", "granted", "created", "named", "attached", "looked",
               "outputting", "finishing", "done"}
Steps == {"idle", "observed", "unresolved", "settling", "cancelling", "stopped",
          "fencing", "fence written", "proving", "proven"}
Records == [launch : Launches, cancelled : BOOLEAN, named : BOOLEAN, worker : BOOLEAN,
            output : {"none", "partial", "complete"},
            terminal : {"none", "exit", "natural", "interrupted"}]

\* Every variable keeps to the values the code gives it.
TypeOK ==
  /\ record \in Records /\ fenced \in BOOLEAN /\ released \in BOOLEAN
  /\ container \in Containers /\ owner \in OwnerSteps /\ ownerSaw \in Sights
  /\ step \in [Process -> Steps] /\ saw \in [Process -> Sights]
  /\ expected \in [Process -> BOOLEAN]

\* A slot is given to other work only when this worker can run no more: its
\* fence is written and its container has exited, or was removed unstarted.
\* An owner that still lives, and started late, is what could break it.
SlotFreedAfterStop == released => fenced /\ container \in {"exited", "discarded"}

\* A dispatch is settled or declared lost, never both, whichever of the owner,
\* the pages and the cancellers comes first.
NeverSettledAndLost == ~(fenced /\ record.terminal # "none")

\* An end in the journal is an end the daemon reported: no settled worker runs,
\* is still to start, or was removed before it ran.
EndIsObserved == record.terminal # "none" => container \in {"exited", "removed"}

\* What was ever started was granted and is named in the journal, so that a
\* crash of the owner at any point leaves no worker that nobody can find.
StartedIsNamed ==
  container \in {"running", "exited", "removed"} => record.launch = "granted" /\ record.named

\* A fence ends the evidence: no late write of the owner or a page changes what
\* the journal says of the worker.  Only a cancellation may still be noted.
FencedRecordIsFrozen ==
  [][fenced => record' = [record EXCEPT !.cancelled = record'.cancelled]]_vars

\* Evidence only grows: the launch decision, the names, the output and a known
\* cause are written once, whoever writes first.
Kept(old, new, unset) == old \in unset \/ new = old
EvidenceGrows ==
  /\ Kept(record.launch, record'.launch, {"none", "pending"})
  /\ Kept(record.named, record'.named, {FALSE})
  /\ Kept(record.worker, record'.worker, {FALSE})
  /\ Kept(record.output, record'.output, {"none"})
  /\ Kept(record.terminal, record'.terminal, {"none", "exit"})
  /\ (record.terminal # "none" => record'.terminal # "none")
EvidenceOnlyGrows == [][EvidenceGrows]_vars

\* The dispatch implements the custody of one worker: it runs at most once and
\* not after its slot is free, and its fate is sealed once.
Worker == CASE container \in {"none", "created"} -> "unstarted"
            [] container = "running" -> "running"
            [] OTHER -> "stopped"
Fate == IF fenced THEN "lost" ELSE IF record.terminal # "none" THEN "settled" ELSE "open"
Custody == INSTANCE WorkerCustody WITH worker <- Worker, fate <- Fate, slot <- ~released
CustodyKept == Custody!Spec

\* A worker that ended is settled or declared lost, although its owner may be
\* dead and any process that looks at it may fail.
EveryEndIsSettled ==
  container = "exited" /\ record.launch = "granted" ~> record.terminal # "none" \/ fenced

\* A lost worker whose incarnation is known and that has ended gives its slot
\* back without anyone's command.
LostWorkerFreesSlot == fenced /\ record.worker /\ container = "exited" ~> released
=============================================================================
