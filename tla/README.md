# A TLA+ model of Deckent's control plane

Deckent is an agent control plane written in TypeScript. A *Run* is a graph of
*tasks*; each task is carried out by *attempts*, and an attempt by a worker in a
Docker container. Everything durable lives on an SQLite ledger. The code is
layered: `platform`, `domain` (pure reducers), `capabilities`, `engine`
(applications over ports), `adapters` (SQLite, Docker, git, HTTP), `composition`
(wiring) and `surfaces` (CLI, terminal, runtime socket). A transition of a Run or
of an attempt is a pure reducer from `domain`, applied under a compare-and-set on
a revision inside one SQLite transaction, with a receipt that replays the answer
of a repeated command. What is hard is therefore not one transition but their
order: several processes, timers, people and dying workers commit against the
same records, and many decisions rest on something that was observed before the
transaction that uses it.

Paths below are relative to the repository; `D/` stands for `src/domain/core`,
`N/` for `src/engine/core`, `A/` for `src/adapters/core`.

## Inventory

| Part | State it keeps | Operations | What is hard | What makes it correct |
|---|---|---|---|---|
| Task graph (`D/task-graph`) | none | readiness, closure of tasks with dead dependencies | two kinds of edges | tasks start in order; doomed tasks are closed transitively |
| Run lifecycle (`D/run`, `A/attempt-store`) | the Run snapshot: state, task phases, uncertain effects, decisions, bindings | reserve, project, evaluate, decide, hold, park, resume, close, expire, cancel | one state computed from all tasks; holds over parks; several deadlines | every snapshot satisfies its schema; nothing waits for nothing; ends are honest and final |
| Quota waits (`D/run/internal/quota.ts`) | waits in the bindings | park, reset, ask, answer, release | several waits under one park | a wait is asked about and never ends a Run |
| Environment preflight (`environment.ts`, `N/runs/internal/closure.ts`) | probe custody, refused attempts | hold and end probes, refuse, project, settle, resume | a refusal is two writes | attempt and Run agree; refused tasks wait for a resume |
| Stall and loss recovery (`lost.ts`, `stall.ts`, `worker-custody.ts`) | superseded attempts, freed slots | retry, continue, release | shared bounds over two paths | bounded retries; never two workers for one task |
| Dispatch custody (`N/dispatch`, `A/docker-supervisor`) | the dispatch record, fence, slot; the container | claim, grant, create, name, start, observe, settle, cancel, fence, prove, release | observation before write; mortal processes | a worker runs at most once; settled or lost, not both; a slot is free only after the worker is gone |
| Cancellation delivery (`N/runs/internal/delivery-*.ts`, `recovery.ts`) | a lease per attempt | discover, claim, deliver, finish | different clocks, takeover, commands and holders that die | bounded attempts; no early takeover; every delivery is decided, unless its dispatch ended first |
| Run progression (`N/run-progression`) | in-memory suspension and retry times | turn: schedule, execute, evaluate | stale reads over awaits | planned |
| Scheduling and pools (`N/scheduling`, `A/attempt-store/internal/pools.ts`) | installation-wide capacity | plan a wave, admit | plan against stale capacity | planned |
| Target queue (`N/effect`, `N/runtime/internal/queue-service.ts`, `A/target-queue-store`) | the tickets of each target: state, owner epoch, confirmed batch | enqueue, reserve, prepare, verify, confirm, execute, roll back, reconcile, recover | a service that dies between the durable steps of an effect; requests beside the turn; people beside the queue | a ticket is adopted exactly when it moved the branch; only the head is in its effect; late tickets end |
| Adoption of a branch (`N/workspace-patch`, `A/git-patch`, `A/attempt-store/internal/adoption.ts`) | the journal of claims, the fence reference, the queue's generation | check, claim, move, settle, release | three stores, none of them atomic with another; Git transactions outlive their process | journal and fence agree; no claim is left behind; a rollback undoes the latest move |
| Model invocation, provider spend (`N/model-invocation`, `N/provider-spend`, `A/sqlite-model-invocation`) | the record of each call with its send permission, the slots of an allocation, the spending account and its reservations | claim, permit, send, record, cancel, release at start, correct, create and revise a budget | a call that was permitted but never answered; hosts that share a ledger; months that end between reserve and settlement | the account is the sum of its reservations, covers what may be charged and keeps its limit; slots follow live sends |
| Approval broker (`N/approval`) | approvals | request, decide, expire, use | decision against expiry | planned |
| Recovery cases, nervous broker (`N/recovery`, `N/nervous`) | cases | detect, decide, execute | calls the executors above | planned |
| Building of candidates and commits, worktrees, memory, installation, hub, policy, secrets, surfaces | files and journals | I/O | not order-dependent with the above | not modelled |

How they interact. A progression turn reserves ready tasks (Run lifecycle), each
with a fresh attempt; preparation may refuse it (environment preflight); otherwise
the dispatch claims, grants and runs its container (dispatch custody). The end of
the worker is written by `finishDispatch` together with the Run's view of it; an
evaluation commits the conclusion. Cancelling a Run marks its unfinished attempts
in one transaction and the delivery of the cancellation reaches the dispatch later
(cancellation delivery). A worker nobody can observe is fenced
(`fenceLostDispatch` projects `unknown` on the Run), proven stopped and released
(`releaseLostDispatch` frees the Run's slot), and its task may be continued
(`continueLostTask`). The accepted result of a task is delivered by a ticket of the
target queue: the service's turn prepares and verifies a candidate commit, a person
confirms a batch of verified tickets on two cards, and the executor publishes each
and lets the adoption move the branch. A person may also adopt or roll back directly,
without the queue; journal, fence and generation keep the two apart. A call to a
paid model, whichever part of the service makes it, goes through model invocation: one
transaction claims a slot and a reserve, a second permits the send, a third records
the outcome, settles the reserve and frees the slot.

## Modules

- `TaskGraph` — the pure operators on phases and dependencies.
- `RunLifecycle` (extends it) — one Run with the current attempt of each task.
  An operator on the record `run` per reducer, one action per transaction.
- `RunPromise` — the abstract promise of a Run to its tasks, in three actions.
  `RunLifecycle` implements it under the mapping `Standing`, `run.cancel`, `Verdict`.
- `DispatchCustody` — one dispatch: the journal `record`, its fence and slot, the
  `container`, the `owner` and any number of other processes with a program
  counter each. Journal writes are single actions; a look at the container and the
  write that rests on it are two.
- `WorkerCustody` — the abstract promise of a dispatch, in five actions.
  `DispatchCustody` implements it under the mapping `Worker`, `Fate`, `~released`.
- `CancellationDelivery` — the lease of one delivery, workers with skewed clocks that
  deliver for explicit commands and for the drain.
- `AdoptionTarget` — one branch with its fence, generation and journal, and the steps
  of the calls that move it. It has no specification of its own.
- `TargetQueue` (extends it) — the tickets of that branch, the turn and the driver of
  the service, the requests of people, the executor, reconciliation, and a service
  that dies and starts again. One process state per lock holder: `work`.
- `DeliveryDecision` — the abstract promise of a delivery, in two actions. `TargetQueue`
  implements it under the mapping `moves`, `TicketDecision`, `DirectDecision`.
- `SpendAccount` — the pure operators on a spending account and a reservation: months,
  reserve, settlement, correction, revision, recovery.
- `ModelCalls` (extends it) — the calls of one allocation and one scope, made by several
  hosts that die and start again, with the commands of an operator and the clock.
- `RunLifecycleProofs`, `RunLifecycleSafety`, `RunLifecycleAttempts`, `RunLifecycleParks`
  (each extends the one before), `DispatchCustodyProofs`, `CancellationDeliveryProofs`,
  `ModelCallsProofs`, `TargetQueueProofs` — theorems and proofs.
- `MC*` — finite instances for TLC; the `.cfg` files give the constants.

State and actions against the code:

| Module | State in the model | In the code |
|---|---|---|
| RunLifecycle | `run.state` (`hold` both for an `operator-hold` park and for the `operatorHold` overlay), `phase`, `effects`, `decision`, `bind`/`prev`, `notBefore`, `freed` | `RunSnapshot.state`, `progress[].phase`, `unresolvedEffects`, `progress[].decision`, `bindings`/`previousBindings` with `quotaWaits` and `environmentProbes`, retry time, `workerCustody` |
| | `attempt[t].obs`, `.cancel`, `.launch` | `AttemptSnapshot.lastObservation`, `cancelRequested`, the launch of the dispatch record |
| | `attempt[t].closing` | the writer of a refusal between its two writes |
| DispatchCustody | `record`, `fenced`, `released` | `dispatches` row, the fence receipt, the release receipt |
| | `saw`, `ownerSaw`, `expected` | what a process observed before its next write, and the revision it began with |
| CancellationDelivery | `record`, `token`, `at` | the delivery row, a worker's lease token, its clock sample |
| AdoptionTarget | `tip`, `moves` (its last entry is `Fence`), `generation` | the branch, the history of `refs/deckent/` fence values, the generation reference |
| | `journal`, `plan`, `call` | `workspace_adoptions` rows, the intent (from, to, undone adoption), the local state of `adopt`/`rollback` between awaits |
| | `orphans` | `git update-ref` processes whose parent died |
| TargetQueue | `ticket`, `late` | `target_queue` rows (`refused` and `adopted` are the outcomes of `settled`, `batch` is `batchDigest # null`), `deadline` against the clock |
| | `snap`, `work`, `card`, `asked` | rows read by `tick` or `recover` before the lock; the holder of `targetKeyLock` with its local records; an answered pair of cards; a rollback request between its look at the head and its enqueue |
| | `service`, `since` | the running instance and which epochs are its own (`ownerInstance`) |
| ModelCalls | `outcome`, `send`, `res` | `model_invocations` (`responded`, `rejected`, `unknown` and `not-sent` are all `settled`), `model_invocation_controls`, `model_invocation_spend_reservations` (`held` is a hold, `overrun` a hold for an overrun, `reconciled` a hold or bound with its `reconciliation`) |
| | `account`, `inFlight` | `provider_spend_accounts` (`start`, `reset`, `base`, `zone` are its `period`), `inFlight` of the allocation |
| | `local`, `host` | the `invoke` of a call between its awaits; a service host by the custody of its endpoint, which does not change between starts |
| | `charge` | what the provider bills; no code reads it |

Abstractions worth knowing. `since` times, revisions, receipts and the payload of
evidence are dropped: a transaction is one step on the current snapshot, so a
compare-and-set that would lose is a step that is not taken. In RunLifecycle a
launched worker ends in two ways, an exit (`Exit`) or a loss (`Lose`);
DispatchCustody is the detail of that. `settleCancelledAttempt`, called on its own
after a delivery, finds its work done by the transactions above and is not an
action. Reservation takes any set of ready tasks, which contains every wave the
scheduler can plan. In TargetQueue a commit is the sequence of the commands in it, so
two commits are equal exactly when they hold the same changes in the same order;
`initializeRollback` makes its three synchronous transitions in one step; the
publication of a ticket and the transition after it are one step, since nothing else
reads the delivery reference; a preparation, an admission and an evidence look each
have every outcome the driver distinguishes. Re-attempts and delegated submissions
(`submitReattempt`, `submitDelegated`) are further enqueues by other actors.
`cancel` of a ticket is called by an uninstall only and is left out. In ModelCalls time
is a number of calendar months and exact money is counted in parts of a minor unit; a
clock reading may be older than the transaction that uses it (`Lag`). What an answer
says of its usage is a choice between nothing, the exact charge and a bound above it. A
cancellation of a call that has its permission only records the intent and aborts the
local request, which `Send` (for nothing) and the recording actions already allow, so it
is no action. An account's `zone` is the time zone its last command must be read in, if
any. Operators marked `Slip:` are plausible mistakes in the
definition that follows; each is used to show that a property notices it
(`mutants` in `PROJECT.json`) and none is part of a specification.

## Checks

All runs use TLC. `T` is the number of tasks.

| Run | Bounds | Question |
|---|---|---|
| `RunDecisions` | T=3: a blocking chain of two, one beside it on its own channel; park bound 2, clock 2, 2 attempts, pre-launch failures, all conclusions but quota and stall, both holds | `SnapshotParses`, `EndIsHonest`, `RunningHasWork`, `StartsInOrder`, `SettledIsFinal`, `SafetyHoldStays`, `PromiseKept` |
| `RunFaults` | T=2 independent on two channels, all four refusals, quota and stall, recovery of lost workers, resets at 0 / 2 / 4, clock 3, 2 attempts | `AttemptProjected`, `RetriesBounded`, `QuotaParkCoversWaits`, `CancelledNeverLaunches`, `LostWorkIsKept`, `OldAttemptIsOver`, `QuotaWaitNeverEndsRun` |
| `RunLiveness` | T=2 in a blocking chain, `FairSpec` | `CancelEnds`, `DueParkMoves`, `RefusalReachesRun` |
| `DispatchCustody` | one page, one executor of lost workers, one canceller, `FairSpec` | `SlotFreedAfterStop`, `StartedIsNamed`, `FencedRecordIsFrozen`, `EvidenceOnlyGrows`, `CustodyKept`, `EveryEndIsSettled`, `LostWorkerFreesSlot` |
| `CancellationDelivery` | two workers apart by the full skew, 2 attempts | `TakenOnlyWhenDue`, `DecidedIsFinal`, `DecidedUnlessEnded` |
| `TargetQueue` | two tickets, one direct adoption, one of crash, failed call and foreign commit, batches of two | `JournalMatchesFence`, `OnlyHeadInEffect`, `NoClaimLeftBehind`, `UndoesTheLatest`, `DecisionsHold` |
| `TargetQueueLiveness` | two tickets, a direct rollback of the first, two crashes or failed calls, `FairSpec` | `LateTicketsEnd`, `MovesBecomeAdoptions` |
| `ModelCalls` | three calls (one free) on two hosts, two slots, two parts to the unit, quoted at most 2, charged 0, 3 or 5 parts, limit 3, two months, one revision, `FairSpec` | `MoneyAddsUp`, `ChargesCovered`, `LimitHeld`, `LiveWithinCapacity`, `AllowanceOfItsMonth`, `LostCallsSettle` |

The type invariants of `RunLifecycle`, `DispatchCustody`, `CancellationDelivery`,
`TargetQueue` and `ModelCalls`, and `AttemptsBounded`, are proved for every instance (below) and not
repeated in the runs.

Why the bounds are enough. Two tasks are what a Run needs for every conflict the
reducers can have: the park one task calls for against the work or park of the
other, a dependency, a shared retry bound. Clocks run past one park deadline and
one decision deadline, in both orders. Two or three attempts per task reach every
supersession and then each bound. The third task
of `RunDecisions` is what shows that a closure, an expiry or a park of one part of the
graph leaves another part alone. Holds and decisions are on in `RunDecisions`, quota,
refusals and recovery in `RunFaults` (`Conclusions`, `Refusals`, `HoldSources`,
`Resets`), because the product of all is too large; the pairs that matter together are
the violation runs below. Two tickets and one direct command are every meeting on a
branch: ticket with its successor in a batch, ticket with the rollback of the other,
queue with a person. One mishap can fall between any two steps, and two let the
recovery of the first be struck by the second. Two calls contend for slots and money and
the third shows what a free one may and may not skip; a charge of 3 parts rounds up to
the quoted maximum and 5 overruns it, a bound of 4 can be lowered, and under a limit of
3 the way use is rounded decides whether the next call is admitted. Two months and a lag of one put a reserve,
its settlement and its correction on every side of a reset. Monthly budgets created by
command are in `SpendZone` only (`Renewals`); the accounts that a first claim opens are
monthly in both.
Attempts do not share dispatches, so one dispatch shows all that can happen to
any. Deadlock is checked in `CancellationDelivery`, where a command can always be repeated.
Elsewhere it is not: a Run that ended, a dispatch that was released and a queue without
tickets stop, and the clock of the Run model stops at `MaxTime`.

Fairness. `RunLifecycle!Fairness` promises only what the runtime drives without a
person: the clock, `advance` (timer and every turn), the end or loss of a launched
worker (deadline and inactivity), the delivery of a cancellation to a claimed
launch, the second write of a refusal, the end of probes. No evaluation and no
answer is fair. The fair delivery (of `GrantLaunch` once cancellation was asked for)
supposes that one call gets through before `maxAttempts` of them have failed. After that
the code gives the delivery up (`delivery-transition.ts:17`), and a launch whose owner
died before the grant stays pending, also when the command is repeated, because the
claim of an exhausted delivery is refused (`:15`).

`DispatchCustody!Pages` is strong fairness of the recovery page
alone (`reconciliation-recovery.ts`, run by the scoped loop for ever, wrapping its
cursor): each of its steps may fail again and again, but not always. Owner,
executor, canceller and the worker have none.

`CancellationDelivery!Drains` is the
loop of the drain (`cancellation-loop.ts`): it comes back to what its discovery returns,
its calls return, and neither its authorisation nor its claims fail for ever. The
discovery returns only dispatches that are still open (`cancellation-recovery.ts:41-42`).
So a worker that dies between the end it brought about and its finish, or a page that
settles the dispatch of a queued delivery, leaves a record that no drain returns to; it
stays claimed or queued unless a command is repeated. That loses nothing but the record,
since the end is in the dispatch, and `DecidedUnlessEnded` excepts it. Explicit commands
(`Sample` without `Discovered`) owe nothing.

`TargetQueue!FairSpec` is the loop of the service
(`queue-service.ts`, `run`), the progress of what holds the lock, the start of a next
service after a crash, and the clock. People who confirm, execute or enqueue, and direct
commands, owe nothing. `ModelCalls!FairSpec` asks only that a stopped service is started
again (`StartSlots`, the first thing a start does); no call, person or clock is fair. The two liveness properties of
`TargetQueue` have named excuses: a rollback that jams the
head (see below), a branch a foreign writer moved, which only a person can put back, and
a ticket whose hand-over to reconciliation failed, which waits for the next service.

### Disagreements between the code and its own words

Four runs end in a counterexample; each checks one property that a comment or
document of the repository states.

| Run | Property | What happens |
|---|---|---|
| `RunExpiryThrows` | `AdvanceNeverThrows` | a decision expires under a progression park; `advance` proposes an end while a task is pending; the schema refuses it and every turn throws until the park is due |
| `RunRefusalInterrupted` | `RefusalReachesRun` | a stop between the two writes of a refusal is not completed by a replay, against `closure.ts:9` |
| `QueueRollbackJams` | `QueuedTicketsExpire` | a queued rollback that cannot start, because its ticket is not adopted or it is late itself, is never expired and blocks its target, against `operator-reference.md:275` |
| `SpendZone` | `AccountReadable` | the account of a monthly budget is checked on every read against one derived anew in the time zone of the reader (`management.ts:36`); on a machine started again in another zone every call and command of the scope is refused, against `period.ts:60` and `tests/contracts/engine/provider-spend.test.ts:138` |

What breaks a statement is left out where the statement is checked in a passing run,
so that it still guards everything else: `RefusalReachesRun` and `AttemptProjected` run
without a dying writer (`CloserMayDie`), `QuotaWaitNeverEndsRun` speaks of a Run nobody
holds. More were met while modelling and have no run of their own:

- `askRunQuota` and `resetRunQuota` (`quota.ts:34`, `quota.ts:59`) do nothing while the
  quota park carries a hold, so an expired wait falls through to the ordinary rule and
  ends the Run; `lifecycle.ts:63` says a quota wait never does. That is why
  `QuotaWaitNeverEndsRun` has `run.state.hold = "none"`.
- A quota park that is entered after a refusal of the environment took an earlier one over
  lasts only to the deadline of its own wait (`quota.ts:23`, `quota.ts:33`), although tasks
  of the earlier one may have to wait longer. `QuotaParkCoversWaits` therefore speaks of
  the latest wait only while no refused task is pending; the attempt to prove it without
  that condition is what showed this.
- An answer to one task (`lifecycle.ts:153`), and a spent quota (`quota.ts:23`), replace
  the environment park in which another task waits for "an explicit resume"
  (`environment.ts:18-20`). The answered or released Run runs and cannot be resumed; the
  refused task keeps its binding but counts as ready, so a reservation that includes it is
  refused as a conflict (`reduce.ts:27`). With nothing but that task left
  the Run runs on, which is why `RunningHasWork` is checked in `RunDecisions` only, where
  the environment refuses nothing. For the same reason the run of `SnapshotParses` does not
  meet these replaced parks; that the schema accepts them is `SnapshotsParse`, the theorem.
- For the same reason as in the first of these, a quota park that is due while it carries a
  hold and another task is live drops its waiting tasks without a question; their waits
  stay in the bindings of the dropped tasks. If a later park asks and is answered "wait"
  (`answerRunQuota`), these old waits are armed again as well, and a release of one channel
  (`releaseRunQuota`) makes the next deadline one of theirs. When the hold is lifted and
  that deadline passes, `resetRunQuota` makes a Run run in which nothing may start, until
  its next `advance` reclassifies it. TLC finds this with 5 tasks in 48 steps, out of reach
  of a run here; the attempt to prove `RunningHasWork` is what showed it, and the
  hypotheses of `RunsHaveWork` and `SparedRunsHaveWork` (below) exclude it.
- `releaseRunQuota` (`quota.ts:49`) called while the Run asks leaves a question that no
  answer is accepted about.
- A direct adoption after the queue was activated claims its record in the journal before
  the move refuses the generation (`workspace-patch/internal/adoption.ts:138`). The open
  claim then refuses every enqueue of the target with the advice to replay the command
  (`i18n/locales/en/governance.json:745`), but the replay is refused at the same
  generation, and `releaseAdoption` is called for tickets only: nothing ends the claim.
- `integrity.ts:74` expects an account to be frozen exactly if an overrun since the last
  unfreezing explains it, and dates the overrun by the revision of its reservation: a
  call reserved before a revision that unfreezes and settled over its quote after it
  freezes the account for a reason the audit does not count.
- A settlement that arrives with a clock of the old month is booked against the account
  of the new one (`period.ts:63`), and a later reduction of it lowers the old month's
  baseline, or is refused when the baseline is smaller. `AllowanceOfItsMonth` is
  therefore a bound from below: a month may be charged too much, never too little.

## Proofs

TLAPS proves the following for every value of the constants, from the assumptions
stated in the modules (`GraphAssumption`, `RunAssumption`; `RolesAreDistinct`;
`LimitsArePositive`, `ClocksAgree`; `ScaleIsPositive` and the assumptions of
`ModelCalls` on the types of its constants; `TicketsAreOrdinals`, `CommandsAreDistinct`
and `BoundsArePositive` of the target queue). Every invariant that a passing run checks
is also proved. `RunningHasWork` is the one that does not hold of every instance: its
theorems name the condition it needs.

`DispatchCustodyProofs`: `TypeCorrect`, `SlotSafety`, `WorkersAreNamed`, `OneFate`,
`FenceHolds`, `EvidenceKept`, and `CustodyImplemented` (the specification
implements `WorkerCustody`). They rest on one inductive invariant,
`Inv == TypeOK /\ OwnerKnows /\ ProcessKnows /\ JournalKnows`. `SlotFreedAfterStop`
alone is not inductive: a release rests on a proof taken earlier, so `ProcessKnows`
says that a process with a proof faces a container that cannot run any more, and
that it is true only because the container never goes back. `OwnerKnows` ties the
owner's program counter to the container and to the name in the journal, which
excludes an owner that starts a container another process proved absent.
`JournalKnows` says what the record entitles to believe: a named worker was
granted, a recorded end was observed and is not fenced. Each lemma has one step
per action.

`CancellationDeliveryProofs`: `TypeCorrect`, `DeliveriesAreBounded`, `EndsAreReal`,
`LeasesAreRespected`, `DecisionsStand`. The invariant adds that every lease is one
attempt (`Leases`), that no sample of a clock is ahead of that clock (`Samples`,
which with the skew makes the takeover rule safe), and that an answer is what
became of the dispatch (`Answers`).

`RunLifecycleProofs`: `TypeCorrect`, by one lemma per reducer (`ClassifyFits`,
`ReconcileFits`, `ExpireFits`, `ParkQuotaFits`, ...) cited by one lemma per group of
actions. The snapshot type is inductive as it stands; what is not immediate is that
`Latest`, a choice, has a value (`LatestInHorizon`, by the well-foundedness of the
numbers) and that every deadline a writer computes fits the snapshot
(`DeadlinesFit`). `ReconcileFits` also says what `Reconcile` leaves alone, the frame
the safety proofs start from.

`RunLifecycleSafety`: `OrderIsKept` (`StartsInOrder`), `EndingsAreHonest`
(`EndIsHonest`), `SettlementIsFinal` (`SettledIsFinal`), `EffectsAreOpen` and
`QuestionsAreOpen` (two parts of `SnapshotParses`). The invariant is
`Inv == Sound(run) /\ Honest(run) /\ Launches`. The properties are not inductive one
by one. An expiry fails the tasks it finds a question for, so that none of them was
settled needs `QuestionsAreOpen`; the closure of doomed tasks spares a task with
uncertain effects only because its results are accepted even after it was refused
and offered again (`EffectsReady`); a prevented launch cancels its task whatever the
phase, so `Launches` says that a claimed launch has an active task without effects;
a close writes its own outcome, which is honest because an open Run always has a
task to accept. The argument is by reducers: `Moves` is the relation of legal
changes of phases, it composes, and each reducer from a sound Run makes a legal move
to a sound Run; `ReconcileGood` and `QuietGood` turn that into what an action needs.
`NothingLeft` is where the graph matters: with nothing in work, no question and
nothing startable, a least pending task would have all it needs. The endings of an
expiry are honest by the schema itself, which refuses the others
(`AdvanceNeverThrows` shows that it does).

`RunLifecycleAttempts`: `Agreement`, `OldWorkIsOver` (`OldAttemptIsOver`), `LostWorkStays`
(`LostWorkIsKept`), `CancelledNeverBegins` (`CancelledNeverLaunches`), `RetriesAreBounded`
and `ObservationsAreShown` (`AttemptProjected`). Run and attempts are two records with
different reducers; `LinkAt` says, for each kind of binding, in which phase the task may
be, whether it holds effects and what its attempt has recorded. A binding says too little
by itself: that a superseded attempt is over follows only because a task whose binding is
`exited`, `quota-exhausted` or `launch-refused` has an attempt with that observation, and
that one in `unknown` keeps its slot until its worker was proven stopped. Each action has
a lemma that all tasks take a legal step (`StepAt`: the link holds afterwards, and nothing
was taken from the task that it may not lose) while at most one is retried (`Steps`); what
`Reconcile`, `Expire` and `Advance` do to the tasks an action is not about is the relation
`Same`, which composes. The bounds on retries are sums over tasks (`Count`), so they need
what a retry adds to the set of marks (`MarksAdded`) and that no two tasks are retried at
once (`StaysCounted`). `ObservationsAreShown` is for writers that do not die between their
two transactions, `~CloserMayDie`; the run `RunRefusalInterrupted` shows what happens when
one does.

`RunKeepsThePromise` (`PromiseKept`), in the same module, is the refinement of `RunPromise`:
from the abstract point of view parks, holds, waits, losses and retries only give a begun
task back or leave it. A reservation is `Begin`, for readiness is what the promise asks
(`ReserveBegins`); no other transaction takes a pending task anywhere but to its closure
(`Final`, from `Moves`), so it is `Settle` (`OthersSettle`); and an ended Run can only be
asked to stop (`EndedStops`). That a cancelled Run accepts nothing is not in any one guard:
an evaluation and a decision look at the cancellation, so the part of `KeptAt` about
acceptance comes from the lemma of each action. That an ending says what became of the
tasks is `Honest`, which therefore also says that only a cancelled Run ends as such.

`RunLifecycleParks`: `ParksAreSorted`, `SnapshotsParse` (`SnapshotParses`, all of it),
`QuotaParksCover`, `SafetyHoldsStay`, `QuotaWaitsEndNothing`, and `RunsHaveWork` with
`SparedRunsHaveWork` (both `RunningHasWork`). The state of a Run is
written apart from the bindings that justify it. Two strengths of one invariant relate
them: `Proper` is what every reducer is handed, `Sorted` what every transaction leaves, and
`ReconcileSorts` shows that a reclassification restores the difference. `QuotaParkCoversWaits`
alone is not inductive: a park is entered from waits that began under other parks, so
`SettledAs` says that no task waits for quota under a state that would forget it, `Waits`
that a wait of an open Run was not released and has the results it needs. A step about one
task is described by what it leaves of the waits (`Keeps`, `Touches`), the passing of time by
`TimeKeeps`, and `ParkStep` is what a transaction owes: a sorted state, a safety hold that
stays, a quota wait that ends nothing, and a Run with something to do.

That last part is `Busy`. That a running Run has work is not inductive: it runs again when
a wait is over or answered, so the tasks it waits with must be able to start (`Eligible`:
they have their results, none of them was refused, and a cancelled Run has no pending
task). A transaction either leaves that alone or changes the tasks by something that can
only help the others (`Eases`) and reclassifies, and a reclassification runs a Run only
for work it found. Only the steps that end waits for quota (by their deadline, by an
answer, by a release) run a Run without looking at its tasks, and there a task that may
start is found only if the wait belongs to a task that still waits (`Kept`). `RunsHaveWork` takes that as a condition
on the behaviour; that no launch meets a refusal of the environment (`NoEnvironment`) is
one on the instance, and both are needed: see the disagreements above. `Kept` is itself
inductive where nobody holds the Run, or no worker runs out of quota (`Spared`), which
gives `SparedRunsHaveWork` without it. The instance of `RunDecisions` satisfies its
hypotheses.

`ModelCallsProofs`: `CallsAreTyped`, `FirstLimitIsHeld`, `LiveCallsHaveSlots`,
`PossibleChargesAreCovered`, `AccountIsTheSum` (`MoneyAddsUp`) and `MonthKeepsItsUse`
(`AllowanceOfItsMonth`). For the money one lemma per operator of `SpendAccount`
(`AdvanceKeeps`, `ReserveKeeps`, `SettlementKeeps`, `ReconcileKeeps`, `ReviseKeeps`) says
that it takes a sound account to a sound one, where sound means typed, with a baseline
below what was settled, and within its first limit; they rest on four facts about
rounding (`CeilOfSum`: two sums rounded together never exceed them rounded apart, so what
was reserved pays for what is settled). `TypeOK` with `LimitHeld` is then inductive. The
other two need `Custody`: what the process of a call does, what its records say, what its
reservation is and what it may be charged hang together (`Linked`), and the slots taken
are exactly the open calls. A cancellation releases a reserve because the send has no
permission and so no charge; a start frees the slot of a permitted call because its host
is down and so it is not live. The last two compare the account with sums over all
calls. That a sum changes by what its one changed part changes (`SumChanges`) would be an
induction over sets; here it is an argument by a smallest counterexample: two folds over
the same parts that disagreed would disagree on a smallest set of them (`LeastSubset`,
from the well-foundedness of the numbers), and taking one part away makes it smaller
(`FoldsAgree`, `FoldExists`). Neither property is inductive: `Audit` adds that what is not
settled yet has spent nothing (`Unspent`), and that no reservation was settled past the
reset of the account's month, so that opening the next month starts from a sum of nothing
(`Timely`). Each transaction then changes one reservation and the account by one amount
(`ChangeIsAudited`).

`TargetQueueProofs`: `QueueInvariant`, `TypesHold` (`TypeOK`), `JournalAgrees`
(`JournalMatchesFence`), `HeadAlone` (`OnlyHeadInEffect`), `NoClaimStays`
(`NoClaimLeftBehind`), `RollbacksUndo` (`UndoesTheLatest`) and `QueueKeepsThePromise`, the
refinement of `DeliveryDecision`. They hold for any number of tickets, direct commands and
mishaps, and batches of any size. The invariant is `Inv`, in five parts. `Story` is about the branch:
`JournalMatchesFence` alone is not inductive, since a call acts on the fence it saw and a Git
transaction may land after its process died, so `CallSound` says that a call moves under a
claim that succeeds the fence it saw, and `OrphanSound` that a transaction left behind has a
claim and is fenced out by the generation once that claim was released or its ticket taken
over. `PlanSound` ties a rollback to the move it takes back. `TicketSound` says what the
journal has of a ticket in each of its states, and that only the head is in its effect;
`WorkSound` what the holder of the lock knows from earlier steps (the batch is a prefix of
the queue, no transaction of the ticket in hand is left, epoch and generation compared before an effect
still are); `ServiceSound` what a start or turn relies on in the rows it read. A release in
reconciliation is safe because the ticket was fenced under a new epoch first (`refence`), a
retry in the executor because recovery handed every ticket in its effect to reconciliation.
For the promise, `AnswersAreTrue` says that an answer is what the branch has seen,
`MovesAreMoves` that a step that moves it is a `Move` for one open command, and
`AnswersAreDecisions` that any other step is a `Decide` or a stutter; `TheMover` and
`TakesBackTheLatest` show that a rollback finds the move it takes back still the latest.

Only model-checked: liveness and everything under fairness, which this prover does not
reach. The violation runs are counterexamples.
`RunLifecycle` and `TaskGraph` are written for proofs: recursion is a recursive function or
a fixpoint without `RECURSIVE`, and invariants are conjunctions of named parts.

## Plan

Done: `TaskGraph`, `RunLifecycle`, `RunPromise`, `WorkerCustody`, `DispatchCustody`,
`CancellationDelivery`, `AdoptionTarget`, `TargetQueue`, `DeliveryDecision`,
`SpendAccount`, `ModelCalls`; the proofs of `DispatchCustody`, `CancellationDelivery`,
`ModelCalls` and `TargetQueue`, and of `RunLifecycle` the types, the order of tasks, the
endings, the attempts, the parks and the promise. Next, in this order:

1. `RunProgression`: the turn and its runtime (stale reads, suspension, retry
   times) composed with an abstract Run, and liveness of a suspended Run.
2. `ResourcePools`: plan and admission of several Runs against shared capacity.
3. `Approval` and `RecoveryCases`: single use, expiry against decision, and the
   broker's choice over the executors of `DispatchCustody`.

## Not modelled

The components with status `not_modelled` in `PROJECT.json`, each with its reason there.
Of model calls: the lifetime quota (`maxCalls`, a counter that only grows), calls on a
subscription or without a budget, which reserve nothing, plan usage and resource
capacity, callers without a service host, whose permitted calls keep their slot for ever
by design (`controllers.ts:66-67`), and the surplus slots and certified holds of earlier
builds. A claimed call whose process died before it had its permission keeps its slot
until somebody cancels it; the model has this, and no property promises otherwise.
