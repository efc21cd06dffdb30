--------------------------- MODULE AdoptionTarget ---------------------------
(***************************************************************************)
(* One target branch, the reference that fences it, the generation the     *)
(* delivery queue writes beside it, and the journal of the commands that   *)
(* move it (engine/core/workspace-patch/internal/adoption.ts, adapters/    *)
(* core/attempt-store/internal/adoption.ts, adapters/core/git-patch/       *)
(* internal/adoption.ts).  A command is a ticket of the queue or one that  *)
(* a person runs directly; its steps here are those of one adopt() or      *)
(* rollback() call.  A commit is the sequence of the commands in it.       *)
(***************************************************************************)
EXTENDS Integers, Sequences, FiniteSets

CONSTANTS
  Ticket,      \* tickets of the queue: 1, 2, ... in the order of their ordinals
  Direct,      \* commands a person may run beside the queue
  DirectUndoes,\* the adoption a direct rollback takes back; Nobody for an adoption
  Nobody, Outsider,
  Troubles,    \* which of "crash", "fault" and "foreign" may happen
  MaxTrouble   \* how many in all
Command == Ticket \cup Direct
ASSUME TicketsAreOrdinals == Ticket \subseteq Nat \ {0} /\ MaxTrouble \in Nat
ASSUME CommandsAreDistinct == /\ Nobody \notin Command /\ Ticket \cap Direct = {}
                              /\ DirectUndoes \in [Direct -> Command \cup {Nobody}]

VARIABLES
  tip,        \* the commit the branch names
  moves,      \* the values the fence reference has had: who moved the branch
  generation, \* the epoch in the queue's generation reference; 0: there is none
  plan,       \* per command, the move it stands for
  journal,    \* per command, its record: state and sequence
  call,       \* per command, where its call stands and the fence it observed
  orphans,    \* Git transactions whose process died before they ended
  trouble, meddled
targetVars == <<tip, moves, generation, plan, journal, call, orphans, trouble, meddled>>

\* The fence reference names the record that last moved the branch.
Fence == IF moves = <<>> THEN Nobody ELSE moves[Len(moves)]
NoPlan == [from |-> <<>>, to |-> <<>>, of |-> Nobody]
Adoption(c, base) == [from |-> base, to |-> Append(base, c), of |-> Nobody]
\* Slip: a rollback returns to the base the change was made on.
RollbackToBase(c) == [from |-> plan[c].to, to |-> <<>>, of |-> c]
Rollback(c) == [from |-> plan[c].to, to |-> plan[c].from, of |-> c]
SequenceOf(c) == IF c = Nobody THEN 0 ELSE journal[c].seq
Idle == [at |-> "idle", seen |-> Nobody]

TargetInit ==
  /\ tip = <<>> /\ moves = <<>> /\ generation = 0 /\ orphans = {} /\ trouble = 0 /\ meddled = FALSE
  /\ plan = [c \in Command |-> NoPlan] /\ call = [c \in Command |-> Idle]
  /\ journal = [c \in Command |-> [state |-> "none", seq |-> 0]]

Strikes(kind) == kind \in Troubles /\ trouble < MaxTrouble /\ trouble' = trouble + 1

\* A direct process ends with its call; the executor of the queue reads the answer.
Goes(c, at) == call' = [call EXCEPT ![c].at = at]
Ends(c, how) == call' = [call EXCEPT ![c] = IF c \in Direct THEN Idle ELSE [Idle EXCEPT !.at = how]]
At(c, at) == call[c].at = at

\* A delivery pins the commit it made and its base; a rollback reads both from
\* the settled record of its adoption.
Offer(d) ==
  /\ plan[d] = NoPlan
  /\ \/ DirectUndoes[d] = Nobody /\ plan' = [plan EXCEPT ![d] = Adoption(d, tip)]
     \/ /\ DirectUndoes[d] # Nobody /\ journal[DirectUndoes[d]].state = "applied"
        /\ plan' = [plan EXCEPT ![d] = Rollback(DirectUndoes[d])]
  /\ UNCHANGED <<tip, moves, generation, journal, call, orphans, trouble, meddled>>

\* resume(): a record that exists is settled, refused or carried on.
Begin(c) ==
  /\ At(c, "idle") /\ plan[c] # NoPlan /\ journal[c].state \in {"none", "claimed"}
  /\ Goes(c, IF journal[c].state = "none" THEN "checking" ELSE "applying")
  /\ UNCHANGED <<tip, moves, generation, plan, journal, orphans, trouble, meddled>>

\* ready(): the branch is where the move starts; the fence is remembered for the claim.
Check(c) ==
  /\ At(c, "checking")
  /\ IF tip = plan[c].from THEN call' = [call EXCEPT ![c] = [at |-> "claiming", seen |-> Fence]]
                           ELSE Ends(c, "failed")
  /\ UNCHANGED <<tip, moves, generation, plan, journal, orphans, trouble, meddled>>

\* Slip: a claim looks at its own record only.
BusyWithOwn(c) == journal[c].state = "claimed"
Busy(c) == \E d \in Command : journal[d].state = "claimed"
\* The journal's latest applied record, if any, is the one the fence names.
IsLatest(c) ==
  /\ c # Nobody => journal[c].state = "applied"
  /\ \A d \in Command : journal[d].state = "applied" => journal[d].seq <= SequenceOf(c)
MayUndo(c, seen) ==
  plan[c].of # Nobody => journal[plan[c].of].state = "applied" /\ seen = plan[c].of
Claim(c) ==
  /\ At(c, "claiming")
  /\ IF ~Busy(c) /\ IsLatest(call[c].seen) /\ MayUndo(c, call[c].seen)
     THEN /\ journal' = [journal EXCEPT ![c] = [state |-> "claimed", seq |-> SequenceOf(call[c].seen) + 1]]
          /\ Goes(c, "applying")
     ELSE Ends(c, "failed") /\ UNCHANGED journal
  /\ UNCHANGED <<tip, moves, generation, plan, orphans, trouble, meddled>>

\* apply(): the own fence proves that the move happened; a new move needs the
\* fence of the sequence before and the branch at its start.
Apply(c) ==
  /\ At(c, "applying")
  /\ IF Fence = c THEN Goes(c, "finishing")
     ELSE IF SequenceOf(Fence) + 1 = journal[c].seq /\ tip = plan[c].from
     THEN call' = [call EXCEPT ![c] = [at |-> "moving", seen |-> Fence]]
     ELSE Ends(c, "failed")
  /\ UNCHANGED <<tip, moves, generation, plan, journal, orphans, trouble, meddled>>

\* One Git transaction verifies the generation and moves branch and fence.
Movable(c, seen, epoch) == generation = epoch /\ tip = plan[c].from /\ Fence = seen
MoveBranch(c) == tip' = plan[c].to /\ moves' = Append(moves, c)
\* An error leaves the move unproven unless the fence is the own one by then.
Move(c, epoch) ==
  /\ At(c, "moving")
  /\ \/ Movable(c, call[c].seen, epoch) /\ MoveBranch(c) /\ Goes(c, "finishing")
     \/ /\ ~Movable(c, call[c].seen, epoch) /\ UNCHANGED <<tip, moves>>
        /\ IF Fence = c THEN Goes(c, "finishing") ELSE Ends(c, "failed")
  /\ UNCHANGED <<generation, plan, journal, orphans, trouble, meddled>>

Settle(c, outcome) == journal' = [journal EXCEPT ![c].state = outcome]
Finish(c) ==
  /\ At(c, "finishing") /\ journal[c].state = "claimed"
  /\ Settle(c, "applied") /\ Ends(c, "done")
  /\ UNCHANGED <<tip, moves, generation, plan, orphans, trouble, meddled>>

\* A call that throws, for any reason, may have moved the branch.
CallFails(c, epoch) ==
  /\ call[c].at \notin {"idle", "done", "failed"} /\ Strikes("fault") /\ Ends(c, "failed")
  /\ \/ UNCHANGED <<tip, moves>>
     \/ At(c, "moving") /\ Movable(c, call[c].seen, epoch) /\ MoveBranch(c)
  /\ UNCHANGED <<generation, plan, journal, orphans, meddled>>

\* A process that dies while Git runs leaves the transaction to end by itself.
Abandoned(c, epoch) ==
  IF At(c, "moving") THEN {{}, {[cmd |-> c, seen |-> call[c].seen, epoch |-> epoch]}} ELSE {{}}
DirectDies(d) ==
  /\ ~At(d, "idle") /\ Strikes("crash") /\ call' = [call EXCEPT ![d] = Idle]
  /\ \E left \in Abandoned(d, 0) : orphans' = orphans \cup left
  /\ UNCHANGED <<tip, moves, generation, plan, journal, meddled>>
Land(o) ==
  /\ Movable(o.cmd, o.seen, o.epoch) /\ MoveBranch(o.cmd) /\ orphans' = orphans \ {o}
  /\ UNCHANGED <<generation, plan, journal, call, trouble, meddled>>

\* Git writers outside Deckent put the branch wherever they like.
Commits == {<<>>, tip, Append(tip, Outsider)} \cup {plan[c].to : c \in Command}
Foreign ==
  /\ Strikes("foreign") /\ tip' \in Commits \ {tip} /\ meddled' = TRUE
  /\ UNCHANGED <<moves, generation, plan, journal, call, orphans>>

\* adoptionNotApplied(): never claimed, or the branch still at its start under
\* the fence of another record.
NotApplied(c) ==
  \/ journal[c].state = "none"
  \/ tip = plan[c].from /\ Fence # c /\ journal[c].state \in {"claimed", "released"}

CallStep(c, epoch) == Begin(c) \/ Check(c) \/ Claim(c) \/ Apply(c) \/ Move(c, epoch) \/ Finish(c)
                      \/ CallFails(c, epoch)
=============================================================================
