------------------------- MODULE TargetQueueProofs -------------------------
EXTENDS TargetQueue, WellFoundedInduction, TLAPS

(***************************************************************************)
(* Theorems about TargetQueue, for any tickets, direct commands, troubles  *)
(* and limits.  Inv is the inductive invariant: what every part of the     *)
(* queue relies on when it acts on what it read a few steps ago.           *)
(*                                                                         *)
(*   Typed          the kinds of every variable                            *)
(*   Story          journal, fence, calls, transactions left behind, plans *)
(*   TicketSound    a ticket's record and its command's in the journal     *)
(*   WorkSound      what the holder of the target's lock knows             *)
(*   ServiceSound   what the service has read and what people confirmed    *)
(***************************************************************************)

\* The kinds of values.  A commit is the sequence of what is in it.
Commit == Seq(Command \cup {Outsider})
Maybe == Command \cup {Nobody}
Plans == [from : Commit, to : Commit, of : Maybe]
Records == [state : {"none", "claimed", "applied", "released"}, seq : Nat]
Calls == [at : {"idle", "checking", "claiming", "applying", "moving", "finishing", "done", "failed"},
          seen : Maybe]
Orphans == [cmd : Command, seen : Maybe, epoch : Nat]
TicketStates == Closed \cup InEffect \cup Waiting \cup {"none", "queued"}
Tickets == [state : TicketStates, epoch : Nat, batch : BOOLEAN, undoes : Ticket \cup {Nobody}]
RowSets == UNION {[S -> Tickets] : S \in SUBSET Ticket}
DriveAt == {"drive", "prepare", "admit", "evidence"}
EffectAt == {"publish", "revalidate", "adopt", "stop"}
ExecuteAt == {"validate", "fence", "enter"} \cup EffectAt
ReconcileAt == {"refence", "lookup", "release", "conclude", "park", "settle"}
WorkKinds == [at : {"free"} \cup DriveAt \cup ExecuteAt \cup ReconcileAt,
              by : {"none", "turn", "request", "start"}, rows : RowSets,
              t : Ticket \cup {0}, prev : Ticket \cup {0}, epoch : Nat]
\* Some epoch is the highest: 0, or that of a ticket.
EpochsBounded == \E e \in {0} \cup {ticket[t].epoch : t \in Ticket} :
                   \A t \in Ticket : ticket[t].epoch <= e
TargetTyped ==
  /\ tip \in Commit /\ moves \in Seq(Command) /\ generation \in Nat
  /\ plan \in [Command -> Plans] /\ journal \in [Command -> Records]
  /\ call \in [Command -> Calls] /\ orphans \subseteq Orphans
QueueTyped ==
  /\ ticket \in [Ticket -> Tickets] /\ EpochsBounded
  /\ late \subseteq Ticket /\ asked \subseteq Ticket \X Nat
  /\ service \in {"down", "starting", "up"} /\ since \in Nat
  /\ snap \in RowSets /\ card \in [items : SUBSET Ticket, epoch : Nat] /\ work \in WorkKinds
Typed == TargetTyped /\ QueueTyped

\* A fence that was observed is nobody's or a mover's; a claim succeeds the fence seen.
Known == Movers \cup {Nobody}
Never(c) == journal[c].state = "none"
Succeeds(c, seen) == journal[c].seq = SequenceOf(seen) + 1
\* A call checks and claims a command without a record, then moves under its claim,
\* from the fence the claim succeeds; only the executor runs the call of a ticket.
CallSound(c) ==
  /\ call[c].seen \in Known
  /\ call[c].at \in {"checking", "claiming"} => Never(c)
  /\ call[c].at \in {"applying", "moving"} => journal[c].state = "claimed"
  /\ call[c].at = "moving" => Succeeds(c, call[c].seen)
  /\ call[c].at = "finishing" => c \in Movers
  /\ call[c].at = "done" => journal[c].state = "applied"
  /\ c \in Ticket /\ call[c].at # "idle" => work.at = "adopt" /\ work.t = c
\* A transaction whose process died (Git ends by itself) has a claim.  If that was
\* released since, or its ticket taken over, the generation has fenced it out.
OrphanSound(o) ==
  /\ ~Never(o.cmd) /\ Succeeds(o.cmd, o.seen)
  /\ o.seen \in Known /\ o.epoch <= generation
  /\ journal[o.cmd].state = "released" => o.epoch < generation
  /\ o.cmd \in Direct => o.epoch = 0
  /\ o.cmd \in Ticket => \/ o.epoch < ticket[o.cmd].epoch
                         \/ ticket[o.cmd].state = "adopting" /\ o.epoch = ticket[o.cmd].epoch
\* What the journal has of a ticket in each of its states; the one in its effect is
\* the head of the queue, in a batch.
TicketSound(t) ==
  /\ ticket[t].state \in {"none", "queued"} \cup Waiting => Never(t) /\ ~ticket[t].batch
  /\ ticket[t].state \in {"expired", "refused"} => Never(t)
  /\ ticket[t].state = "parked" => journal[t].state \in {"none", "released"}
  /\ ticket[t].state = "adopted" => journal[t].state = "applied"
  /\ ticket[t].state \in Waiting \cup InEffect => ticket[t].epoch > 0
  /\ ~Never(t) => generation > 0
  /\ ticket[t].state = "none" => \A u \in Ticket : u > t => ticket[u].state = "none"
  /\ ticket[t].state \in InEffect => IsHead(t) /\ ticket[t].batch
\* A rollback takes back the move its claim succeeds.
PlanSound(c) ==
  /\ ~Never(c) \/ call[c].at # "idle" => plan[c] # NoPlan
  /\ ~Never(c) => journal[c].seq > 0
  /\ plan[c].of \notin {Nobody, c} =>
       plan[c] = Rollback(plan[c].of) /\ journal[plan[c].of].state = "applied"
  /\ ~Never(c) /\ plan[c].of # Nobody => plan[c].of # c /\ Succeeds(c, plan[c].of)
Story ==
  /\ JournalMatchesFence
  /\ \A d \in Direct : journal[d].state # "released"
  /\ \A c \in Command : CallSound(c)
  /\ \A o \in orphans : OrphanSound(o)
  /\ \A c \in Command : PlanSound(c)
\* The tickets of a batch are the first open ones: none before them is left out.
Prefix(S) == \A u \in S : ticket[u].state # "none" /\ Before(Open, u) \subseteq S
\* The holder of the lock: the driver's row, the executor's batch from the ticket in
\* hand on, the epochs compared and written, and what reconciliation has looked up.
WorkSound ==
  /\ work.at \in DriveAt \cup ExecuteAt => work.t \in DOMAIN work.rows
  /\ work.at \in ReconcileAt => work.t \in Ticket
  /\ work.at = "prepare" => Row.state = "revalidating"
  /\ work.at \in {"admit", "evidence"} => Row.state = "verifying"
  /\ work.at \in ExecuteAt => /\ Prefix(DOMAIN work.rows)
                              /\ \A u \in Open \cap DOMAIN work.rows : u >= work.t
  /\ work.at = "validate" /\ work.prev # 0 => generation >= work.epoch
  /\ work.at \in {"fence", "enter"} \cup EffectAt \cup ReconcileAt => ticket[work.t].epoch = work.epoch
  /\ work.at \in {"fence", "enter"} => ticket[work.t].state = "awaiting"
  /\ work.at \in {"enter", "lookup", "release", "conclude", "park", "settle"} \cup EffectAt
       => generation >= work.epoch
  /\ work.at = "publish" => ticket[work.t].state = "publishing"
  /\ work.at \in {"revalidate", "adopt"} => ticket[work.t].state = "adopting"
  /\ work.at = "stop" => ticket[work.t].state \in {"publishing", "adopting"}
  /\ work.at \in EffectAt => \A o \in orphans : o.cmd # work.t
  /\ work.at \in ReconcileAt => /\ ticket[work.t].state \in {"reconciling", "parked", "adopted"}
                                /\ \A o \in orphans : o.cmd = work.t => o.epoch < work.epoch
  /\ work.at = "conclude" => work.t \in Movers
  /\ work.at = "park" => journal[work.t].state \in {"none", "released"}
  /\ work.at = "settle" => journal[work.t].state = "applied"
\* The service: a confirmed batch is a prefix, and a reconciliation that was read
\* is still under way or over, under the same epoch.
ServiceSound ==
  /\ Prefix(card.items) /\ (card # NoCard => card.items # {})
  /\ \A t \in DOMAIN snap : snap[t].state = "reconciling" =>
       ticket[t].epoch = snap[t].epoch /\ ticket[t].state \in {"reconciling", "parked", "adopted"}
  /\ service = "down" => work.at = "free"
  /\ service = "starting" => /\ DOMAIN snap \subseteq Open
                             /\ work.at = "free" \/ (work.at \in ReconcileAt /\ work.t \notin DOMAIN snap)
\* The inductive invariant.
Inv == Typed /\ Story /\ (\A t \in Ticket : TicketSound(t)) /\ WorkSound /\ ServiceSound
----------------------------------------------------------------------------
(* Numbers, commits and rows                                               *)

\* Every set of natural numbers that is not empty has a least one.
LEMMA LeastNatural ==
  ASSUME NEW S \in SUBSET Nat, S # {}
  PROVE  \E x \in S : \A y \in S : x <= y
<1> DEFINE Below == {p \in Nat \X Nat : p[1] < p[2]}
<1>1. IsWellFoundedOn(Below, Nat)
  BY NatLessThanWellFounded DEF OpToRel
<1>2. PICK x \in S : \A y \in S : <<y, x>> \notin Below
  BY <1>1, WFMin
<1>3. \A y \in S : ~(y < x)
  BY <1>2
<1> QED BY <1>3

\* The first of some tickets is one of them.
LEMMA LeastTicket ==
  ASSUME NEW S \in SUBSET Ticket, S # {}
  PROVE  Least(S) \in S /\ \A u \in S : Least(S) <= u
<1>1. \E t \in S : \A u \in S : t <= u
  BY LeastNatural, TicketsAreOrdinals
<1> QED BY <1>1 DEF Least

\* The highest epoch given out so far exists: a new reservation goes above it.
LEMMA HighestEpoch ==
  ASSUME QueueTyped
  PROVE  MaxEpoch \in Nat /\ \A t \in Ticket : ticket[t].epoch <= MaxEpoch
<1>1. \A t \in Ticket : ticket[t].epoch \in Nat
  BY DEF QueueTyped, Tickets
<1>2. /\ MaxEpoch \in {0} \cup {ticket[t].epoch : t \in Ticket}
      /\ \A t \in Ticket : ticket[t].epoch <= MaxEpoch
  BY DEF QueueTyped, EpochsBounded, MaxEpoch
<1> QED BY <1>1, <1>2

\* A commit on a commit is one.
LEMMA CommitsAppend ==
  ASSUME NEW a \in Commit, NEW c \in Command \cup {Outsider} PROVE Append(a, c) \in Commit
  BY DEF Commit
\* So is the history the branch starts with.
LEMMA NoCommit == <<>> \in Commit
  BY DEF Commit

\* Reading tickets of the store gives the records they have now.
LEMMA RowsFit ==
  ASSUME ticket \in [Ticket -> Tickets], NEW S \in SUBSET Ticket
  PROVE  Rows(S) \in RowSets /\ DOMAIN Rows(S) = S /\ \A t \in S : Rows(S)[t] = ticket[t]
  BY DEF Rows, RowSets
\* The rows a service carries with it are records of tickets.
LEMMA RowsAre ==
  ASSUME NEW rows \in RowSets
  PROVE  DOMAIN rows \in SUBSET Ticket /\ \A t \in DOMAIN rows : rows[t] \in Tickets
  BY DEF RowSets
\* No rows are rows.
LEMMA NoRowsFit == NoRows \in RowSets /\ DOMAIN NoRows = {}
<1>1. NoRows \in [{} -> Tickets]
  BY DEF NoRows, Rows
<1> QED BY <1>1 DEF RowSets
\* Rows that are not none have a ticket.
LEMMA RowsNotEmpty ==
  ASSUME NEW rows \in RowSets, rows # NoRows PROVE DOMAIN rows # {}
<1>1. PICK S \in SUBSET Ticket : rows \in [S -> Tickets]
  BY DEF RowSets
<1>2. NoRows = [t \in {} |-> ticket[t]]
  BY DEF NoRows, Rows
<1>3. ASSUME S = {} PROVE FALSE
  <2>1. rows = [t \in {} |-> ticket[t]]
    BY <1>1, <1>3
  <2> QED BY <2>1, <1>2
<1> QED BY <1>1, <1>3

----------------------------------------------------------------------------
(* Types: the target                                                       *)

\* An adoption and a rollback (adoption.ts, prepare) are plans with both ends.
LEMMA PlansFit ==
  ASSUME TargetTyped, NEW c \in Command
  PROVE  /\ plan[c].from \in Commit /\ plan[c].to \in Commit
         /\ \A base \in Commit : Adoption(c, base) \in Plans
         /\ Rollback(c) \in Plans /\ NoPlan \in Plans
<1>1. plan[c] \in Plans
  BY DEF TargetTyped
<1>2. plan[c].from \in Commit /\ plan[c].to \in Commit
  BY <1>1 DEF Plans
<1>3. \A base \in Commit : Append(base, c) \in Commit
  BY CommitsAppend
<1>4. \A base \in Commit : Adoption(c, base) \in Plans
  BY <1>3 DEF Plans, Adoption, Maybe
<1>5. Rollback(c) \in Plans /\ NoPlan \in Plans
  BY <1>2, NoCommit DEF Plans, Rollback, NoPlan, Maybe
<1> QED BY <1>2, <1>4, <1>5

\* The fence names a command that moved the branch, or nobody, and has a sequence.
LEMMA FenceFits ==
  ASSUME TargetTyped
  PROVE  /\ Len(moves) \in Nat /\ DOMAIN moves = 1..Len(moves)
         /\ Fence \in Maybe /\ Fence \in Known
         /\ \A seen \in Maybe : SequenceOf(seen) \in Nat
<1>1. moves \in Seq(Command)
  BY DEF TargetTyped
<1>2. Len(moves) \in Nat /\ DOMAIN moves = 1..Len(moves)
  BY <1>1
<1>3. moves = <<>> \/ (Len(moves) \in DOMAIN moves /\ moves[Len(moves)] \in Command)
  BY <1>1, <1>2
<1>4. Fence \in Maybe /\ Fence \in Known
  BY <1>3 DEF Fence, Maybe, Known, Movers
<1>5. \A c \in Command : journal[c].seq \in Nat
  BY DEF TargetTyped, Records
<1>6. \A seen \in Maybe : SequenceOf(seen) \in Nat
  BY <1>5 DEF SequenceOf, Maybe
<1> QED BY <1>2, <1>4, <1>6

\* A call that goes on, or ends, is still a call.
LEMMA CallsFit ==
  ASSUME TargetTyped, NEW c \in Command
  PROVE  /\ call[c].seen \in Maybe /\ call[c].at \in {"idle", "checking", "claiming", "applying", "moving", "finishing", "done", "failed"}
         /\ \A at \in {"idle", "checking", "claiming", "applying", "moving", "finishing", "done", "failed"} :
              /\ Goes(c, at) => call' \in [Command -> Calls]
              /\ Ends(c, at) => call' \in [Command -> Calls]
              /\ \A seen \in Maybe : [call EXCEPT ![c] = [at |-> at, seen |-> seen]] \in [Command -> Calls]
         /\ Idle \in Calls
<1>1. call \in [Command -> Calls]
  BY DEF TargetTyped
<1>2. call[c].seen \in Maybe /\ call[c].at \in {"idle", "checking", "claiming", "applying", "moving", "finishing", "done", "failed"}
  BY <1>1 DEF Calls
<1>3. Idle \in Calls /\ Nobody \in Maybe
  BY DEF Idle, Calls, Maybe
<1>4. ASSUME NEW at \in {"idle", "checking", "claiming", "applying", "moving", "finishing", "done", "failed"}
      PROVE  /\ Goes(c, at) => call' \in [Command -> Calls]
             /\ Ends(c, at) => call' \in [Command -> Calls]
             /\ \A seen \in Maybe : [call EXCEPT ![c] = [at |-> at, seen |-> seen]] \in [Command -> Calls]
  <2>1. \A seen \in Maybe : [at |-> at, seen |-> seen] \in Calls
    BY DEF Calls
  <2>2. Goes(c, at) => call' \in [Command -> Calls]
    BY <1>1, <1>2, <2>1 DEF Goes, Calls
  <2>3. Ends(c, at) => call' \in [Command -> Calls]
    BY <1>1, <1>3, <2>1 DEF Ends, Calls, Idle
  <2>4. \A seen \in Maybe : [call EXCEPT ![c] = [at |-> at, seen |-> seen]] \in [Command -> Calls]
    BY <1>1, <2>1
  <2> QED BY <2>2, <2>3, <2>4
<1> QED BY <1>2, <1>3, <1>4

\* One command's record of the journal, and a move of the branch.
LEMMA JournalFits ==
  ASSUME TargetTyped, NEW c \in Command
  PROVE  /\ \A how \in {"applied", "released"} :
              Settle(c, how) => journal' \in [Command -> Records]
         /\ \A n \in Nat : [journal EXCEPT ![c] = [state |-> "claimed", seq |-> n]] \in [Command -> Records]
<1>1. journal \in [Command -> Records]
  BY DEF TargetTyped
<1> QED BY <1>1 DEF Settle, Records

\* A move puts the branch on a commit and its command at the end of the fence's history.
LEMMA MoveFits ==
  ASSUME TargetTyped, NEW c \in Command, MoveBranch(c)
  PROVE  tip' \in Commit /\ moves' \in Seq(Command)
<1>1. moves \in Seq(Command)
  BY DEF TargetTyped
<1> QED BY <1>1, PlansFit DEF MoveBranch

\* A step of adopt() or rollback() keeps the types of the target.
LEMMA CallStepTyped ==
  ASSUME TargetTyped, NEW c \in Command, NEW epoch, CallStep(c, epoch)
  PROVE  TargetTyped'
<1> USE DEF TargetTyped
<1>1. CASE Begin(c)
  BY <1>1, CallsFit DEF Begin
<1>2. CASE Check(c)
  BY <1>2, CallsFit, FenceFits DEF Check
<1>3. CASE Claim(c)
  <2>1. SequenceOf(call[c].seen) + 1 \in Nat
    BY CallsFit, FenceFits
  <2>2. journal' \in [Command -> Records]
    BY <1>3, <2>1, JournalFits DEF Claim
  <2>3. call' \in [Command -> Calls]
    BY <1>3, CallsFit DEF Claim
  <2> QED BY <1>3, <2>2, <2>3 DEF Claim
<1>4. CASE Apply(c)
  BY <1>4, CallsFit, FenceFits DEF Apply
<1>5. CASE Move(c, epoch)
  <2>1. tip' \in Commit /\ moves' \in Seq(Command)
    BY <1>5, MoveFits DEF Move
  <2>2. call' \in [Command -> Calls]
    BY <1>5, CallsFit DEF Move
  <2> QED BY <1>5, <2>1, <2>2 DEF Move
<1>6. CASE Finish(c)
  BY <1>6, CallsFit, JournalFits DEF Finish
<1>7. CASE CallFails(c, epoch)
  <2>1. tip' \in Commit /\ moves' \in Seq(Command)
    BY <1>7, MoveFits DEF CallFails
  <2>2. call' \in [Command -> Calls]
    BY <1>7, CallsFit DEF CallFails
  <2> QED BY <1>7, <2>1, <2>2 DEF CallFails
<1> QED BY <1>1, <1>2, <1>3, <1>4, <1>5, <1>6, <1>7 DEF CallStep

\* What a process leaves behind that dies while it moves the branch.
LEMMA AbandonedFits ==
  ASSUME TargetTyped, NEW c \in Command, NEW epoch \in Nat, NEW left \in Abandoned(c, epoch)
  PROVE  left \subseteq Orphans
<1>1. [cmd |-> c, seen |-> call[c].seen, epoch |-> epoch] \in Orphans
  BY CallsFit DEF Orphans
<1> QED BY <1>1 DEF Abandoned

\* So does what happens beside the queue.
LEMMA BesideTyped ==
  ASSUME TargetTyped, Beside
  PROVE  TargetTyped'
<1> USE DEF TargetTyped
<1>1. CASE Foreign
  <2>1. \A c \in Command : plan[c].to \in Commit
    BY PlansFit
  <2>2. Commits \subseteq Commit
    BY <2>1, CommitsAppend, NoCommit DEF Commits
  <2> QED BY <1>1, <2>2 DEF Foreign
<1>2. CASE \E o \in orphans : Land(o)
  <2>1. PICK o \in orphans : Land(o)
    BY <1>2
  <2>2. o.cmd \in Command
    BY DEF Orphans
  <2> QED BY <2>1, <2>2, MoveFits DEF Land
<1>3. ASSUME NEW d \in Direct, Offer(d) PROVE TargetTyped'
  <2>1. d \in Command /\ DirectUndoes[d] \in Command \cup {Nobody}
    BY CommandsAreDistinct DEF Command
  <2>2. plan' \in [Command -> Plans]
    BY <1>3, <2>1, PlansFit DEF Offer
  <2> QED BY <1>3, <2>2 DEF Offer
<1>4. ASSUME NEW d \in Direct, CallStep(d, 0) PROVE TargetTyped'
  BY <1>4, CallStepTyped DEF Command
<1>5. ASSUME NEW d \in Direct, DirectDies(d) PROVE TargetTyped'
  <2>1. d \in Command
    BY DEF Command
  <2>2. call' \in [Command -> Calls]
    BY <1>5, CallsFit DEF DirectDies
  <2>3. orphans' \subseteq Orphans
    BY <1>5, <2>1, AbandonedFits DEF DirectDies
  <2> QED BY <1>5, <2>2, <2>3 DEF DirectDies
<1> QED BY <1>1, <1>2, <1>3, <1>4, <1>5 DEF Beside

----------------------------------------------------------------------------
(* Types: the queue                                                        *)

\* Epochs stay bounded when some tickets take one, or none, above the highest.
LEMMA EpochsStayBounded ==
  ASSUME QueueTyped, NEW S \in SUBSET Ticket,
         \A t \in Ticket \ S : ticket'[t].epoch = ticket[t].epoch,
         \A t \in S : ticket'[t].epoch = MaxEpoch + 1
  PROVE  EpochsBounded'
<1>0. MaxEpoch \in Nat /\ \A t \in Ticket : ticket[t].epoch <= MaxEpoch
  BY HighestEpoch
<1>1. \A t \in Ticket : ticket[t].epoch \in Nat
  BY DEF QueueTyped, Tickets
<1>2. CASE S = {}
  <2>1. \A t \in Ticket : ticket'[t].epoch = ticket[t].epoch
    BY <1>2
  <2>2. PICK e \in {0} \cup {ticket[t].epoch : t \in Ticket} : \A t \in Ticket : ticket[t].epoch <= e
    BY DEF QueueTyped, EpochsBounded
  <2>3. e \in {0} \cup {ticket'[t].epoch : t \in Ticket}
    BY <2>1, <2>2
  <2> QED BY <2>1, <2>2, <2>3 DEF EpochsBounded
<1>3. CASE S # {}
  <2>1. PICK s \in S : s \in Ticket
    BY <1>3
  <2>2. ticket'[s].epoch = MaxEpoch + 1 /\ \A t \in Ticket : ticket'[t].epoch <= MaxEpoch + 1
    BY <1>0, <1>1, <2>1
  <2>3. MaxEpoch + 1 \in {0} \cup {ticket'[t].epoch : t \in Ticket}
    BY <2>1, <2>2
  <2> QED BY <2>2, <2>3 DEF EpochsBounded
<1> QED BY <1>2, <1>3

\* A ticket enters a state, some are parked, some are reserved under a new epoch.
LEMMA TicketsFit ==
  ASSUME QueueTyped
  PROVE  /\ \A t \in Ticket, s \in TicketStates :
              Enters(t, s) => ticket' \in [Ticket -> Tickets] /\ EpochsBounded'
         /\ \A S \in SUBSET Ticket :
              /\ Parked(S) \in [Ticket -> Tickets] /\ Reserved(S) \in [Ticket -> Tickets]
              /\ ticket' = Parked(S) => EpochsBounded'
              /\ ticket' = Reserved(S) => EpochsBounded'
<1>0. ticket \in [Ticket -> Tickets] /\ MaxEpoch + 1 \in Nat
  BY HighestEpoch DEF QueueTyped
<1>1. ASSUME NEW t \in Ticket, NEW s \in TicketStates, Enters(t, s)
      PROVE  ticket' \in [Ticket -> Tickets] /\ EpochsBounded'
  <2>1. ticket' \in [Ticket -> Tickets]
    BY <1>0, <1>1 DEF Enters, Tickets
  <2>2. \A u \in Ticket : ticket'[u].epoch = ticket[u].epoch
    BY <1>0, <1>1 DEF Enters, Tickets
  <2>3. EpochsBounded'
    BY <2>2, EpochsStayBounded, {} \in SUBSET Ticket
  <2> QED BY <2>1, <2>3
<1>2. ASSUME NEW S \in SUBSET Ticket
      PROVE  /\ Parked(S) \in [Ticket -> Tickets] /\ Reserved(S) \in [Ticket -> Tickets]
             /\ ticket' = Parked(S) => EpochsBounded'
             /\ ticket' = Reserved(S) => EpochsBounded'
  <2>1. Parked(S) \in [Ticket -> Tickets]
    BY <1>0 DEF Parked, Tickets, TicketStates, Closed
  <2>2. Reserved(S) \in [Ticket -> Tickets]
    BY <1>0 DEF Reserved, Tickets, TicketStates, Waiting
  <2>3. ASSUME ticket' = Parked(S) PROVE EpochsBounded'
    <3>1. \A u \in Ticket : ticket'[u].epoch = ticket[u].epoch
      BY <1>0, <2>3 DEF Parked, Tickets
    <3> QED BY <3>1, EpochsStayBounded, {} \in SUBSET Ticket
  <2>4. ASSUME ticket' = Reserved(S) PROVE EpochsBounded'
    <3>1. /\ \A u \in Ticket \ S : ticket'[u].epoch = ticket[u].epoch
          /\ \A u \in S : ticket'[u].epoch = MaxEpoch + 1
      BY <1>0, <2>4 DEF Reserved, Tickets
    <3> QED BY <3>1, EpochsStayBounded
  <2> QED BY <2>1, <2>2, <2>3, <2>4
<1> QED BY <1>1, <1>2

\* What the holder of the lock does.
LEMMA WorkFacts ==
  ASSUME QueueTyped, WorkSound
  PROVE  /\ work.epoch \in Nat /\ work.rows \in RowSets /\ DOMAIN work.rows \in SUBSET Ticket
         /\ work.at \in DriveAt \cup ExecuteAt => /\ work.t \in Ticket /\ work.t \in DOMAIN work.rows
                                                  /\ Row \in Tickets
         /\ work.at \in ReconcileAt => work.t \in Ticket
         /\ Following \in SUBSET Ticket
         /\ Following # {} => Least(Following) \in Following /\ Least(Following) \in Ticket
<1>1. work \in WorkKinds
  BY DEF QueueTyped
<1>2. work.epoch \in Nat /\ work.rows \in RowSets
  BY <1>1 DEF WorkKinds
<1>3. DOMAIN work.rows \in SUBSET Ticket /\ \A t \in DOMAIN work.rows : work.rows[t] \in Tickets
  BY <1>2, RowsAre
<1>4. Following \in SUBSET Ticket
  BY <1>3 DEF Following
<1>5. Following # {} => Least(Following) \in Following
  BY <1>4, LeastTicket
<1> QED BY <1>2, <1>3, <1>4, <1>5 DEF WorkSound, Row

\* What the holder of the target's lock may do next is work.
LEMMA WorkFits ==
  ASSUME QueueTyped, WorkSound
  PROVE  /\ Free \in WorkKinds
         /\ \A at \in DriveAt \cup ExecuteAt \cup ReconcileAt : Works(at) => work' \in WorkKinds
         /\ \A at \in DriveAt \cup ExecuteAt \cup ReconcileAt, by \in {"turn", "request", "start"},
               rows \in RowSets, t \in Ticket, epoch \in Nat : Doing(at, by, rows, t, epoch) \in WorkKinds
<1>1. work \in WorkKinds
  BY DEF QueueTyped
<1>2. Free \in WorkKinds
  BY NoRowsFit DEF Free, Doing, WorkKinds
<1>3. ASSUME NEW at \in DriveAt \cup ExecuteAt \cup ReconcileAt, Works(at) PROVE work' \in WorkKinds
  BY <1>1, <1>3 DEF Works, WorkKinds
<1>4. \A at \in DriveAt \cup ExecuteAt \cup ReconcileAt, by \in {"turn", "request", "start"},
               rows \in RowSets, t \in Ticket, epoch \in Nat : Doing(at, by, rows, t, epoch) \in WorkKinds
  BY DEF Doing, WorkKinds
<1> QED BY <1>2, <1>3, <1>4

\* The next row of a driver, or of an execution.
LEMMA NextRowFits ==
  ASSUME QueueTyped, WorkSound, work.at \in DriveAt \cup ExecuteAt,
         NEW at \in DriveAt \cup ExecuteAt
  PROVE  (IF Following = {} THEN Free
          ELSE [work EXCEPT !.t = Least(Following), !.prev = work.t, !.at = at]) \in WorkKinds
<1>1. work \in WorkKinds
  BY DEF QueueTyped
<1>2. CASE Following = {}
  BY <1>2, WorkFits
<1>3. CASE Following # {}
  <2>1. Least(Following) \in Ticket /\ work.t \in Ticket
    BY <1>3, WorkFacts
  <2> QED BY <1>1, <1>3, <2>1 DEF WorkKinds
<1> QED BY <1>2, <1>3

\* The first of the rows that were read.
LEMMA SnapFacts ==
  ASSUME QueueTyped, snap # NoRows
  PROVE  First \in DOMAIN snap /\ First \in Ticket /\ snap[First] \in Tickets
<1>1. DOMAIN snap \in SUBSET Ticket /\ DOMAIN snap # {} /\ \A t \in DOMAIN snap : snap[t] \in Tickets
  BY RowsAre, RowsNotEmpty DEF QueueTyped
<1> QED BY <1>1, LeastTicket DEF First

\* The open tickets are tickets.
LEMMA OpenFits == Open \in SUBSET Ticket
  BY DEF Open

\* A ticket that is filed is a ticket of its kind.
LEMMA FiledFits ==
  ASSUME ticket \in [Ticket -> Tickets], NEW t \in Ticket, NEW undoes \in Ticket \cup {Nobody},
         ticket' = [ticket EXCEPT ![t].state = "queued", ![t].undoes = undoes]
  PROVE  ticket' \in [Ticket -> Tickets] /\ \A u \in Ticket : ticket'[u].epoch = ticket[u].epoch
<1> DEFINE q == [ticket[t] EXCEPT !.state = "queued", !.undoes = undoes]
<1>1. ticket[t] \in Tickets /\ "queued" \in TicketStates
  BY DEF TicketStates
<1>2. q \in Tickets /\ q.epoch = ticket[t].epoch
  BY <1>1 DEF Tickets
<1>3. ticket' = [ticket EXCEPT ![t] = q]
  OBVIOUS
<1> HIDE DEF q
<1> QED BY <1>2, <1>3

\* A ticket whose effect begins is a ticket of its kind.
LEMMA EnteredFits ==
  ASSUME ticket \in [Ticket -> Tickets], NEW t \in Ticket, NEW s \in TicketStates,
         ticket' = [ticket EXCEPT ![t].batch = TRUE, ![t].state = s]
  PROVE  ticket' \in [Ticket -> Tickets] /\ \A u \in Ticket : ticket'[u].epoch = ticket[u].epoch
<1> DEFINE q == [ticket[t] EXCEPT !.batch = TRUE, !.state = s]
<1>1. ticket[t] \in Tickets
  OBVIOUS
<1>2. q \in Tickets /\ q.epoch = ticket[t].epoch
  BY <1>1 DEF Tickets
<1>3. ticket' = [ticket EXCEPT ![t] = q]
  OBVIOUS
<1> HIDE DEF q
<1> QED BY <1>2, <1>3

\* What people ask of the queue keeps the types.
LEMMA AskTyped ==
  ASSUME Typed, WorkSound, ServiceSound, Ask \/ Requested
  PROVE  Typed'
<1> USE DEF Typed, QueueTyped
<1>1. ASSUME NEW undoes \in Ticket \cup {Nobody}, Admit(undoes)
      PROVE  ticket' \in [Ticket -> Tickets] /\ EpochsBounded'
  <2>1. PICK t \in Unused(Ticket) : ticket' = [ticket EXCEPT ![t].state = "queued", ![t].undoes = undoes]
    BY <1>1 DEF Admit
  <2>2. t \in Ticket
    BY DEF Unused
  <2>3. ticket' \in [Ticket -> Tickets]
    BY <2>1, <2>2, FiledFits
  <2>4. \A u \in Ticket : ticket'[u].epoch = ticket[u].epoch
    BY <2>1, <2>2, FiledFits
  <2>5. EpochsBounded'
    BY <2>4, EpochsStayBounded, {} \in SUBSET Ticket
  <2> QED BY <2>3, <2>5
<1>2. CASE Enqueue
  <2>1. ticket' \in [Ticket -> Tickets] /\ EpochsBounded'
    BY <1>1, <1>2 DEF Enqueue
  <2> QED BY <1>2, <2>1 DEF Enqueue, targetVars, TargetTyped
<1>3. ASSUME NEW a \in asked, EnqueueRollback(a) PROVE Typed'
  <2>1. ticket' \in [Ticket -> Tickets] /\ EpochsBounded'
    BY <1>1, <1>3 DEF EnqueueRollback
  <2> QED BY <1>3, <2>1 DEF EnqueueRollback, targetVars, TargetTyped
<1>4. ASSUME NEW s \in Ticket, AskRollback(s) PROVE Typed'
  <2>1. asked' \subseteq Ticket \X Nat
    BY <1>4, BoundsArePositive DEF AskRollback
  <2> QED BY <1>4, <2>1 DEF AskRollback, targetVars, TargetTyped, EpochsBounded
<1>5. CASE Confirm
  <2>1. PICK S \in SUBSET Open : Confirmable(S) /\ card' = [items |-> S, epoch |-> ticket[Least(S)].epoch]
    BY <1>5 DEF Confirm
  <2>2. S \in SUBSET Ticket /\ S # {}
    BY <2>1, OpenFits DEF Confirmable
  <2>3. ticket[Least(S)].epoch \in Nat
    BY <2>2, LeastTicket DEF Tickets
  <2> QED BY <1>5, <2>1, <2>2, <2>3 DEF Confirm, targetVars, TargetTyped, EpochsBounded
<1>6. CASE Execute
  <2>1. card.items \in SUBSET Ticket /\ card.items # {} /\ card.epoch \in Nat
    BY <1>6 DEF Execute, ServiceSound
  <2>2. Least(card.items) \in Ticket /\ Rows(card.items) \in RowSets
    BY <2>1, LeastTicket, RowsFit
  <2>3. work' \in WorkKinds
    BY <1>6, <2>1, <2>2, WorkFits DEF Execute, ExecuteAt
  <2>4. NoCard \in [items : SUBSET Ticket, epoch : Nat]
    BY DEF NoCard
  <2> QED BY <1>6, <2>3, <2>4 DEF Execute, targetVars, TargetTyped, EpochsBounded
<1>7. ASSUME NEW t \in Ticket, InitRollback(t) PROVE Typed'
  <2>1. PICK S \in SUBSET Open : ticket' = [Reserved(S) EXCEPT ![t].state = "awaiting"]
    BY <1>7 DEF InitRollback, StartRollback
  <2>2. Reserved(S) \in [Ticket -> Tickets] /\ S \in SUBSET Ticket
    BY <2>1, TicketsFit, OpenFits
  <2>3. ticket' \in [Ticket -> Tickets]
    BY <2>1, <2>2 DEF Tickets, TicketStates, Waiting
  <2>4. /\ \A u \in S : ticket'[u].epoch = MaxEpoch + 1
        /\ \A u \in Ticket \ S : ticket'[u].epoch = ticket[u].epoch
    BY <2>1, <2>2 DEF Reserved, Tickets
  <2>5. EpochsBounded'
    BY <2>2, <2>4, EpochsStayBounded
  <2>6. Rollback(ticket[t].undoes) \in Plans
    <3>1. ticket[t].undoes \in Command
      BY <1>7 DEF InitRollback, IsRollback, Tickets, Command
    <3> QED BY <3>1, PlansFit
  <2>7. plan' \in [Command -> Plans]
    BY <1>7, <2>6 DEF InitRollback, StartRollback, TargetTyped
  <2> QED BY <1>7, <2>3, <2>5, <2>7 DEF InitRollback, TargetTyped
<1> QED BY <1>2, <1>3, <1>4, <1>5, <1>6, <1>7 DEF Ask, Requested

\* A rollback that starts, from a turn or a request.
LEMMA StartRollbackTyped ==
  ASSUME Typed, NEW t \in Ticket, StartRollback(t), IsRollback(t)
  PROVE  ticket' \in [Ticket -> Tickets] /\ EpochsBounded' /\ plan' \in [Command -> Plans]
<1> USE DEF Typed
<1>1. PICK S \in SUBSET Open : ticket' = [Reserved(S) EXCEPT ![t].state = "awaiting"]
  BY DEF StartRollback
<1>2. Reserved(S) \in [Ticket -> Tickets] /\ S \in SUBSET Ticket
  BY <1>1, TicketsFit, OpenFits
<1>3. ticket' \in [Ticket -> Tickets]
  BY <1>1, <1>2 DEF Tickets, TicketStates, Waiting
<1>4. /\ \A u \in S : ticket'[u].epoch = MaxEpoch + 1
      /\ \A u \in Ticket \ S : ticket'[u].epoch = ticket[u].epoch
  <2>1. \A u \in Ticket : ticket'[u].epoch = Reserved(S)[u].epoch
    BY <1>1, <1>2 DEF Tickets
  <2>2. \A u \in Ticket : ticket[u] \in Tickets
    BY DEF QueueTyped
  <2>3. /\ \A u \in S : Reserved(S)[u].epoch = MaxEpoch + 1
        /\ \A u \in Ticket \ S : Reserved(S)[u].epoch = ticket[u].epoch
    BY <1>2, <2>2 DEF Reserved, Tickets
  <2> QED BY <1>2, <2>1, <2>3
<1>5. EpochsBounded'
  BY <1>2, <1>4, EpochsStayBounded
<1>6. ticket[t].undoes \in Command
  BY DEF IsRollback, Tickets, Command, QueueTyped
<1>7. plan' \in [Command -> Plans]
  BY <1>6, PlansFit DEF StartRollback, TargetTyped
<1> QED BY <1>3, <1>5, <1>7

\* So does a turn of the service (queue-service.ts).
LEMMA TurnTyped ==
  ASSUME Typed, WorkSound, Turn
  PROVE  Typed'
<1> USE DEF Typed, QueueTyped, TargetTyped
<1>1. CASE Snapshot
  BY <1>1, RowsFit, OpenFits DEF Snapshot, targetVars, EpochsBounded
<1>2. ASSUME HasLock PROVE /\ First \in Ticket /\ snap[First] \in Tickets /\ snap' \in RowSets
                           /\ snap[First].epoch \in Nat
  BY <1>2, SnapFacts, NoRowsFit DEF HasLock, Tickets
<1>3. CASE TurnReconciles
  <2>1. work' \in WorkKinds
    BY <1>2, <1>3, WorkFits DEF TurnReconciles, ReconcileAt
  <2> QED BY <1>2, <1>3, <2>1 DEF TurnReconciles, TurnUnchanged, EpochsBounded
<1>4. CASE TurnDrives
  <2>1. work' \in WorkKinds
    BY <1>2, <1>4, WorkFits DEF TurnDrives, DriveAt
  <2> QED BY <1>2, <1>4, <2>1 DEF TurnDrives, TurnUnchanged, EpochsBounded
<1>5. CASE TurnExpires
  <2>1. ticket' \in [Ticket -> Tickets] /\ EpochsBounded'
    BY <1>2, <1>5, TicketsFit DEF TurnExpires, TicketStates, Closed
  <2> QED BY <1>2, <1>5, <2>1 DEF TurnExpires, TurnUnchanged
<1>6. CASE TurnReserves
  <2>1. PICK S \in SUBSET Open :
          /\ ticket' = Reserved(S)
          /\ work' = Doing("drive", "turn", [u \in S |-> ticket'[u]], First, MaxEpoch + 1)
    BY <1>6 DEF TurnReserves
  <2>2. S \in SUBSET Ticket
    BY OpenFits
  <2>3. ticket' \in [Ticket -> Tickets] /\ EpochsBounded'
    BY <2>1, <2>2, TicketsFit
  <2>4. [u \in S |-> ticket'[u]] \in RowSets /\ MaxEpoch + 1 \in Nat
    BY <2>2, <2>3, HighestEpoch DEF RowSets
  <2>5. work' \in WorkKinds
    BY <1>2, <1>6, <2>1, <2>4, WorkFits DEF TurnReserves, DriveAt
  <2> QED BY <1>2, <1>6, <2>3, <2>5 DEF TurnReserves, TurnUnchanged
<1>7. CASE TurnStartsRollback
  <2>1. First \in Ticket /\ snap' \in RowSets
    BY <1>2, <1>7 DEF TurnStartsRollback
  <2>2. StartRollback(First) /\ IsRollback(First)
    BY <1>7 DEF TurnStartsRollback
  <2>3. ticket' \in [Ticket -> Tickets] /\ EpochsBounded' /\ plan' \in [Command -> Plans]
    BY <2>1, <2>2, StartRollbackTyped
  <2> QED BY <1>7, <2>1, <2>3 DEF TurnStartsRollback, TurnUnchanged
<1>8. CASE TurnIdles
  BY <1>8, NoRowsFit DEF TurnIdles, TurnUnchanged, EpochsBounded
<1> QED BY <1>1, <1>3, <1>4, <1>5, <1>6, <1>7, <1>8 DEF Turn

\* The suffix that parkSuffix() parks consists of tickets.
LEMMA SuffixFits == ASSUME QueueTyped, WorkSound, NEW t
                    PROVE  Suffix(work.rows, t) \in SUBSET Ticket
  BY WorkFacts DEF Suffix

\* The row of a driver gives way, and what follows it is parked.
LEMMA GivesTyped ==
  ASSUME Typed, WorkSound, work.t \in Ticket, NEW s \in TicketStates, Gives(s)
  PROVE  ticket' \in [Ticket -> Tickets] /\ EpochsBounded' /\ work' \in WorkKinds
<1> DEFINE parked == Parked(Suffix(work.rows, work.t + 1))
<1>1. parked \in [Ticket -> Tickets] /\ \A u \in Ticket : parked[u].epoch = ticket[u].epoch
  <2>1. QueueTyped /\ Suffix(work.rows, work.t + 1) \in SUBSET Ticket
    BY SuffixFits DEF Typed
  <2>2. parked \in [Ticket -> Tickets]
    BY <2>1, TicketsFit
  <2> QED BY <2>1, <2>2 DEF Parked, QueueTyped, Tickets
<1>2. ticket' = [parked EXCEPT ![work.t].state = s]
  BY DEF Gives
<1> HIDE DEF parked
<1>3. ticket' \in [Ticket -> Tickets] /\ \A u \in Ticket : ticket'[u].epoch = ticket[u].epoch
  BY <1>1, <1>2 DEF Tickets
<1>4. EpochsBounded'
  BY <1>3, EpochsStayBounded, {} \in SUBSET Ticket DEF Typed
<1> QED BY <1>3, <1>4, WorkFits DEF Gives, Leaves, Typed

\* The driver keeps the types.
LEMMA DriveTyped ==
  ASSUME Typed, WorkSound, Drive
  PROVE  Typed'
<1> USE DEF Typed, QueueTyped, TargetTyped, DriveUnchanged
<1>1. work.t \in Ticket /\ work.at \in DriveAt
  BY WorkFacts DEF Drive, DriveStops, DriveLate, Driven, DriveOn, Prepare, AdmitVerification, Evidence, Is, DriveAt
<1>2. Free \in WorkKinds /\ Onward \in WorkKinds
  BY <1>1, WorkFits, NextRowFits DEF Onward, DriveAt
<1>3. \A at \in DriveAt : Works(at) => work' \in WorkKinds
  BY WorkFits
<1>4. \A s \in TicketStates : Gives(s) => ticket' \in [Ticket -> Tickets] /\ EpochsBounded' /\ work' \in WorkKinds
  BY <1>1, GivesTyped
<1>5. ticket' = Parked(Suffix(work.rows, work.t)) => ticket' \in [Ticket -> Tickets] /\ EpochsBounded'
  BY SuffixFits, TicketsFit
<1>6. \A s \in TicketStates : Advances(s) => ticket' \in [Ticket -> Tickets] /\ EpochsBounded'
  BY <1>1, TicketsFit DEF Advances
<1>7. {"verifying", "awaiting", "refused", "parked"} \subseteq TicketStates
  BY DEF TicketStates, Waiting, Closed
<1>8. CASE DriveStops
  BY <1>2, <1>8 DEF DriveStops, Leaves, EpochsBounded
<1>9. CASE DriveLate
  BY <1>2, <1>5, <1>9 DEF DriveLate, Leaves
<1>10. CASE DriveOn
  BY <1>2, <1>3, <1>10 DEF DriveOn, DriveAt, EpochsBounded
<1>11. CASE Prepare
  <2>1. CASE Gives("refused") /\ UNCHANGED plan
    BY <1>4, <1>7, <1>11, <2>1 DEF Prepare
  <2>2. CASE /\ Advances("verifying") /\ plan' = [plan EXCEPT ![work.t] = Candidate]
             /\ work' = [work EXCEPT !.at = "admit", !.rows[work.t].state = "verifying"]
    <3>1. Base \in Commit /\ work.t \in Command
      BY <1>1, PlansFit DEF Base, Command, WorkKinds
    <3>2. Candidate \in Plans
      BY <1>1, <3>1, PlansFit, CommitsAppend DEF Candidate, Plans, Maybe
    <3>3. work' \in WorkKinds
      <4>1. PICK S \in SUBSET Ticket : work.rows \in [S -> Tickets]
        BY DEF WorkKinds, RowSets
      <4>2. [work.rows EXCEPT ![work.t].state = "verifying"] \in [S -> Tickets]
        BY <4>1, <1>7, WorkFacts, <1>1 DEF Tickets
      <4>3. [work.rows EXCEPT ![work.t].state = "verifying"] \in RowSets
        BY <4>2 DEF RowSets
      <4> QED BY <2>2, <4>3 DEF WorkKinds, DriveAt
    <3> QED BY <1>6, <1>7, <1>11, <2>2, <3>2, <3>3 DEF Prepare
  <2> QED BY <1>11, <2>1, <2>2 DEF Prepare
<1>12. CASE AdmitVerification
  BY <1>3, <1>4, <1>7, <1>12 DEF AdmitVerification, DriveAt, EpochsBounded
<1>13. CASE Evidence
  BY <1>2, <1>4, <1>5, <1>6, <1>7, <1>13 DEF Evidence, Leaves, EpochsBounded
<1> QED BY <1>8, <1>9, <1>10, <1>11, <1>12, <1>13 DEF Drive

\* The executor keeps the types.
LEMMA ExecutionTyped ==
  ASSUME Typed, WorkSound, Execution
  PROVE  Typed'
<1> USE DEF Typed, QueueTyped, TargetTyped, ExecuteUnchanged, Quietly, TargetStays
<1>1. work.t \in Ticket /\ work.at \in ExecuteAt /\ work.t \in Command
  <2>1. work.at \in ExecuteAt
    BY DEF Execution, Validate, FenceTarget, Enter, Publish, Revalidate, Adopt, Adopted, NotAdopted, Stop, Is,
           ExecuteAt, EffectAt
  <2> QED BY <2>1, WorkFacts DEF Command
<1>2. Free \in WorkKinds /\ work.epoch \in Nat
  BY WorkFits, WorkFacts
<1>3. \A at \in ExecuteAt \cup ReconcileAt : Works(at) => work' \in WorkKinds
  BY WorkFits
<1>4. \A s \in TicketStates : Enters(work.t, s) => ticket' \in [Ticket -> Tickets] /\ EpochsBounded'
  BY <1>1, TicketsFit
<1>5. {"publishing", "adopting", "adopted", "reconciling"} \subseteq TicketStates
  BY DEF TicketStates, InEffect, Closed
<1>6. Forgets => call' \in [Command -> Calls]
  BY <1>1, CallsFit DEF Forgets
<1>7. CASE Validate
  BY <1>2, <1>3, <1>7 DEF Validate, Leaves, ExecuteAt, EpochsBounded
<1>8. CASE FenceTarget
  BY <1>2, <1>3, <1>8 DEF FenceTarget, Leaves, ExecuteAt, EpochsBounded, Fences
<1>9. CASE Enter
  <2>1. CASE Leaves /\ UNCHANGED ticket
    BY <1>2, <1>9, <2>1 DEF Enter, Leaves, EpochsBounded
  <2>2. CASE /\ ticket' = [ticket EXCEPT ![work.t].batch = TRUE,
                        ![work.t].state = IF IsRollback(work.t) THEN "adopting" ELSE "publishing"]
             /\ Works(IF IsRollback(work.t) THEN "adopt" ELSE "publish")
    <3> DEFINE s == IF IsRollback(work.t) THEN "adopting" ELSE "publishing"
    <3>0. s \in TicketStates /\ ticket' = [ticket EXCEPT ![work.t].batch = TRUE, ![work.t].state = s]
      BY <1>5, <2>2
    <3> HIDE DEF s
    <3>3. ticket \in [Ticket -> Tickets] /\ work.t \in Ticket
      BY <1>1
    <3>1. ticket' \in [Ticket -> Tickets] /\ \A u \in Ticket : ticket'[u].epoch = ticket[u].epoch
      BY <3>0, <3>3, EnteredFits
    <3>2. EpochsBounded'
      BY <3>1, EpochsStayBounded, {} \in SUBSET Ticket
    <3> QED BY <1>3, <1>9, <2>2, <3>1, <3>2 DEF Enter, ExecuteAt, EffectAt
  <2> QED BY <1>9, <2>1, <2>2 DEF Enter
<1>10. CASE Publish
  BY <1>3, <1>4, <1>5, <1>10 DEF Publish, ExecuteAt, EffectAt, EpochsBounded
<1>11. CASE Revalidate
  BY <1>3, <1>11 DEF Revalidate, ExecuteAt, EffectAt, EpochsBounded
<1>12. CASE Adopt
  <2>1. TargetTyped'
    BY <1>1, <1>12, CallStepTyped DEF Adopt
  <2> QED BY <1>12, <2>1 DEF Adopt, queueVars, EpochsBounded
<1>13. CASE Adopted
  <2>1. work' \in WorkKinds
    BY <1>1, <1>13, NextRowFits DEF Adopted, ExecuteAt
  <2> QED BY <1>4, <1>5, <1>6, <1>13, <2>1 DEF Adopted
<1>14. CASE NotAdopted
  BY <1>3, <1>6, <1>14 DEF NotAdopted, ExecuteAt, EffectAt, EpochsBounded
<1>15. CASE Stop
  BY <1>2, <1>3, <1>4, <1>5, <1>15 DEF Stop, Leaves, ReconcileAt, EpochsBounded
<1> QED BY <1>7, <1>8, <1>9, <1>10, <1>11, <1>12, <1>13, <1>14, <1>15 DEF Execution

\* Reconciliation keeps the types.
LEMMA ReconcileTyped ==
  ASSUME Typed, WorkSound, Reconcile
  PROVE  Typed'
<1> USE DEF Typed, QueueTyped, TargetTyped, ExecuteUnchanged, Quietly, TargetStays
<1>1. work.t \in Ticket /\ work.t \in Command
  <2>1. work.at \in ReconcileAt
    BY DEF Reconcile, Refence, Lookup, Release, Conclude, Close, ReconcileFails, Is, ReconcileAt
  <2> QED BY <2>1, WorkFacts DEF Command
<1>2. Free \in WorkKinds /\ work.epoch \in Nat
  BY WorkFits, WorkFacts
<1>3. \A at \in ReconcileAt : Works(at) => work' \in WorkKinds
  BY WorkFits
<1>4. \A how \in {"applied", "released"} : Settle(work.t, how) => journal' \in [Command -> Records]
  BY <1>1, JournalFits
<1>5. CASE Refence
  BY <1>2, <1>3, <1>5 DEF Refence, Leaves, ReconcileAt, EpochsBounded, Fences
<1>6. CASE Lookup
  BY <1>2, <1>3, <1>6 DEF Lookup, Leaves, ReconcileAt, EpochsBounded
<1>7. CASE Release
  BY <1>2, <1>3, <1>4, <1>7 DEF Release, Leaves, ReconcileAt, EpochsBounded
<1>8. CASE Conclude
  BY <1>3, <1>4, <1>8 DEF Conclude, ReconcileAt, EpochsBounded
<1>9. CASE Close
  <2>1. \A s \in {"parked", "adopted"} : Enters(work.t, s) => ticket' \in [Ticket -> Tickets] /\ EpochsBounded'
    BY <1>1, TicketsFit DEF TicketStates, Closed
  <2> QED BY <1>2, <1>9, <2>1 DEF Close, Leaves, EpochsBounded
<1>10. CASE ReconcileFails
  BY <1>2, <1>10 DEF ReconcileFails, Leaves, EpochsBounded
<1> QED BY <1>5, <1>6, <1>7, <1>8, <1>9, <1>10 DEF Reconcile

\* The death and the start of a service keep the types.
LEMMA ServiceTyped ==
  ASSUME Typed, WorkSound, \/ Crash \/ Start \/ Recover \/ Serve \/ \E t \in Ticket : Lateness(t)
  PROVE  Typed'
<1> USE DEF Typed, QueueTyped, TargetTyped
<1>1. CASE Crash
  <2>1. call' \in [Command -> Calls]
    BY <1>1, CallsFit DEF Crash
  <2>2. orphans' \subseteq Orphans
    <3>1. CASE Is("adopt")
      <4>1. work.t \in Command /\ work.epoch \in Nat
        BY <3>1, WorkFacts DEF Is, ExecuteAt, EffectAt, Command
      <4> QED BY <1>1, <3>1, <4>1, AbandonedFits DEF Crash
    <3> QED BY <1>1, <3>1 DEF Crash
  <2>3. work' \in WorkKinds /\ snap' \in RowSets /\ card' \in [items : SUBSET Ticket, epoch : Nat]
    BY <1>1, WorkFits, NoRowsFit DEF Crash, Leaves, NoCard
  <2> QED BY <1>1, <2>1, <2>2, <2>3 DEF Crash, EpochsBounded
<1>2. CASE Start
  <2>1. snap' \in RowSets
    BY <1>2, RowsFit, OpenFits DEF Start
  <2> QED BY <1>2, <2>1, HighestEpoch DEF Start, targetVars, EpochsBounded
<1>3. CASE Recover
  <2>1. First \in DOMAIN snap /\ First \in Ticket
    BY <1>3, SnapFacts DEF Recover
  <2>2. snap' \in RowSets
    <3>1. /\ snap' = [t \in DOMAIN snap \ {First} |-> snap[t]] /\ DOMAIN snap \ {First} \in SUBSET Ticket
          /\ \A t \in DOMAIN snap : snap[t] \in Tickets
      BY <1>3, RowsAre DEF Recover
    <3>2. snap' \in [DOMAIN snap \ {First} -> Tickets]
      BY <3>1
    <3> QED BY <3>1, <3>2 DEF RowSets
  <2>3. Recovered(First) \in Tickets /\ Recovered(First).epoch = MaxEpoch + 1 /\ MaxEpoch + 1 \in Nat
    <3>1. ticket[First] \in Tickets /\ MaxEpoch + 1 \in Nat
      BY <2>1, HighestEpoch
    <3> QED BY <3>1 DEF Recovered, Tickets, TicketStates, InEffect, Closed
  <2>4. ASSUME ticket' = [ticket EXCEPT ![First] = Recovered(First)]
        PROVE  ticket' \in [Ticket -> Tickets] /\ EpochsBounded' /\ ticket'[First].epoch \in Nat
    <3>1. /\ ticket' \in [Ticket -> Tickets] /\ ticket'[First].epoch = MaxEpoch + 1
          /\ \A t \in Ticket \ {First} : ticket'[t].epoch = ticket[t].epoch
      BY <2>1, <2>3, <2>4
    <3>2. EpochsBounded'
      BY <2>1, <3>1, EpochsStayBounded, {First} \in SUBSET Ticket
    <3> QED BY <2>3, <3>1, <3>2
  <2>5. CASE /\ ticket' = [ticket EXCEPT ![First] = Recovered(First)]
             /\ work' = IF ticket[First].batch
                        THEN Doing("refence", "start", NoRows, First, ticket'[First].epoch) ELSE Free
    <3>1. work' \in WorkKinds
      BY <2>1, <2>4, <2>5, WorkFits, NoRowsFit DEF ReconcileAt
    <3> QED BY <1>3, <2>2, <2>4, <2>5, <3>1 DEF Recover, TargetStays
  <2>6. CASE UNCHANGED <<ticket, work>>
    BY <1>3, <2>2, <2>6 DEF Recover, TargetStays, EpochsBounded
  <2> QED BY <1>3, <2>5, <2>6 DEF Recover
<1>4. CASE Serve
  BY <1>4 DEF Serve, targetVars, EpochsBounded
<1>5. ASSUME NEW t \in Ticket, Lateness(t) PROVE Typed'
  BY <1>5 DEF Lateness, targetVars, EpochsBounded
<1> QED BY <1>1, <1>2, <1>3, <1>4, <1>5

\* Every step keeps the types, once the lock's holder and the service know what they must.
LEMMA TypedStep == Typed /\ WorkSound /\ ServiceSound /\ [Next]_vars => Typed'
<1> SUFFICES ASSUME Typed, WorkSound, ServiceSound, [Next]_vars PROVE Typed'
  OBVIOUS
<1>1. CASE Beside /\ UNCHANGED queueVars
  BY <1>1, BesideTyped DEF Typed, QueueTyped, queueVars, EpochsBounded
<1>2. CASE UNCHANGED vars
  BY <1>2 DEF Typed, QueueTyped, TargetTyped, vars, targetVars, queueVars, EpochsBounded
<1> QED BY <1>1, <1>2, AskTyped, TurnTyped, DriveTyped, ExecutionTyped, ReconcileTyped, ServiceTyped DEF Next

\* The first state has them.
LEMMA TypedInit == Init => Typed
<1> SUFFICES ASSUME Init PROVE Typed
  OBVIOUS
<1>1. TargetTyped
  <2>1. NoPlan \in Plans /\ Idle \in Calls /\ [state |-> "none", seq |-> 0] \in Records
    BY NoCommit DEF NoPlan, Plans, Maybe, Idle, Calls, Records
  <2> QED BY <2>1, NoCommit DEF Init, TargetInit, TargetTyped
<1>2. ticket \in [Ticket -> Tickets] /\ \A t \in Ticket : ticket[t].epoch = 0
  BY DEF Init, Tickets, TicketStates
<1>3. EpochsBounded
  BY <1>2 DEF EpochsBounded
<1>4. work \in WorkKinds
  BY NoRowsFit DEF Init, WorkKinds, Free, Doing
<1> QED BY <1>1, <1>2, <1>3, <1>4, NoRowsFit DEF Init, Typed, QueueTyped, NoCard

----------------------------------------------------------------------------
(* The journal and the fence                                               *)

\* What the moves so far say of the journal.
LEMMA MovesSay ==
  ASSUME TargetTyped, JournalMatchesFence
  PROVE  /\ SequenceOf(Fence) = Len(moves)
         /\ \A c \in Movers : /\ c \in Command /\ journal[c].state \in {"claimed", "applied"}
                              /\ journal[c].seq \in 1..Len(moves) /\ moves[journal[c].seq] = c
                              /\ journal[c].state = "claimed" => c = Fence
         /\ \A seen \in Known : /\ SequenceOf(seen) \in 0..Len(moves)
                                /\ SequenceOf(seen) = Len(moves) => seen = Fence
<1>1. moves \in Seq(Command) /\ Len(moves) \in Nat /\ DOMAIN moves = 1..Len(moves)
  BY FenceFits DEF TargetTyped
<1>2. ASSUME NEW c \in Movers
      PROVE  /\ c \in Command /\ journal[c].state \in {"claimed", "applied"}
             /\ journal[c].seq \in 1..Len(moves) /\ moves[journal[c].seq] = c
             /\ journal[c].state = "claimed" => c = Fence
  <2>1. PICK i \in DOMAIN moves : moves[i] = c
    BY DEF Movers
  <2>2. /\ journal[c].seq = i
        /\ journal[c].state = "applied" \/ (i = Len(moves) /\ journal[c].state = "claimed")
    BY <2>1 DEF JournalMatchesFence
  <2>3. i \in 1..Len(moves) /\ c \in Command /\ moves # <<>>
    BY <1>1, <2>1
  <2> QED BY <2>1, <2>2, <2>3 DEF Fence
<1>3. Nobody \notin Command
  BY CommandsAreDistinct
<1>4. SequenceOf(Fence) = Len(moves)
  <2>1. CASE moves = <<>>
    BY <2>1 DEF Fence, SequenceOf
  <2>2. CASE moves # <<>>
    <3>1. Len(moves) \in DOMAIN moves /\ Fence = moves[Len(moves)] /\ Fence \in Command
      BY <1>1, <2>2 DEF Fence
    <3> QED BY <1>3, <3>1 DEF SequenceOf, JournalMatchesFence
  <2> QED BY <2>1, <2>2
<1>5. ASSUME NEW seen \in Known
      PROVE  /\ SequenceOf(seen) \in 0..Len(moves)
             /\ SequenceOf(seen) = Len(moves) => seen = Fence
  <2>1. CASE seen = Nobody
    <3>1. SequenceOf(seen) = 0
      BY <2>1 DEF SequenceOf
    <3>2. Len(moves) = 0 => moves = <<>>
      BY <1>1
    <3> QED BY <1>1, <2>1, <3>1, <3>2 DEF Fence
  <2>2. CASE seen \in Movers
    <3>1. seen # Nobody /\ SequenceOf(seen) = journal[seen].seq
      BY <1>2, <1>3, <2>2 DEF SequenceOf
    <3>2. journal[seen].seq = Len(moves) => seen = Fence
      BY <1>1, <1>2, <2>2 DEF Fence
    <3> QED BY <1>1, <1>2, <2>2, <3>1, <3>2
  <2> QED BY <2>1, <2>2 DEF Known
<1> QED BY <1>2, <1>4, <1>5

\* A claimed command whose sequence is the next one may move: it did not before,
\* and every move before it is settled.
LEMMA NextMover ==
  ASSUME TargetTyped, JournalMatchesFence, NEW c \in Command,
         Succeeds(c, Fence), journal[c].state \in {"claimed", "applied"}
  PROVE  /\ c \notin Movers /\ journal[c].state = "claimed"
         /\ \A d \in Movers : journal[d].state = "applied"
         /\ journal[c].seq = Len(moves) + 1
<1>1. journal[c].seq = Len(moves) + 1 /\ Len(moves) \in Nat
  BY MovesSay, FenceFits DEF Succeeds
<1>2. c \notin Movers
  BY <1>1, MovesSay
<1>3. journal[c].state = "claimed"
  BY <1>2 DEF JournalMatchesFence
<1>4. \A d \in Movers : journal[d].state = "applied"
  BY <1>2, <1>3, MovesSay DEF JournalMatchesFence
<1> QED BY <1>1, <1>2, <1>3, <1>4

\* The Git transaction of a claimed command keeps journal and fence in agreement.
LEMMA MoveSound ==
  ASSUME TargetTyped, JournalMatchesFence, NEW c \in Command,
         Succeeds(c, Fence), journal[c].state \in {"claimed", "applied"},
         MoveBranch(c), UNCHANGED journal
  PROVE  /\ JournalMatchesFence' /\ Movers' = Movers \cup {c} /\ Fence' = c
<1>1. /\ c \notin Movers /\ journal[c].state = "claimed"
      /\ \A d \in Movers : journal[d].state = "applied"
      /\ journal[c].seq = Len(moves) + 1
  BY NextMover
<1>2. moves \in Seq(Command) /\ Len(moves) \in Nat /\ DOMAIN moves = 1..Len(moves)
  BY FenceFits DEF TargetTyped
<1>3. moves' = Append(moves, c)
  BY DEF MoveBranch
<1>4. /\ Len(moves') = Len(moves) + 1 /\ DOMAIN moves' = 1..(Len(moves) + 1)
      /\ moves'[Len(moves) + 1] = c /\ \A i \in 1..Len(moves) : moves'[i] = moves[i]
  BY <1>2, <1>3
<1>5. Movers' = Movers \cup {c}
  BY <1>2, <1>4 DEF Movers
<1>6. Fence' = c
  BY <1>2, <1>3, <1>4 DEF Fence
<1>7. ASSUME NEW i \in DOMAIN moves'
      PROVE  /\ journal'[moves'[i]].seq = i
             /\ \/ journal'[moves'[i]].state = "applied"
                \/ (i = Len(moves') /\ journal'[moves'[i]].state = "claimed")
  <2>1. CASE i = Len(moves) + 1
    BY <1>1, <1>4, <2>1
  <2>2. CASE i \in 1..Len(moves)
    <3>1. moves'[i] = moves[i] /\ moves[i] \in Movers /\ journal[moves[i]].seq = i
      BY <1>2, <1>4, <2>2 DEF Movers, JournalMatchesFence
    <3> QED BY <1>1, <3>1
  <2> QED BY <1>2, <1>4, <2>1, <2>2
<1>8. \A d \in Command : journal'[d].state = "applied" => d \in Movers'
  BY <1>5 DEF JournalMatchesFence
<1>9. \A d, e \in Command : journal'[d].state = "claimed" /\ journal'[e].state = "claimed" => d = e
  BY DEF JournalMatchesFence
<1>10. JournalMatchesFence'
  BY <1>7, <1>8, <1>9 DEF JournalMatchesFence
<1> QED BY <1>5, <1>6, <1>10

\* A settlement agrees with what the branch did.
LEMMA SettleSound ==
  ASSUME TargetTyped, JournalMatchesFence, NEW c \in Command, UNCHANGED moves,
         \/ Settle(c, "applied") /\ c \in Movers
         \/ Settle(c, "released") /\ c \notin Movers
  PROVE  JournalMatchesFence' /\ \A d \in Command : journal'[d].seq = journal[d].seq
<1>1. journal \in [Command -> Records] /\ Movers' = Movers
  BY DEF TargetTyped, Movers
<1>2. /\ \A d \in Command \ {c} : journal'[d] = journal[d]
      /\ \A d \in Command : journal'[d].seq = journal[d].seq
      /\ \/ journal'[c].state = "applied" /\ c \in Movers
         \/ journal'[c].state = "released" /\ c \notin Movers
  BY <1>1 DEF Settle, Records
<1>3. ASSUME NEW i \in DOMAIN moves
      PROVE  /\ journal'[moves[i]].seq = i
             /\ journal'[moves[i]].state = "applied" \/ (i = Len(moves) /\ journal'[moves[i]].state = "claimed")
  <2>1. moves[i] \in Movers /\ moves[i] \in Command
    BY MovesSay DEF Movers
  <2> QED BY <1>2, <2>1 DEF JournalMatchesFence
<1>4. \A d \in Command : journal'[d].state = "applied" => d \in Movers'
  BY <1>1, <1>2 DEF JournalMatchesFence
<1>5. \A d, e \in Command : journal'[d].state = "claimed" /\ journal'[e].state = "claimed" => d = e
  BY <1>2 DEF JournalMatchesFence
<1>6. JournalMatchesFence'
  BY <1>3, <1>4, <1>5 DEF JournalMatchesFence
<1> QED BY <1>2, <1>6

\* A claim is made by a new command while none is open.
LEMMA ClaimSound ==
  ASSUME TargetTyped, JournalMatchesFence, NEW c \in Command, NEW n \in Nat, UNCHANGED moves,
         Never(c), \A d \in Command : journal[d].state # "claimed",
         journal' = [journal EXCEPT ![c] = [state |-> "claimed", seq |-> n]]
  PROVE  JournalMatchesFence'
<1>1. journal \in [Command -> Records] /\ Movers' = Movers
  BY DEF TargetTyped, Movers
<1>2. c \notin Movers
  BY MovesSay DEF Never
<1>3. \A d \in Command \ {c} : journal'[d] = journal[d]
  BY <1>1
<1>4. journal'[c].state = "claimed"
  BY <1>1
<1>5. \A i \in DOMAIN moves : moves[i] \in Command \ {c}
  BY <1>2, MovesSay DEF Movers
<1> QED BY <1>1, <1>3, <1>4, <1>5 DEF JournalMatchesFence

----------------------------------------------------------------------------
(* The steps of a call                                                     *)

\* What a step of the target keeps of the commands: who moved the branch, a record
\* once it is there, its sequence, and its settlement.
Keeps == /\ JournalMatchesFence' /\ Movers \subseteq Movers'
         /\ \A d \in Command : /\ ~Never(d) => ~Never(d)' /\ journal'[d].seq = journal[d].seq
                               /\ journal[d].state = "applied" => journal'[d].state = "applied"

\* One step of a call takes nothing away and writes no record but its own.
LEMMA CallStepKeeps ==
  ASSUME TargetTyped, Story, NEW c \in Command, NEW epoch, CallStep(c, epoch)
  PROVE  /\ Keeps
         /\ \A d \in Command \ {c} : journal'[d] = journal[d] /\ call'[d] = call[d]
         /\ \A d \in Command : journal'[d].state = "released" <=> journal[d].state = "released"
         /\ UNCHANGED <<plan, generation, orphans, meddled>>
<1> USE DEF Never
<1>1. journal \in [Command -> Records] /\ call \in [Command -> Calls] /\ JournalMatchesFence
      /\ CallSound(c) /\ call[c].seen \in Maybe
  BY CallsFit DEF TargetTyped, Story
<1>2. UNCHANGED <<plan, generation, orphans, meddled>> /\ \A d \in Command \ {c} : call'[d] = call[d]
  BY <1>1 DEF CallStep, Begin, Check, Claim, Apply, Move, Finish, CallFails, Goes, Ends
<1>3. CASE UNCHANGED <<moves, journal>>
  BY <1>1, <1>2, <1>3 DEF Keeps, Movers, JournalMatchesFence
<1>4. CASE MoveBranch(c) /\ UNCHANGED journal /\ At(c, "moving") /\ Movable(c, call[c].seen, epoch)
  <2>1. Succeeds(c, Fence) /\ journal[c].state = "claimed"
    BY <1>1, <1>4 DEF CallSound, At, Movable
  <2>2. JournalMatchesFence' /\ Movers' = Movers \cup {c}
    BY <1>1, <1>4, <2>1, MoveSound
  <2> QED BY <1>2, <1>4, <2>2 DEF Keeps
<1>5. CASE /\ UNCHANGED moves /\ At(c, "claiming") /\ ~Busy(c)
           /\ journal' = [journal EXCEPT ![c] = [state |-> "claimed", seq |-> SequenceOf(call[c].seen) + 1]]
  <2>1. SequenceOf(call[c].seen) + 1 \in Nat
    BY <1>1, FenceFits
  <2>2. Never(c) /\ \A d \in Command : journal[d].state # "claimed"
    BY <1>1, <1>5 DEF CallSound, At, Busy
  <2>3. JournalMatchesFence' /\ Movers' = Movers
    BY <1>1, <1>5, <2>1, <2>2, ClaimSound DEF Movers
  <2>4. journal'[c].state = "claimed" /\ \A d \in Command \ {c} : journal'[d] = journal[d]
    BY <1>1, <1>5
  <2> QED BY <1>2, <2>2, <2>3, <2>4 DEF Keeps
<1>6. CASE UNCHANGED moves /\ At(c, "finishing") /\ journal[c].state = "claimed" /\ Settle(c, "applied")
  <2>1. c \in Movers
    BY <1>1, <1>6 DEF CallSound, At
  <2>2. JournalMatchesFence' /\ Movers' = Movers /\ \A d \in Command : journal'[d].seq = journal[d].seq
    BY <1>1, <1>6, <2>1, SettleSound DEF Movers
  <2>3. journal'[c].state = "applied" /\ \A d \in Command \ {c} : journal'[d] = journal[d]
    BY <1>1, <1>6 DEF Settle, Records
  <2> QED BY <1>2, <1>6, <2>2, <2>3 DEF Keeps
<1>7. \/ UNCHANGED <<moves, journal>>
      \/ MoveBranch(c) /\ UNCHANGED journal /\ At(c, "moving") /\ Movable(c, call[c].seen, epoch)
      \/ /\ UNCHANGED moves /\ At(c, "claiming") /\ ~Busy(c)
         /\ journal' = [journal EXCEPT ![c] = [state |-> "claimed", seq |-> SequenceOf(call[c].seen) + 1]]
      \/ UNCHANGED moves /\ At(c, "finishing") /\ journal[c].state = "claimed" /\ Settle(c, "applied")
  BY DEF CallStep, Begin, Check, Claim, Apply, Move, Finish, CallFails
<1> QED BY <1>3, <1>4, <1>5, <1>6, <1>7

\* What was known of the fence is still known, and has its sequence.
LEMMA KnownStays ==
  ASSUME TargetTyped, JournalMatchesFence, Keeps
  PROVE  /\ Known \subseteq Known'
         /\ \A seen \in Known : SequenceOf(seen)' = SequenceOf(seen)
         /\ \A d \in Command, seen \in Known : ~Never(d) /\ Succeeds(d, seen) => Succeeds(d, seen)'
<1>1. Known \subseteq Known'
  BY DEF Keeps, Known
<1>2. ASSUME NEW seen \in Known PROVE SequenceOf(seen)' = SequenceOf(seen)
  <2>1. CASE seen = Nobody
    BY <2>1 DEF SequenceOf
  <2>2. CASE seen \in Movers
    <3>1. seen \in Command /\ ~Never(seen)
      BY <2>2, MovesSay DEF Never
    <3> QED BY <3>1 DEF SequenceOf, Keeps
  <2> QED BY <2>1, <2>2 DEF Known
<1> QED BY <1>1, <1>2 DEF Keeps, Succeeds

\* The caller of an unfinished command: the executor, or the process of a direct one.
Caller(c, epoch) == (c \in Direct /\ epoch = 0) \/ (work.at = "adopt" /\ work.t = c /\ epoch = work.epoch)

\* A call of which the target's step takes nothing away.
LEMMA CallStays ==
  ASSUME TargetTyped, JournalMatchesFence, Keeps, NEW d \in Command, CallSound(d),
         call'[d] = call[d], journal'[d] = journal[d],
         d \in Ticket /\ call[d].at # "idle" => work'.at = "adopt" /\ work'.t = d
  PROVE  CallSound(d)'
<1>1. call[d].seen \in Known /\ Movers \subseteq Movers'
  BY DEF CallSound, Keeps
<1>2. call[d].at = "moving" => Succeeds(d, call[d].seen)'
  <2>1. call[d].at = "moving" => ~Never(d) /\ Succeeds(d, call[d].seen)
    BY DEF CallSound, Never
  <2> QED BY <1>1, <2>1, KnownStays
<1>3. call'[d].at = "moving" => Succeeds(d, call[d].seen)' /\ call'[d].seen = call[d].seen
  BY <1>2
<1>4. (call[d].at = "moving" => Succeeds(d, call[d].seen))' 
  BY <1>3 DEF Succeeds
<1> QED BY <1>1, <1>4, KnownStays DEF CallSound, Never

\* A call goes on with what it must know: its claim, and the fence it observed.
LEMMA CallStepSound ==
  ASSUME TargetTyped, Story, NEW c \in Command, NEW epoch, CallStep(c, epoch), UNCHANGED work,
         Caller(c, epoch)
  PROVE  CallSound(c)'
<1> USE DEF Never
<1>1. /\ call \in [Command -> Calls] /\ journal \in [Command -> Records] /\ JournalMatchesFence
      /\ CallSound(c) /\ call[c].seen \in Known /\ Keeps
  BY CallStepKeeps DEF TargetTyped, Story, CallSound
<1>2. Known \subseteq Known' /\ Nobody \in Known' /\ Fence \in Known /\ Movers \subseteq Movers'
  BY <1>1, KnownStays, FenceFits DEF Known, Keeps
<1>3. c \in Ticket => work'.at = "adopt" /\ work'.t = c
  BY CommandsAreDistinct DEF Caller
<1>4. ASSUME NEW how \in {"done", "failed"}, Ends(c, how), how = "done" => journal'[c].state = "applied"
      PROVE  CallSound(c)'
  <2>1. call'[c] = IF c \in Direct THEN Idle ELSE [Idle EXCEPT !.at = how]
    BY <1>1, <1>4 DEF Ends
  <2> QED BY <1>2, <1>3, <1>4, <2>1 DEF CallSound, Idle
<1>5. ASSUME NEW at \in {"checking", "claiming", "applying", "finishing"}, Goes(c, at),
             at \in {"checking", "claiming"} => Never(c)', at = "applying" => journal'[c].state = "claimed",
             at = "finishing" => c \in Movers'
      PROVE  CallSound(c)'
  <2>1. call'[c].at = at /\ call'[c].seen = call[c].seen
    BY <1>1, <1>5 DEF Goes, Calls
  <2> QED BY <1>1, <1>2, <1>3, <1>5, <2>1 DEF CallSound
<1>6. CASE Begin(c)
  BY <1>5, <1>6 DEF Begin
<1>7. CASE Check(c)
  <2>1. CASE Ends(c, "failed")
    BY <1>4, <2>1
  <2>2. CASE call' = [call EXCEPT ![c] = [at |-> "claiming", seen |-> Fence]]
    <3>1. call'[c] = [at |-> "claiming", seen |-> Fence] /\ Never(c)'
      BY <1>1, <1>7, <2>2 DEF Check, CallSound, At
    <3> QED BY <1>2, <1>3, <3>1 DEF CallSound
  <2> QED BY <1>7, <2>1, <2>2 DEF Check
<1>8. CASE Claim(c)
  <2>1. journal' = [journal EXCEPT ![c] = [state |-> "claimed", seq |-> SequenceOf(call[c].seen) + 1]]
          => journal'[c].state = "claimed"
    BY <1>1
  <2> QED BY <1>4, <1>5, <1>8, <2>1 DEF Claim
<1>9. CASE Apply(c)
  <2>1. CASE Goes(c, "finishing") /\ Fence = c
    <3>1. c \in Movers'
      BY <1>2, <2>1, CommandsAreDistinct DEF Known
    <3> QED BY <1>5, <2>1, <3>1
  <2>2. CASE /\ SequenceOf(Fence) + 1 = journal[c].seq
             /\ call' = [call EXCEPT ![c] = [at |-> "moving", seen |-> Fence]]
    <3>1. call'[c] = [at |-> "moving", seen |-> Fence]
      BY <1>1, <2>2
    <3>2. journal[c].state = "claimed" /\ Succeeds(c, Fence) /\ ~Never(c) /\ UNCHANGED journal
      BY <1>1, <1>9, <2>2 DEF Apply, At, CallSound, Succeeds
    <3>3. call'[c].seen = Fence /\ UNCHANGED moves
      BY <1>9, <3>1 DEF Apply
    <3>4. Succeeds(c, call[c].seen)'
      BY <3>2, <3>3 DEF Succeeds, SequenceOf
    <3> QED BY <1>2, <1>3, <3>1, <3>2, <3>4 DEF CallSound
  <2>3. CASE Ends(c, "failed")
    BY <1>4, <2>3
  <2> QED BY <1>9, <2>1, <2>2, <2>3 DEF Apply
<1>10. CASE Move(c, epoch)
  <2>1. CASE Goes(c, "finishing") /\ Fence = c
    <3>1. c \in Movers'
      BY <1>2, <2>1, CommandsAreDistinct DEF Known
    <3> QED BY <1>5, <2>1, <3>1
  <2>2. CASE Goes(c, "finishing") /\ MoveBranch(c) /\ Movable(c, call[c].seen, epoch)
    <3>1. Succeeds(c, Fence) /\ journal[c].state = "claimed" /\ UNCHANGED journal
      BY <1>1, <1>10, <2>2 DEF Move, At, CallSound, Movable
    <3>2. c \in Movers'
      BY <1>1, <2>2, <3>1, MoveSound
    <3> QED BY <1>5, <2>2, <3>2
  <2>3. CASE Ends(c, "failed")
    BY <1>4, <2>3
  <2> QED BY <1>10, <2>1, <2>2, <2>3 DEF Move
<1>11. CASE Finish(c)
  <2>1. journal'[c].state = "applied"
    BY <1>1, <1>11 DEF Finish, Settle, Records
  <2> QED BY <1>4, <1>11, <2>1 DEF Finish
<1>12. CASE CallFails(c, epoch)
  BY <1>4, <1>12 DEF CallFails
<1> QED BY <1>6, <1>7, <1>8, <1>9, <1>10, <1>11, <1>12 DEF CallStep

\* An orphaned transaction of which a step takes nothing away.
LEMMA OrphanStays ==
  ASSUME TargetTyped, JournalMatchesFence, Keeps, NEW o \in Orphans, OrphanSound(o),
         generation' \in Nat, generation <= generation',
         journal'[o.cmd].state = "released" => journal[o.cmd].state = "released" \/ o.epoch < generation',
         o.cmd \in Ticket => \/ o.epoch < ticket'[o.cmd].epoch
                             \/ ticket'[o.cmd].state = "adopting" /\ o.epoch = ticket'[o.cmd].epoch
  PROVE  OrphanSound(o)'
<1>1. o.cmd \in Command /\ o.epoch \in Nat /\ generation \in Nat
  BY DEF Orphans, TargetTyped
<1>2. ~Never(o.cmd) /\ Succeeds(o.cmd, o.seen) /\ o.seen \in Known
  BY DEF OrphanSound
<1>3. ~Never(o.cmd)' /\ Succeeds(o.cmd, o.seen)' /\ o.seen \in Known'
  BY <1>1, <1>2, KnownStays DEF Keeps
<1>4. /\ o.epoch <= generation'
      /\ journal'[o.cmd].state = "released" => o.epoch < generation'
      /\ o.cmd \in Direct => o.epoch = 0
  BY <1>1 DEF OrphanSound
<1> QED BY <1>3, <1>4 DEF OrphanSound

\* A plan of which a step takes nothing away.
LEMMA PlanStays ==
  ASSUME TargetTyped, JournalMatchesFence, Keeps, NEW c \in Command, PlanSound(c),
         \A d \in Command : ~Never(d) => plan'[d] = plan[d],
         plan'[c] = plan[c], Never(c) => Never(c)',
         call'[c].at # "idle" => call[c].at # "idle" \/ plan[c] # NoPlan
  PROVE  PlanSound(c)'
<1>1. plan[c].of \in Command \cup {Nobody}
  BY DEF TargetTyped, Plans, Maybe
<1>2. plan[c].of \notin {Nobody, c} => /\ plan[c] = Rollback(plan[c].of) /\ plan[c].of \in Command
                                       /\ journal[plan[c].of].state = "applied"
  BY <1>1 DEF PlanSound
<1>3. plan[c].of \notin {Nobody, c} => /\ plan'[c] = Rollback(plan[c].of)'
                                       /\ journal'[plan[c].of].state = "applied"
                                       /\ journal'[plan[c].of].seq = journal[plan[c].of].seq
  <2>1. SUFFICES ASSUME plan[c].of \notin {Nobody, c}
                 PROVE  /\ plan'[c] = Rollback(plan[c].of)'
                        /\ journal'[plan[c].of].state = "applied"
                        /\ journal'[plan[c].of].seq = journal[plan[c].of].seq
    OBVIOUS
  <2>2. plan[c].of \in Command /\ ~Never(plan[c].of) /\ journal[plan[c].of].state = "applied"
    BY <1>2, <2>1 DEF Never
  <2>3. plan'[plan[c].of] = plan[plan[c].of]
    BY <2>2
  <2>4. plan'[c].of = plan[c].of /\ plan[c] = Rollback(plan[c].of)
    BY <1>2, <2>1
  <2> QED BY <2>2, <2>3, <2>4 DEF Rollback, Keeps
<1>4. ~Never(c)' /\ plan[c].of # Nobody => plan[c].of # c /\ Succeeds(c, plan[c].of)'
  <2>1. SUFFICES ASSUME ~Never(c)', plan[c].of # Nobody
                 PROVE  plan[c].of # c /\ Succeeds(c, plan[c].of)'
    OBVIOUS
  <2>2. ~Never(c) /\ plan[c].of # c /\ Succeeds(c, plan[c].of)
    BY <2>1 DEF PlanSound
  <2>3. journal'[c].seq = journal[c].seq /\ journal'[plan[c].of].seq = journal[plan[c].of].seq
    BY <1>3, <2>1, <2>2 DEF Keeps
  <2> QED BY <2>1, <2>2, <2>3 DEF Succeeds, SequenceOf
<1>5. ~Never(c)' \/ call'[c].at # "idle" => plan'[c] # NoPlan
  BY DEF PlanSound, NoPlan
<1>6. ~Never(c)' => journal'[c].seq > 0
  BY DEF PlanSound, Keeps
<1> QED BY <1>3, <1>4, <1>5, <1>6 DEF PlanSound

\* The call that claims has looked at what its rollback takes back.
LEMMA CallStepPlan ==
  ASSUME TargetTyped, Story, NEW c \in Command, NEW epoch, CallStep(c, epoch)
  PROVE  PlanSound(c)'
<1>1. /\ JournalMatchesFence /\ Keeps /\ PlanSound(c) /\ CallSound(c) /\ plan' = plan
      /\ call \in [Command -> Calls] /\ journal \in [Command -> Records]
  BY CallStepKeeps DEF Story, TargetTyped
<1>2. CASE UNCHANGED journal
  <2>1. call'[c].at # "idle" => call[c].at # "idle" \/ plan[c] # NoPlan
    BY <1>1, <1>2 DEF CallStep, Begin, Check, Claim, Apply, Move, Finish, CallFails, At, Ends
  <2>2. Never(c) => Never(c)'
    BY <1>2 DEF Never
  <2> QED BY <1>1, <2>1, <2>2, PlanStays
<1>3. CASE Finish(c)
  <2>1. ~Never(c) /\ call[c].at # "idle"
    BY <1>3 DEF Finish, At, Never
  <2> QED BY <1>1, <2>1, PlanStays
<1>4. CASE /\ At(c, "claiming") /\ MayUndo(c, call[c].seen)
           /\ journal' = [journal EXCEPT ![c] = [state |-> "claimed", seq |-> SequenceOf(call[c].seen) + 1]]
  <2>1. Never(c) /\ plan[c] # NoPlan /\ plan[c].of \in Command \cup {Nobody}
    BY <1>1, <1>4 DEF At, CallSound, PlanSound, TargetTyped, Plans, Maybe
  <2>2. journal'[c] = [state |-> "claimed", seq |-> SequenceOf(call[c].seen) + 1] /\ journal'[c].seq > 0
    <3>1. SequenceOf(call[c].seen) \in Nat
      BY CallsFit, FenceFits
    <3> QED BY <1>1, <1>4, <3>1
  <2>3. ASSUME plan[c].of # Nobody
        PROVE  plan[c].of # c /\ Succeeds(c, plan[c].of)' /\ journal'[plan[c].of].state = "applied"
    <3>1. journal[plan[c].of].state = "applied" /\ call[c].seen = plan[c].of
      BY <1>4, <2>3 DEF MayUndo
    <3>2. plan[c].of # c
      BY <2>1, <3>1 DEF Never
    <3>3. journal'[plan[c].of] = journal[plan[c].of]
      BY <1>1, <1>4, <2>1, <2>3, <3>2
    <3> QED BY <1>1, <2>2, <2>3, <3>1, <3>2, <3>3 DEF Succeeds, SequenceOf
  <2>4. plan[c].of \notin {Nobody, c} => plan'[c] = Rollback(plan[c].of)'
    BY <1>1 DEF PlanSound, Rollback
  <2> QED BY <1>1, <2>1, <2>2, <2>3, <2>4 DEF PlanSound
<1>5. \/ UNCHANGED journal \/ Finish(c)
      \/ /\ At(c, "claiming") /\ MayUndo(c, call[c].seen)
         /\ journal' = [journal EXCEPT ![c] = [state |-> "claimed", seq |-> SequenceOf(call[c].seen) + 1]]
  BY DEF CallStep, Begin, Check, Claim, Apply, Move, CallFails
<1> QED BY <1>2, <1>3, <1>4, <1>5

\* A step of adopt() or rollback() keeps the whole story of the target.
LEMMA CallStepStory ==
  ASSUME TargetTyped, Story, NEW c \in Command, NEW epoch, CallStep(c, epoch), Caller(c, epoch),
         UNCHANGED <<ticket, work>>
  PROVE  Story'
<1>1. /\ JournalMatchesFence /\ Keeps /\ UNCHANGED <<plan, generation, orphans>>
      /\ \A d \in Command \ {c} : journal'[d] = journal[d] /\ call'[d] = call[d]
      /\ \A d \in Command : journal'[d].state = "released" <=> journal[d].state = "released"
  BY CallStepKeeps DEF Story
<1>2. \A d \in Direct : journal'[d].state # "released"
  BY <1>1 DEF Story, Command
<1>3. ASSUME NEW d \in Command PROVE CallSound(d)'
  <2>1. CASE d = c
    BY <2>1, CallStepSound
  <2>2. CASE d # c
    <3>1. d \in Ticket /\ call[d].at # "idle" => work'.at = "adopt" /\ work'.t = d
      BY DEF Story, CallSound
    <3> QED BY <1>1, <2>2, <3>1, CallStays DEF Story
  <2> QED BY <2>1, <2>2
<1>4. ASSUME NEW o \in orphans PROVE OrphanSound(o)'
  <2>1. o \in Orphans /\ o.cmd \in Command /\ generation \in Nat /\ OrphanSound(o)
    BY DEF TargetTyped, Orphans, Story
  <2>2. o.cmd \in Ticket => \/ o.epoch < ticket'[o.cmd].epoch
                            \/ ticket'[o.cmd].state = "adopting" /\ o.epoch = ticket'[o.cmd].epoch
    BY <2>1 DEF OrphanSound
  <2> QED BY <1>1, <2>1, <2>2, OrphanStays
<1>5. ASSUME NEW d \in Command PROVE PlanSound(d)'
  <2>1. CASE d = c
    BY <2>1, CallStepPlan
  <2>2. CASE d # c
    <3>1. journal'[d] = journal[d] /\ call'[d] = call[d] /\ PlanSound(d)
      BY <1>1, <2>2 DEF Story
    <3> QED BY <1>1, <3>1, PlanStays DEF Never
  <2> QED BY <2>1, <2>2
<1> QED BY <1>1, <1>2, <1>3, <1>4, <1>5 DEF Story, Keeps

----------------------------------------------------------------------------
(* What happens beside the queue                                           *)

\* A step that moves nothing and settles nothing takes nothing away.
LEMMA QuietKeeps ==
  ASSUME JournalMatchesFence, UNCHANGED <<moves, journal>> PROVE Keeps
  BY DEF JournalMatchesFence, Keeps, Movers, Never

\* A Git transaction that outlived its process lands only while its claim is the next one.
LEMMA LandStory ==
  ASSUME TargetTyped, Story, NEW o \in orphans, Land(o), UNCHANGED <<ticket, work>>
  PROVE  Story' /\ Keeps
<1>1. o \in Orphans /\ o.cmd \in Command /\ o.epoch \in Nat /\ generation \in Nat /\ OrphanSound(o)
  BY DEF TargetTyped, Orphans, Story
<1>2. Succeeds(o.cmd, Fence) /\ generation = o.epoch /\ MoveBranch(o.cmd) /\ UNCHANGED <<journal, call, plan, generation>>
  BY <1>1 DEF Land, Movable, OrphanSound
<1>3. journal[o.cmd].state \in {"claimed", "applied"}
  BY <1>1, <1>2 DEF OrphanSound, Never, TargetTyped, Records
<1>4. Keeps
  <2>1. JournalMatchesFence' /\ Movers' = Movers \cup {o.cmd}
    BY <1>1, <1>2, <1>3, MoveSound DEF Story
  <2> QED BY <1>2, <2>1 DEF Keeps, Never
<1>5. ASSUME NEW d \in Command PROVE CallSound(d)' /\ PlanSound(d)'
  <2>1. CallSound(d) /\ PlanSound(d) /\ journal'[d] = journal[d] /\ call'[d] = call[d]
        /\ (d \in Ticket /\ call[d].at # "idle" => work'.at = "adopt" /\ work'.t = d)
    BY <1>2 DEF Story, CallSound
  <2>2. CallSound(d)'
    BY <1>4, <2>1, CallStays DEF Story
  <2>3. PlanSound(d)'
    BY <1>2, <1>4, <2>1, PlanStays DEF Story, Never
  <2> QED BY <2>2, <2>3
<1>6. ASSUME NEW p \in orphans' PROVE OrphanSound(p)'
  <2>1. p \in Orphans /\ p.cmd \in Command /\ OrphanSound(p)
    BY <1>6 DEF Land, TargetTyped, Orphans, Story
  <2>2. p.cmd \in Ticket => \/ p.epoch < ticket'[p.cmd].epoch
                            \/ ticket'[p.cmd].state = "adopting" /\ p.epoch = ticket'[p.cmd].epoch
    BY <2>1 DEF OrphanSound
  <2> QED BY <1>1, <1>2, <1>4, <2>1, <2>2, OrphanStays DEF Story
<1>7. \A d \in Direct : journal'[d].state # "released"
  BY <1>2 DEF Story
<1> QED BY <1>4, <1>5, <1>6, <1>7 DEF Story, Keeps

\* Other commands lose nothing to a command that is offered or whose process dies.
LEMMA OfferStory ==
  ASSUME TargetTyped, Story, NEW d \in Direct, Offer(d), UNCHANGED <<ticket, work>>
  PROVE  Story' /\ Keeps
<1>1. /\ d \in Command /\ UNCHANGED <<moves, journal, call, orphans, generation>> /\ plan[d] = NoPlan
      /\ \A e \in Command \ {d} : plan'[e] = plan[e]
      /\ plan \in [Command -> Plans] /\ DirectUndoes[d] \in Command \cup {Nobody}
  BY CommandsAreDistinct DEF Offer, Command, TargetTyped
<1>2. Keeps
  BY <1>1, QuietKeeps DEF Story
<1>3. Never(d) /\ call[d].at = "idle"
  BY <1>1 DEF Story, PlanSound
<1>4. PlanSound(d)'
  <2>1. CASE plan'[d].of = Nobody
    BY <1>1, <1>3, <2>1 DEF PlanSound, Never
  <2>2. CASE plan'[d].of # Nobody
    <3>1. journal[DirectUndoes[d]].state = "applied" /\ plan'[d] = Rollback(DirectUndoes[d])
      BY <1>1, <2>2 DEF Offer, Adoption
    <3>2. DirectUndoes[d] \in Command /\ DirectUndoes[d] # d /\ plan'[d].of = DirectUndoes[d]
      BY <1>1, <1>3, <2>2, <3>1 DEF Rollback, Never
    <3>3. plan'[d] = Rollback(DirectUndoes[d])'
      BY <1>1, <3>1, <3>2 DEF Rollback
    <3>4. plan'[d] = [from |-> plan'[plan'[d].of].to, to |-> plan'[plan'[d].of].from, of |-> plan'[d].of]
      BY <3>2, <3>3 DEF Rollback
    <3> QED BY <1>1, <1>3, <3>1, <3>2, <3>4 DEF PlanSound, Never, Rollback
  <2> QED BY <2>1, <2>2
<1>5. ASSUME NEW e \in Command PROVE PlanSound(e)'
  <2>1. CASE e = d
    BY <1>4, <2>1
  <2>2. CASE e # d
    <3>1. \A x \in Command : ~Never(x) => plan'[x] = plan[x]
      BY <1>1, <1>3
    <3>2. Never(e) => Never(e)'
      BY <1>1 DEF Never
    <3> QED BY <1>1, <1>2, <2>2, <3>1, <3>2, PlanStays DEF Story
  <2> QED BY <2>1, <2>2
<1>6. (\A e \in Command : CallSound(e)') /\ \A o \in orphans' : OrphanSound(o)'
  BY <1>1 DEF Story, CallSound, OrphanSound, Known, Movers, Never, Succeeds, SequenceOf
<1>7. \A e \in Direct : journal'[e].state # "released"
  BY <1>1 DEF Story
<1> QED BY <1>2, <1>5, <1>6, <1>7 DEF Story, Keeps

\* A direct process that dies leaves its transaction with the claim it had.
LEMMA DirectDiesStory ==
  ASSUME TargetTyped, Story, NEW d \in Direct, DirectDies(d), UNCHANGED <<ticket, work>>
  PROVE  Story' /\ Keeps
<1>1. /\ d \in Command /\ d \notin Ticket /\ UNCHANGED <<moves, journal, plan, generation>>
      /\ \A e \in Command \ {d} : call'[e] = call[e]
      /\ call'[d] = Idle /\ CallSound(d) /\ generation \in Nat
  BY CommandsAreDistinct DEF DirectDies, Command, TargetTyped, Story
<1>2. Keeps
  BY <1>1, QuietKeeps DEF Story
<1>3. ASSUME NEW e \in Command PROVE CallSound(e)' /\ PlanSound(e)'
  <2>1. CallSound(e)'
    BY <1>1 DEF Story, CallSound, Known, Movers, Never, Succeeds, SequenceOf, Idle
  <2>2. call'[e].at # "idle" => call[e].at # "idle"
    BY <1>1 DEF Idle
  <2>3. PlanSound(e)'
    BY <1>1, <1>2, <2>2, PlanStays DEF Story, Never
  <2> QED BY <2>1, <2>3
<1>4. ASSUME NEW o \in orphans' PROVE OrphanSound(o)'
  <2>1. o \in orphans \/ (At(d, "moving") /\ o = [cmd |-> d, seen |-> call[d].seen, epoch |-> 0])
    BY DEF DirectDies, Abandoned
  <2>2. CASE o \in orphans
    BY <1>1, <2>2 DEF Story, OrphanSound, Known, Movers, Never, Succeeds, SequenceOf
  <2>3. CASE At(d, "moving") /\ o = [cmd |-> d, seen |-> call[d].seen, epoch |-> 0]
    BY <1>1, <2>3 DEF At, CallSound, OrphanSound, Known, Movers, Never, Succeeds, SequenceOf
  <2> QED BY <2>1, <2>2, <2>3
<1>5. \A e \in Direct : journal'[e].state # "released"
  BY <1>1 DEF Story
<1> QED BY <1>2, <1>3, <1>4, <1>5 DEF Story, Keeps

\* Whatever happens beside the queue keeps the story of the target.
LEMMA BesideStory ==
  ASSUME TargetTyped, Story, Beside, UNCHANGED queueVars
  PROVE  Story' /\ Keeps
<1>1. UNCHANGED <<ticket, work>>
  BY DEF queueVars
<1>2. CASE Foreign
  <2>1. UNCHANGED <<moves, generation, plan, journal, call, orphans>>
    BY <1>2 DEF Foreign
  <2> QED BY <1>1, <2>1, QuietKeeps DEF Story, JournalMatchesFence, CallSound, OrphanSound, PlanSound,
                Known, Movers, Never, Succeeds, SequenceOf, Rollback
<1>3. ASSUME NEW d \in Direct, CallStep(d, 0) PROVE Story' /\ Keeps
  BY <1>1, <1>3, CallStepStory, CallStepKeeps DEF Caller, Command
<1> QED BY <1>1, <1>2, <1>3, LandStory, OfferStory, DirectDiesStory DEF Beside

\* A step of the target alone disturbs nothing that the queue knows.
LEMMA QueueUndisturbed ==
  ASSUME Inv, UNCHANGED queueVars, UNCHANGED generation, Keeps,
         \A t \in Ticket : journal'[t] = journal[t] \/ (work.at = "adopt" /\ t = work.t),
         \A o \in orphans' : o \in orphans \/ o.cmd \notin Ticket
  PROVE  (\A t \in Ticket : TicketSound(t)') /\ WorkSound' /\ ServiceSound'
<1>1. UNCHANGED <<ticket, work, card, snap, service>> /\ Open' = Open /\ Movers \subseteq Movers'
  BY DEF queueVars, Open, Keeps
<1>2. work.at = "adopt" => ticket[work.t].state = "adopting" /\ generation > 0
  <2>1. SUFFICES ASSUME work.at = "adopt" PROVE ticket[work.t].state = "adopting" /\ generation > 0
    OBVIOUS
  <2>2. work.t \in Ticket /\ TicketSound(work.t) /\ ticket[work.t].state = "adopting"
        /\ ticket[work.t].epoch = work.epoch /\ generation >= work.epoch
    BY <2>1, WorkFacts DEF Inv, Typed, WorkSound, ExecuteAt, EffectAt
  <2>3. work.epoch > 0 /\ work.epoch \in Nat /\ generation \in Nat
    BY <2>2, WorkFacts DEF TicketSound, InEffect, Inv, Typed, TargetTyped
  <2> QED BY <2>2, <2>3
<1>3. ASSUME NEW t \in Ticket PROVE TicketSound(t)'
  <2>1. TicketSound(t) /\ IsHead(t)' = IsHead(t)
    BY <1>1 DEF Inv, IsHead
  <2>2. CASE journal'[t] = journal[t]
    BY <1>1, <2>1, <2>2 DEF TicketSound, Never
  <2>3. CASE work.at = "adopt" /\ t = work.t
    BY <1>1, <1>2, <2>1, <2>3 DEF TicketSound, Never, Waiting, InEffect
  <2> QED BY <2>2, <2>3 DEF Inv
<1>4. WorkSound'
  <2>1. /\ Prefix(DOMAIN work.rows)' = Prefix(DOMAIN work.rows) /\ Row' = Row
        /\ work.at \in ReconcileAt => journal'[work.t] = journal[work.t]
        /\ work.at \in ExecuteAt \cup ReconcileAt => work.t \in Ticket
    BY <1>1, WorkFacts DEF Prefix, Before, Row, ReconcileAt, Inv, Typed
  <2>2. WorkSound
    BY DEF Inv
  <2> QED BY <1>1, <2>1, <2>2 DEF WorkSound, ExecuteAt, EffectAt, ReconcileAt
<1>5. ServiceSound'
  <2>1. Prefix(card.items)' = Prefix(card.items)
    BY <1>1 DEF Prefix, Before
  <2> QED BY <1>1, <2>1 DEF ServiceSound, Inv, NoCard
<1> QED BY <1>3, <1>4, <1>5

\* And it keeps what the queue knows.
LEMMA BesideInv ==
  ASSUME Inv, Beside, UNCHANGED queueVars
  PROVE  Story' /\ (\A t \in Ticket : TicketSound(t)') /\ WorkSound' /\ ServiceSound'
<1> USE DEF Inv, Typed
<1>1. Story' /\ Keeps
  BY BesideStory
<1>2. /\ UNCHANGED generation
      /\ \A t \in Ticket : journal'[t] = journal[t]
      /\ \A o \in orphans' : o \in orphans \/ o.cmd \notin Ticket
  <2>1. CASE Foreign
    BY <2>1 DEF Foreign
  <2>2. CASE \E o \in orphans : Land(o)
    BY <2>2 DEF Land
  <2>3. ASSUME NEW d \in Direct, Offer(d) PROVE <1>2!1 /\ <1>2!2 /\ <1>2!3
    BY <2>3 DEF Offer
  <2>4. ASSUME NEW d \in Direct, CallStep(d, 0) PROVE <1>2!1 /\ <1>2!2 /\ <1>2!3
    <3>1. d \in Command /\ d \notin Ticket
      BY CommandsAreDistinct DEF Command
    <3> QED BY <2>4, <3>1, CallStepKeeps DEF Command
  <2>5. ASSUME NEW d \in Direct, DirectDies(d) PROVE <1>2!1 /\ <1>2!2 /\ <1>2!3
    BY <2>5, CommandsAreDistinct DEF DirectDies, Abandoned
  <2> QED BY <2>1, <2>2, <2>3, <2>4, <2>5 DEF Beside
<1> QED BY <1>1, <1>2, QueueUndisturbed

\* A step of the call that the executor waits for keeps the invariant.
LEMMA AdoptInv ==
  ASSUME Inv, Adopt
  PROVE  Story' /\ (\A t \in Ticket : TicketSound(t)') /\ WorkSound' /\ ServiceSound'
<1> USE DEF Inv, Typed
<1>1. /\ work.at = "adopt" /\ CallStep(work.t, work.epoch) /\ UNCHANGED queueVars
      /\ work.t \in Ticket /\ work.t \in Command
  BY WorkFacts DEF Adopt, Is, ExecuteAt, EffectAt, Command
<1>2. Story' /\ Keeps
  BY <1>1, CallStepStory, CallStepKeeps DEF Caller, queueVars
<1>3. /\ UNCHANGED generation /\ UNCHANGED orphans
      /\ \A t \in Ticket : journal'[t] = journal[t] \/ t = work.t
  BY <1>1, CallStepKeeps DEF Command
<1> QED BY <1>1, <1>2, <1>3, QueueUndisturbed

----------------------------------------------------------------------------
(* The steps of the queue: what they leave alone                           *)

AllTicketsSound == \A t \in Ticket : TicketSound(t)

\* No ticket is forgotten or opened again, and a new one comes after all others.
Progress ==
  /\ \A u \in Ticket : ticket'[u].state = "none" =>
       ticket[u].state = "none" /\ \A v \in Ticket : v > u => ticket'[v].state = "none"
  /\ \A u \in Open' : u \in Open \/ \A v \in Ticket : ticket[v].state # "none" => v < u

\* No ticket is new.
LEMMA NoNewTicket ==
  ASSUME AllTicketsSound,
         \A u \in Ticket : /\ ticket'[u].state = "none" <=> ticket[u].state = "none"
                           /\ ticket[u].state \in Closed => ticket'[u].state \in Closed
  PROVE  Progress
<1>1. \A u \in Ticket : ticket[u].state = "none" => \A v \in Ticket : v > u => ticket[v].state = "none"
  BY DEF AllTicketsSound, TicketSound
<1>2. Open' \subseteq Open
  BY DEF Open, Closed
<1> QED BY <1>1, <1>2 DEF Progress

\* Tickets from the first open one on remain that: an open ticket is never inserted.
LEMMA PrefixStays ==
  ASSUME Progress, NEW S \in SUBSET Ticket, Prefix(S)
  PROVE  Prefix(S)'
<1>1. SUFFICES ASSUME NEW u \in S
               PROVE  ticket'[u].state # "none" /\ \A o \in Open' : o < u => o \in S
  BY DEF Prefix, Before
<1>2. ticket[u].state # "none" /\ \A o \in Open : o < u => o \in S
  BY <1>1 DEF Prefix, Before
<1>3. ticket'[u].state # "none"
  BY <1>2 DEF Progress
<1>4. ASSUME NEW o \in Open', o < u PROVE o \in S
  <2>1. o \in Ticket /\ u \in Ticket /\ o \in Nat /\ u \in Nat
    BY TicketsAreOrdinals DEF Open
  <2>2. o \in Open
    BY <1>2, <1>4, <2>1 DEF Progress
  <2> QED BY <1>2, <1>4, <2>2
<1> QED BY <1>3, <1>4

\* The first open ticket remains the first while it is open.
LEMMA HeadStays ==
  ASSUME Progress, NEW t \in Ticket, IsHead(t), t \in Open'
  PROVE  IsHead(t)'
<1>1. ASSUME NEW u \in Open' PROVE t <= u
  <2>1. u \in Nat /\ t \in Nat /\ ticket[t].state # "none"
    BY TicketsAreOrdinals DEF Open, IsHead
  <2> QED BY <2>1 DEF Progress, IsHead
<1> QED BY <1>1 DEF IsHead

\* A ticket that a step leaves alone.
LEMMA TicketStays ==
  ASSUME Progress, NEW t \in Ticket, TicketSound(t), ticket'[t] = ticket[t], journal'[t] = journal[t],
         generation \in Nat, generation' \in Nat, generation <= generation'
  PROVE  TicketSound(t)'
<1>1. ticket[t].state \in InEffect => IsHead(t)'
  <2>1. ticket[t].state \in InEffect => t \in Open'
    BY DEF Open, InEffect, Closed
  <2> QED BY <2>1, HeadStays DEF TicketSound
<1>2. ticket[t].state = "none" => \A u \in Ticket : u > t => ticket'[u].state = "none"
  BY DEF Progress
<1> QED BY <1>1, <1>2 DEF TicketSound, Never

\* The lock's holder, when somebody else acts.
LEMMA WorkStays ==
  ASSUME Typed, WorkSound, Progress, UNCHANGED <<work, generation>>, UNCHANGED <<moves, journal>>,
         orphans' \subseteq orphans,
         \A u \in Ticket : ticket[u].state \in {"awaiting"} \cup InEffect \cup {"parked", "adopted"}
                             => ticket'[u] = ticket[u]
  PROVE  WorkSound'
<1>1. work.at \in ExecuteAt => Prefix(DOMAIN work.rows)' /\ \A u \in Open' \cap DOMAIN work.rows : u >= work.t
  <2>1. SUFFICES ASSUME work.at \in ExecuteAt
                 PROVE  Prefix(DOMAIN work.rows)' /\ \A u \in Open' \cap DOMAIN work.rows : u >= work.t
    OBVIOUS
  <2>2. Prefix(DOMAIN work.rows) /\ DOMAIN work.rows \in SUBSET Ticket
    BY <2>1, WorkFacts DEF Typed, WorkSound
  <2>3. ASSUME NEW u \in Open' \cap DOMAIN work.rows PROVE u >= work.t
    <3>1. ticket[u].state # "none" /\ u \in Ticket /\ u \in Nat
      BY <2>2, TicketsAreOrdinals DEF Prefix
    <3>2. u \in Open
      BY <3>1 DEF Progress
    <3> QED BY <2>1, <3>2 DEF WorkSound
  <2> QED BY <2>2, <2>3, PrefixStays
<1>2. work.at \in {"fence", "enter"} \cup EffectAt \cup ReconcileAt => ticket'[work.t] = ticket[work.t]
  <2>1. SUFFICES ASSUME work.at \in {"fence", "enter"} \cup EffectAt \cup ReconcileAt
                 PROVE  ticket'[work.t] = ticket[work.t]
    OBVIOUS
  <2>2. work.t \in Ticket
    BY <2>1, WorkFacts DEF Typed, ExecuteAt
  <2>3. ticket[work.t].state \in {"awaiting"} \cup InEffect \cup {"parked", "adopted"}
    BY <2>1 DEF WorkSound, EffectAt, ReconcileAt, InEffect
  <2> QED BY <2>2, <2>3
<1>3. Movers' = Movers /\ Row' = Row
  BY DEF Movers, Row
<1>4. UNCHANGED <<work.at, work.rows, work.t, work.prev, work.epoch>>
  OBVIOUS
<1> QED BY <1>1, <1>2, <1>3, <1>4 DEF WorkSound, EffectAt, ReconcileAt

\* What the service has read, and what people have confirmed.
LEMMA ServiceStays ==
  ASSUME Typed, ServiceSound, Progress, UNCHANGED <<card, service>>,
         DOMAIN snap' \subseteq DOMAIN snap, \A t \in DOMAIN snap' : snap'[t] = snap[t],
         \A u \in DOMAIN snap' : ticket[u].state \in {"reconciling", "parked", "adopted"} =>
           /\ ticket'[u].epoch = ticket[u].epoch
           /\ ticket'[u].state \in {"reconciling", "parked", "adopted"},
         service = "down" => work'.at = "free",
         service = "starting" =>
           /\ \A u \in DOMAIN snap' : ticket'[u] = ticket[u]
           /\ work'.at = "free" \/ (work'.at \in ReconcileAt /\ work'.t \notin DOMAIN snap')
  PROVE  ServiceSound'
<1>1. card.items \in SUBSET Ticket /\ DOMAIN snap \in SUBSET Ticket
  BY RowsAre DEF Typed, QueueTyped
<1>2. Prefix(card.items)' /\ (card' # NoCard' => card'.items # {})
  BY <1>1, PrefixStays DEF ServiceSound, NoCard
<1>3. \A t \in DOMAIN snap' : snap'[t].state = "reconciling" =>
         ticket'[t].epoch = snap'[t].epoch /\ ticket'[t].state \in {"reconciling", "parked", "adopted"}
  BY <1>1 DEF ServiceSound
<1>4. service = "starting" => DOMAIN snap' \subseteq Open'
  BY <1>1 DEF ServiceSound, Open
<1> QED BY <1>2, <1>3, <1>4 DEF ServiceSound

\* A new plan is that of a ticket nobody has begun to move.
NewPlan(d) ==
  /\ d \in Ticket /\ Never(d) /\ call[d].at = "idle" /\ plan'[d].of \in Maybe
  /\ plan'[d].of \notin {Nobody, d} =>
       plan'[d] = Rollback(plan'[d].of) /\ journal[plan'[d].of].state = "applied"
\* What keeps an orphaned transaction apart from the later life of its ticket.
Outlives(u) ==
  \/ ticket'[u] = ticket[u] \/ Never(u) \/ ticket'[u].epoch > ticket[u].epoch
  \/ ticket'[u].epoch = ticket[u].epoch /\ \A o \in orphans : o.cmd = u => ticket[u].state # "adopting"

\* A transaction left behind stays behind the epoch of its ticket.
LEMMA OrphansOutlived ==
  ASSUME Typed, ticket' \in [Ticket -> Tickets], NEW o \in orphans, OrphanSound(o),
         o.cmd \in Ticket, Outlives(o.cmd)
  PROVE  o.epoch < ticket'[o.cmd].epoch \/ (ticket'[o.cmd].state = "adopting" /\ o.epoch = ticket'[o.cmd].epoch)
<1>1. o.epoch \in Nat /\ ticket[o.cmd].epoch \in Nat /\ ticket'[o.cmd].epoch \in Nat
  BY DEF Typed, TargetTyped, Orphans, QueueTyped, Tickets
<1> QED BY <1>1 DEF OrphanSound, Outlives

\* Plans that are new belong to commands nobody has begun.
LEMMA PlansStay ==
  ASSUME Typed, Story, UNCHANGED <<moves, journal, call>>,
         \A d \in Command : plan'[d] = plan[d] \/ NewPlan(d)
  PROVE  \A d \in Command : PlanSound(d)'
<1> USE DEF Typed
<1>1. Keeps /\ JournalMatchesFence /\ \A d \in Command : ~Never(d) => plan'[d] = plan[d]
  BY QuietKeeps DEF Story, NewPlan
<1>2. ASSUME NEW d \in Command PROVE PlanSound(d)'
  <2>1. CASE plan'[d] = plan[d]
    BY <1>1, <2>1, PlanStays DEF Story, Never
  <2>2. CASE NewPlan(d)
    <3>1. ASSUME plan'[d].of \notin {Nobody, d}
          PROVE  /\ plan'[d] = [from |-> plan'[plan'[d].of].to, to |-> plan'[plan'[d].of].from, of |-> plan'[d].of]
                 /\ journal'[plan'[d].of].state = "applied"
      <4>1. plan'[d] = Rollback(plan'[d].of) /\ journal[plan'[d].of].state = "applied"
        BY <2>2, <3>1 DEF NewPlan
      <4>2. plan'[d].of \in Command
        BY <2>2, <3>1 DEF NewPlan, Maybe
      <4>3. plan'[plan'[d].of] = plan[plan'[d].of]
        BY <1>1, <4>1, <4>2 DEF Never
      <4> QED BY <4>1, <4>3 DEF Rollback
    <3> QED BY <2>2, <3>1 DEF NewPlan, PlanSound, Never, Rollback
  <2> QED BY <1>1, <2>1, <2>2
<1> QED BY <1>2

\* The target's story under a step of the queue that only plans, fences or writes tickets.
LEMMA QueueStory ==
  ASSUME Typed, Story, UNCHANGED <<moves, journal, call, orphans>>,
         generation' \in Nat, generation <= generation', ticket' \in [Ticket -> Tickets],
         work.at # "adopt" \/ (work'.at = work.at /\ work'.t = work.t),
         \A d \in Command : plan'[d] = plan[d] \/ NewPlan(d),
         \A u \in Ticket : Outlives(u)
  PROVE  Story'
<1> USE DEF Typed
<1>1. Keeps /\ JournalMatchesFence
  BY QuietKeeps DEF Story
<1>2. ASSUME NEW d \in Command PROVE CallSound(d)'
  <2>1. CallSound(d) /\ (d \in Ticket /\ call[d].at # "idle" => work'.at = "adopt" /\ work'.t = d)
    BY DEF Story, CallSound
  <2> QED BY <1>1, <2>1, CallStays
<1>3. ASSUME NEW o \in orphans' PROVE OrphanSound(o)'
  <2>1. o \in orphans /\ o \in Orphans /\ OrphanSound(o) /\ o.cmd \in Command /\ o.epoch \in Nat
    BY DEF TargetTyped, Story, Orphans
  <2>2. o.cmd \in Ticket => \/ o.epoch < ticket'[o.cmd].epoch
                            \/ ticket'[o.cmd].state = "adopting" /\ o.epoch = ticket'[o.cmd].epoch
    BY <2>1, OrphansOutlived
  <2> QED BY <1>1, <2>1, <2>2, OrphanStays
<1>4. \A d \in Command : PlanSound(d)'
  BY PlansStay
<1>5. \A d \in Direct : journal'[d].state # "released"
  BY DEF Story
<1> QED BY <1>1, <1>2, <1>3, <1>4, <1>5 DEF Story, Keeps

----------------------------------------------------------------------------
(* Tickets come, are reserved, or end before anything was begun            *)

\* A ticket that nobody has begun has no record in the journal and no call.
LEMMA NotBegun ==
  ASSUME Inv, NEW t \in Ticket, ticket[t].state \in {"none", "queued"} \cup Waiting
  PROVE  Never(t) /\ call[t].at = "idle"
<1>1. Never(t) /\ CallSound(t)
  BY DEF Inv, TicketSound, Story, Command
<1>2. work.at = "adopt" => ticket[work.t].state = "adopting"
  BY DEF Inv, WorkSound
<1>3. "adopting" \notin {"none", "queued"} \cup Waiting
  BY DEF Waiting
<1> QED BY <1>1, <1>2, <1>3 DEF CallSound

\* Tickets that come, are reserved or end before anything was begun leave the rest as it is.
LEMMA BeginningInv ==
  ASSUME Inv, Typed', Progress, AllTicketsSound', service = "up",
         UNCHANGED <<moves, journal, call, orphans, generation, work, service, card>>,
         \A u \in Ticket : ticket'[u] = ticket[u] \/ ticket[u].state \in {"none", "queued"},
         \A d \in Command : plan'[d] = plan[d] \/ NewPlan(d),
         DOMAIN snap' \subseteq DOMAIN snap, \A t \in DOMAIN snap' : snap'[t] = snap[t]
  PROVE  Story' /\ WorkSound' /\ ServiceSound'
<1> USE DEF Inv
<1>1. generation \in Nat /\ generation' \in Nat /\ generation <= generation' /\ ticket' \in [Ticket -> Tickets]
  BY DEF Typed, TargetTyped, QueueTyped
<1>2. ASSUME NEW u \in Ticket PROVE Outlives(u)
  BY NotBegun DEF Outlives
<1>3. Story'
  BY <1>1, <1>2, QueueStory
<1>4. WorkSound'
  BY WorkStays DEF InEffect
<1>5. ServiceSound'
  <2>1. DOMAIN snap \in SUBSET Ticket
    BY RowsAre DEF Typed, QueueTyped
  <2>2. \A u \in DOMAIN snap' : ticket[u].state \in {"reconciling", "parked", "adopted"} =>
          ticket'[u].epoch = ticket[u].epoch /\ ticket'[u].state \in {"reconciling", "parked", "adopted"}
    BY <2>1
  <2> QED BY <2>2, ServiceStays
<1> QED BY <1>3, <1>4, <1>5

\* A ticket admitted to the queue comes after all others.
LEMMA AdmitSound ==
  ASSUME Inv, NEW undoes, Admit(undoes), UNCHANGED <<journal, generation>>
  PROVE  /\ Progress /\ AllTicketsSound'
         /\ \A u \in Ticket : ticket'[u] = ticket[u] \/ ticket[u].state \in {"none", "queued"}
<1> USE DEF Inv
<1>1. PICK t \in Unused(Ticket) : ticket' = [ticket EXCEPT ![t].state = "queued", ![t].undoes = undoes]
  BY DEF Admit
<1>2. /\ t \in Ticket /\ ticket[t].state = "none" /\ \A u \in Ticket : u < t => ticket[u].state # "none"
      /\ \A u \in Ticket : u > t => ticket[u].state = "none"
  BY DEF Unused, TicketSound
<1>3. /\ ticket \in [Ticket -> Tickets] /\ generation \in Nat /\ Ticket \subseteq Nat
  BY TicketsAreOrdinals DEF Typed, QueueTyped, TargetTyped
<1>4. /\ ticket'[t].state = "queued" /\ ticket'[t].epoch = ticket[t].epoch /\ ticket'[t].batch = ticket[t].batch
      /\ \A u \in Ticket \ {t} : ticket'[u] = ticket[u]
  BY <1>1, <1>2, <1>3 DEF Tickets
<1>5. Progress
  <2>1. ASSUME NEW u \in Ticket, ticket'[u].state = "none"
        PROVE  ticket[u].state = "none" /\ \A v \in Ticket : v > u => ticket'[v].state = "none"
    <3>1. u # t /\ ticket[u].state = "none"
      BY <1>4, <2>1
    <3>2. \A v \in Ticket : v > u => ticket[v].state = "none"
      BY <3>1 DEF TicketSound
    <3>3. u > t
      BY <1>2, <1>3, <3>1
    <3> QED BY <1>3, <1>4, <3>1, <3>2, <3>3
  <2>2. ASSUME NEW u \in Open' PROVE u \in Open \/ \A v \in Ticket : ticket[v].state # "none" => v < u
    <3>1. CASE u = t
      BY <1>2, <1>3, <3>1
    <3>2. CASE u # t
      BY <1>4, <2>2, <3>2 DEF Open
    <3> QED BY <3>1, <3>2
  <2> QED BY <2>1, <2>2 DEF Progress
<1>6. ASSUME NEW u \in Ticket PROVE TicketSound(u)'
  <2>1. CASE u = t
    <3>1. Never(t)' /\ ~ticket[t].batch
      BY <1>2 DEF TicketSound, Never
    <3> QED BY <1>4, <2>1, <3>1 DEF TicketSound, Waiting, InEffect, Never
  <2>2. CASE u # t
    BY <1>3, <1>4, <1>5, <2>2, TicketStays
  <2> QED BY <2>1, <2>2
<1> QED BY <1>2, <1>4, <1>5, <1>6 DEF AllTicketsSound

\* A reservation gives the waiting tickets an epoch above every earlier one.
LEMMA ReservedSound ==
  ASSUME Inv, NEW t \in Ticket, NEW S \in SUBSET Open, Reservable(t, S), UNCHANGED <<journal, generation>>,
         ticket' = Reserved(S) \/ ticket' = [Reserved(S) EXCEPT ![t].state = "awaiting"]
  PROVE  /\ Progress /\ AllTicketsSound'
         /\ \A u \in Ticket : ticket'[u] = ticket[u] \/ ticket[u].state \in {"none", "queued"}
<1> USE DEF Inv
<1>1. /\ ticket \in [Ticket -> Tickets] /\ MaxEpoch \in Nat /\ S \in SUBSET Ticket /\ generation \in Nat
      /\ t \in S /\ \A u \in S : ticket[u].state = "queued"
  BY OpenFits, HighestEpoch DEF Typed, QueueTyped, TargetTyped, Reservable
<1>2. /\ \A u \in S : /\ ticket'[u].state \in {"revalidating", "awaiting"} /\ ticket'[u].epoch = MaxEpoch + 1
                      /\ ticket'[u].batch = ticket[u].batch
      /\ \A u \in Ticket \ S : ticket'[u] = ticket[u]
  <2> DEFINE R == Reserved(S)
  <2>1. R \in [Ticket -> Tickets]
    BY <1>1, TicketsFit DEF Typed
  <2>2. \A u \in Ticket : R[u] = IF u \in S THEN [ticket[u] EXCEPT !.state = "revalidating", !.epoch = MaxEpoch + 1]
                                  ELSE ticket[u]
    BY DEF Reserved
  <2>3. \A u \in S : R[u].state = "revalidating" /\ R[u].epoch = MaxEpoch + 1 /\ R[u].batch = ticket[u].batch
    BY <1>1, <2>2 DEF Tickets
  <2> HIDE DEF R
  <2>4. CASE ticket' = R
    BY <1>1, <2>2, <2>3, <2>4
  <2>5. CASE ticket' = [R EXCEPT ![t].state = "awaiting"]
    <3>1. ticket'[t].state = "awaiting" /\ ticket'[t].epoch = R[t].epoch /\ ticket'[t].batch = R[t].batch
      BY <1>1, <2>1, <2>5 DEF Tickets
    <3>2. \A u \in Ticket \ {t} : ticket'[u] = R[u]
      BY <2>1, <2>5
    <3> QED BY <1>1, <2>2, <2>3, <3>1, <3>2
  <2> QED BY <2>4, <2>5 DEF R
<1>3. Progress
  <2>1. \A u \in Ticket : /\ ticket'[u].state = "none" <=> ticket[u].state = "none"
                          /\ ticket[u].state \in Closed => ticket'[u].state \in Closed
    BY <1>1, <1>2 DEF Closed
  <2> QED BY <2>1, NoNewTicket DEF AllTicketsSound
<1>4. ASSUME NEW u \in Ticket PROVE TicketSound(u)'
  <2>1. CASE u \in S
    <3>1. Never(u)' /\ ~ticket[u].batch
      BY <1>1, <2>1 DEF TicketSound, Never
    <3> QED BY <1>1, <1>2, <2>1, <3>1 DEF TicketSound, Waiting, InEffect, Never
  <2>2. CASE u \notin S
    BY <1>1, <1>2, <1>3, <2>2, TicketStays
  <2> QED BY <2>1, <2>2
<1> QED BY <1>1, <1>2, <1>3, <1>4 DEF AllTicketsSound

\* A rollback starts with the plan of an adoption the journal has as applied.
LEMMA StartRollbackSound ==
  ASSUME Inv, NEW t \in Ticket, ticket[t].state = "queued", IsRollback(t), StartRollback(t),
         UNCHANGED <<journal, generation>>
  PROVE  /\ Progress /\ AllTicketsSound'
         /\ \A u \in Ticket : ticket'[u] = ticket[u] \/ ticket[u].state \in {"none", "queued"}
         /\ \A d \in Command : plan'[d] = plan[d] \/ NewPlan(d)
<1> USE DEF Inv
<1>1. PICK S \in SUBSET Open : Reservable(t, S) /\ ticket' = [Reserved(S) EXCEPT ![t].state = "awaiting"]
  BY DEF StartRollback
<1>2. /\ Progress /\ AllTicketsSound'
      /\ \A u \in Ticket : ticket'[u] = ticket[u] \/ ticket[u].state \in {"none", "queued"}
  BY <1>1, ReservedSound
<1>3. t \in Command /\ plan \in [Command -> Plans] /\ ticket[t].undoes \in Ticket
      /\ plan' = [plan EXCEPT ![t] = Rollback(ticket[t].undoes)]
  BY DEF Command, Typed, TargetTyped, QueueTyped, Tickets, IsRollback, StartRollback
<1>4. NewPlan(t)
  <2>1. Never(t) /\ call[t].at = "idle"
    BY NotBegun
  <2>2. journal[ticket[t].undoes].state = "applied"
    BY <1>3 DEF StartRollback, Reversible, TicketSound
  <2>3. plan'[t] = Rollback(ticket[t].undoes) /\ plan'[t].of = ticket[t].undoes
    BY <1>3 DEF Rollback
  <2> QED BY <1>3, <2>1, <2>2, <2>3 DEF NewPlan, Maybe, Command
<1> QED BY <1>2, <1>3, <1>4

\* Steps that write no ticket and no plan, and leave the target alone.
LEMMA StillStory ==
  ASSUME Inv, UNCHANGED <<moves, journal, call, orphans, generation, plan, ticket>>, work.at # "adopt"
  PROVE  Story' /\ AllTicketsSound' /\ Progress
<1> USE DEF Inv
<1>1. Typed /\ generation \in Nat /\ ticket' \in [Ticket -> Tickets]
  BY DEF Typed, TargetTyped, QueueTyped
<1>2. Story'
  BY <1>1, QueueStory DEF Outlives
<1>3. Progress
  BY NoNewTicket DEF AllTicketsSound
<1> QED BY <1>1, <1>2, <1>3, TicketStays DEF AllTicketsSound

\* What people ask of the queue keeps the invariant.
LEMMA AskInv ==
  ASSUME Inv, Typed', Ask \/ Requested
  PROVE  Story' /\ AllTicketsSound' /\ WorkSound' /\ ServiceSound' /\ Progress
<1> USE DEF Inv
<1>1. CASE Enqueue
  BY <1>1, AdmitSound, BeginningInv DEF Enqueue, targetVars, Admit
<1>2. ASSUME NEW a \in asked, EnqueueRollback(a)
      PROVE  Story' /\ AllTicketsSound' /\ WorkSound' /\ ServiceSound' /\ Progress
  BY <1>2, AdmitSound, BeginningInv DEF EnqueueRollback, targetVars, Admit
<1>3. ASSUME NEW t \in Ticket, InitRollback(t)
      PROVE  Story' /\ AllTicketsSound' /\ WorkSound' /\ ServiceSound' /\ Progress
  BY <1>3, StartRollbackSound, BeginningInv DEF InitRollback
<1>4. ASSUME NEW s \in Ticket, AskRollback(s)
      PROVE  Story' /\ AllTicketsSound' /\ WorkSound' /\ ServiceSound' /\ Progress
  <2>1. /\ service = "up" /\ Progress
        /\ UNCHANGED <<moves, journal, call, orphans, generation, work, service, card, ticket, snap, plan>>
    BY <1>4, NoNewTicket DEF AskRollback, targetVars, AllTicketsSound
  <2>2. AllTicketsSound'
    BY <2>1, TicketStays DEF AllTicketsSound, Typed, TargetTyped
  <2> QED BY <2>1, <2>2, BeginningInv
<1>5. CASE Confirm
  <2>1. PICK S \in SUBSET Open : Confirmable(S) /\ card' = [items |-> S, epoch |-> ticket[Least(S)].epoch]
    BY <1>5 DEF Confirm
  <2>2. UNCHANGED <<moves, journal, call, orphans, generation, plan, ticket, work, service, snap>>
        /\ work.at = "free" /\ service = "up"
    BY <1>5 DEF Confirm, targetVars
  <2>3. Story' /\ AllTicketsSound' /\ Progress
    BY <2>2, StillStory
  <2>4. WorkSound'
    BY <2>2, <2>3, WorkStays
  <2>5. Prefix(card.items)'
    BY <2>1, <2>2 DEF Prefix, Before, Open, Confirmable
  <2>6. ServiceSound'
    BY <2>1, <2>2, <2>5 DEF ServiceSound, Confirmable
  <2> QED BY <2>3, <2>4, <2>6
<1>6. CASE Execute
  <2>1. /\ UNCHANGED <<moves, journal, call, orphans, generation, plan, ticket, service, snap>>
        /\ work.at = "free" /\ service = "up" /\ card' = NoCard /\ card # NoCard
        /\ work' = Doing("validate", "request", Rows(card.items), Least(card.items), card.epoch)
    BY <1>6 DEF Execute, targetVars
  <2>2. Story' /\ AllTicketsSound' /\ Progress
    BY <2>1, StillStory
  <2>3. card.items \in SUBSET Ticket /\ card.items # {} /\ Prefix(card.items)
    BY <2>1 DEF ServiceSound, Typed, QueueTyped
  <2>4. /\ work'.at = "validate" /\ work'.prev = 0 /\ work'.t = Least(card.items) /\ DOMAIN work'.rows = card.items
        /\ Least(card.items) \in card.items /\ \A u \in card.items : Least(card.items) <= u
        /\ Ticket \subseteq Nat
    BY <2>1, <2>3, LeastTicket, RowsFit, TicketsAreOrdinals DEF Doing, Typed, QueueTyped
  <2>5. Prefix(card.items)'
    BY <2>1, <2>3 DEF Prefix, Before, Open, NoCard
  <2>6. \A u \in card.items : ticket'[u].state # "none" /\ Before(Open, u)' \subseteq card.items
    BY <2>1, <2>3 DEF Prefix, Before, Open
  <2>7. Prefix(DOMAIN work.rows)'
    BY <2>4, <2>6 DEF Prefix, Before
  <2>8. WorkSound'
    BY <2>3, <2>4, <2>7 DEF WorkSound, DriveAt, ExecuteAt, EffectAt, ReconcileAt
  <2>9. ServiceSound'
    BY <2>1, <2>5 DEF ServiceSound, NoCard, Prefix
  <2> QED BY <2>2, <2>8, <2>9
<1> QED BY <1>1, <1>2, <1>3, <1>4, <1>5, <1>6 DEF Ask, Requested

\* The lock is taken: whoever holds it starts with these facts.
LEMMA LockTaken ==
  ASSUME Inv, HasLock, UNCHANGED <<card, service>>, Progress
  PROVE  ServiceSound' /\ First \in Ticket /\ First \in DOMAIN snap /\ snap[First] \in Tickets
<1> USE DEF Inv
<1>1. First \in Ticket /\ First \in DOMAIN snap /\ snap[First] \in Tickets
  BY SnapFacts DEF HasLock, Typed
<1>2. DOMAIN snap' = {} /\ service = "up"
  BY NoRowsFit DEF HasLock
<1>3. ServiceSound'
  BY <1>2, ServiceStays
<1> QED BY <1>1, <1>3

\* A turn of the service (queue-service.ts) keeps the invariant.
LEMMA TurnInv ==
  ASSUME Inv, Typed', Turn
  PROVE  Story' /\ AllTicketsSound' /\ WorkSound' /\ ServiceSound' /\ Progress
<1> USE DEF Inv
<1>1. CASE Snapshot
  <2>1. /\ UNCHANGED <<moves, journal, call, orphans, generation, plan, ticket, work, service, card>>
        /\ service = "up" /\ snap' = Rows(Open) /\ Progress
    BY <1>1, NoNewTicket DEF Snapshot, targetVars, AllTicketsSound
  <2>2. AllTicketsSound'
    BY <2>1, TicketStays DEF AllTicketsSound, Typed, TargetTyped
  <2>3. Story'
    <3>1. generation \in Nat /\ ticket' \in [Ticket -> Tickets]
      BY DEF Typed, TargetTyped, QueueTyped
    <3> QED BY <2>1, <3>1, QueueStory DEF Outlives
  <2>4. WorkSound'
    BY <2>1, WorkStays
  <2>5. ServiceSound'
    <3>1. DOMAIN snap' = Open /\ \A t \in Open : snap'[t] = ticket[t]
      BY <2>1, RowsFit, OpenFits DEF Typed, QueueTyped
    <3>2. Prefix(card.items)'
      BY <2>1, PrefixStays DEF Typed, QueueTyped, ServiceSound
    <3> QED BY <2>1, <3>1, <3>2 DEF ServiceSound, NoCard
  <2> QED BY <2>1, <2>2, <2>3, <2>4, <2>5
<1>2. CASE TurnReconciles
  <2>1. /\ UNCHANGED <<moves, journal, call, orphans, generation, plan, ticket, service, card>>
        /\ work.at = "free" /\ HasLock /\ snap[First].state = "reconciling"
        /\ work' = Doing("refence", "turn", snap, First, snap[First].epoch)
    BY <1>2 DEF TurnReconciles, TurnUnchanged, HasLock
  <2>2. Story' /\ AllTicketsSound' /\ Progress
    BY <2>1, StillStory
  <2>3. ServiceSound' /\ First \in Ticket /\ First \in DOMAIN snap
    BY <2>1, <2>2, LockTaken
  <2>4. ticket[First].epoch = snap[First].epoch /\ ticket[First].state \in {"reconciling", "parked", "adopted"}
    BY <2>1, <2>3 DEF ServiceSound
  <2>5. \A o \in orphans : o.cmd = First => o.epoch < snap[First].epoch
    BY <2>3, <2>4 DEF Story, OrphanSound
  <2>6. work'.at = "refence" /\ work'.t = First /\ work'.epoch = snap[First].epoch
    BY <2>1 DEF Doing
  <2>7. WorkSound'
    BY <2>1, <2>3, <2>4, <2>5, <2>6 DEF WorkSound, DriveAt, ExecuteAt, EffectAt, ReconcileAt
  <2> QED BY <2>2, <2>3, <2>7
<1>3. CASE TurnDrives
  <2>1. /\ UNCHANGED <<moves, journal, call, orphans, generation, plan, ticket, service, card>>
        /\ work.at = "free" /\ HasLock
        /\ work' = Doing("drive", "turn", snap, First, snap[First].epoch)
    BY <1>3 DEF TurnDrives, TurnUnchanged, HasLock
  <2>2. Story' /\ AllTicketsSound' /\ Progress
    BY <2>1, StillStory
  <2>3. ServiceSound' /\ First \in DOMAIN snap
    BY <2>1, <2>2, LockTaken
  <2>4. WorkSound'
    BY <2>1, <2>3 DEF Doing, WorkSound, DriveAt, ExecuteAt, EffectAt, ReconcileAt
  <2> QED BY <2>2, <2>3, <2>4
<1>4. CASE TurnExpires
  <2>1. /\ UNCHANGED <<moves, journal, call, orphans, generation, plan, work, service, card>>
        /\ service = "up" /\ HasLock /\ ticket[First].state = "queued" /\ Enters(First, "expired")
        /\ DOMAIN snap' = {}
    BY <1>4, NoRowsFit DEF TurnExpires, TurnUnchanged, HasLock
  <2>2. First \in Ticket
    BY <2>1, SnapFacts DEF HasLock, Typed
  <2>3. /\ ticket'[First].state = "expired" /\ \A u \in Ticket \ {First} : ticket'[u] = ticket[u]
        /\ ticket'[First].epoch = ticket[First].epoch /\ ticket'[First].batch = ticket[First].batch
    BY <2>1, <2>2 DEF Enters, Typed, QueueTyped, Tickets
  <2>4. Progress
    <3>1. \A u \in Ticket : /\ ticket'[u].state = "none" <=> ticket[u].state = "none"
                            /\ ticket[u].state \in Closed => ticket'[u].state \in Closed
      BY <2>1, <2>2, <2>3 DEF Closed
    <3> QED BY <3>1, NoNewTicket DEF AllTicketsSound
  <2>5. AllTicketsSound'
    <3>1. ASSUME NEW u \in Ticket, u = First PROVE TicketSound(u)'
      BY <2>1, <2>3, <3>1 DEF TicketSound, Waiting, InEffect, Never
    <3>2. ASSUME NEW u \in Ticket, u # First PROVE TicketSound(u)'
      BY <2>1, <2>3, <2>4, <3>2, TicketStays DEF Typed, TargetTyped
    <3> QED BY <3>1, <3>2 DEF AllTicketsSound
  <2>6. \A u \in Ticket : ticket'[u] = ticket[u] \/ ticket[u].state \in {"none", "queued"}
    BY <2>1, <2>3
  <2> QED BY <2>1, <2>4, <2>5, <2>6, BeginningInv
<1>5. CASE TurnReserves
  <2>1. PICK S \in SUBSET Open :
          /\ Reservable(First, S) /\ ticket' = Reserved(S)
          /\ work' = Doing("drive", "turn", [u \in S |-> ticket'[u]], First, MaxEpoch + 1)
    BY <1>5 DEF TurnReserves
  <2>2. /\ UNCHANGED <<moves, journal, call, orphans, generation, plan, service, card>>
        /\ work.at = "free" /\ HasLock /\ First \in Ticket
    BY <1>5, SnapFacts DEF TurnReserves, TurnUnchanged, HasLock, Typed
  <2>3. /\ Progress /\ AllTicketsSound'
        /\ \A u \in Ticket : ticket'[u] = ticket[u] \/ ticket[u].state \in {"none", "queued"}
    BY <2>1, <2>2, ReservedSound
  <2>4. Story'
    <3>1. \A u \in Ticket : Outlives(u)
      BY <2>3, NotBegun DEF Outlives
    <3>2. Typed /\ generation \in Nat /\ ticket' \in [Ticket -> Tickets]
      BY DEF Typed, TargetTyped, QueueTyped
    <3> QED BY <2>2, <3>1, <3>2, QueueStory
  <2>5. ServiceSound'
    BY <2>2, <2>3, LockTaken
  <2>6. WorkSound'
    BY <2>1 DEF Doing, WorkSound, DriveAt, ExecuteAt, EffectAt, ReconcileAt, Reservable
  <2> QED BY <2>3, <2>4, <2>5, <2>6
<1>6. CASE TurnStartsRollback
  <2>1. /\ UNCHANGED <<moves, journal, call, orphans, generation, work, service, card>>
        /\ service = "up" /\ HasLock /\ IsRollback(First) /\ StartRollback(First) /\ DOMAIN snap' = {}
    BY <1>6, NoRowsFit DEF TurnStartsRollback, TurnUnchanged, HasLock
  <2>2. First \in Ticket
    BY <2>1, SnapFacts DEF HasLock, Typed
  <2>3. ticket[First].state = "queued"
    BY <2>1 DEF StartRollback, Reservable
  <2> QED BY <2>1, <2>2, <2>3, StartRollbackSound, BeginningInv
<1>7. CASE TurnIdles
  <2>1. /\ UNCHANGED <<moves, journal, call, orphans, generation, plan, ticket, work, service, card>>
        /\ service = "up" /\ DOMAIN snap' = {}
    BY <1>7, NoRowsFit DEF TurnIdles, TurnUnchanged
  <2>2. Progress
    BY <2>1, NoNewTicket DEF AllTicketsSound
  <2>3. AllTicketsSound'
    BY <2>1, <2>2, TicketStays DEF AllTicketsSound, Typed, TargetTyped
  <2> QED BY <2>1, <2>2, <2>3, BeginningInv
<1> QED BY <1>1, <1>2, <1>3, <1>4, <1>5, <1>6, <1>7 DEF Turn

----------------------------------------------------------------------------
(* The driver: tickets on their way to a confirmation                      *)

\* While somebody drives or executes, the service is up.
LEMMA BusyService ==
  ASSUME Inv, work.at \in DriveAt \cup ExecuteAt, service # "down"
  PROVE  service = "up"
<1>1. service = "starting" => FALSE
  BY DEF Inv, ServiceSound, DriveAt, ExecuteAt, EffectAt, ReconcileAt
<1> QED BY <1>1 DEF Inv, Typed, QueueTyped

\* A waiting ticket waits on, parks or is refused.
Drifts(u) ==
  /\ ticket[u].state \in Waiting /\ ticket'[u].state \in Waiting \cup {"parked", "refused"}
  /\ ticket'[u].epoch = ticket[u].epoch /\ ticket'[u].batch = ticket[u].batch

\* Waiting tickets that move on, park or are refused leave the rest as it is.
LEMMA DriftInv ==
  ASSUME Inv, Typed', work.at \in DriveAt, service = "up",
         UNCHANGED <<moves, journal, call, orphans, generation, snap, service, card>>,
         \A u \in Ticket : ticket'[u] = ticket[u] \/ Drifts(u),
         \A d \in Command : plan'[d] = plan[d] \/ NewPlan(d)
  PROVE  Story' /\ AllTicketsSound' /\ ServiceSound' /\ Progress
<1> USE DEF Inv
<1>1. generation \in Nat /\ generation' \in Nat /\ ticket' \in [Ticket -> Tickets]
  BY DEF Typed, TargetTyped, QueueTyped
<1>2. Progress
  <2>1. \A u \in Ticket : /\ ticket'[u].state = "none" <=> ticket[u].state = "none"
                          /\ ticket[u].state \in Closed => ticket'[u].state \in Closed
    BY DEF Drifts, Waiting, Closed
  <2> QED BY <2>1, NoNewTicket DEF AllTicketsSound
<1>3. ASSUME NEW u \in Ticket PROVE TicketSound(u)'
  <2>1. CASE ticket'[u] = ticket[u]
    BY <1>1, <1>2, <2>1, TicketStays
  <2>2. CASE Drifts(u)
    BY <2>2 DEF Drifts, TicketSound, Waiting, InEffect, Never
  <2> QED BY <2>1, <2>2
<1>4. Story'
  <2>1. \A u \in Ticket : Outlives(u)
    BY NotBegun DEF Outlives, Drifts
  <2>2. work.at # "adopt"
    BY DEF DriveAt
  <2> QED BY <1>1, <2>1, <2>2, QueueStory
<1>5. ServiceSound'
  <2>1. \A u \in DOMAIN snap' : ticket[u].state \in {"reconciling", "parked", "adopted"} =>
          ticket'[u].epoch = ticket[u].epoch /\ ticket'[u].state \in {"reconciling", "parked", "adopted"}
    BY RowsAre DEF Typed, QueueTyped, Drifts, Waiting
  <2> QED BY <1>2, <2>1, ServiceStays
<1> QED BY <1>2, <1>3, <1>4, <1>5 DEF AllTicketsSound

\* What the driver's writes do to the tickets.
LEMMA DriverWrites ==
  ASSUME Inv, work.t \in Ticket
  PROVE  /\ \A t : ticket' = Parked(Suffix(work.rows, t)) =>
              \A u \in Ticket : ticket'[u] = ticket[u] \/ Drifts(u)
         /\ \A s \in {"verifying", "awaiting"} : Row.state \in Waiting /\ Advances(s) =>
              \A u \in Ticket : ticket'[u] = ticket[u] \/ Drifts(u)
         /\ \A s \in {"parked", "refused"} : Row.state \in Waiting /\ Gives(s) =>
              \A u \in Ticket : ticket'[u] = ticket[u] \/ Drifts(u)
<1>1. ticket \in [Ticket -> Tickets]
  BY DEF Inv, Typed, QueueTyped
<1>2. ASSUME NEW t, NEW u \in Ticket
      PROVE  LET parked == Parked(Suffix(work.rows, t))
             IN  /\ parked \in [Ticket -> Tickets]
                 /\ parked[u] = ticket[u]
                    \/ /\ ticket[u].state \in Waiting /\ parked[u].state = "parked"
                       /\ parked[u].epoch = ticket[u].epoch /\ parked[u].batch = ticket[u].batch
  <2>1. Suffix(work.rows, t) \in SUBSET Ticket
    BY SuffixFits DEF Inv, Typed
  <2>2. Parked(Suffix(work.rows, t)) \in [Ticket -> Tickets]
    BY <2>1, TicketsFit DEF Inv, Typed
  <2>3. u \in Suffix(work.rows, t) => ticket[u].state \in Waiting
    BY DEF Suffix
  <2> QED BY <1>1, <2>2, <2>3 DEF Parked, Tickets
<1>3. ASSUME NEW t, NEW u \in Ticket, ticket' = Parked(Suffix(work.rows, t))
      PROVE  ticket'[u] = ticket[u] \/ Drifts(u)
  BY <1>2, <1>3 DEF Drifts
<1>4. ASSUME NEW s \in {"verifying", "awaiting"}, Row.state \in Waiting, Advances(s), NEW u \in Ticket
      PROVE  ticket'[u] = ticket[u] \/ Drifts(u)
  <2>1. ticket[work.t].state \in Waiting /\ ticket' = [ticket EXCEPT ![work.t].state = s]
    BY <1>4 DEF Advances, Current, Enters
  <2>2. ticket'[work.t].state = s /\ ticket'[work.t].epoch = ticket[work.t].epoch
        /\ ticket'[work.t].batch = ticket[work.t].batch
    BY <1>1, <2>1 DEF Tickets
  <2>3. u # work.t => ticket'[u] = ticket[u]
    BY <1>1, <2>1
  <2>4. s \in Waiting
    BY DEF Waiting
  <2> QED BY <2>1, <2>2, <2>3, <2>4 DEF Drifts
<1>5. ASSUME NEW s \in {"parked", "refused"}, Row.state \in Waiting, Gives(s), NEW u \in Ticket
      PROVE  ticket'[u] = ticket[u] \/ Drifts(u)
  <2> DEFINE parked == Parked(Suffix(work.rows, work.t + 1))
  <2>1. ticket[work.t].state \in Waiting /\ ticket' = [parked EXCEPT ![work.t].state = s]
    BY <1>5 DEF Gives, Current
  <2>2. parked \in [Ticket -> Tickets]
    BY <1>2
  <2>3. \A v \in Ticket : parked[v] = ticket[v]
                    \/ /\ ticket[v].state \in Waiting /\ parked[v].state = "parked"
                       /\ parked[v].epoch = ticket[v].epoch /\ parked[v].batch = ticket[v].batch
    BY <1>2
  <2> HIDE DEF parked
  <2>4. ticket'[work.t].state = s /\ ticket'[work.t].epoch = parked[work.t].epoch
        /\ ticket'[work.t].batch = parked[work.t].batch
    BY <2>1, <2>2 DEF Tickets
  <2>5. u # work.t => ticket'[u] = parked[u]
    BY <2>1, <2>2
  <2> QED BY <2>1, <2>3, <2>4, <2>5 DEF Drifts
<1> QED BY <1>3, <1>4, <1>5

\* The driver (prepare, verify, evidence) keeps the invariant.
LEMMA DriveInv ==
  ASSUME Inv, Typed', Drive
  PROVE  Story' /\ AllTicketsSound' /\ WorkSound' /\ ServiceSound' /\ Progress
<1> USE DEF Inv, DriveUnchanged
<1>1. /\ work.at \in DriveAt /\ service # "down"
      /\ UNCHANGED <<moves, journal, call, orphans, generation, snap, service, card>>
  BY DEF Drive, DriveStops, DriveLate, Driven, DriveOn, Prepare, AdmitVerification, Evidence, Is, DriveAt
<1>2. /\ work.t \in Ticket /\ work.t \in DOMAIN work.rows /\ service = "up" /\ work \in WorkKinds
      /\ work.rows \in RowSets /\ (Following # {} => Least(Following) \in Following)
  BY <1>1, WorkFacts, BusyService DEF Typed, QueueTyped
<1>3. /\ work.at = "prepare" => Row.state = "revalidating"
      /\ work.at \in {"admit", "evidence"} => Row.state = "verifying"
  BY DEF WorkSound
<1>4. ASSUME \A u \in Ticket : ticket'[u] = ticket[u] \/ Drifts(u),
             \A d \in Command : plan'[d] = plan[d] \/ NewPlan(d)
      PROVE  Story' /\ AllTicketsSound' /\ ServiceSound' /\ Progress
  BY <1>1, <1>2, <1>4, DriftInv
<1>5. \A u \in Ticket : ticket'[u] = ticket[u] \/ Drifts(u)
  <2>1. CASE UNCHANGED ticket
    BY <2>1
  <2>2. CASE ticket' = Parked(Suffix(work.rows, work.t))
    BY <1>2, <2>2, DriverWrites
  <2>3. CASE Is("prepare") /\ (Advances("verifying") \/ Gives("refused"))
    BY <1>2, <1>3, <2>3, DriverWrites DEF Is, Waiting
  <2>4. CASE Is("admit") /\ Gives("parked")
    BY <1>2, <1>3, <2>4, DriverWrites DEF Is, Waiting
  <2>5. CASE Is("evidence") /\ (Gives("refused") \/ Advances("awaiting"))
    BY <1>2, <1>3, <2>5, DriverWrites DEF Is, Waiting
  <2> QED BY <2>1, <2>2, <2>3, <2>4, <2>5
          DEF Drive, DriveStops, DriveLate, Driven, DriveOn, Prepare, AdmitVerification, Evidence
<1>6. \A d \in Command : plan'[d] = plan[d] \/ NewPlan(d)
  <2>1. CASE UNCHANGED plan
    BY <2>1
  <2>2. CASE Is("prepare") /\ Current /\ plan' = [plan EXCEPT ![work.t] = Candidate]
    <3>1. ticket[work.t].state = "revalidating" /\ work.t \in Command /\ plan \in [Command -> Plans]
      BY <1>2, <1>3, <2>2 DEF Is, Current, Command, Typed, TargetTyped
    <3>2. Never(work.t) /\ call[work.t].at = "idle"
      BY <1>2, <3>1, NotBegun DEF Waiting
    <3>3. Candidate.of \in {Nobody, work.t}
      BY DEF Candidate, Adoption
    <3>4. NewPlan(work.t)
      BY <1>2, <2>2, <3>1, <3>2, <3>3 DEF NewPlan, Maybe
    <3> QED BY <2>2, <3>1, <3>4
  <2> QED BY <2>1, <2>2 DEF Drive, DriveStops, DriveLate, DriveOn, Prepare, AdmitVerification, Evidence, Advances
<1>7. WorkSound'
  <2> USE DEF DriveAt, ExecuteAt, EffectAt, ReconcileAt
  <2>1. CASE Leaves
    BY <2>1 DEF Leaves, Free, Doing, WorkSound
  <2>2. CASE work' = Onward
    <3>1. CASE Following = {}
      BY <2>2, <3>1 DEF Onward, Free, Doing, WorkSound
    <3>2. CASE Following # {}
      <4>1. /\ work'.at = "drive" /\ work'.rows = work.rows /\ work'.t = Least(Following)
            /\ Least(Following) \in DOMAIN work.rows
        BY <1>2, <2>2, <3>2 DEF Onward, Following, WorkKinds
      <4> QED BY <4>1 DEF WorkSound
    <3> QED BY <3>1, <3>2
  <2>3. CASE \/ Works("prepare") /\ Row.state = "revalidating"
             \/ Works("evidence") /\ Row.state = "verifying"
    <3>1. work'.rows = work.rows /\ work'.t = work.t
      BY <1>2, <2>3 DEF Works, WorkKinds
    <3>2. \/ work'.at = "prepare" /\ Row.state = "revalidating"
          \/ work'.at = "evidence" /\ Row.state = "verifying"
      BY <1>2, <2>3 DEF Works, WorkKinds
    <3> QED BY <1>2, <3>1, <3>2 DEF WorkSound, Row
  <2>4. CASE work' = [work EXCEPT !.at = "admit", !.rows[work.t].state = "verifying"]
    <3>1. /\ work'.at = "admit" /\ work'.t = work.t
          /\ work'.rows = [work.rows EXCEPT ![work.t].state = "verifying"]
      BY <1>2, <2>4 DEF WorkKinds
    <3>2. work.rows[work.t] \in Tickets
      BY <1>2, RowsAre
    <3>3. work.t \in DOMAIN work'.rows /\ work'.rows[work.t].state = "verifying"
      <4>1. PICK S \in SUBSET Ticket : work.rows \in [S -> Tickets]
        BY <1>2 DEF RowSets
      <4> QED BY <1>2, <3>1, <3>2, <4>1 DEF Tickets
    <3> QED BY <3>1, <3>3 DEF WorkSound, Row
  <2>5. CASE DriveOn
    BY <2>2, <2>3, <2>5 DEF DriveOn
  <2>6. CASE Evidence
    BY <2>1, <2>2, <2>6 DEF Evidence, Gives
  <2>7. CASE AdmitVerification
    BY <1>3, <2>1, <2>3, <2>7 DEF AdmitVerification, Gives, Is
  <2>8. CASE Prepare
    BY <2>1, <2>4, <2>8 DEF Prepare, Gives
  <2>9. CASE DriveStops \/ DriveLate
    BY <2>1, <2>9 DEF DriveStops, DriveLate
  <2> QED BY <2>5, <2>6, <2>7, <2>8, <2>9 DEF Drive
<1> QED BY <1>4, <1>5, <1>6, <1>7

----------------------------------------------------------------------------
(* The executor: a confirmed ticket and its effect                         *)

\* Calls go on under the executor that made them, or end.
LEMMA CallsEndStory ==
  ASSUME Typed, Typed', Story, UNCHANGED <<moves, journal, plan, generation>>,
         \A d \in Command : \/ call'[d] = Idle
                            \/ /\ call'[d] = call[d]
                               /\ d \in Ticket /\ call[d].at # "idle" => work'.at = "adopt" /\ work'.t = d,
         \A o \in orphans' : o \in orphans \/ OrphanSound(o)',
         \A u \in Ticket : Outlives(u)
  PROVE  Story'
<1> USE DEF Typed
<1>1. Keeps /\ JournalMatchesFence
  BY QuietKeeps DEF Story
<1>2. ASSUME NEW d \in Command PROVE CallSound(d)' /\ PlanSound(d)'
  <2>1. CallSound(d)'
    <3>1. CASE call'[d] = Idle
      BY <3>1 DEF CallSound, Idle, Known
    <3>2. CASE call'[d] # Idle
      BY <1>1, <3>2, CallStays DEF Story
    <3> QED BY <3>1, <3>2
  <2>2. call'[d].at # "idle" => call[d].at # "idle"
    BY DEF Idle
  <2>3. PlanSound(d)'
    BY <1>1, <2>2, PlanStays DEF Story, Never
  <2> QED BY <2>1, <2>3
<1>3. ASSUME NEW o \in orphans' PROVE OrphanSound(o)'
  <2>1. CASE o \in orphans
    <3>1. o \in Orphans /\ OrphanSound(o) /\ generation \in Nat /\ ticket' \in [Ticket -> Tickets]
      BY <2>1 DEF TargetTyped, QueueTyped, Story
    <3>2. o.cmd \in Ticket => \/ o.epoch < ticket'[o.cmd].epoch
                              \/ ticket'[o.cmd].state = "adopting" /\ o.epoch = ticket'[o.cmd].epoch
      BY <2>1, <3>1, OrphansOutlived
    <3> QED BY <1>1, <3>1, <3>2, OrphanStays
  <2> QED BY <2>1
<1>4. \A d \in Direct : journal'[d].state # "released"
  BY DEF Story
<1> QED BY <1>1, <1>2, <1>3, <1>4 DEF Story, Keeps

\* The ticket under execution is the first open one, unless it has ended.
LEMMA ExecutedIsHead ==
  ASSUME Inv, work.at \in ExecuteAt, work.t \in Open
  PROVE  IsHead(work.t)
<1>1. /\ work.t \in DOMAIN work.rows /\ Prefix(DOMAIN work.rows) /\ Open \subseteq Nat
      /\ \A u \in Open \cap DOMAIN work.rows : u >= work.t
  BY TicketsAreOrdinals DEF Inv, WorkSound, Open
<1>2. ASSUME NEW u \in Open PROVE work.t <= u
  <2>1. CASE u < work.t
    <3>1. u \in DOMAIN work.rows
      BY <1>1, <1>2, <2>1 DEF Prefix, Before
    <3>2. u >= work.t /\ u \in Nat /\ work.t \in Nat
      BY <1>1, <3>1
    <3> QED BY <2>1, <3>2
  <2>2. CASE ~(u < work.t)
    <3>1. u \in Nat /\ work.t \in Nat
      BY <1>1
    <3> QED BY <2>2, <3>1
  <2> QED BY <2>1, <2>2
<1> QED BY <1>2 DEF IsHead

\* One ticket goes on within its effect, or ends by it.
LEMMA EffectSound ==
  ASSUME Inv, Typed', NEW t \in Ticket, service = "up", UNCHANGED <<journal, snap, service, card>>,
         generation <= generation', \A u \in Ticket \ {t} : ticket'[u] = ticket[u],
         \/ ticket'[t] = ticket[t]
         \/ /\ ticket[t].state \in {"awaiting", "publishing", "adopting"} /\ IsHead(t)
            /\ ticket'[t].state \in InEffect \cup {"adopted"} /\ ticket[t].epoch = ticket'[t].epoch
            /\ ticket'[t].state \in InEffect => ticket'[t].batch
            /\ ticket'[t].state = "adopted" => journal[t].state = "applied"
  PROVE  Progress /\ AllTicketsSound' /\ ServiceSound'
<1> USE DEF Inv
<1>1. generation \in Nat /\ generation' \in Nat /\ ticket \in [Ticket -> Tickets]
  BY DEF Typed, TargetTyped, QueueTyped
<1>2. Progress
  <2>1. \A u \in Ticket : /\ ticket'[u].state = "none" <=> ticket[u].state = "none"
                          /\ ticket[u].state \in Closed => ticket'[u].state \in Closed
    BY DEF InEffect, Closed
  <2> QED BY <2>1, NoNewTicket DEF AllTicketsSound
<1>3. ASSUME NEW u \in Ticket PROVE TicketSound(u)'
  <2>1. CASE ticket'[u] = ticket[u]
    BY <1>1, <1>2, <2>1, TicketStays
  <2>2. CASE ticket'[u] # ticket[u]
    <3>1. /\ u = t /\ ticket[t].state \in {"awaiting", "publishing", "adopting"} /\ IsHead(t)
          /\ ticket'[t].state \in InEffect \cup {"adopted"} /\ ticket[t].epoch = ticket'[t].epoch
          /\ ticket'[t].state \in InEffect => ticket'[t].batch
          /\ ticket'[t].state = "adopted" => journal[t].state = "applied"
      BY <2>2
    <3>2. ticket'[t].state \in InEffect => IsHead(t)'
      <4>1. ticket'[t].state \in InEffect => t \in Open'
        BY DEF Open, InEffect, Closed
      <4> QED BY <1>2, <3>1, <4>1, HeadStays
    <3>3. ticket'[t].epoch > 0 /\ (~Never(t) => generation' > 0)
      BY <1>1, <3>1 DEF TicketSound, Waiting, InEffect
    <3> QED BY <3>1, <3>2, <3>3 DEF TicketSound, Waiting, InEffect, Never
  <2> QED BY <2>1, <2>2
<1>4. ServiceSound'
  <2>1. \A u \in DOMAIN snap' : ticket[u].state \in {"reconciling", "parked", "adopted"} =>
          ticket'[u].epoch = ticket[u].epoch /\ ticket'[u].state \in {"reconciling", "parked", "adopted"}
    BY RowsAre DEF Typed, QueueTyped
  <2> QED BY <1>2, <2>1, ServiceStays
<1> QED BY <1>2, <1>3, <1>4 DEF AllTicketsSound

\* The executor goes on with the same ticket.
LEMMA ExecutorGoesOn ==
  ASSUME Inv, Progress, work.at \in ExecuteAt, NEW at \in ExecuteAt \ {"validate"}, Works(at),
         ticket'[work.t].epoch = work.epoch,
         at # "fence" => generation' >= work.epoch,
         at \in {"fence", "enter"} => ticket'[work.t].state = "awaiting",
         at = "publish" => ticket'[work.t].state = "publishing",
         at \in {"revalidate", "adopt"} => ticket'[work.t].state = "adopting",
         at = "stop" => ticket'[work.t].state \in {"publishing", "adopting"},
         at \in EffectAt => \A o \in orphans' : o.cmd # work.t
  PROVE  WorkSound'
<1>1. work \in WorkKinds /\ work.t \in DOMAIN work.rows /\ DOMAIN work.rows \in SUBSET Ticket
      /\ Prefix(DOMAIN work.rows)
  BY WorkFacts DEF Inv, Typed, QueueTyped, WorkSound
<1>2. work'.at = at /\ work'.t = work.t /\ work'.epoch = work.epoch /\ work'.rows = work.rows /\ work'.prev = work.prev
  BY <1>1 DEF Works, WorkKinds
<1>3. Prefix(DOMAIN work.rows)'
  BY <1>1, <1>2, PrefixStays
<1>4. \A u \in Open' \cap DOMAIN work.rows : u >= work.t
  <2>1. ASSUME NEW u \in Open' \cap DOMAIN work.rows PROVE u >= work.t
    <3>1. ticket[u].state # "none" /\ u \in Ticket /\ u \in Nat
      BY <1>1, TicketsAreOrdinals DEF Prefix
    <3>2. u \in Open
      BY <3>1 DEF Progress
    <3> QED BY <3>2 DEF Inv, WorkSound
  <2> QED BY <2>1
<1>5. at \notin {"prepare", "admit", "evidence"} \cup ReconcileAt
  BY DEF ExecuteAt, EffectAt, ReconcileAt
<1> QED BY <1>1, <1>2, <1>3, <1>4, <1>5 DEF WorkSound, DriveAt, ExecuteAt, EffectAt, ReconcileAt

\* Nobody needs to know anything who has left the lock.
LEMMA LeavesSound == ASSUME work' = Free PROVE WorkSound'
  BY DEF Free, Doing, WorkSound, DriveAt, ExecuteAt, EffectAt, ReconcileAt

\* Before the effect: the ticket is validated, the target fenced, the effect entered.
LEMMA EnteringInv ==
  ASSUME Inv, Typed', Validate \/ FenceTarget \/ Enter
  PROVE  Story' /\ AllTicketsSound' /\ WorkSound' /\ ServiceSound' /\ Progress
<1> USE DEF Inv, ExecuteUnchanged, Quietly, TargetStays
<1>1. /\ work.at \in {"validate", "fence", "enter"} /\ service # "down" /\ work.at \in ExecuteAt
      /\ UNCHANGED <<moves, journal, call, orphans, plan, snap, service, card>>
  BY DEF Validate, FenceTarget, Enter, Is, ExecuteAt
<1>2. /\ work.t \in Ticket /\ service = "up" /\ generation \in Nat /\ generation' \in Nat
      /\ work.epoch \in Nat /\ ticket \in [Ticket -> Tickets] /\ ticket' \in [Ticket -> Tickets]
      /\ work.at # "adopt"
  BY <1>1, WorkFacts, BusyService DEF Typed, QueueTyped, TargetTyped
<1>3. CASE Validate
  <2>1. UNCHANGED <<ticket, generation>>
    BY <1>3 DEF Validate
  <2>2. Story' /\ Progress /\ AllTicketsSound' /\ ServiceSound'
    BY <1>1, <1>2, <2>1, StillStory, EffectSound
  <2>3. WorkSound'
    <3>1. CASE /\ Confirmed(work.t) /\ Works(IF work.prev = 0 THEN "fence" ELSE "enter")
      <4>1. ticket'[work.t].state = "awaiting" /\ ticket'[work.t].epoch = work.epoch
        BY <2>1, <3>1 DEF Confirmed
      <4>2. work.prev # 0 => generation' >= work.epoch
        BY <1>3, <2>1 DEF Validate, Is, WorkSound
      <4>3. CASE work.prev = 0
        BY <1>1, <2>2, <3>1, <4>1, <4>3, ExecutorGoesOn DEF ExecuteAt, EffectAt
      <4>4. CASE work.prev # 0
        BY <1>1, <2>2, <3>1, <4>1, <4>2, <4>4, ExecutorGoesOn DEF ExecuteAt, EffectAt
      <4> QED BY <4>3, <4>4
    <3>2. CASE Leaves
      BY <3>2, LeavesSound DEF Leaves
    <3> QED BY <1>3, <3>1, <3>2 DEF Validate
  <2> QED BY <2>2, <2>3
<1>4. CASE FenceTarget
  <2>1. UNCHANGED ticket /\ generation <= generation'
    BY <1>2, <1>4 DEF FenceTarget, Fences
  <2>2. Progress /\ AllTicketsSound' /\ ServiceSound'
    BY <1>1, <1>2, <2>1, EffectSound
  <2>3. Story'
    BY <1>1, <1>2, <2>1, QueueStory DEF Outlives
  <2>4. WorkSound'
    <3>1. CASE Fences(work.epoch) /\ Works("enter")
      <4>1. ticket'[work.t].state = "awaiting" /\ ticket'[work.t].epoch = work.epoch
        BY <1>4, <2>1 DEF FenceTarget, Is, WorkSound
      <4>2. generation' >= work.epoch
        BY <1>2, <3>1 DEF Fences
      <4> QED BY <1>1, <2>2, <3>1, <4>1, <4>2, ExecutorGoesOn DEF ExecuteAt, EffectAt
    <3>2. CASE Leaves
      BY <3>2, LeavesSound DEF Leaves
    <3> QED BY <1>4, <3>1, <3>2 DEF FenceTarget
  <2> QED BY <2>2, <2>3, <2>4
<1>5. CASE Enter
  <2>1. CASE Leaves /\ UNCHANGED ticket
    <3>1. UNCHANGED <<ticket, generation>>
      BY <1>5, <2>1 DEF Enter
    <3>2. Story' /\ AllTicketsSound' /\ ServiceSound' /\ Progress
      BY <1>1, <1>2, <3>1, StillStory, EffectSound
    <3> QED BY <2>1, <3>2, LeavesSound DEF Leaves
  <2> DEFINE goal == IF IsRollback(work.t) THEN "adopting" ELSE "publishing"
             at == IF IsRollback(work.t) THEN "adopt" ELSE "publish"
  <2>2. CASE ticket' = [ticket EXCEPT ![work.t].batch = TRUE, ![work.t].state = goal] /\ Works(at)
    <3> goal \in {"adopting", "publishing"} /\ at \in {"adopt", "publish"}
        /\ (at = "adopt" => goal = "adopting") /\ (at = "publish" => goal = "publishing")
      OBVIOUS
    <3> HIDE DEF goal, at
    <3>1. /\ ticket'[work.t].state = goal /\ ticket'[work.t].batch /\ ticket'[work.t].epoch = ticket[work.t].epoch
          /\ \A u \in Ticket \ {work.t} : ticket'[u] = ticket[u]
      BY <1>2, <2>2 DEF Tickets
    <3>2. /\ ticket[work.t].state = "awaiting" /\ ticket[work.t].epoch = work.epoch
          /\ generation >= work.epoch /\ UNCHANGED generation
      BY <1>5 DEF Enter, Is, WorkSound
    <3>3. IsHead(work.t)
      BY <1>1, <1>2, <3>2, ExecutedIsHead DEF Open, Closed
    <3>4. Progress /\ AllTicketsSound' /\ ServiceSound'
      BY <1>1, <1>2, <3>1, <3>2, <3>3, EffectSound DEF InEffect
    <3>5. Never(work.t)
      BY <1>2, <3>2, NotBegun DEF Waiting
    <3>6. \A u \in Ticket : Outlives(u)
      BY <3>1, <3>5 DEF Outlives
    <3>7. Story'
      BY <1>1, <1>2, <3>2, <3>6, QueueStory
    <3>8. \A o \in orphans' : o.cmd # work.t
      BY <1>1, <3>5 DEF Story, OrphanSound
    <3>9. WorkSound'
      BY <1>1, <2>2, <3>1, <3>2, <3>4, <3>8, ExecutorGoesOn DEF ExecuteAt, EffectAt
    <3> QED BY <3>4, <3>7, <3>9
  <2> QED BY <1>5, <2>1, <2>2 DEF Enter
<1> QED BY <1>3, <1>4, <1>5

\* The hand-over to reconciliation, and the next ticket of the batch.
LEMMA StopInv ==
  ASSUME Inv, Typed', Stop
  PROVE  Story' /\ AllTicketsSound' /\ WorkSound' /\ ServiceSound' /\ Progress
<1> USE DEF Inv, ExecuteUnchanged, TargetStays
<1>1. /\ work.at = "stop" /\ service # "down" /\ work.at \in ExecuteAt
      /\ UNCHANGED <<moves, journal, generation, call, orphans, plan, snap, service, card>>
  BY DEF Stop, Is, ExecuteAt, EffectAt
<1>2. /\ work.t \in Ticket /\ service = "up" /\ generation \in Nat /\ work \in WorkKinds
      /\ ticket \in [Ticket -> Tickets] /\ ticket' \in [Ticket -> Tickets] /\ work.at # "adopt"
  BY <1>1, WorkFacts, BusyService DEF Typed, QueueTyped, TargetTyped
<1>3. /\ ticket[work.t].state \in {"publishing", "adopting"} /\ ticket[work.t].epoch = work.epoch
      /\ generation >= work.epoch /\ \A o \in orphans : o.cmd # work.t
  BY <1>1, <1>2 DEF WorkSound, EffectAt, TicketSound, InEffect
<1>4. CASE Leaves /\ UNCHANGED ticket
  BY <1>1, <1>2, <1>4, StillStory, EffectSound, LeavesSound DEF Leaves
<1>5. CASE Enters(work.t, "reconciling") /\ Works("refence")
  <2>1. /\ ticket'[work.t].state = "reconciling" /\ ticket'[work.t].batch = ticket[work.t].batch
        /\ ticket'[work.t].epoch = ticket[work.t].epoch
        /\ \A u \in Ticket \ {work.t} : ticket'[u] = ticket[u]
    BY <1>2, <1>5 DEF Enters, Tickets
  <2>2. IsHead(work.t) /\ ticket[work.t].batch
    BY <1>2, <1>3 DEF TicketSound, InEffect
  <2>8. ticket'[work.t].batch
    BY <2>1, <2>2
  <2>3. Progress /\ AllTicketsSound' /\ ServiceSound'
    BY <1>1, <1>2, <1>3, <2>1, <2>2, <2>8, EffectSound DEF InEffect
  <2>4. \A u \in Ticket : Outlives(u)
    BY <1>3, <2>1 DEF Outlives
  <2>5. Story'
    BY <1>1, <1>2, <2>4, QueueStory
  <2>6. work'.at = "refence" /\ work'.t = work.t /\ work'.epoch = work.epoch
    BY <1>2, <1>5 DEF Works, WorkKinds
  <2>7. WorkSound'
    BY <1>1, <1>2, <1>3, <2>1, <2>6 DEF WorkSound, DriveAt, ExecuteAt, EffectAt, ReconcileAt
  <2> QED BY <2>3, <2>5, <2>7
<1> QED BY <1>4, <1>5 DEF Stop

\* The steps of the effect before the move (batch-execution.ts) keep the invariant.
LEMMA PublishInv ==
  ASSUME Inv, Typed', Publish \/ Revalidate
  PROVE  Story' /\ AllTicketsSound' /\ WorkSound' /\ ServiceSound' /\ Progress
<1> USE DEF Inv, ExecuteUnchanged, TargetStays, Quietly
<1>1. /\ work.at \in {"publish", "revalidate"} /\ service # "down" /\ work.at \in ExecuteAt
      /\ UNCHANGED <<moves, journal, generation, call, orphans, plan, snap, service, card>>
  BY DEF Publish, Revalidate, Is, ExecuteAt, EffectAt
<1>2. /\ work.t \in Ticket /\ service = "up" /\ generation \in Nat
      /\ ticket \in [Ticket -> Tickets] /\ ticket' \in [Ticket -> Tickets] /\ work.at # "adopt"
  BY <1>1, WorkFacts, BusyService DEF Typed, QueueTyped, TargetTyped
<1>3. /\ work.at = "publish" => ticket[work.t].state = "publishing"
      /\ work.at = "revalidate" => ticket[work.t].state = "adopting"
      /\ ticket[work.t].epoch = work.epoch
      /\ generation >= work.epoch /\ \A o \in orphans : o.cmd # work.t
  BY <1>1 DEF WorkSound, EffectAt
<1>4. IsHead(work.t) /\ ticket[work.t].batch
  BY <1>1, <1>2, <1>3 DEF TicketSound, InEffect
<1>5. CASE UNCHANGED ticket
  <2>1. Story' /\ AllTicketsSound' /\ ServiceSound' /\ Progress
    BY <1>1, <1>2, <1>5, StillStory, EffectSound
  <2>2. Works("stop") \/ (Works("adopt") /\ work.at = "revalidate") \/ (Enters(work.t, "adopting") /\ work.at = "publish")
    BY DEF Publish, Revalidate, Is
  <2>3. ~Enters(work.t, "adopting") \/ work.at # "publish"
    BY <1>2, <1>3, <1>5 DEF Enters, Tickets
  <2>4. WorkSound'
    BY <1>1, <1>3, <1>5, <2>1, <2>2, <2>3, ExecutorGoesOn DEF ExecuteAt, EffectAt
  <2> QED BY <2>1, <2>4
<1>6. CASE work.at = "publish" /\ Enters(work.t, "adopting") /\ Works("revalidate")
  <2>1. /\ ticket'[work.t].state = "adopting" /\ ticket'[work.t].batch = ticket[work.t].batch
        /\ ticket'[work.t].epoch = ticket[work.t].epoch
        /\ \A u \in Ticket \ {work.t} : ticket'[u] = ticket[u]
    BY <1>2, <1>6 DEF Enters, Tickets
  <2>6. ticket'[work.t].batch
    BY <1>4, <2>1
  <2>2. Progress /\ AllTicketsSound' /\ ServiceSound'
    BY <1>1, <1>2, <1>3, <1>4, <1>6, <2>1, <2>6, EffectSound DEF InEffect
  <2>3. \A u \in Ticket : Outlives(u)
    BY <1>3, <2>1 DEF Outlives
  <2>4. Story'
    BY <1>1, <1>2, <2>3, QueueStory
  <2>5. WorkSound'
    BY <1>1, <1>3, <1>6, <2>1, <2>2, ExecutorGoesOn DEF ExecuteAt, EffectAt
  <2> QED BY <2>2, <2>4, <2>5
<1> QED BY <1>5, <1>6 DEF Publish, Revalidate, Is

\* The answer of adopt(), applied or not, ends the ticket the way the journal has it.
LEMMA AnsweredInv ==
  ASSUME Inv, Typed', Adopted \/ NotAdopted
  PROVE  Story' /\ AllTicketsSound' /\ WorkSound' /\ ServiceSound' /\ Progress
<1> USE DEF Inv, ExecuteUnchanged
<1>1. /\ work.at = "adopt" /\ service # "down" /\ work.at \in ExecuteAt /\ Forgets
      /\ UNCHANGED <<moves, journal, generation, orphans, plan, snap, service, card>>
  BY DEF Adopted, NotAdopted, Is, ExecuteAt, EffectAt
<1>2. /\ work.t \in Ticket /\ service = "up" /\ generation \in Nat /\ work \in WorkKinds /\ work.t \in Command
      /\ DOMAIN work.rows \in SUBSET Ticket /\ work.t \in DOMAIN work.rows
      /\ Following # {} => Least(Following) \in Following /\ \A u \in Following : Least(Following) <= u
      /\ ticket \in [Ticket -> Tickets] /\ ticket' \in [Ticket -> Tickets] /\ call \in [Command -> Calls]
  BY <1>1, WorkFacts, BusyService, LeastTicket DEF Typed, QueueTyped, TargetTyped, Command
<1>3. /\ ticket[work.t].state = "adopting" /\ ticket[work.t].epoch = work.epoch
      /\ generation >= work.epoch /\ \A o \in orphans : o.cmd # work.t
  BY <1>1 DEF WorkSound, EffectAt
<1>4. IsHead(work.t) /\ CallSound(work.t)
  BY <1>1, <1>2, <1>3 DEF TicketSound, InEffect, Story
<1>5. \A d \in Command : \/ call'[d] = Idle
                         \/ /\ call'[d] = call[d]
                            /\ d \in Ticket /\ call[d].at # "idle" => work'.at = "adopt" /\ work'.t = d
  <2>1. call'[work.t] = Idle /\ \A d \in Command \ {work.t} : call'[d] = call[d]
    BY <1>1, <1>2 DEF Forgets
  <2>2. \A d \in Command \ {work.t} : d \in Ticket => call[d].at = "idle"
    BY DEF Story, CallSound
  <2> QED BY <2>1, <2>2
<1>6. CASE Adopted
  <2>1. /\ ticket'[work.t].state = "adopted" /\ ticket'[work.t].epoch = ticket[work.t].epoch
        /\ \A u \in Ticket \ {work.t} : ticket'[u] = ticket[u]
    BY <1>2, <1>6 DEF Adopted, Enters, Tickets
  <2>2. journal[work.t].state = "applied"
    BY <1>4, <1>6 DEF Adopted, At, CallSound
  <2>3. Progress /\ AllTicketsSound' /\ ServiceSound'
    BY <1>1, <1>2, <1>3, <1>4, <2>1, <2>2, EffectSound DEF InEffect
  <2>4. \A u \in Ticket : Outlives(u)
    BY <1>3, <2>1 DEF Outlives
  <2>5. Story'
    BY <1>1, <1>5, <2>4, CallsEndStory
  <2>6. WorkSound'
    <3>1. CASE Following = {}
      BY <1>6, <3>1, LeavesSound DEF Adopted
    <3>2. CASE Following # {}
      <4>1. /\ work'.at = "validate" /\ work'.rows = work.rows /\ work'.t = Least(Following)
            /\ work'.epoch = work.epoch
        BY <1>2, <1>6, <3>2 DEF Adopted, WorkKinds
      <4>2. Prefix(DOMAIN work.rows) /\ \A u \in Open \cap DOMAIN work.rows : u >= work.t
        BY <1>1 DEF WorkSound
      <4>3. Prefix(DOMAIN work.rows)'
        BY <1>2, <2>3, <4>1, <4>2, PrefixStays
      <4>4. ASSUME NEW u \in Open' \cap DOMAIN work.rows PROVE u >= Least(Following)
        <5>1. ticket[u].state # "none" /\ u \in Ticket /\ u \in Nat /\ Least(Following) \in Nat /\ work.t \in Nat
          BY <1>2, <3>2, <4>2, TicketsAreOrdinals DEF Prefix, Following
        <5>2. u \in Open
          BY <2>3, <5>1 DEF Progress
        <5>3. u # work.t
          BY <2>1 DEF Open, Closed
        <5>4. u \in Following
          BY <4>2, <5>1, <5>2, <5>3 DEF Following
        <5> QED BY <1>2, <3>2, <5>1, <5>4
      <4>5. Least(Following) \in DOMAIN work.rows
        BY <1>2, <3>2 DEF Following
      <4> QED BY <1>1, <1>3, <4>1, <4>3, <4>4, <4>5 DEF WorkSound, DriveAt, ExecuteAt, EffectAt, ReconcileAt
    <3> QED BY <3>1, <3>2
  <2> QED BY <2>3, <2>5, <2>6
<1>7. CASE NotAdopted
  <2>1. UNCHANGED ticket /\ Works("stop")
    BY <1>7 DEF NotAdopted
  <2>2. Progress /\ AllTicketsSound' /\ ServiceSound'
    BY <1>1, <1>2, <2>1, EffectSound
  <2>3. Story'
    BY <1>1, <1>5, <2>1, CallsEndStory DEF Outlives
  <2>4. WorkSound'
    BY <1>1, <1>3, <2>1, <2>2, ExecutorGoesOn DEF ExecuteAt, EffectAt
  <2> QED BY <2>2, <2>3, <2>4
<1> QED BY <1>6, <1>7

----------------------------------------------------------------------------
(* Reconciliation                                                          *)

\* It goes on with the same ticket, or leaves.
LEMMA ReconcilerGoesOn ==
  ASSUME Inv, work.at \in ReconcileAt, NEW at \in ReconcileAt, Works(at),
         ticket'[work.t].epoch = work.epoch,
         ticket'[work.t].state \in {"reconciling", "parked", "adopted"},
         UNCHANGED orphans,
         at # "refence" => generation' >= work.epoch,
         at = "conclude" => work.t \in Movers',
         at = "park" => journal'[work.t].state \in {"none", "released"},
         at = "settle" => journal'[work.t].state = "applied"
  PROVE  WorkSound'
<1>1. work \in WorkKinds /\ work.t \in Ticket /\ \A o \in orphans : o.cmd = work.t => o.epoch < work.epoch
  BY WorkFacts DEF Inv, Typed, QueueTyped, WorkSound
<1>2. work'.at = at /\ work'.t = work.t /\ work'.epoch = work.epoch
  BY <1>1 DEF Works, WorkKinds
<1> QED BY <1>1, <1>2 DEF WorkSound, DriveAt, ExecuteAt, EffectAt, ReconcileAt

\* What the service has read outlives the steps of a reconciliation.
LEMMA ReconcilerService ==
  ASSUME Inv, work.at \in ReconcileAt, UNCHANGED <<card, service, snap>>, Progress,
         work' = Free \/ \E at \in ReconcileAt : Works(at),
         \A u \in Ticket \ {work.t} : ticket'[u] = ticket[u],
         ticket'[work.t] = ticket[work.t]
           \/ (ticket'[work.t].epoch = ticket[work.t].epoch
               /\ ticket'[work.t].state \in {"reconciling", "parked", "adopted"})
  PROVE  ServiceSound'
<1> USE DEF Inv
<1>1. work \in WorkKinds /\ DOMAIN snap \in SUBSET Ticket
  BY RowsAre DEF Typed, QueueTyped
<1>2. work'.at = "free" \/ (work'.at \in ReconcileAt /\ work'.t = work.t)
  BY <1>1 DEF Works, WorkKinds, Free, Doing
<1>3. service # "down" /\ (service = "starting" => work.t \notin DOMAIN snap)
  BY DEF ServiceSound, ReconcileAt
<1> QED BY <1>1, <1>2, <1>3, ServiceStays

\* A settlement of the journal that agrees with the branch.
LEMMA SettlementStory ==
  ASSUME Inv, work.at \in ReconcileAt \ {"refence"}, UNCHANGED <<moves, call, plan, orphans, generation, ticket>>,
         \/ Settle(work.t, "released") /\ journal[work.t].state = "claimed" /\ work.t \notin Movers
         \/ Settle(work.t, "applied") /\ work.t \in Movers
  PROVE  Story' /\ AllTicketsSound' /\ Progress
<1> USE DEF Inv, Typed
<1>1. /\ work.t \in Ticket /\ work.t \in Command /\ JournalMatchesFence /\ generation >= work.epoch
      /\ journal \in [Command -> Records] /\ generation \in Nat /\ work.epoch \in Nat
      /\ \A o \in orphans : o.cmd = work.t => o.epoch < work.epoch
      /\ orphans \subseteq Orphans
  BY WorkFacts DEF Command, Story, WorkSound, ReconcileAt, TargetTyped
<1>2. /\ JournalMatchesFence' /\ \A d \in Command : journal'[d].seq = journal[d].seq
      /\ Movers' = Movers
  BY <1>1, SettleSound DEF Movers
<1>3. /\ \A d \in Command \ {work.t} : journal'[d] = journal[d]
      /\ journal'[work.t].state \in {"applied", "released"}
      /\ journal[work.t].state \in {"claimed", "applied"}
      /\ journal[work.t].state = "applied" => journal'[work.t].state = "applied"
      /\ journal'[work.t].state = "applied" <=> work.t \in Movers
  <2>1. work.t \in Movers => journal[work.t].state \in {"claimed", "applied"}
    BY <1>1, MovesSay
  <2> QED BY <1>1, <2>1 DEF Settle, Records
<1>4. Keeps
  BY <1>2, <1>3 DEF Keeps, Never
<1>5. ASSUME NEW d \in Command PROVE CallSound(d)' /\ PlanSound(d)'
  <2>1. CallSound(d) /\ (d \in Ticket => call[d].at = "idle")
    BY DEF Story, CallSound, ReconcileAt
  <2>2. CallSound(d)'
    <3>1. CASE d = work.t
      BY <1>1, <1>2, <2>1, <3>1 DEF CallSound, Known
    <3>2. CASE d # work.t
      BY <1>1, <1>3, <1>4, <2>1, <3>2, CallStays
    <3> QED BY <3>1, <3>2
  <2>3. PlanSound(d)'
    BY <1>1, <1>3, <1>4, PlanStays DEF Story, Never
  <2> QED BY <2>2, <2>3
<1>6. ASSUME NEW o \in orphans' PROVE OrphanSound(o)'
  <2>1. o \in orphans /\ o \in Orphans /\ OrphanSound(o) /\ o.cmd \in Command /\ o.epoch \in Nat
    BY <1>1 DEF Story, Orphans
  <2>2. o.cmd \in Ticket => \/ o.epoch < ticket'[o.cmd].epoch
                            \/ ticket'[o.cmd].state = "adopting" /\ o.epoch = ticket'[o.cmd].epoch
    BY <2>1 DEF OrphanSound
  <2>3. journal'[o.cmd].state = "released" => journal[o.cmd].state = "released" \/ o.epoch < generation'
    BY <1>1, <1>3, <2>1
  <2> QED BY <1>1, <1>4, <2>1, <2>2, <2>3, OrphanStays
<1>7. \A d \in Direct : journal'[d].state # "released"
  BY <1>1, <1>3, CommandsAreDistinct DEF Story, Command
<1>8. Story'
  BY <1>2, <1>5, <1>6, <1>7 DEF Story
<1>9. Progress
  BY NoNewTicket DEF AllTicketsSound
<1>10. ASSUME NEW u \in Ticket PROVE TicketSound(u)'
  <2>1. CASE u = work.t
    <3>1. /\ ticket[u].state \in {"reconciling", "parked", "adopted"} /\ TicketSound(u) /\ ~Never(u)
      BY <1>1, <1>3, <2>1 DEF WorkSound, ReconcileAt, Never
    <3>2. ticket[u].state = "parked" => journal'[u].state \in {"none", "released"}
      BY <1>3, <2>1, <3>1 DEF TicketSound
    <3>3. ticket[u].state = "adopted" => journal'[u].state = "applied"
      BY <1>3, <2>1, <3>1 DEF TicketSound
    <3>4. ticket[u].state \in InEffect => IsHead(u)'
      <4>1. ticket[u].state \in InEffect => u \in Open'
        BY DEF Open, InEffect, Closed
      <4> QED BY <1>9, <3>1, <4>1, HeadStays DEF TicketSound
    <3> QED BY <3>1, <3>2, <3>3, <3>4 DEF TicketSound, Waiting, InEffect
  <2>2. CASE u # work.t
    BY <1>1, <1>3, <1>9, <2>2, TicketStays DEF Command
  <2> QED BY <2>1, <2>2
<1> QED BY <1>8, <1>9, <1>10 DEF AllTicketsSound

\* Reconciliation (queue-effects.ts) keeps the invariant.
LEMMA ReconcileInv ==
  ASSUME Inv, Typed', Reconcile
  PROVE  Story' /\ AllTicketsSound' /\ WorkSound' /\ ServiceSound' /\ Progress
<1> USE DEF Inv, ExecuteUnchanged, Quietly, TargetStays
<1>1. /\ work.at \in ReconcileAt
      /\ UNCHANGED <<moves, call, orphans, plan, snap, service, card>>
  BY DEF Reconcile, Refence, Lookup, Release, Conclude, Close, ReconcileFails, Is, ReconcileAt
<1>2. /\ work.t \in Ticket /\ generation \in Nat /\ generation' \in Nat /\ work.epoch \in Nat /\ work.at # "adopt"
      /\ ticket \in [Ticket -> Tickets] /\ ticket' \in [Ticket -> Tickets]
  BY <1>1, WorkFacts DEF Typed, QueueTyped, TargetTyped, ReconcileAt
<1>3. /\ ticket[work.t].epoch = work.epoch /\ ticket[work.t].state \in {"reconciling", "parked", "adopted"}
      /\ work.at # "refence" => generation >= work.epoch
  BY <1>1 DEF WorkSound, ReconcileAt
<1>4. ASSUME UNCHANGED <<journal, ticket>>, generation <= generation'
      PROVE  Story' /\ AllTicketsSound' /\ Progress
  <2>1. Story'
    BY <1>1, <1>2, <1>4, QueueStory DEF Outlives
  <2>2. Progress
    BY <1>4, NoNewTicket DEF AllTicketsSound
  <2> QED BY <1>2, <1>4, <2>1, <2>2, TicketStays DEF AllTicketsSound
<1>5. ASSUME Progress, UNCHANGED ticket, work' = Free \/ \E at \in ReconcileAt : Works(at)
      PROVE  ServiceSound'
  BY <1>1, <1>5, ReconcilerService
<1>6. CASE Refence
  <2>1. UNCHANGED <<journal, ticket>> /\ generation <= generation'
    BY <1>2, <1>6 DEF Refence, Fences
  <2>2. (Works("lookup") /\ generation' >= work.epoch) \/ Leaves
    BY <1>2, <1>6 DEF Refence, Fences
  <2>3. Story' /\ AllTicketsSound' /\ Progress
    BY <1>4, <2>1
  <2>4. WorkSound'
    BY <1>1, <1>3, <2>1, <2>2, ReconcilerGoesOn, LeavesSound DEF Leaves, ReconcileAt
  <2> QED BY <1>5, <2>1, <2>2, <2>3, <2>4 DEF Leaves, ReconcileAt
<1>7. CASE Lookup
  <2>1. UNCHANGED <<journal, ticket, generation>> /\ work.at = "lookup"
    BY <1>7 DEF Lookup, Is
  <2>2. Works("release") \/ (Works("conclude") /\ Fence = work.t) \/ Leaves
    BY <1>7 DEF Lookup
  <2>3. Story' /\ AllTicketsSound' /\ Progress
    BY <1>2, <1>4, <2>1
  <2>4. Fence = work.t => work.t \in Movers'
    <3>1. Movers' = Movers /\ Fence \in Known
      BY <1>1, FenceFits DEF Movers, Typed
    <3> QED BY <1>2, <3>1, CommandsAreDistinct DEF Known, Command
  <2>5. WorkSound'
    BY <1>1, <1>3, <2>1, <2>2, <2>4, ReconcilerGoesOn, LeavesSound DEF Leaves, ReconcileAt
  <2> QED BY <1>5, <2>1, <2>2, <2>3, <2>5 DEF Leaves, ReconcileAt
<1>8. CASE Release
  <2>1. UNCHANGED <<ticket, generation>> /\ work.at = "release"
    BY <1>8 DEF Release, Is
  <2>2. CASE NotApplied(work.t) /\ Works("park") /\ journal[work.t].state = "claimed" /\ Settle(work.t, "released")
    <3>1. work.t \notin Movers
      <4>1. Fence # work.t
        BY <2>2 DEF NotApplied
      <4> QED BY <2>2, <4>1, MovesSay DEF Typed, Story
    <3>2. Story' /\ AllTicketsSound' /\ Progress
      BY <1>1, <2>1, <2>2, <3>1, SettlementStory
    <3>3. journal'[work.t].state = "released"
      BY <1>2, <2>2 DEF Settle, Typed, TargetTyped, Records, Command
    <3>4. WorkSound'
      BY <1>1, <1>3, <2>1, <2>2, <3>3, ReconcilerGoesOn DEF ReconcileAt
    <3> QED BY <1>5, <2>1, <2>2, <3>2, <3>4 DEF ReconcileAt
  <2>3. CASE NotApplied(work.t) /\ Works("park") /\ journal[work.t].state # "claimed" /\ UNCHANGED journal
    <3>1. Story' /\ AllTicketsSound' /\ Progress
      BY <1>2, <1>4, <2>1, <2>3
    <3>2. journal'[work.t].state \in {"none", "released"}
      BY <2>3 DEF NotApplied
    <3>3. WorkSound'
      BY <1>1, <1>3, <2>1, <2>3, <3>2, ReconcilerGoesOn DEF ReconcileAt
    <3> QED BY <1>5, <2>1, <2>3, <3>1, <3>3 DEF ReconcileAt
  <2>4. CASE Leaves /\ UNCHANGED journal
    BY <1>2, <1>4, <1>5, <2>1, <2>4, LeavesSound DEF Leaves
  <2> QED BY <1>8, <2>2, <2>3, <2>4 DEF Release
<1>9. CASE Conclude
  <2>1. /\ UNCHANGED <<ticket, generation>> /\ work.at = "conclude" /\ Settle(work.t, "applied") /\ Works("settle")
    BY <1>9 DEF Conclude, Is
  <2>2. Story' /\ AllTicketsSound' /\ Progress
    BY <1>1, <2>1, SettlementStory DEF WorkSound
  <2>3. journal'[work.t].state = "applied"
    BY <1>2, <2>1 DEF Settle, Typed, TargetTyped, Records, Command
  <2>4. WorkSound'
    BY <1>1, <1>3, <2>1, <2>3, ReconcilerGoesOn DEF ReconcileAt
  <2> QED BY <1>5, <2>1, <2>2, <2>4 DEF ReconcileAt
<1>10. CASE Close
  <2>1. /\ UNCHANGED <<journal, generation>> /\ Leaves
        /\ work.at \in {"park", "settle"}
        /\ work.at = "park" => journal[work.t].state \in {"none", "released"}
        /\ work.at = "settle" => journal[work.t].state = "applied"
    BY <1>10 DEF Close, Is, WorkSound
  <2>2. CASE UNCHANGED ticket
    BY <1>2, <1>4, <1>5, <2>1, <2>2, LeavesSound DEF Leaves
  <2>3. CASE /\ ticket[work.t].state = "reconciling"
             /\ Enters(work.t, IF work.at = "park" THEN "parked" ELSE "adopted")
    <3>1. /\ ticket'[work.t].state = IF work.at = "park" THEN "parked" ELSE "adopted"
          /\ ticket'[work.t].epoch = ticket[work.t].epoch /\ ticket'[work.t].batch = ticket[work.t].batch
          /\ \A u \in Ticket \ {work.t} : ticket'[u] = ticket[u]
      BY <1>2, <2>3 DEF Enters, Tickets
    <3>2. Progress
      <4>1. \A u \in Ticket : /\ ticket'[u].state = "none" <=> ticket[u].state = "none"
                              /\ ticket[u].state \in Closed => ticket'[u].state \in Closed
        BY <2>3, <3>1 DEF Closed
      <4> QED BY <4>1, NoNewTicket DEF AllTicketsSound
    <3>3. ASSUME NEW u \in Ticket PROVE TicketSound(u)'
      <4>1. CASE u = work.t
        BY <1>2, <2>1, <2>3, <3>1, <4>1 DEF TicketSound, Waiting, InEffect, Never
      <4>2. CASE u # work.t
        BY <1>2, <2>1, <3>1, <3>2, <4>2, TicketStays
      <4> QED BY <4>1, <4>2
    <3>4. Story'
      <4>1. \A u \in Ticket : Outlives(u)
        BY <2>3, <3>1 DEF Outlives
      <4> QED BY <1>1, <1>2, <2>1, <4>1, QueueStory
    <3>5. ServiceSound'
      BY <1>1, <2>1, <3>1, <3>2, ReconcilerService DEF Leaves
    <3> QED BY <2>1, <3>2, <3>3, <3>4, <3>5, LeavesSound DEF Leaves, AllTicketsSound
  <2> QED BY <1>10, <2>2, <2>3 DEF Close
<1>11. CASE ReconcileFails
  <2>1. UNCHANGED <<journal, ticket, generation>> /\ Leaves
    BY <1>11 DEF ReconcileFails
  <2> QED BY <1>2, <1>4, <1>5, <2>1, LeavesSound DEF Leaves
<1> QED BY <1>6, <1>7, <1>8, <1>9, <1>10, <1>11 DEF Reconcile

----------------------------------------------------------------------------
(* Death, and the start of the next service                                *)

\* The death of the service keeps it: calls end, transactions go on by themselves.
LEMMA CrashInv ==
  ASSUME Inv, Typed', Crash
  PROVE  Story' /\ AllTicketsSound' /\ WorkSound' /\ ServiceSound' /\ Progress
<1> USE DEF Inv
<1>1. /\ UNCHANGED <<moves, journal, plan, generation, ticket>> /\ service' = "down" /\ work' = Free
      /\ card' = NoCard /\ DOMAIN snap' = {}
      /\ call' = [c \in Command |-> IF c \in Ticket THEN Idle ELSE call[c]]
  BY NoRowsFit DEF Crash, Leaves
<1>2. Progress /\ AllTicketsSound'
  <2>1. Progress
    BY <1>1, NoNewTicket DEF AllTicketsSound
  <2> QED BY <1>1, <2>1, TicketStays DEF AllTicketsSound, Typed, TargetTyped
<1>3. ASSUME NEW o \in orphans', o \notin orphans PROVE OrphanSound(o)'
  <2>1. /\ work.at = "adopt" /\ At(work.t, "moving")
        /\ o = [cmd |-> work.t, seen |-> call[work.t].seen, epoch |-> work.epoch]
    BY <1>3 DEF Crash, Abandoned, Is
  <2>2. /\ work.t \in Ticket /\ work.t \in Command /\ CallSound(work.t) /\ generation >= work.epoch
        /\ ticket[work.t].state = "adopting" /\ ticket[work.t].epoch = work.epoch
        /\ generation \in Nat /\ work.epoch \in Nat
    BY <2>1, WorkFacts DEF ExecuteAt, EffectAt, Command, Story, WorkSound, Typed, TargetTyped
  <2>3. /\ journal[work.t].state = "claimed" /\ Succeeds(work.t, call[work.t].seen)
        /\ call[work.t].seen \in Known
    BY <2>1, <2>2 DEF At, CallSound
  <2>4. work.t \notin Direct
    BY <2>2, CommandsAreDistinct
  <2> QED BY <1>1, <2>1, <2>2, <2>3, <2>4 DEF OrphanSound, Known, Movers, Never, Succeeds, SequenceOf
<1>4. \A d \in Command : \/ call'[d] = Idle
                         \/ call'[d] = call[d] /\ (d \in Ticket /\ call[d].at # "idle" => work'.at = "adopt" /\ work'.t = d)
  BY <1>1
<1>5. Story'
  BY <1>1, <1>3, <1>4, CallsEndStory DEF Outlives
<1>6. ServiceSound'
  BY <1>1 DEF ServiceSound, NoCard, Prefix, Free, Doing
<1> QED BY <1>1, <1>2, <1>5, <1>6, LeavesSound

\* A start takes an open ticket over under a higher epoch, or parks it.
LEMMA RecoverInv ==
  ASSUME Inv, Typed', Recover
  PROVE  Story' /\ AllTicketsSound' /\ WorkSound' /\ ServiceSound' /\ Progress
<1> USE DEF Inv, TargetStays
<1>1. /\ UNCHANGED <<moves, journal, call, orphans, plan, generation, service, card>>
      /\ service = "starting" /\ work = Free /\ work.at = "free"
      /\ DOMAIN snap' = DOMAIN snap \ {First} /\ \A t \in DOMAIN snap' : snap'[t] = snap[t]
  BY DEF Recover, Free, Doing
<1>2. /\ First \in DOMAIN snap /\ First \in Ticket /\ First \in Open /\ DOMAIN snap \in SUBSET Ticket
      /\ ticket \in [Ticket -> Tickets] /\ ticket' \in [Ticket -> Tickets] /\ generation \in Nat
      /\ MaxEpoch \in Nat /\ \A u \in Ticket : ticket[u].epoch <= MaxEpoch
  BY <1>1, SnapFacts, RowsAre, HighestEpoch DEF Recover, Typed, QueueTyped, TargetTyped, ServiceSound
<1>3. CASE UNCHANGED <<ticket, work>>
  <2>1. Story' /\ AllTicketsSound' /\ Progress
    BY <1>1, <1>3, StillStory
  <2>2. ServiceSound'
    BY <1>1, <1>3, <2>1, ServiceStays
  <2> QED BY <1>1, <1>3, <2>1, <2>2, LeavesSound
<1>4. CASE /\ ticket' = [ticket EXCEPT ![First] = Recovered(First)]
           /\ work' = IF ticket[First].batch
                      THEN Doing("refence", "start", NoRows, First, ticket'[First].epoch) ELSE Free
  <2> DEFINE t == First
  <2>1. t \in Ticket /\ t \in Open /\ t \in DOMAIN snap /\ DOMAIN snap' = DOMAIN snap \ {t}
    BY <1>1, <1>2
  <2>2. /\ ticket'[t].epoch = MaxEpoch + 1 /\ ticket'[t].batch = ticket[t].batch
        /\ ticket'[t].state = IF ticket[t].batch THEN "reconciling" ELSE "parked"
        /\ \A u \in Ticket \ {t} : ticket'[u] = ticket[u]
    BY <1>2, <1>4 DEF Recovered, Tickets
  <2>3. work' = IF ticket[t].batch THEN Doing("refence", "start", NoRows, t, MaxEpoch + 1) ELSE Free
    BY <1>4, <2>2
  <2> HIDE DEF t
  <2>5. Progress
    <3>1. \A u \in Ticket : /\ ticket'[u].state = "none" <=> ticket[u].state = "none"
                            /\ ticket[u].state \in Closed => ticket'[u].state \in Closed
      BY <2>1, <2>2 DEF Closed, Open
    <3> QED BY <3>1, NoNewTicket DEF AllTicketsSound
  <2>6. ASSUME NEW u \in Ticket PROVE TicketSound(u)'
    <3>1. CASE u = t
      <4>1. /\ ticket'[u].epoch = MaxEpoch + 1 /\ ticket'[u].batch = ticket[u].batch /\ TicketSound(u)
            /\ ticket'[u].state = IF ticket[u].batch THEN "reconciling" ELSE "parked"
            /\ u \in Open /\ MaxEpoch + 1 > 0 /\ UNCHANGED <<journal, generation>>
        BY <1>1, <1>2, <2>1, <2>2, <3>1
      <4>2. ASSUME ticket[u].batch PROVE IsHead(u)'
        <5>1. ticket[u].state \in InEffect
          BY <1>2, <4>1, <4>2 DEF TicketSound, Open, Tickets, TicketStates
        <5>2. u \in Open'
          BY <4>1, <4>2 DEF Open, Closed
        <5> QED BY <2>5, <4>1, <5>1, <5>2, HeadStays DEF TicketSound
      <4>3. ASSUME ~ticket[u].batch PROVE Never(u)
        BY <1>2, <4>1, <4>3 DEF TicketSound, Open, Tickets, TicketStates
      <4>4. CASE ticket[u].batch
        BY <4>1, <4>2, <4>4 DEF TicketSound, Waiting, InEffect, Never
      <4>5. CASE ~ticket[u].batch
        BY <4>1, <4>3, <4>5 DEF TicketSound, Waiting, InEffect, Never
      <4> QED BY <4>4, <4>5
    <3>2. CASE u # t
      BY <1>1, <1>2, <2>2, <2>5, <3>2, TicketStays
    <3> QED BY <3>1, <3>2
  <2>7. Story'
    <3>1. \A u \in Ticket : Outlives(u)
      BY <1>2, <2>1, <2>2 DEF Outlives, Tickets
    <3> QED BY <1>1, <1>2, <3>1, QueueStory DEF Typed, QueueTyped
  <2>8. WorkSound'
    <3>1. CASE ticket[t].batch
      <4>1. work'.at = "refence" /\ work'.t = t /\ work'.epoch = MaxEpoch + 1
        BY <2>3, <3>1 DEF Doing
      <4>2. ASSUME NEW o \in orphans, o.cmd = t PROVE o.epoch < MaxEpoch + 1
        <5>1. OrphanSound(o) /\ o.epoch \in Nat /\ ticket[t].epoch \in Nat /\ ticket[t].epoch <= MaxEpoch
          BY <1>2, <2>1 DEF Story, Typed, TargetTyped, Orphans, Tickets
        <5> QED BY <1>2, <2>1, <4>2, <5>1 DEF OrphanSound
      <4> QED BY <1>1, <2>1, <2>2, <3>1, <4>1, <4>2 DEF WorkSound, DriveAt, ExecuteAt, EffectAt, ReconcileAt
    <3>2. CASE ~ticket[t].batch
      BY <2>3, <3>2, LeavesSound
    <3> QED BY <3>1, <3>2
  <2>9. ServiceSound'
    <3>1. work'.at = "free" \/ (work'.at \in ReconcileAt /\ work'.t \notin DOMAIN snap')
      BY <2>1, <2>3 DEF Doing, Free, ReconcileAt
    <3>2. \A u \in DOMAIN snap' : ticket'[u] = ticket[u]
      BY <1>2, <2>1, <2>2
    <3> QED BY <1>1, <2>5, <3>1, <3>2, ServiceStays
  <2> QED BY <2>5, <2>6, <2>7, <2>8, <2>9 DEF AllTicketsSound
<1> QED BY <1>3, <1>4 DEF Recover

\* Death, start and the passing of deadlines keep the invariant.
LEMMA ServiceInv ==
  ASSUME Inv, Typed', \/ Crash \/ Start \/ Recover \/ Serve \/ \E t \in Ticket : Lateness(t)
  PROVE  Story' /\ AllTicketsSound' /\ WorkSound' /\ ServiceSound' /\ Progress
<1> USE DEF Inv
<1>1. CASE Start \/ Serve \/ \E t \in Ticket : Lateness(t)
  <2>1. /\ UNCHANGED <<moves, journal, call, orphans, generation, plan, ticket, work, card>>
        /\ generation \in Nat /\ ticket' \in [Ticket -> Tickets]
    BY <1>1 DEF Start, Serve, Lateness, targetVars, Typed, TargetTyped, QueueTyped
  <2>2. Progress
    BY <2>1, NoNewTicket DEF AllTicketsSound
  <2>3. AllTicketsSound' /\ Story' /\ WorkSound'
    BY <2>1, <2>2, TicketStays, QueueStory, WorkStays DEF AllTicketsSound, Outlives
  <2>4. ServiceSound'
    <3>1. CASE Start
      <4>1. /\ service = "down" /\ work.at = "free"
            /\ DOMAIN snap' = {t \in Open : ticket[t].state # "queued"} /\ \A t \in DOMAIN snap' : snap'[t] = ticket[t]
        <5>1. {t \in Open : ticket[t].state # "queued"} \in SUBSET Ticket
          BY OpenFits
        <5> QED BY <3>1, <5>1, RowsFit DEF Start, ServiceSound, Typed, QueueTyped
      <4>2. Prefix(card.items)'
        BY <2>1, <2>2, PrefixStays DEF Typed, QueueTyped, ServiceSound
      <4> QED BY <2>1, <3>1, <4>1, <4>2 DEF Start, ServiceSound, NoCard, Open
    <3>2. CASE Serve
      <4>1. service = "starting" /\ service' = "up" /\ UNCHANGED snap
        BY <3>2 DEF Serve
      <4>2. Prefix(card.items)'
        BY <2>1, <2>2, PrefixStays DEF Typed, QueueTyped, ServiceSound
      <4> QED BY <2>1, <4>1, <4>2 DEF ServiceSound, NoCard
    <3>3. CASE \E t \in Ticket : Lateness(t)
      BY <2>1, <2>2, <3>3, ServiceStays DEF Lateness, ServiceSound
    <3> QED BY <1>1, <3>1, <3>2, <3>3
  <2> QED BY <2>2, <2>3, <2>4
<1> QED BY <1>1, CrashInv, RecoverInv

\* Every step keeps the invariant and brings no ticket back.
LEMMA InvStep ==
  ASSUME Inv, [Next]_vars
  PROVE  Inv' /\ Progress
<1>1. Typed'
  BY TypedStep DEF Inv
<1>2. CASE UNCHANGED vars
  <2>1. Progress
    BY <1>2, NoNewTicket DEF vars, queueVars, Inv, AllTicketsSound
  <2>2. Story' /\ AllTicketsSound' /\ WorkSound' /\ ServiceSound'
    <3> USE <1>2 DEF Inv, vars, targetVars, queueVars
    <3>1. Story'
      BY DEF Story, JournalMatchesFence, CallSound, OrphanSound, PlanSound, Known, Movers, Never, Succeeds,
             SequenceOf, Rollback
    <3>2. AllTicketsSound'
      BY DEF AllTicketsSound, TicketSound, Prefix, Before, Open, IsHead, Known, Movers, Never, Succeeds,
             SequenceOf, Rollback, Row
    <3>3. WorkSound'
      BY DEF WorkSound, Prefix, Before, Open, IsHead, Known, Movers, Never, Row
    <3>4. ServiceSound'
      BY DEF ServiceSound, Prefix, Before, Open, IsHead, NoCard
    <3> QED BY <3>1, <3>2, <3>3, <3>4
  <2> QED BY <1>1, <2>1, <2>2 DEF Inv, AllTicketsSound
<1>3. CASE Beside /\ UNCHANGED queueVars
  <2>1. Progress
    BY <1>3, NoNewTicket DEF queueVars, Inv, AllTicketsSound
  <2> QED BY <1>1, <1>3, <2>1, BesideInv DEF Inv
<1>4. CASE Execution
  <2>1. CASE Adopt
    <3>1. Progress
      BY <2>1, NoNewTicket DEF Adopt, queueVars, Inv, AllTicketsSound
    <3> QED BY <1>1, <2>1, <3>1, AdoptInv DEF Inv
  <2> QED BY <1>1, <1>4, <2>1, EnteringInv, StopInv, PublishInv, AnsweredInv DEF Execution, Inv, AllTicketsSound
<1>5. CASE \/ Ask \/ Requested \/ Turn \/ Drive \/ Reconcile
           \/ Crash \/ Start \/ Recover \/ Serve \/ \E t \in Ticket : Lateness(t)
  BY <1>1, <1>5, AskInv, TurnInv, DriveInv, ReconcileInv, ServiceInv DEF Inv, AllTicketsSound
<1> QED BY <1>2, <1>3, <1>4, <1>5 DEF Next

\* The first state has the invariant.
LEMMA InvInit == Init => Inv
<1> SUFFICES ASSUME Init PROVE Inv
  OBVIOUS
<1>1. Typed
  BY TypedInit
<1>2. /\ moves = <<>> /\ orphans = {} /\ generation = 0 /\ work.at = "free" /\ card = NoCard /\ service = "up"
      /\ \A c \in Command : plan[c] = NoPlan /\ call[c] = Idle /\ journal[c].state = "none"
      /\ \A t \in Ticket : ticket[t].state = "none" /\ ~ticket[t].batch
      /\ DOMAIN snap = {}
  BY NoRowsFit DEF Init, TargetInit, Free, Doing
<1>3. Story
  <2>1. JournalMatchesFence
    <3>1. DOMAIN moves = {}
      BY <1>2
    <3> QED BY <1>2, <3>1 DEF JournalMatchesFence
  <2>2. ASSUME NEW c \in Command PROVE CallSound(c) /\ PlanSound(c)
    <3>1. call[c].at = "idle" /\ call[c].seen \in Known
      BY <1>2 DEF Idle, Known
    <3>2. Never(c) /\ plan[c].of = Nobody
      BY <1>2 DEF NoPlan, Never
    <3> QED BY <3>1, <3>2 DEF CallSound, PlanSound
  <2> QED BY <1>2, <2>1, <2>2 DEF Story, Command
<1>4. ASSUME NEW t \in Ticket PROVE TicketSound(t)
  <2>1. Never(t)
    BY <1>2 DEF Never, Command
  <2>2. ticket[t].state = "none" /\ ~ticket[t].batch /\ \A u \in Ticket : ticket[u].state = "none"
    BY <1>2
  <2> QED BY <2>1, <2>2 DEF TicketSound, Waiting, InEffect
<1>5. WorkSound /\ ServiceSound
  <2>1. WorkSound
    BY <1>2 DEF WorkSound, DriveAt, ExecuteAt, EffectAt, ReconcileAt
  <2>2. ServiceSound
    BY <1>2 DEF ServiceSound, NoCard, Prefix
  <2> QED BY <2>1, <2>2
<1> QED BY <1>1, <1>3, <1>4, <1>5 DEF Inv

\* Records, calls, transactions left behind, tickets, the holder of the lock and the
\* service know of each other what the code relies on when it does not look again.
THEOREM QueueInvariant == Spec => []Inv
<1>1. Init => Inv
  BY InvInit
<1>2. Inv /\ [Next]_vars => Inv'
  BY InvStep
<1> QED BY <1>1, <1>2, PTL DEF Spec

\* Tickets, journal records and calls keep their kinds under every step of the code.
THEOREM TypesHold == Spec => []TypeOK
<1>1. Inv => TypeOK
  <2>1. SUFFICES ASSUME Inv PROVE TypeOK
    OBVIOUS
  <2>2. /\ moves \in Seq(Command) /\ generation \in Nat /\ since \in Nat /\ late \subseteq Ticket
        /\ ticket \in [Ticket -> Tickets] /\ journal \in [Command -> Records] /\ call \in [Command -> Calls]
        /\ work \in WorkKinds
    BY <2>1 DEF Inv, Typed, TargetTyped, QueueTyped
  <2>3. ASSUME NEW t \in Ticket
        PROVE  /\ ticket[t].state \in Closed \cup InEffect \cup Waiting \cup {"none", "queued"}
               /\ ticket[t].epoch \in Nat /\ ticket[t].undoes \in Ticket \cup {Nobody}
    BY <2>2 DEF Tickets, TicketStates
  <2>4. ASSUME NEW c \in Command
        PROVE  /\ journal[c].state \in {"none", "claimed", "applied", "released"}
               /\ journal[c].state # "none" => journal[c].seq \in Nat \ {0}
               /\ call[c].seen \in Command \cup {Nobody}
    <3>1. journal[c] \in Records /\ call[c] \in Calls /\ PlanSound(c)
      BY <2>1, <2>2 DEF Inv, Story
    <3> QED BY <3>1 DEF Records, Calls, Maybe, PlanSound, Never
  <2>5. work.t \in Ticket \cup {0} /\ DOMAIN work.rows \subseteq Ticket
    BY <2>2, RowsAre DEF WorkKinds
  <2> QED BY <2>2, <2>3, <2>4, <2>5 DEF TypeOK
<1> QED BY <1>1, QueueInvariant, PTL

\* The journal and the fence tell one story although adoption.ts writes them in two
\* stores, with a Git transaction between, and any of the three may fail or die.
THEOREM JournalAgrees == Spec => []JournalMatchesFence
<1>1. Inv => JournalMatchesFence
  BY DEF Inv, Story
<1> QED BY <1>1, QueueInvariant, PTL

\* Only the first open ticket is inside its effect: batch-execution.ts stops the suffix.
THEOREM HeadAlone == Spec => []OnlyHeadInEffect
<1>1. Inv => OnlyHeadInEffect
  BY OpenFits DEF Inv, TicketSound, OnlyHeadInEffect
<1> QED BY <1>1, QueueInvariant, PTL

\* What has ended, ended one way: the journal has the answer.
LEMMA EndedTickets ==
  ASSUME Inv, NEW t \in Ticket, Ended(t)
  PROVE  /\ journal[t].state # "claimed"
         /\ ticket[t].state = "adopted" <=> t \in Movers
<1>1. TicketSound(t) /\ t \in Command /\ TargetTyped /\ JournalMatchesFence
  BY DEF Inv, Typed, Story, Command
<1>2. ticket[t].state \in {"expired", "refused", "parked", "adopted"}
  BY DEF Ended, Closed
<1>3. IF ticket[t].state = "adopted" THEN journal[t].state = "applied" ELSE journal[t].state \in {"none", "released"}
  BY <1>1, <1>2 DEF TicketSound, Never
<1>4. /\ journal[t].state = "applied" => t \in Movers
      /\ t \in Movers => journal[t].state \in {"claimed", "applied"}
  BY <1>1, MovesSay DEF JournalMatchesFence
<1> QED BY <1>3, <1>4

\* A ticket that ended left no claim that would block the target (queue-effects.ts).
THEOREM NoClaimStays == Spec => []NoClaimLeftBehind
<1>1. Inv => NoClaimLeftBehind
  BY EndedTickets DEF NoClaimLeftBehind
<1> QED BY <1>1, QueueInvariant, PTL

----------------------------------------------------------------------------
(* Who moves the branch, and when                                          *)

\* Whoever moves it has a claim with the next sequence, and the branch stands where
\* its move starts.
Moves(m) ==
  /\ MoveBranch(m) /\ tip = plan[m].from /\ Succeeds(m, Fence) /\ journal[m].state = "claimed"
  /\ UNCHANGED <<journal, ticket>>
  /\ m \in Direct => generation = 0
\* The branch is moved by a command with a claim, in a call or by what a call left behind.
LEMMA TheMover ==
  ASSUME Inv, [Next]_vars
  PROVE  UNCHANGED moves \/ \E m \in Command : Moves(m)
<1> USE DEF Inv, Typed
<1>1. ASSUME NEW c \in Command, NEW epoch, CallStep(c, epoch), Caller(c, epoch), UNCHANGED queueVars
      PROVE  UNCHANGED moves \/ Moves(c)
  <2>1. UNCHANGED moves \/ (/\ MoveBranch(c) /\ At(c, "moving") /\ Movable(c, call[c].seen, epoch)
                            /\ UNCHANGED journal)
    BY <1>1 DEF CallStep, Begin, Check, Claim, Apply, Move, Finish, CallFails
  <2>2. CASE MoveBranch(c) /\ At(c, "moving") /\ Movable(c, call[c].seen, epoch) /\ UNCHANGED journal
    <3>1. CallSound(c)
      BY DEF Story
    <3>2. c \in Direct => epoch = 0
      <4>1. work.at = "adopt" => work.t \in Ticket
        BY WorkFacts DEF ExecuteAt, EffectAt
      <4> QED BY <1>1, <4>1, CommandsAreDistinct DEF Caller
    <3> QED BY <1>1, <2>2, <3>1, <3>2 DEF Moves, CallSound, At, Movable, queueVars
  <2> QED BY <2>1, <2>2
<1>2. ASSUME NEW o \in orphans, Land(o), UNCHANGED queueVars PROVE Moves(o.cmd) /\ o.cmd \in Command
  <2>1. o.cmd \in Command /\ OrphanSound(o) /\ generation = o.epoch /\ generation \in Nat
        /\ tip = plan[o.cmd].from /\ MoveBranch(o.cmd) /\ Fence = o.seen /\ UNCHANGED journal
    BY <1>2 DEF Story, TargetTyped, Orphans, Land, Movable
  <2>2. journal[o.cmd].state \in {"claimed", "applied"} /\ Succeeds(o.cmd, Fence)
    BY <2>1 DEF OrphanSound, Never, TargetTyped, Records
  <2>3. journal[o.cmd].state = "claimed"
    BY <2>1, <2>2, NextMover DEF Story
  <2> QED BY <1>2, <2>1, <2>2, <2>3 DEF Moves, OrphanSound, queueVars
<1>3. CASE Beside /\ UNCHANGED queueVars
  <2>1. CASE Foreign \/ \E d \in Direct : Offer(d) \/ DirectDies(d)
    BY <2>1 DEF Foreign, Offer, DirectDies
  <2>2. ASSUME NEW d \in Direct, CallStep(d, 0) PROVE d \in Command /\ (UNCHANGED moves \/ Moves(d))
    BY <1>1, <1>3, <2>2 DEF Caller, Command
  <2> QED BY <1>2, <1>3, <2>1, <2>2 DEF Beside
<1>4. CASE Adopt
  <2>1. work.t \in Command /\ work.at = "adopt"
    BY <1>4, WorkFacts DEF Adopt, Is, ExecuteAt, EffectAt, Command
  <2> QED BY <1>1, <1>4, <2>1 DEF Adopt, Caller
<1>5. CASE UNCHANGED vars
  BY <1>5 DEF vars, targetVars
<1>6. CASE Ask \/ Requested
  BY <1>6 DEF Ask, Requested, Enqueue, Confirm, Execute, AskRollback, EnqueueRollback, InitRollback, targetVars
<1>7. CASE Turn
  BY <1>7 DEF Turn, Snapshot, TurnReconciles, TurnDrives, TurnExpires, TurnReserves, TurnStartsRollback, TurnIdles,
              TurnUnchanged, targetVars
<1>8. CASE Drive
  BY <1>8 DEF Drive, DriveStops, DriveLate, DriveOn, Prepare, AdmitVerification, Evidence, DriveUnchanged
<1>9. CASE Execution
  BY <1>4, <1>9 DEF Execution, Validate, FenceTarget, Enter, Publish, Revalidate, Adopted, NotAdopted, Stop,
              Quietly, TargetStays
<1>10. CASE Reconcile
  BY <1>10 DEF Reconcile, Refence, Lookup, Release, Conclude, Close, ReconcileFails, Quietly, TargetStays
<1>11. CASE \/ Crash \/ Start \/ Recover \/ Serve \/ \E t \in Ticket : Lateness(t)
  BY <1>11 DEF Crash, Start, Recover, Serve, Lateness, TargetStays, targetVars
<1> QED BY <1>3, <1>5, <1>6, <1>7, <1>8, <1>9, <1>10, <1>11 DEF Next

\* A rollback that moves the branch takes back the move the fence names.
LEMMA TakesBackTheLatest ==
  ASSUME Inv, NEW m \in Command, Moves(m), plan[m].of # Nobody
  PROVE  /\ Fence = plan[m].of /\ journal[plan[m].of].state = "applied"
         /\ tip = plan[plan[m].of].to /\ tip' = plan[plan[m].of].from
<1> USE DEF Inv, Typed
<1>1. ~Never(m) /\ PlanSound(m) /\ Succeeds(m, Fence) /\ JournalMatchesFence
  BY DEF Moves, Never, Story
<1>2. /\ plan[m].of # m /\ Succeeds(m, plan[m].of) /\ plan[m] = Rollback(plan[m].of)
      /\ journal[plan[m].of].state = "applied" /\ plan[m].of \in Command
  BY <1>1 DEF PlanSound, TargetTyped, Plans, Maybe
<1>3. SequenceOf(plan[m].of) = SequenceOf(Fence)
  <2>1. SequenceOf(plan[m].of) \in Nat /\ SequenceOf(Fence) \in Nat
    BY <1>2, FenceFits DEF Maybe
  <2> QED BY <1>1, <1>2, <2>1 DEF Succeeds
<1>4. plan[m].of \in Known /\ SequenceOf(Fence) = Len(moves)
  BY <1>1, <1>2, MovesSay DEF JournalMatchesFence, Known
<1>5. Fence = plan[m].of
  BY <1>1, <1>3, <1>4, MovesSay
<1> QED BY <1>2, <1>5 DEF Moves, MoveBranch, Rollback

\* A rollback moves the branch from the move it takes back to where that had found it,
\* however old the plan is by the time Git runs.
THEOREM RollbacksUndo == Spec => UndoesTheLatest
<1>1. Inv /\ [Next]_vars =>
        [\A c \in Command : moves' # moves /\ moves' = Append(moves, c) /\ plan[c].of # Nobody =>
           /\ Fence = plan[c].of /\ journal[plan[c].of].state = "applied"
           /\ tip = plan[plan[c].of].to /\ tip' = plan[plan[c].of].from]_vars
  <2>1. SUFFICES ASSUME Inv, [Next]_vars, NEW c \in Command,
                        moves' # moves, moves' = Append(moves, c), plan[c].of # Nobody
                 PROVE  /\ Fence = plan[c].of /\ journal[plan[c].of].state = "applied"
                        /\ tip = plan[plan[c].of].to /\ tip' = plan[plan[c].of].from
    OBVIOUS
  <2>2. PICK m \in Command : Moves(m)
    BY <2>1, TheMover
  <2>3. m = c
    <3>1. moves \in Seq(Command)
      BY <2>1 DEF Inv, Typed, TargetTyped
    <3>2. moves' = Append(moves, m)
      BY <2>2 DEF Moves, MoveBranch
    <3>3. \A d \in Command : Append(moves, d)[Len(moves) + 1] = d
      BY <3>1
    <3> QED BY <2>1, <3>2, <3>3
  <2> QED BY <2>1, <2>2, <2>3, TakesBackTheLatest
<1> QED BY <1>1, QueueInvariant, PTL DEF Spec, UndoesTheLatest

----------------------------------------------------------------------------
(* The promise of the queue                                                *)

\* A direct command that was applied stays so: only its own call writes its record.
LEMMA DirectStaysApplied ==
  ASSUME Inv, [Next]_vars, NEW d \in Direct, journal[d].state = "applied"
  PROVE  journal'[d].state = "applied"
<1> USE DEF Inv, Typed
<1>1. d \in Command /\ d \notin Ticket /\ journal \in [Command -> Records]
  BY CommandsAreDistinct DEF Command, TargetTyped
<1>2. CASE Beside /\ UNCHANGED queueVars
  BY <1>1, <1>2, BesideStory DEF Keeps
<1>3. CASE Adopt
  <2>1. work.t \in Command /\ CallStep(work.t, work.epoch)
    BY <1>3, WorkFacts DEF Adopt, Is, ExecuteAt, EffectAt, Command
  <2> QED BY <1>1, <2>1, CallStepKeeps DEF Keeps
<1>4. CASE UNCHANGED vars
  BY <1>4 DEF vars, targetVars
<1>5. CASE Ask \/ Requested
  BY <1>5 DEF Ask, Requested, Enqueue, Confirm, Execute, AskRollback, EnqueueRollback, InitRollback, targetVars
<1>6. CASE Turn
  BY <1>6 DEF Turn, Snapshot, TurnReconciles, TurnDrives, TurnExpires, TurnReserves, TurnStartsRollback, TurnIdles,
              TurnUnchanged, targetVars
<1>7. CASE Drive
  BY <1>7 DEF Drive, DriveStops, DriveLate, DriveOn, Prepare, AdmitVerification, Evidence, DriveUnchanged
<1>8. CASE Execution
  BY <1>3, <1>8 DEF Execution, Validate, FenceTarget, Enter, Publish, Revalidate, Adopted, NotAdopted, Stop,
              Quietly, TargetStays
<1>9. CASE Reconcile
  <2>1. work.at \in ReconcileAt => work.t \in Ticket
    BY DEF WorkSound
  <2>2. CASE UNCHANGED journal
    BY <2>2
  <2>3. ASSUME NEW outcome, work.t \in Ticket, Settle(work.t, outcome) PROVE journal'[d] = journal[d]
    BY <1>1, <2>3 DEF Settle
  <2> QED BY <1>9, <2>1, <2>2, <2>3 DEF Reconcile, Refence, Lookup, Release, Conclude, Close, ReconcileFails, Quietly,
              Is, ReconcileAt
<1>10. CASE \/ Crash \/ Start \/ Recover \/ Serve \/ \E t \in Ticket : Lateness(t)
  BY <1>10 DEF Crash, Start, Recover, Serve, Lateness, TargetStays, targetVars
<1> QED BY <1>2, <1>4, <1>5, <1>6, <1>7, <1>8, <1>9, <1>10 DEF Next

\* The answer every command has, and what it says of the branch.
Answer == [c \in Command |-> IF c \in Ticket THEN TicketDecision(c) ELSE DirectDecision(c)]
AnswersTrue ==
  \A c \in Command : /\ Answer[c] # "open" => Answer[c] = IF c \in Movers THEN "adopted" ELSE "notApplied"
                     /\ c \in Ticket  => (Answer[c] # "open" <=> ticket[c].state \in Closed)
                     /\ c \notin Ticket => (Answer[c] # "open" <=> journal[c].state = "applied")
                     /\ journal[c].state = "claimed" => Answer[c] = "open"
\* An answer that has been given says what the branch has seen.
LEMMA AnswersAreTrue == Inv => AnswersTrue
<1> SUFFICES ASSUME Inv, NEW c \in Command
             PROVE  /\ Answer[c] # "open" => Answer[c] = IF c \in Movers THEN "adopted" ELSE "notApplied"
                    /\ c \in Ticket  => (Answer[c] # "open" <=> ticket[c].state \in Closed)
                    /\ c \notin Ticket => (Answer[c] # "open" <=> journal[c].state = "applied")
                    /\ journal[c].state = "claimed" => Answer[c] = "open"
  BY DEF AnswersTrue
<1> USE DEF Inv, Typed
<1>1. CASE c \in Ticket
  <2>1. Answer[c] = TicketDecision(c) /\ (ticket[c].state = "adopted" => Ended(c))
    BY <1>1 DEF Answer, Ended, Closed
  <2>2. Ended(c) => journal[c].state # "claimed" /\ (ticket[c].state = "adopted" <=> c \in Movers)
    BY <1>1, EndedTickets
  <2> QED BY <1>1, <2>1, <2>2 DEF TicketDecision, Ended
<1>2. CASE c \notin Ticket
  <2>1. Answer[c] = DirectDecision(c) /\ journal[c].state # "released"
    BY <1>2 DEF Answer, Story, Command
  <2>2. journal[c].state = "applied" => c \in Movers
    BY DEF Story, JournalMatchesFence
  <2> QED BY <1>2, <2>1, <2>2 DEF DirectDecision
<1> QED BY <1>1, <1>2

\* The ticket of a record that is claimed or applied is adopted or in its effect, and
\* then the head: no other ticket may move, and no direct command either.
LEMMA MoversWereAdopted ==
  ASSUME Inv, NEW m \in Command, Moves(m), NEW d \in Movers
  PROVE  d \in Command /\ Answer[d] = "adopted"
<1> USE DEF Inv, Typed
<1>1. /\ m \notin Movers /\ journal[d].state = "applied" /\ journal[m].state = "claimed"
      /\ m \in Direct => generation = 0
  BY NextMover DEF Moves, Story
<1>2. d \in Command
  BY MovesSay DEF Story
<1>3. d # m
  BY <1>1
<1>4. CASE d \in Ticket
  <2>1. generation > 0 /\ generation \in Nat /\ ticket[d].state \in InEffect \cup {"adopted"}
    BY <1>1, <1>4 DEF TicketSound, Never, TargetTyped, QueueTyped, Tickets, TicketStates, Closed
  <2>2. m \in Ticket
    BY <1>1, <2>1 DEF Command
  <2>3. ticket[m].state \in InEffect
    BY <1>1, <2>2 DEF TicketSound, Never, TargetTyped, QueueTyped, Tickets, TicketStates, Closed
  <2>4. ticket[d].state \notin InEffect
    <3>1. IsHead(m)
      BY <2>2, <2>3 DEF TicketSound
    <3>2. ticket[d].state \in InEffect => IsHead(d)
      BY <1>4 DEF TicketSound
    <3> QED BY <1>3, <1>4, <2>2, <3>1, <3>2, TicketsAreOrdinals DEF IsHead
  <2> QED BY <1>2, <1>4, <2>1, <2>4 DEF Answer, TicketDecision
<1>5. CASE d \notin Ticket
  BY <1>1, <1>2, <1>5 DEF Answer, DirectDecision
<1> QED BY <1>2, <1>4, <1>5

\* A move of the branch is a move of the promise: undecided, first, and after decisions.
LEMMA MovesAreMoves ==
  ASSUME Inv, NEW m \in Command, Moves(m)
  PROVE  Decisions!Move(m)
<1>1. Answer[m] = "open" /\ m \notin Movers
  BY AnswersAreTrue, NextMover DEF AnswersTrue, Inv, Typed, Story, Moves
<1>2. \A d \in Movers : d \in Command /\ Answer[d] = "adopted"
  BY MoversWereAdopted
<1>3. Answer' = Answer
  BY DEF Answer, Moves, TicketDecision, DirectDecision, Ended
<1> QED BY <1>1, <1>2, <1>3 DEF Decisions!Move, Decisions!Moved, Moves, MoveBranch, Answer, Movers

\* A ticket that has ended never opens again.
LEMMA EndedStays ==
  ASSUME Progress, NEW t \in Ticket, Ended(t)
  PROVE  ticket'[t].state \in Closed
<1>1. ticket[t].state # "none" /\ t \notin Open
  BY DEF Ended, Closed, Open
<1>2. ticket'[t].state # "none" /\ t \notin Open'
  BY <1>1, TicketsAreOrdinals DEF Progress
<1> QED BY <1>2 DEF Open

\* Every other step decides some commands by what the branch has seen, or none.
LEMMA AnswersAreDecisions ==
  ASSUME Inv, [Next]_vars, Progress, AnswersTrue, AnswersTrue', UNCHANGED moves
  PROVE  [\E S \in SUBSET Command : Decisions!Decide(S)]_(Decisions!vars)
<1>0. PICK S : S = {c \in Command : Answer'[c] # Answer[c]}
  OBVIOUS
<1>1. Movers' = Movers
  BY DEF Movers
<1>2. ASSUME NEW c \in Command
      PROVE  /\ c \in S => Answer[c] = "open"
             /\ c \in S => Answer'[c] = IF c \in Movers THEN "adopted" ELSE "notApplied"
  <2>1. /\ Answer[c] # "open" => Answer[c] = IF c \in Movers THEN "adopted" ELSE "notApplied"
        /\ Answer'[c] # "open" => Answer'[c] = IF c \in Movers THEN "adopted" ELSE "notApplied"
    BY <1>1 DEF AnswersTrue
  <2>2. Answer[c] # "open" => Answer'[c] # "open"
    <3>1. CASE c \in Ticket
      BY <3>1, EndedStays DEF AnswersTrue, Ended
    <3>2. CASE c \notin Ticket
      BY <3>2, DirectStaysApplied DEF AnswersTrue, Command
    <3> QED BY <3>1, <3>2
  <2> QED BY <1>0, <2>1, <2>2
<1>3. /\ Answer = [c \in Command |-> Answer[c]]
      /\ Answer' = [c \in Command |-> Answer'[c]]
  BY DEF Answer
<1>4. CASE S = {}
  <2>1. Answer' = Answer
    BY <1>0, <1>3, <1>4
  <2> QED BY <2>1 DEF Decisions!vars, Answer
<1>5. CASE S # {}
  <2>1. Answer' = [c \in Command |-> IF c \notin S THEN Answer[c]
                                     ELSE IF c \in Movers THEN "adopted" ELSE "notApplied"]
    BY <1>0, <1>2, <1>3
  <2>2. Decisions!Decide(S)
    BY <1>0, <1>2, <1>5, <2>1 DEF Decisions!Decide, Decisions!Moved, Answer, Movers
  <2>3. S \in SUBSET Command
    BY <1>0
  <2> QED BY <2>2, <2>3
<1> QED BY <1>4, <1>5

\* Every step of the queue, its crashes and failures included, is a step of the promise:
\* a command moves the branch at most once, never after it was decided, never while
\* another move waits for its decision, and is adopted exactly when it moved the branch.
THEOREM QueueKeepsThePromise == Spec => DecisionsHold
<1>1. Init => Decisions!Init
  <2>1. SUFFICES ASSUME Init PROVE Decisions!Init
    OBVIOUS
  <2>2. ASSUME NEW c \in Command PROVE Answer[c] = "open"
    <3>1. /\ journal[c].state = "none"
          /\ c \in Ticket => ticket[c].state = "none"
      BY <2>1 DEF Init, TargetInit
    <3>2. DirectDecision(c) = "open" /\ (c \in Ticket => TicketDecision(c) = "open")
      BY <3>1 DEF TicketDecision, DirectDecision, Ended, Closed
    <3> QED BY <3>2 DEF Answer
  <2>3. Answer = [c \in Command |-> "open"]
    BY <2>2 DEF Answer
  <2> QED BY <2>1, <2>3 DEF Decisions!Init, Answer, Init, TargetInit
<1>2. Inv => AnswersTrue
  BY AnswersAreTrue
<1>3. Inv /\ AnswersTrue /\ AnswersTrue' /\ [Next]_vars => [Decisions!Next]_(Decisions!vars)
  <2>1. SUFFICES ASSUME Inv, AnswersTrue, AnswersTrue', [Next]_vars
                 PROVE  [Decisions!Next]_(Decisions!vars)
    OBVIOUS
  <2>2. CASE UNCHANGED moves
    BY <2>1, <2>2, InvStep, AnswersAreDecisions DEF Decisions!Next
  <2>3. ASSUME NEW m \in Command, Moves(m) PROVE Decisions!Next
    BY <2>1, <2>3, MovesAreMoves DEF Decisions!Next
  <2> QED BY <2>1, <2>2, <2>3, TheMover
<1> QED BY <1>1, <1>2, <1>3, QueueInvariant, PTL DEF Spec, DecisionsHold, Decisions!Spec
=============================================================================
