---------------------------- MODULE TargetQueue ----------------------------
(***************************************************************************)
(* The delivery queue of one target (src/src/engine/core/effect/internal,  *)
(* engine/core/runtime/internal/queue-service.ts, adapters/core/           *)
(* target-queue-store): tickets are prepared and verified in order, people *)
(* confirm a prefix, and the executor publishes and adopts it through the  *)
(* calls of AdoptionTarget.  The service may die and start again anywhere; *)
(* a new one takes every open ticket over under a higher epoch.            *)
(***************************************************************************)
EXTENDS AdoptionTarget

CONSTANTS BatchSize, PerTarget,  \* config.targetQueue
          MaxAsks                 \* bound: rollback requests under way at a time
ASSUME BoundsArePositive == BatchSize \in Nat \ {0} /\ PerTarget \in Nat \ {0} /\ MaxAsks \in Nat

VARIABLES
  ticket,  \* the record of each ticket
  late,    \* tickets past their deadline
  asked,   \* rollback requests past their look at the head: the tickets they name
  service, \* "down", "starting" or "up"
  since,   \* the highest epoch when the service started: it owns those above
  snap,    \* the records a turn, or a start, has read
  card,    \* the batch people have confirmed: its tickets and their epoch
  work     \* what the holder of the target's lock does
queueVars == <<ticket, late, asked, service, since, snap, card, work>>
vars == <<targetVars, queueVars>>

Closed == {"expired", "parked", "refused", "adopted"}
InEffect == {"publishing", "adopting", "reconciling"}
Waiting == {"revalidating", "verifying", "awaiting"}
Open == {t \in Ticket : ticket[t].state \notin Closed \cup {"none"}}
Least(S) == CHOOSE t \in S : \A u \in S : t <= u
IsHead(t) == t \in Open /\ \A u \in Open : t <= u
MaxEpoch == CHOOSE e \in {0} \cup {ticket[t].epoch : t \in Ticket} :
              \A t \in Ticket : ticket[t].epoch <= e
IsRollback(t) == ticket[t].undoes # Nobody
Rows(S) == [t \in S |-> ticket[t]]
NoRows == Rows({})
Doing(at, by, rows, t, epoch) ==
  [at |-> at, by |-> by, rows |-> rows, t |-> t, prev |-> 0, epoch |-> epoch]
Free == Doing("free", "none", NoRows, 0, 0)
NoCard == [items |-> {}, epoch |-> 0]

Init ==
  /\ TargetInit
  /\ ticket = [t \in Ticket |-> [state |-> "none", epoch |-> 0, batch |-> FALSE, undoes |-> Nobody]]
  /\ late = {} /\ asked = {} /\ service = "up" /\ since = 0
  /\ snap = NoRows /\ card = NoCard /\ work = Free

\* change(): a transition is a compare-and-swap on the whole record.
Enters(t, state) == ticket' = [ticket EXCEPT ![t].state = state]
Works(at) == work' = [work EXCEPT !.at = at]
Leaves == work' = Free
\* parkSuffix() reads every row again.
\* Slip: the ticket that failed is not one of them.
SuffixBehind(rows, t) == {u \in DOMAIN rows : u > t /\ ticket[u].state \in Waiting}
Suffix(rows, t) == {u \in DOMAIN rows : u >= t /\ ticket[u].state \in Waiting}
Parked(S) == [u \in Ticket |-> IF u \in S THEN [ticket[u] EXCEPT !.state = "parked"] ELSE ticket[u]]

----------------------------------------------------------------------------
(* Admission.  Nothing here holds the lock.                                *)

Unused(S) == {t \in S : ticket[t].state = "none" /\ \A u \in S : u < t => ticket[u].state # "none"}
Admits == Cardinality(Open) < PerTarget /\ \A c \in Command : journal[c].state # "claimed"
Admit(undoes) ==
  /\ service = "up" /\ Admits
  /\ \E t \in Unused(Ticket) :
       ticket' = [ticket EXCEPT ![t].state = "queued", ![t].undoes = undoes]
Enqueue ==
  /\ Admit(Nobody)
  /\ UNCHANGED <<targetVars, late, asked, service, since, snap, card, work>>

\* A rollback looks at the head, awaits its authorisation, and is enqueued.
AskRollback(s) ==
  /\ service = "up" /\ Open = {} /\ ticket[s].state # "none"
  /\ Cardinality(asked) < Cardinality({t \in Ticket : ticket[t].state = "none"})  \* bound
  /\ \E n \in 1..MaxAsks \ {a[2] : a \in asked} : asked' = asked \cup {<<s, n>>}
  /\ UNCHANGED <<targetVars, ticket, late, service, since, snap, card, work>>
EnqueueRollback(a) ==
  /\ Admit(a[1]) /\ asked' = asked \ {a}
  /\ UNCHANGED <<targetVars, late, service, since, snap, card, work>>

\* reserve(): the head and the queued tickets that follow it without a gap, as
\* far as kind, scope, policy and deadlines agree, get one new epoch.
Reservable(t, S) ==
  /\ IsHead(t) /\ t \in S /\ S \subseteq Open /\ Cardinality(S) <= BatchSize
  /\ \A u \in S : /\ ticket[u].state = "queued" /\ u \notin late /\ IsRollback(u) = IsRollback(t)
                  /\ \A o \in Open : o < u => o \in S
Reserved(S) == [u \in Ticket |-> IF u \in S
                THEN [ticket[u] EXCEPT !.state = "revalidating", !.epoch = MaxEpoch + 1] ELSE ticket[u]]
\* initializeRollback(): the first of the reserved takes over the candidate and
\* the proof of the adoption; others reserved with it stay as they are.
Reversible(t) == LET s == ticket[t].undoes IN ticket[s].state = "adopted" /\ ~IsRollback(s)
StartRollback(t) ==
  /\ Reversible(t) /\ plan' = [plan EXCEPT ![t] = Rollback(ticket[t].undoes)]
  /\ \E S \in SUBSET Open :
       /\ Reservable(t, S) /\ ticket' = [Reserved(S) EXCEPT ![t].state = "awaiting"]
InitRollback(t) ==
  /\ service = "up" /\ ticket[t].state = "queued" /\ IsRollback(t) /\ StartRollback(t)
  /\ UNCHANGED <<tip, moves, generation, journal, call, orphans, trouble, meddled,
                 late, asked, service, since, snap, card, work>>

----------------------------------------------------------------------------
(* The turn of the service: it reads rows, then takes the lock if it is free. *)

Snapshot ==
  /\ service = "up" /\ work.by # "turn" /\ snap = NoRows /\ Open # {} /\ snap' = Rows(Open)
  /\ UNCHANGED <<targetVars, ticket, late, asked, service, since, card, work>>

First == Least(DOMAIN snap)
HasLock == work.at = "free" /\ service = "up" /\ snap # NoRows /\ snap' = NoRows
TurnUnchanged == UNCHANGED <<tip, moves, generation, journal, call, orphans, trouble, meddled,
                             late, asked, service, since, card>>
TurnReconciles ==
  /\ HasLock /\ snap[First].state = "reconciling"
  /\ work' = Doing("refence", "turn", snap, First, snap[First].epoch)
  /\ UNCHANGED <<plan, ticket>> /\ TurnUnchanged
TurnDrives ==
  /\ HasLock /\ snap[First].state \notin {"queued", "reconciling"} /\ snap[First].epoch > since
  /\ work' = Doing("drive", "turn", snap, First, snap[First].epoch)
  /\ UNCHANGED <<plan, ticket>> /\ TurnUnchanged
TurnExpires ==
  /\ HasLock /\ snap[First] = ticket[First] /\ ticket[First].state = "queued"
  /\ ~IsRollback(First) /\ First \in late
  /\ Enters(First, "expired") /\ UNCHANGED <<plan, work>> /\ TurnUnchanged
TurnReserves ==
  /\ HasLock /\ snap[First] = ticket[First] /\ ~IsRollback(First)
  /\ \E S \in SUBSET Open :
       /\ Reservable(First, S) /\ ticket' = Reserved(S)
       /\ work' = Doing("drive", "turn", [u \in S |-> ticket'[u]], First, MaxEpoch + 1)
  /\ UNCHANGED plan /\ TurnUnchanged
TurnStartsRollback ==
  /\ HasLock /\ snap[First] = ticket[First] /\ IsRollback(First) /\ StartRollback(First)
  /\ UNCHANGED work /\ TurnUnchanged
\* The lock is held, a row changed, its owner is gone, or its rollback cannot start.
TurnIdles ==
  /\ service = "up" /\ snap # NoRows /\ snap' = NoRows
  /\ \/ work.at # "free"
     \/ snap[First].state = "queued" /\ snap[First] # ticket[First]
     \/ snap[First].state \notin {"queued", "reconciling"} /\ snap[First].epoch <= since
     \/ /\ snap[First].state = "queued" /\ IsRollback(First)
        /\ (First \in late \/ ~Reversible(First))
  /\ UNCHANGED <<plan, ticket, work>> /\ TurnUnchanged
Turn == Snapshot \/ TurnReconciles \/ TurnDrives \/ TurnExpires \/ TurnReserves
        \/ TurnStartsRollback \/ TurnIdles

----------------------------------------------------------------------------
(* TargetQueueDriver.advance(): row by row, with awaits in between.        *)

Row == work.rows[work.t]
Following == {u \in DOMAIN work.rows : u > work.t}
Onward == IF Following = {} THEN Free
          ELSE [work EXCEPT !.t = Least(Following), !.prev = work.t, !.at = "drive"]
Is(at) == work.at = at /\ service # "down"
Current == ticket[work.t] = Row
\* A transition of the row of the driver, and the rows after it parked with it.
Advances(state) == /\ Current /\ Enters(work.t, state)
Gives(state) == LET parked == Parked(Suffix(work.rows, work.t + 1)) IN
  /\ Current /\ ticket' = [parked EXCEPT ![work.t].state = state] /\ Leaves
DriveUnchanged == UNCHANGED <<tip, moves, generation, journal, call, orphans, trouble, meddled,
                              late, asked, service, since, snap, card>>
DriveStops ==
  /\ Is("drive") /\ (Row.epoch # work.epoch \/ Row.state \in InEffect)
  /\ Leaves /\ UNCHANGED <<plan, ticket>> /\ DriveUnchanged
Driven == Is("drive") /\ Row.epoch = work.epoch
DriveLate ==
  /\ Driven /\ Row.state \in Waiting /\ work.t \in late
  /\ ticket' = Parked(Suffix(work.rows, work.t)) /\ Leaves /\ UNCHANGED plan /\ DriveUnchanged
DriveOn ==
  /\ Driven /\ work.t \notin late
  /\ \/ Row.state = "revalidating" /\ Works("prepare")
     \/ Row.state = "verifying" /\ Works("evidence")
     \/ Row.state = "awaiting" /\ work' = Onward
  /\ UNCHANGED <<plan, ticket>> /\ DriveUnchanged

\* The candidate stands on the predecessor's, or on the branch as it is now.
Base == IF work.prev = 0 THEN tip ELSE plan[work.prev].to
Candidate == IF IsRollback(work.t) THEN [from |-> Append(Base, work.t), to |-> Base, of |-> work.t]
             ELSE Adoption(work.t, Base)
Prepare ==
  /\ Is("prepare")
  /\ \/ /\ Advances("verifying") /\ plan' = [plan EXCEPT ![work.t] = Candidate]
        /\ work' = [work EXCEPT !.at = "admit", !.rows[work.t].state = "verifying"]
     \/ Gives("refused") /\ UNCHANGED plan
  /\ DriveUnchanged
AdmitVerification ==
  /\ Is("admit") /\ UNCHANGED plan /\ DriveUnchanged
  /\ \/ Works("evidence") /\ UNCHANGED ticket
     \/ Gives("parked")
Evidence ==
  /\ Is("evidence") /\ UNCHANGED plan /\ DriveUnchanged
  /\ \/ Leaves /\ UNCHANGED ticket                                         \* pending
     \/ Leaves /\ ticket' = Parked(Suffix(work.rows, work.t))              \* pending for too long
     \/ Gives("refused")
     \/ Advances("awaiting") /\ work' = Onward
Drive == DriveStops \/ DriveLate \/ DriveOn \/ Prepare \/ AdmitVerification \/ Evidence

----------------------------------------------------------------------------
(* People confirm the verified prefix; its execution is prefix by prefix.  *)

Before(S, u) == {o \in S : o < u}
Greatest(S) == CHOOSE t \in S : \A u \in S : u <= t
Chained(S) == \A u \in S : Before(S, u) # {} => plan[u].from = plan[Greatest(Before(S, u))].to
\* Slip: any verified tickets make a batch.
ConfirmableAny(S) ==
  /\ S # {} /\ S \subseteq Open \ late /\ Cardinality(S) <= BatchSize /\ Chained(S)
  /\ \A u \in S : ticket[u].state = "awaiting" /\ ticket[u].epoch = ticket[Least(S)].epoch
Confirmable(S) ==
  /\ S # {} /\ S \subseteq Open \ late /\ Cardinality(S) <= BatchSize /\ Chained(S)
  /\ \A u \in S : /\ ticket[u].state = "awaiting" /\ ticket[u].epoch = ticket[Least(S)].epoch
                  /\ Before(Open, u) \subseteq S
                  /\ IsRollback(u) => S = {u}
Confirm ==
  /\ service = "up" /\ work.at = "free"
  /\ \E S \in SUBSET Open : /\ Confirmable(S)
                            /\ card' = [items |-> S, epoch |-> ticket[Least(S)].epoch]
  /\ UNCHANGED <<targetVars, ticket, late, asked, service, since, snap, work>>
Execute ==
  /\ service = "up" /\ work.at = "free" /\ card # NoCard /\ card' = NoCard
  /\ work' = Doing("validate", "request", Rows(card.items), Least(card.items), card.epoch)
  /\ UNCHANGED <<targetVars, ticket, late, asked, service, since, snap>>

ExecuteUnchanged == UNCHANGED <<late, asked, service, since, snap, card>>
TargetStays == UNCHANGED <<tip, moves, plan, call, orphans, meddled>>
Quietly == TargetStays /\ UNCHANGED <<journal, generation, trouble>>
\* validate(): the branch at the start of the move, and fence and journal agreed.
Valid(t) == tip = plan[t].from /\ ~Busy(t) /\ IsLatest(Fence)
Confirmed(t) == ticket[t].state = "awaiting" /\ ticket[t].epoch = work.epoch /\ t \notin late
Validate ==
  /\ Is("validate") /\ UNCHANGED ticket /\ ExecuteUnchanged /\ Quietly
  /\ \/ Confirmed(work.t) /\ Valid(work.t) /\ Works(IF work.prev = 0 THEN "fence" ELSE "enter")
     \/ Leaves
\* fence(): the generation reference takes the epoch, never a lower one.
\* Slip: a generation that exists is kept.
FencesOnce(epoch) == generation <= epoch /\ generation' = IF generation = 0 THEN epoch ELSE generation
\* Slip: the epoch must be a new one.
FencesHigher(epoch) == generation < epoch /\ generation' = epoch
Fences(epoch) == generation <= epoch /\ generation' = epoch
FenceTarget ==
  /\ Is("fence") /\ UNCHANGED <<ticket, journal, trouble>> /\ ExecuteUnchanged /\ TargetStays
  /\ \/ Fences(work.epoch) /\ Works("enter")
     \/ Leaves /\ (UNCHANGED generation \/ Fences(work.epoch))
\* The compare-and-swap that enters the effect records the confirmed batch.
Enter ==
  /\ Is("enter") /\ Quietly /\ ExecuteUnchanged
  /\ \/ /\ Current /\ (IsRollback(work.t) => Valid(work.t))
        /\ ticket' = [ticket EXCEPT ![work.t].batch = TRUE,
                        ![work.t].state = IF IsRollback(work.t) THEN "adopting" ELSE "publishing"]
        /\ Works(IF IsRollback(work.t) THEN "adopt" ELSE "publish")
     \/ Leaves /\ UNCHANGED ticket
Publish ==
  /\ Is("publish") /\ TargetStays /\ UNCHANGED <<journal, generation>> /\ ExecuteUnchanged
  /\ \/ /\ generation = work.epoch /\ tip = plan[work.t].from /\ UNCHANGED trouble
        /\ Enters(work.t, "adopting") /\ Works("revalidate")
     \/ /\ Works("stop") /\ UNCHANGED ticket
        /\ \/ Strikes("fault")
           \/ UNCHANGED trouble /\ (generation # work.epoch \/ tip # plan[work.t].from)
Revalidate ==
  /\ Is("revalidate") /\ UNCHANGED ticket /\ Quietly /\ ExecuteUnchanged
  /\ \/ Valid(work.t) /\ Works("adopt")
     \/ Works("stop")
Adopt ==
  /\ Is("adopt") /\ CallStep(work.t, work.epoch) /\ UNCHANGED queueVars
Forgets == call' = [call EXCEPT ![work.t] = Idle]
Adopted ==
  /\ Is("adopt") /\ At(work.t, "done") /\ Enters(work.t, "adopted") /\ Forgets
  /\ work' = IF Following = {} THEN Free
             ELSE [work EXCEPT !.t = Least(Following), !.prev = work.t, !.at = "validate"]
  /\ UNCHANGED <<tip, moves, generation, plan, journal, orphans, trouble, meddled>>
  /\ ExecuteUnchanged
NotAdopted ==
  /\ Is("adopt") /\ At(work.t, "failed") /\ Works("stop") /\ Forgets
  /\ UNCHANGED <<tip, moves, generation, plan, journal, orphans, trouble, meddled, ticket>>
  /\ ExecuteUnchanged
\* stopped(): the transition that hands the ticket to reconciliation may fail.
Stop ==
  /\ Is("stop") /\ TargetStays /\ UNCHANGED <<journal, generation>> /\ ExecuteUnchanged
  /\ \/ Enters(work.t, "reconciling") /\ Works("refence") /\ UNCHANGED trouble
     \/ Strikes("fault") /\ Leaves /\ UNCHANGED ticket
Execution == Validate \/ FenceTarget \/ Enter \/ Publish \/ Revalidate \/ Adopt \/ Adopted
             \/ NotAdopted \/ Stop

----------------------------------------------------------------------------
(* reconcile(): the target is fenced before it is looked at.               *)

Refence ==
  /\ Is("refence") /\ UNCHANGED <<ticket, journal, trouble>> /\ ExecuteUnchanged /\ TargetStays
  /\ \/ Fences(work.epoch) /\ Works("lookup")
     \/ generation > work.epoch /\ Leaves /\ UNCHANGED generation
Lookup ==
  /\ Is("lookup") /\ UNCHANGED ticket /\ Quietly /\ ExecuteUnchanged
  /\ \/ NotApplied(work.t) /\ Works("release")
     \/ ~NotApplied(work.t) /\ Fence = work.t /\ tip = plan[work.t].to /\ Works("conclude")
     \/ ~NotApplied(work.t) /\ (Fence # work.t \/ tip # plan[work.t].to) /\ Leaves
\* The journal is settled first, then the ticket.
Release ==
  /\ Is("release") /\ UNCHANGED <<ticket, generation, trouble>> /\ ExecuteUnchanged /\ TargetStays
  /\ \/ /\ NotApplied(work.t) /\ Works("park")
        /\ IF journal[work.t].state = "claimed" THEN Settle(work.t, "released") ELSE UNCHANGED journal
     \/ ~NotApplied(work.t) /\ Leaves /\ UNCHANGED journal
Conclude ==
  /\ Is("conclude") /\ UNCHANGED <<ticket, generation, trouble>> /\ ExecuteUnchanged /\ TargetStays
  /\ Settle(work.t, "applied") /\ Works("settle")
\* A turn may have read the row before the request that holds the lock settled it.
Close ==
  /\ Is("park") \/ Is("settle")
  /\ Quietly /\ ExecuteUnchanged /\ Leaves
  /\ IF ticket[work.t].state = "reconciling" /\ ticket[work.t].epoch = work.epoch
     THEN Enters(work.t, IF work.at = "park" THEN "parked" ELSE "adopted")
     ELSE UNCHANGED ticket
\* Any of its reads and writes may fail; the ticket stays for the next turn.
ReconcileFails ==
  /\ work.at \in {"refence", "lookup", "release", "conclude", "park", "settle"}
  /\ Strikes("fault") /\ Leaves /\ UNCHANGED <<ticket, journal, generation>>
  /\ ExecuteUnchanged /\ TargetStays
Reconcile == Refence \/ Lookup \/ Release \/ Conclude \/ Close \/ ReconcileFails

----------------------------------------------------------------------------
(* Time, death and the start of the next service.                          *)

Lateness(t) == /\ t \in Open \ late /\ late' = late \cup {t}
               /\ UNCHANGED <<targetVars, ticket, asked, service, since, snap, card, work>>
Crash ==
  /\ service # "down" /\ Strikes("crash") /\ service' = "down"
  /\ snap' = NoRows /\ card' = NoCard /\ asked' = {} /\ Leaves
  /\ call' = [c \in Command |-> IF c \in Ticket THEN Idle ELSE call[c]]
  /\ \E left \in IF Is("adopt") THEN Abandoned(work.t, work.epoch) ELSE {{}} :
       orphans' = orphans \cup left
  /\ UNCHANGED <<tip, moves, generation, plan, journal, meddled, ticket, late, since>>
Start ==
  /\ service = "down" /\ service' = "starting" /\ since' = MaxEpoch
  /\ snap' = Rows({t \in Open : ticket[t].state # "queued"})
  /\ UNCHANGED <<targetVars, ticket, late, asked, card, work>>
\* recover(): without a confirmed batch nothing was begun, and the ticket parks.
\* Slip: every open ticket parks.
RecoveredParked(t) == [ticket[t] EXCEPT !.epoch = MaxEpoch + 1, !.state = "parked"]
Recovered(t) == [ticket[t] EXCEPT !.epoch = MaxEpoch + 1,
                                  !.state = IF ticket[t].batch THEN "reconciling" ELSE "parked"]
Recover ==
  /\ service = "starting" /\ work = Free /\ snap # NoRows
  /\ snap' = [t \in DOMAIN snap \ {First} |-> snap[t]]
  /\ \/ /\ ticket' = [ticket EXCEPT ![First] = Recovered(First)] /\ UNCHANGED trouble
        /\ work' = IF ticket[First].batch
                   THEN Doing("refence", "start", NoRows, First, ticket'[First].epoch) ELSE Free
     \/ Strikes("fault") /\ UNCHANGED <<ticket, work>>
  /\ TargetStays /\ UNCHANGED <<journal, generation, late, asked, service, since, card>>
Serve ==
  /\ service = "starting" /\ work = Free /\ snap = NoRows /\ service' = "up"
  /\ UNCHANGED <<targetVars, ticket, late, asked, since, snap, card, work>>

Beside == Foreign \/ (\E o \in orphans : Land(o))
          \/ \E d \in Direct : Offer(d) \/ CallStep(d, 0) \/ DirectDies(d)
Ask == Enqueue \/ Confirm \/ Execute \/ \E s \in Ticket : AskRollback(s)
Requested == (\E a \in asked : EnqueueRollback(a)) \/ \E t \in Ticket : InitRollback(t)
Next == \/ Beside /\ UNCHANGED queueVars
        \/ Ask \/ Requested \/ Turn \/ Drive \/ Execution \/ Reconcile
        \/ Crash \/ Start \/ Recover \/ Serve \/ \E t \in Ticket : Lateness(t)
Spec == Init /\ [][Next]_vars
\* The loops of the service go on, a process that died is started again and the
\* clock runs; people owe nothing, and neither do direct commands.
FairSpec == /\ Spec
            /\ WF_vars(Turn) /\ WF_vars(Drive) /\ WF_vars(Execution) /\ WF_vars(Reconcile)
            /\ WF_vars(Start \/ Recover \/ Serve) /\ \A t \in Ticket : WF_vars(Lateness(t))

----------------------------------------------------------------------------
(* Properties.                                                             *)

Ended(t) == ticket[t].state \in Closed
Movers == {moves[i] : i \in DOMAIN moves}

\* The variables keep their kinds: records of tickets, of the journal and of calls.
TypeOK ==
  /\ moves \in Seq(Command) /\ generation \in Nat /\ since \in Nat /\ late \subseteq Ticket
  /\ \A t \in Ticket : /\ ticket[t].state \in Closed \cup InEffect \cup Waiting \cup {"none", "queued"}
                       /\ ticket[t].epoch \in Nat /\ ticket[t].undoes \in Ticket \cup {Nobody}
  /\ \A c \in Command : /\ journal[c].state \in {"none", "claimed", "applied", "released"}
                        /\ journal[c].state # "none" => journal[c].seq \in Nat \ {0}
                        /\ call[c].seen \in Command \cup {Nobody}
  /\ work.t \in Ticket \cup {0} /\ DOMAIN work.rows \subseteq Ticket

\* The journal and the fence tell one story: the i-th move of the branch has
\* sequence i, every move but the last is settled as applied, nothing else is, and
\* at most one claim is open.  Claim, fence and settlement are three stores, and
\* a call may fail, die or meet another command between them (adoption.ts).
JournalMatchesFence ==
  /\ \A i \in DOMAIN moves : /\ journal[moves[i]].seq = i
                             /\ journal[moves[i]].state = "applied"
                                \/ (i = Len(moves) /\ journal[moves[i]].state = "claimed")
  /\ \A c \in Command : journal[c].state = "applied" => c \in Movers
  /\ \A c, d \in Command : journal[c].state = "claimed" /\ journal[d].state = "claimed" => c = d

\* Only the first open ticket is ever inside its effect, so a batch stops at the
\* ticket that failed (batch-execution.ts, "Any failure stops the suffix").
OnlyHeadInEffect == \A t \in Open : ticket[t].state \in InEffect => IsHead(t)

\* A ticket that has ended leaves no claim behind: one would refuse every later
\* enqueue, validation and claim of the target for good (queue-effects.ts release
\* settles the journal before the ticket parks).
NoClaimLeftBehind == \A t \in Ticket : Ended(t) => journal[t].state # "claimed"

\* A rollback moves the branch only from the move it takes back, and to where
\* that one had found it, although its plan is older than its execution.
UndoesTheLatest ==
  [][\A c \in Command : moves' # moves /\ moves' = Append(moves, c) /\ plan[c].of # Nobody =>
       /\ Fence = plan[c].of /\ journal[plan[c].of].state = "applied"
       /\ tip = plan[plan[c].of].to /\ tip' = plan[plan[c].of].from]_vars

\* What the queue and the direct commands together promise of every command.
TicketDecision(t) == IF ticket[t].state = "adopted" THEN "adopted"
                     ELSE IF Ended(t) THEN "notApplied" ELSE "open"
DirectDecision(d) == CASE journal[d].state = "applied"  -> "adopted"
                       [] journal[d].state = "released" -> "notApplied"
                       [] OTHER                         -> "open"
Decisions == INSTANCE DeliveryDecision WITH
  history <- moves,
  decision <- [c \in Command |-> IF c \in Ticket THEN TicketDecision(c) ELSE DirectDecision(c)]
\* Every step of the queue is a step, or none, of the promise: no ticket moves
\* the branch after it was parked (a Git transaction outlives its service), none
\* is parked that moved it, none is adopted that did not.
DecisionsHold == Decisions!Spec

\* What may keep a ticket open for good: a queued rollback at the head that cannot
\* start, a branch somebody else moved, a failed hand-over to reconciliation.
Jammed == \E t \in Open : /\ IsHead(t) /\ ticket[t].state = "queued" /\ IsRollback(t)
                          /\ (t \in late \/ ~Reversible(t))
Abandons(t) == /\ service = "up" /\ work = Free
               /\ \/ ticket[t].state \in {"publishing", "adopting"}
                  \/ ticket[t].state \in Waiting \cup InEffect /\ ticket[t].epoch <= since
Excused == Jammed \/ meddled \/ \E t \in Open : IsHead(t) /\ Abandons(t)

\* A ticket past its deadline ends, unless the target is in one of those states.
LateTicketsEnd == \A t \in Ticket : (t \in late /\ t \in Open) ~> (t \notin Open \/ Excused)

\* A ticket that moved the branch is told so in the end, however its call, its
\* settlement or its service failed.
MovesBecomeAdoptions ==
  \A t \in Ticket : (t \in Movers) ~> (ticket[t].state = "adopted" \/ meddled \/ Abandons(t))

\* A ticket has a lifetime (operator-reference.md:274): past its deadline no queued
\* ticket waits for good, whatever it asks for.
QueuedTicketsExpire ==
  \A t \in Ticket : (t \in late /\ ticket[t].state = "queued") ~> ticket[t].state # "queued"
=============================================================================
