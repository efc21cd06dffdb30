------------------------ MODULE CancellationDelivery ------------------------
(***************************************************************************)
(* The retry lease under which a cancellation is delivered to the dispatch *)
(* of one attempt (src/src/engine/core/runs/internal/delivery-*.ts and the *)
(* cancellation_deliveries table).  Explicit commands and the recovery     *)
(* drain of any process deliver through it; processes do not agree on the  *)
(* wall time, and any of them may die with the lease.                      *)
(***************************************************************************)
EXTENDS Integers

CONSTANTS
  Worker,       \* processes that deliver
  SkewOf,       \* how far each one's wall clock runs ahead of the slowest
  Skew,         \* MAX_WALL_SKEW_MS
  MaxAttempts, RetryDelay, ClaimTtl  \* config.cancellation
ASSUME LimitsArePositive ==
  MaxAttempts \in Nat \ {0} /\ RetryDelay \in Nat \ {0} /\ ClaimTtl \in Nat \ {0}
ASSUME ClocksAgree == Skew \in Nat /\ SkewOf \in [Worker -> 0..Skew]

VARIABLES
  now,       \* the time on the slowest clock
  record,    \* the delivery record of the journal
  phase,     \* where each worker is
  at,        \* its sample of its clock
  token,     \* the lease it acquired; 0 is none
  outcome,   \* what its call of the dispatch answered
  dispatch   \* what became of the dispatch: "open", "terminal" or "prevented"
vars == <<now, record, phase, at, token, outcome, dispatch>>

Clock(w) == now + SkewOf[w]
Final == {"terminal", "prevented", "exhausted"}

\* Before the first claim there is no record; every claim draws a fresh token.
Init ==
  /\ now = 0 /\ dispatch = "open"
  /\ record = [state |-> "absent", attempts |-> 0, token |-> 0, claimUntil |-> 0,
               nextEligibleAt |-> 0]
  /\ phase = [w \in Worker |-> "idle"] /\ at = [w \in Worker |-> 0]
  /\ token = [w \in Worker |-> 0] /\ outcome = [w \in Worker |-> "unresolved"]

Goes(w, from, to) == phase[w] = from /\ phase' = [phase EXCEPT ![w] = to]
\* A call that returns or dies forgets what it knew.
Returns(w, from) ==
  /\ Goes(w, from, "idle") /\ at' = [at EXCEPT ![w] = 0]
  /\ token' = [token EXCEPT ![w] = 0] /\ outcome' = [outcome EXCEPT ![w] = "unresolved"]

\* deliver: the claim takes the clock as it was sampled before the transaction
\* began.  An explicit command delivers to every binding of its Run, whatever
\* became of the record or the dispatch; so does a drain that was overtaken
\* after its discovery.
Sample(w) ==
  /\ Goes(w, "idle", "asking")
  /\ at' = [at EXCEPT ![w] = Clock(w)]
  /\ UNCHANGED <<now, record, token, outcome, dispatch>>

\* Slip: the discovery forgets the leases whose holders died.
DiscoveredButUnclaimed(t) ==
  /\ dispatch = "open"
  /\ \/ record.state = "absent"
     \/ record.state = "queued" /\ record.nextEligibleAt <= t - Skew
\* discoverCancellationRecovery: the drain never returns to a dispatch that ended,
\* whatever its record says.
Discovered(t) ==
  /\ dispatch = "open"
  /\ \/ record.state = "absent"
     \/ record.state = "queued" /\ record.nextEligibleAt <= t - Skew
     \/ record.state = "claimed" /\ record.claimUntil <= t - Skew
\* A page of the drain delivers what it discovered.
Drain(w) == Discovered(Clock(w)) /\ Sample(w)

\* Slip: the lease is measured on the claimer's clock alone.
RefusedBySkewlessLease(t) ==
  \/ record.state \in Final
  \/ record.state = "claimed" /\ record.claimUntil > t
  \/ record.state # "absent" /\ record.nextEligibleAt > t - Skew
\* decideCancellationDeliveryClaim: a record is left alone until the clock of
\* the claimer shows its deadlines passed by more than clocks may differ.
Refused(t) ==
  \/ record.state \in Final
  \/ record.state = "claimed" /\ record.claimUntil > t - Skew
  \/ record.state # "absent" /\ record.nextEligibleAt > t - Skew
Fresh == record.token + 1
Spent == record.attempts >= MaxAttempts
Claim(w) ==
  /\ phase[w] = "asking"
  /\ \/ Refused(at[w]) /\ Returns(w, "asking") /\ UNCHANGED record
     \/ /\ ~Refused(at[w]) /\ Spent
        /\ Returns(w, "asking") /\ record' = [record EXCEPT !.state = "exhausted"]
     \/ /\ ~Refused(at[w]) /\ ~Spent
        /\ Goes(w, "asking", "delivering") /\ token' = [token EXCEPT ![w] = Fresh]
        /\ record' = [state |-> "claimed", attempts |-> record.attempts + 1, token |-> Fresh,
                      claimUntil |-> at[w] + ClaimTtl, nextEligibleAt |-> at[w]]
        /\ UNCHANGED <<at, outcome>>
  /\ UNCHANGED <<now, dispatch>>

\* DispatchApplication.cancel answers with the end of the dispatch, which it may
\* bring about, or without one.  Then the clock is sampled for the finish.
Deliver(w) ==
  /\ Goes(w, "delivering", "answered")
  /\ dispatch' \in IF dispatch = "open" THEN {"open", "terminal", "prevented"} ELSE {dispatch}
  /\ \E answer \in {dispatch', "failed"} :
       outcome' = [outcome EXCEPT ![w] = IF answer \in {"open", "failed"} THEN "unresolved"
                                         ELSE answer]
  /\ at' = [at EXCEPT ![w] = Clock(w)]
  /\ UNCHANGED <<now, record, token>>

\* decideCancellationDeliveryFinish: only the lease that stands is finished.
Concluded(answer, attempts) ==
  IF answer \in {"terminal", "prevented"} THEN answer
  ELSE IF attempts >= MaxAttempts THEN "exhausted" ELSE "queued"
\* Slip: a holder finishes a record that was decided without it.
HeldOnce(w) == record.token = token[w]
Held(w) == record.token = token[w] /\ record.state = "claimed"
Finish(w) ==
  /\ Returns(w, "answered")
  /\ record' = IF Held(w)
               THEN [record EXCEPT !.state = Concluded(outcome[w], record.attempts),
                                   !.nextEligibleAt = at[w] + RetryDelay]
               ELSE record
  /\ UNCHANGED <<now, dispatch>>

\* A worker dies, or a transaction or the authorisation fails.
Crash(w) == /\ phase[w] # "idle" /\ Returns(w, phase[w])
            /\ UNCHANGED <<now, record, dispatch>>

\* The dispatch ends on its own.
Ends == /\ dispatch = "open" /\ dispatch' = "terminal"
        /\ UNCHANGED <<now, record, phase, at, token, outcome>>

\* Time matters while a deadline of the record is not past on every clock.
Later(a, b) == IF a > b THEN a ELSE b
Tick == /\ record.state \in {"claimed", "queued"}
        /\ now < Later(record.claimUntil, record.nextEligibleAt) + Skew
        /\ now' = now + 1
        /\ UNCHANGED <<record, phase, at, token, outcome, dispatch>>

Step(w) == Sample(w) \/ Claim(w) \/ Deliver(w) \/ Finish(w) \/ Crash(w)
Next == Tick \/ Ends \/ \E w \in Worker : Step(w)
Spec == Init /\ [][Next]_vars

\* The loop of the drain comes back to what its discovery returns, calls return,
\* and time passes.  No command is fair, and nothing keeps a worker from dying
\* with every lease.
Drains == \A w \in Worker : /\ WF_vars(Drain(w)) /\ SF_vars(Claim(w))
                            /\ WF_vars(Deliver(w)) /\ WF_vars(Finish(w))
FairSpec == Spec /\ Drains /\ WF_vars(Tick)

----------------------------------------------------------------------------
\* Every variable keeps to the values the code gives it; each acquired lease is
\* one attempt.
TypeOK ==
  /\ now \in Nat /\ dispatch \in {"open", "terminal", "prevented"}
  /\ record \in [state : {"absent", "claimed", "queued"} \cup Final, attempts : 0..MaxAttempts,
                 token : Nat, claimUntil : Nat, nextEligibleAt : Nat]
  /\ phase \in [Worker -> {"idle", "asking", "delivering", "answered"}]
  /\ at \in [Worker -> Nat] /\ token \in [Worker -> Nat]
  /\ outcome \in [Worker -> {"unresolved", "terminal", "prevented"}]

\* Crashes, takeovers and late answers included, the dispatch is called under at
\* most MaxAttempts leases.
AttemptsBounded == record.token <= MaxAttempts /\ \A w \in Worker : token[w] <= MaxAttempts

\* The journal says the delivery ended the dispatch only when the dispatch did.
EndIsReal == record.state \in {"terminal", "prevented"} => dispatch = record.state

\* A delivery is taken over or retried only when nobody's clock, its holder's
\* included, still sees the lease or the delay running.
TakenWhenDue ==
  record.token # record'.token /\ record.state # "absent" =>
    \A w \in Worker : /\ Clock(w) >= record.nextEligibleAt
                      /\ record.state = "claimed" => Clock(w) >= record.claimUntil
TakenOnlyWhenDue == [][TakenWhenDue]_vars

\* A decided delivery stays as it is, whatever a superseded holder answers.
DecisionStands == record.state \in Final => record' = record
DecidedIsFinal == [][DecisionStands]_vars

\* A dispatch that does not end by itself has its cancellation decided, also when
\* the command died before the first claim and every holder with its lease.  Once
\* it ended the drain never returns: the record may stay claimed or queued.
DecidedUnlessEnded == <>(record.state \in Final \/ dispatch # "open")
=============================================================================
