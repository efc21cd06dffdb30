----------------------------- MODULE ModelCalls -----------------------------
(***************************************************************************)
(* Calls to a paid model (src/src/engine/core/model-invocation,            *)
(* adapters/core/sqlite-model-invocation).  A call is claimed, with its    *)
(* slot and its reserve; permitted; sent; and recorded, each step one      *)
(* transaction of a ledger that several service hosts share.  A host may   *)
(* die anywhere; its next start settles the calls it had permitted.        *)
(***************************************************************************)
EXTENDS SpendAccount, FiniteSets, FiniteSetsExt

CONSTANTS Call, Host,
          HostOf,       \* the host that makes a call, whose custody its send owner names
          CapOf,        \* the quoted maximum of a call, in minor units
          ChargesOf,    \* bound: what the provider may charge for it
          Bounds,       \* bound: charges an upper bound may state
          Limits,       \* bound: budget limits
          Renewals,     \* bound: whether a created budget renews every month
          MaxInFlight,  \* profile.allocation.maxInFlight
          NoAccount, Zones,
          Lag,          \* bound: months the clock may move between its reading and a transaction
          MaxMonth, MaxRevision  \* bounds
ASSUME CallsAreFinite == IsFiniteSet(Call)
ASSUME HostsOfCalls == HostOf \in [Call -> Host]
ASSUME CapsAreAmounts == CapOf \in [Call -> Nat]
ASSUME ChargesAreAmounts == \A c \in Call : ChargesOf[c] \subseteq Nat
ASSUME BoundsAreAmounts == Bounds \subseteq Nat /\ Limits \subseteq Nat /\ Renewals \subseteq BOOLEAN
ASSUME LimitsOfModel == MaxInFlight \in Nat \ {0} /\ Lag \in Nat /\ MaxMonth \in Nat /\ MaxRevision \in Nat \ {0}

VARIABLES
  month, zone,  \* the clock and the time zone
  host,         \* "down", "starting" or "up"
  local,        \* what the host's process does for a call
  outcome,      \* of the call's durable record: "claimed" until it is "settled", however it ended
  send,         \* of its control record: "pending", "permitted" or "prevented"
  res,          \* its reservation
  account,      \* the spending account of the scope
  inFlight,     \* slots taken in the allocation
  charge        \* what the provider charges for the call
durable == <<outcome, send, res, account, inFlight>>
vars == <<month, zone, host, local, durable, charge>>

Open == {c \in Call : outcome[c] = "claimed"}
Running(c) == host[HostOf[c]] = "up"
ReadableNow == account # NoAccount /\ Readable(account, zone)
Clock == {t \in 0..month : t + Lag >= month}

Init ==
  /\ month = 0 /\ zone \in Zones
  /\ host = [h \in Host |-> "up"] /\ local = [c \in Call |-> "idle"]
  /\ outcome = [c \in Call |-> "none"] /\ send = [c \in Call |-> "pending"]
  /\ res = [c \in Call |-> NoReservation]
  /\ account = NoAccount /\ inFlight = 0
  /\ charge = [c \in Call |-> 0]

Goes(c, to) == local' = [local EXCEPT ![c] = to]
Books(c, after) == account' = after.account /\ res' = [res EXCEPT ![c] = after.reservation]

----------------------------------------------------------------------------
(* The call.  An answer of the store may be lost after it committed: the   *)
(* call then ends in its process as one whose outcome is unknown.          *)

Claim(c) == \E now \in Clock, limit \in Limits :
  LET current == IF account = NoAccount THEN Opened(limit, now) ELSE account IN
  /\ Running(c) /\ local[c] = "idle" /\ outcome[c] = "none" /\ inFlight < MaxInFlight
  /\ Readable(current, zone) /\ HasRoom(Advance(current, now), CapOf[c])
  /\ inFlight' = inFlight + 1
  /\ outcome' = [outcome EXCEPT ![c] = "claimed"]
  /\ Books(c, Reserve(Advance(current, now), CapOf[c]))
  /\ \E to \in {"claimed", "gone"} : Goes(c, to)
  /\ UNCHANGED <<month, zone, host, send, charge>>

\* A call that was cancelled since its claim is not permitted.
Permit(c) ==
  /\ Running(c) /\ local[c] = "claimed"
  /\ IF send[c] = "pending"
     THEN /\ send' = [send EXCEPT ![c] = "permitted"]
          /\ \E to \in {"permitted", "gone"} : Goes(c, to)
     ELSE UNCHANGED send /\ Goes(c, "gone")
  /\ UNCHANGED <<month, zone, host, outcome, res, account, inFlight, charge>>

\* A call may be aborted before it is posted: it is charged nothing.
Send(c) == \E amount \in ChargesOf[c] :
  /\ Running(c) /\ local[c] = "permitted"
  /\ charge' = [charge EXCEPT ![c] = amount] /\ Goes(c, "sent")
  /\ UNCHANGED <<month, zone, host, durable>>

\* persistOutcome(): outcome, money and slot in one transaction.
Settle(c, after) ==
  /\ outcome[c] = "claimed" /\ ReadableNow /\ inFlight > 0
  /\ CanSettle(account, res[c], CapOf[c])
  /\ outcome' = [outcome EXCEPT ![c] = "settled"] /\ inFlight' = inFlight - 1
  /\ Books(c, after)

Answered(c) == Running(c) /\ local[c] = "sent" /\ Goes(c, "gone") /\ UNCHANGED <<month, zone, host, send, charge>>
\* A response, or the part of one, whose usage is measured exactly, or bounded by a tariff whose
\* schedule the answer does not name.
RecordMeasured(c) == \E now \in Clock, exact \in Bounds \cup {charge[c]} :
  /\ Answered(c) /\ exact >= charge[c]
  /\ Settle(c, Charge(account, res[c], CapOf[c], exact, exact # charge[c], now))
\* No usage, no answer, a rejection nothing certifies: the reserve is kept.
RecordHeld(c) == \E now \in Clock : Answered(c) /\ Settle(c, Hold(account, res[c], now))
\* Refused before it was posted, or by a vendor whose rejections are certified free.
RecordFree(c) == \E now \in Clock :
  Answered(c) /\ charge[c] = 0 /\ Settle(c, Release(account, res[c], CapOf[c], now))
\* Nothing was written: the store was busy, or the account could not be read.
RecordFails(c) == Answered(c) /\ UNCHANGED durable

\* Slip: a send that has its permission is prevented.
AlwaysPreventable(c) == TRUE
Preventable(c) == send[c] = "pending"
\* A cancellation prevents what has no permission; otherwise it records an intent and aborts the local send.
Cancel(c) == \E now \in Clock :
  /\ outcome[c] = "claimed" /\ Preventable(c)
  /\ send' = [send EXCEPT ![c] = "prevented"]
  /\ Settle(c, Release(account, res[c], CapOf[c], now))
  /\ UNCHANGED <<month, zone, host, local, charge>>

----------------------------------------------------------------------------
(* Hosts.                                                                  *)

Crash(h) ==
  /\ host[h] # "down" /\ host' = [host EXCEPT ![h] = "down"]
  /\ local' = [c \in Call |-> IF HostOf[c] = h /\ local[c] # "idle" THEN "gone" ELSE local[c]]
  /\ UNCHANGED <<month, zone, durable, charge>>

\* Slip: every owner has ended, or none has.
EveryEnded(h, c) == TRUE
NoneEnded(h, c) == FALSE
\* endedRuntimeServiceModelOwner(): custody of an endpoint proves only its own owners ended.
Ended(h, c) == HostOf[c] = h
Lost(h) == {c \in Open : send[c] = "permitted" /\ Ended(h, c)}
\* reconcileAllocation(): an allocation that does not verify is left as it is.
StartSlots(h) ==
  /\ host[h] = "down" /\ host' = [host EXCEPT ![h] = "starting"]
  /\ IF Lost(h) # {} /\ ReadableNow /\ inFlight = Cardinality(Open)
     THEN \E now \in Clock :
            /\ outcome' = [c \in Call |-> IF c \in Lost(h) THEN "settled" ELSE outcome[c]]
            /\ inFlight' = inFlight - Cardinality(Lost(h))
            /\ account' = Advance(account, now)
            /\ res' = [c \in Call |-> IF c \in Lost(h) THEN Hold(account, res[c], now).reservation ELSE res[c]]
     ELSE UNCHANGED <<outcome, inFlight, account, res>>
  /\ UNCHANGED <<month, zone, local, send, charge>>

\* recoverCertifiedHolds(), then the host serves.
StartHolds(h) ==
  LET recovered == IF ReadableNow THEN {c \in Call : CanRecover(res[c], CapOf[c])} ELSE {} IN
  /\ host[h] = "starting" /\ host' = [host EXCEPT ![h] = "up"]
  /\ res' = [c \in Call |-> IF c \in recovered THEN Recover(res[c]) ELSE res[c]]
  /\ UNCHANGED <<month, zone, local, outcome, send, account, inFlight, charge>>

----------------------------------------------------------------------------
(* Governed commands, and the clock.                                       *)

CreateBudget == \E limit \in Limits, now \in Clock, monthly \in Renewals :
  /\ account = NoAccount /\ account' = Governed(limit, monthly, now, zone)
  /\ UNCHANGED <<month, zone, host, local, outcome, send, res, inFlight, charge>>

ReviseBudget(unfreeze) == \E limit \in Limits, now \in Clock :
  /\ ReadableNow /\ account.revision < MaxRevision
  /\ account' = Revise(account, limit, unfreeze, now, zone)
  /\ UNCHANGED <<month, zone, host, local, outcome, send, res, inFlight, charge>>

\* The operator settles what a console shows, releases, or writes off.
ReconcileCall(c) == \E now \in Clock, exact \in ChargesOf[c] \cup {0} :
  /\ ReadableNow /\ CanReconcile(account, res[c], CapOf[c], exact, now)
  /\ Books(c, Reconcile(account, res[c], CapOf[c], exact, now))
  /\ UNCHANGED <<month, zone, host, local, outcome, send, inFlight, charge>>

NextMonth == month < MaxMonth /\ month' = month + 1 /\ UNCHANGED <<zone, host, local, durable, charge>>
----------------------------------------------------------------------------
CallStep(c) == \/ Claim(c) \/ Permit(c) \/ Send(c) \/ RecordMeasured(c) \/ RecordHeld(c)
               \/ RecordFree(c) \/ RecordFails(c) \/ Cancel(c) \/ ReconcileCall(c)
HostStep(h) == Crash(h) \/ StartSlots(h) \/ StartHolds(h)
Next == \/ \E c \in Call : CallStep(c)
        \/ \E h \in Host : HostStep(h)
        \/ CreateBudget \/ \E unfreeze \in BOOLEAN : ReviseBudget(unfreeze)
        \/ NextMonth
Spec == Init /\ [][Next]_vars
\* A service that was stopped is started again.
FairSpec == Spec /\ \A h \in Host : WF_vars(StartSlots(h))

\* A machine that is moved: its processes start again in another time zone.
ChangeZone == \E z \in Zones \ {zone} :
  /\ \A h \in Host : host[h] = "down"
  /\ zone' = z /\ UNCHANGED <<month, host, local, durable, charge>>
MovingSpec == Init /\ [][Next \/ ChangeZone]_vars

----------------------------------------------------------------------------
Accounts == [limit : Nat, revision : 1..MaxRevision, reserved : Nat, settled : Nat, frozen : BOOLEAN,
             monthly : BOOLEAN, start : Nat, reset : Nat, base : Nat, zone : Zones \cup {AnyZone}]
ASSUME NoAccountIsNoRecord == NoAccount \notin Accounts
Reservations == [state : {"none", "reserved", "released", "settled", "reconciled"} \cup OnHold,
                 exact : Nat, upper : BOOLEAN, at : Nat]
\* The variables keep their types: no amount of the account, nor the slot count, falls below zero
\* (parseProviderSpendAccount, parseModelAllocation).
TypeOK ==
  /\ month \in 0..MaxMonth /\ zone \in Zones
  /\ host \in [Host -> {"down", "starting", "up"}]
  /\ local \in [Call -> {"idle", "claimed", "permitted", "sent", "gone"}]
  /\ outcome \in [Call -> {"none", "claimed", "settled"}]
  /\ send \in [Call -> {"pending", "permitted", "prevented"}]
  /\ res \in [Call -> Reservations]
  /\ account = NoAccount \/ (account \in Accounts /\ account.base <= account.settled)
  /\ inFlight \in 0..MaxInFlight /\ charge \in [Call -> Nat]

\* The audit's fold over the reservations gives the account back: each reserve and each exact sum is
\* counted once, through settlement, correction and start (verifyProviderSpendIntegrity).
MoneyAddsUp == account # NoAccount =>
  /\ account.reserved = SumFunction([c \in Call |-> Reserves(res[c], CapOf[c])])
  /\ account.settled = SumFunction([c \in Call |-> Spent(res[c])])

\* Until an operator corrects it, what the provider charges within the quoted maximum is covered by the
\* account: a call it may bill is not released, whoever cancelled, crashed or recovered it.
ChargesCovered == \A c \in Call :
  LET covered == Spent(res[c]) + Scale * Reserves(res[c], CapOf[c]) IN
  res[c].state # "reconciled" /\ charge[c] <= Scale * CapOf[c] => charge[c] <= covered

Within(a) == a.revision = 1 /\ ~a.frozen => Committed(a) <= a.limit
\* What is reserved and used stays within the first budget unless an overrun froze the account
\* (parseProviderSpendAccount refuses it otherwise, and with it every later call).
LimitHeld == account # NoAccount => Within(account)

\* No more sends are under way than the allocation has slots: a slot is not freed under a live send.
LiveWithinCapacity ==
  Cardinality({c \in Call : local[c] \in {"permitted", "sent"}}) <= MaxInFlight

\* What this month's calls spent counts against this month, whatever an operator corrects of an earlier one.
AllowanceOfItsMonth ==
  LET spent == [c \in Call |-> IF res[c].at >= account.start THEN Spent(res[c]) ELSE 0] IN
  account # NoAccount /\ account.monthly => Used(account) >= SumFunction(spent)

\* A call whose host died with the permission to send it is settled after a start of that host.
LostCallsSettle == \A c \in Call :
  (c \in Open /\ send[c] = "permitted" /\ host[HostOf[c]] = "down") ~> c \notin Open

\* The account can be read, whatever became of the time zone: a pinned reset is not affected by it
\* (provider-spend/internal/period.ts:60).
AccountReadable == account # NoAccount => Readable(account, zone)
=============================================================================
