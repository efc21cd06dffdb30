---------------------------- MODULE SpendAccount ----------------------------
(***************************************************************************)
(* The spending account of one scope (src/src/engine/core/provider-spend): *)
(* reservations made before a call, settlements after it, and the commands *)
(* that correct and revise them.  Time is counted in calendar months and   *)
(* exact money in parts of a minor unit, Scale of them to the unit.        *)
(***************************************************************************)
EXTENDS Integers

CONSTANTS Scale,   \* exact parts in a minor unit
          AnyZone  \* of a record that reads the same in every time zone
ASSUME ScaleIsPositive == Scale \in Nat \ {0}

NoReservation == [state |-> "none", exact |-> 0, upper |-> FALSE, at |-> 0]
OnHold == {"held", "overrun"}

Ceil(exact) == (exact + Scale - 1) \div Scale
Used(a) == a.settled - a.base
\* Money is rounded up once, over all that was used.
Committed(a) == a.reserved + Ceil(Used(a))

\* A month that has ended leaves what it used behind; what it reserved stays reserved.
Advance(a, now) ==
  IF a.monthly /\ now >= a.reset
  THEN [a EXCEPT !.start = a.reset, !.reset = now + 1, !.base = a.settled]
  ELSE a

\* The first claim of a scope opens the account of the configured budget; a command may have created one before.
Opened(limit, now) ==
  [limit |-> limit, revision |-> 1, reserved |-> 0, settled |-> 0, frozen |-> FALSE,
   monthly |-> TRUE, start |-> now, reset |-> now + 1, base |-> 0, zone |-> AnyZone]
Governed(limit, monthly, now, zone) ==
  IF monthly THEN [Opened(limit, now) EXCEPT !.zone = zone]
  ELSE [Opened(limit, now) EXCEPT !.monthly = FALSE, !.start = 0, !.reset = 0]
\* Slip: the used money is rounded down.
HasRoomRoundedDown(a, cap) ==
  ~a.frozen /\ (cap = 0 \/ a.reserved + cap + Used(a) \div Scale <= a.limit)
HasRoom(a, cap) == ~a.frozen /\ (cap = 0 \/ Committed(a) + cap <= a.limit)
Reserve(a, cap) == [account |-> [a EXCEPT !.reserved = @ + cap],
                    reservation |-> [NoReservation EXCEPT !.state = "reserved"]]

\* settleProviderSpend(): nothing was charged, the charge is unknown, or it was measured.
Release(a, r, cap, now) ==
  [account |-> [Advance(a, now) EXCEPT !.reserved = @ - cap],
   reservation |-> [r EXCEPT !.state = "released"]]
Hold(a, r, now) ==
  [account |-> Advance(a, now), reservation |-> [r EXCEPT !.state = "held"]]
Charge(a, r, cap, exact, upper, now) ==
  IF Ceil(exact) > cap
  THEN [account |-> [Advance(a, now) EXCEPT !.frozen = TRUE],
        reservation |-> [r EXCEPT !.state = "overrun"]]
  ELSE [account |-> [Advance(a, now) EXCEPT !.reserved = @ - cap, !.settled = @ + exact],
        reservation |-> [r EXCEPT !.state = "settled", !.exact = exact, !.upper = upper, !.at = now]]
CanSettle(a, r, cap) == r.state = "reserved" /\ a.reserved >= cap

\* Held money is settled once by command, and a settled upper bound lowered once.
IsUpperBound(r) == r.state = "settled" /\ r.upper
Returned(r, cap) == IF IsUpperBound(r) THEN 0 ELSE cap
\* Slip: the bound that is replaced stays counted.
NothingReplaced(r) == 0
Replaced(r) == IF IsUpperBound(r) THEN r.exact ELSE 0
\* Slip: a refund of an earlier month lowers this month's use.
BaseStays(a, settled, at) == a.base
\* A refund of an earlier month lowers what that month had used.
BaseAfter(a, settled, at) ==
  IF a.monthly /\ settled < a.settled /\ at < a.start THEN a.base - (a.settled - settled) ELSE a.base
Reconcile(a, r, cap, exact, now) ==
  LET b == Advance(a, now)
      settled == b.settled - Replaced(r) + exact IN
  [account |-> [b EXCEPT !.settled = settled, !.base = BaseAfter(b, settled, r.at),
                         !.reserved = @ - Returned(r, cap),
                         !.frozen = @ \/ Ceil(exact) > cap],
   reservation |-> [state |-> "reconciled", exact |-> exact, upper |-> FALSE,
                    at |-> IF IsUpperBound(r) THEN r.at ELSE now]]
CanReconcile(a, r, cap, exact, now) ==
  /\ \/ IsUpperBound(r) /\ exact <= r.exact
     \/ r.state \in OnHold /\ a.reserved >= cap
  /\ LET after == Reconcile(a, r, cap, exact, now).account IN 0 <= after.base /\ after.base <= after.settled

\* The account is read through the receipt of its last command, which is derived anew in the reader's time zone.
Revise(a, limit, unfreeze, now, zone) ==
  [Advance(a, now) EXCEPT !.limit = limit, !.revision = @ + 1,
                          !.frozen = @ /\ ~unfreeze,
                          !.zone = IF Advance(a, now) = a THEN AnyZone ELSE zone]
Readable(a, zone) == a.zone \in {AnyZone, zone}

\* At start: a hold whose price is zero in every part.
CanRecover(r, cap) == r.state = "held" /\ cap = 0
Recover(r) == [r EXCEPT !.state = "settled"]

\* What one reservation binds of the account: a reserve, or an exact sum.
Reserves(r, cap) == IF r.state = "reserved" \/ r.state \in OnHold THEN cap ELSE 0
Spent(r) == IF r.state \in {"settled", "reconciled"} THEN r.exact ELSE 0
=============================================================================
