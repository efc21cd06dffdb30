-------------------------- MODULE ModelCallsProofs --------------------------
(***************************************************************************)
(* For every number of calls and hosts, every quote, charge, budget and    *)
(* lag: the variables of ModelCalls keep their types; what a budget's      *)
(* first revision reserved and used stays within its limit unless an       *)
(* overrun froze it; a live send has a slot, and a charge that may still   *)
(* come is covered; and the account is the sum of its reservations, with   *)
(* the month's own spending in the month.  Each argument is first one of   *)
(* the account's operators, then one of the transactions that use them.    *)
(***************************************************************************)
EXTENDS ModelCalls, FiniteSetTheorems, NaturalsInduction, TLAPS

\* Rounding up: the least number of units that covers an exact sum.
LEMMA CeilCovers ==
  ASSUME NEW x \in Int
  PROVE  Ceil(x) \in Int /\ x <= Scale * Ceil(x) /\ Scale * (Ceil(x) - 1) < x
<1> DEFINE n == x + Scale - 1
           q == n \div Scale
<1>1. Scale \in Int /\ Scale > 0 /\ n \in Int
  BY ScaleIsPositive
<1> HIDE DEF n
<1>2. q \in Int /\ Scale * q <= n /\ n < Scale * q + Scale
  BY <1>1
<1>3. Ceil(x) = q
  BY DEF Ceil, n
<1> HIDE DEF q
<1>4. Scale * (q - 1) = Scale * q - Scale /\ Scale * q \in Int
  BY <1>1, <1>2
<1>5. n = x + Scale - 1
  BY DEF n
<1> QED BY <1>1, <1>2, <1>3, <1>4, <1>5

LEMMA CeilIsLeast ==
  ASSUME NEW x \in Int, NEW n \in Int, x <= Scale * n
  PROVE  Ceil(x) <= n
<1>1. Ceil(x) \in Int /\ Scale * (Ceil(x) - 1) < Scale * n
  BY CeilCovers, ScaleIsPositive
<1>2. Ceil(x) - 1 < n
  BY <1>1, ScaleIsPositive
<1> QED BY <1>1, <1>2

LEMMA CeilMonotone ==
  ASSUME NEW x \in Int, NEW y \in Int, x <= y
  PROVE  Ceil(x) <= Ceil(y)
  BY CeilCovers, CeilIsLeast, ScaleIsPositive

LEMMA CeilOfSum ==
  ASSUME NEW x \in Int, NEW y \in Int
  PROVE  Ceil(x + y) <= Ceil(x) + Ceil(y)
<1>1. Ceil(x) \in Int /\ Ceil(y) \in Int /\ x + y <= Scale * Ceil(x) + Scale * Ceil(y)
  BY CeilCovers, ScaleIsPositive
<1>2. Scale * Ceil(x) + Scale * Ceil(y) = Scale * (Ceil(x) + Ceil(y))
  BY <1>1, ScaleIsPositive
<1> QED BY <1>1, <1>2, CeilIsLeast

----------------------------------------------------------------------------
(* An account is sound if a record of its kind can hold it, what earlier   *)
(* months used is not more than what was settled, and it is within its     *)
(* first limit.                                                            *)
Sound(a) == a \in Accounts /\ a.base <= a.settled /\ Within(a)

\* Less use and fewer reserves under the same limit stay within it.
LEMMA WithinIsMonotone ==
  ASSUME NEW a \in Accounts, NEW b \in Accounts, Within(a),
         b.limit = a.limit, b.revision = a.revision, b.frozen = FALSE => a.frozen = FALSE,
         b.frozen = FALSE => b.reserved <= a.reserved, Used(b) <= Used(a)
  PROVE  Within(b)
<1>1. Used(a) \in Int /\ Used(b) \in Int
  BY DEF Used, Accounts
<1>2. Ceil(Used(b)) <= Ceil(Used(a)) /\ Ceil(Used(a)) \in Int /\ Ceil(Used(b)) \in Int
  BY <1>1, CeilMonotone, CeilCovers
<1> QED BY <1>2 DEF Within, Committed, Accounts

\* The end of a month only lowers what is used.
LEMMA AdvanceKeeps ==
  ASSUME NEW a, Sound(a), NEW now \in Nat
  PROVE  /\ Sound(Advance(a, now)) /\ Advance(a, now).settled = a.settled
         /\ Advance(a, now).reserved = a.reserved /\ Advance(a, now).limit = a.limit
         /\ Advance(a, now).revision = a.revision /\ Advance(a, now).frozen = a.frozen
<1> DEFINE b == Advance(a, now)
<1>1. CASE a.monthly /\ now >= a.reset
  <2>0. /\ a \in Accounts /\ now + 1 \in Nat
        /\ b = [a EXCEPT !.start = a.reset, !.reset = now + 1, !.base = a.settled]
    BY <1>1 DEF Advance, Sound
  <2>1. /\ b \in Accounts /\ b.settled = a.settled /\ b.base = a.settled
        /\ b.reserved = a.reserved /\ b.limit = a.limit /\ b.revision = a.revision /\ b.frozen = a.frozen
    BY <2>0 DEF Accounts
  <2> HIDE DEF b
  <2>2. Used(b) <= Used(a)
    BY <2>1 DEF Used, Sound, Accounts
  <2>3. b.reserved <= a.reserved
    BY <2>0, <2>1 DEF Accounts
  <2>4. Within(b)
    BY <2>0, <2>1, <2>2, <2>3, WithinIsMonotone DEF Sound
  <2>5. b.base <= b.settled
    BY <2>0, <2>1 DEF Accounts
  <2> QED BY <2>1, <2>4, <2>5 DEF Sound, b
<1>2. CASE ~(a.monthly /\ now >= a.reset)
  BY <1>2 DEF Advance
<1> QED BY <1>1, <1>2

LEMMA OpenedIsSound ==
  ASSUME NEW limit \in Nat, NEW now \in Nat, NEW z \in Zones, NEW monthly \in BOOLEAN
  PROVE  Sound(Opened(limit, now)) /\ Sound(Governed(limit, monthly, now, z))
<1>0. now + 1 \in Nat /\ 1 \in 1..MaxRevision
  BY LimitsOfModel
<1>1. Opened(limit, now) \in Accounts /\ Governed(limit, monthly, now, z) \in Accounts
  BY <1>0 DEF Opened, Governed, Accounts
<1>2. Ceil(0) <= 0
  BY CeilIsLeast, ScaleIsPositive
<1>3. \A a \in Accounts : a.reserved = 0 /\ a.settled = 0 /\ a.base = 0 => Sound(a)
  BY <1>2, CeilCovers DEF Sound, Within, Committed, Used, Accounts
<1> QED BY <1>1, <1>3 DEF Opened, Governed

\* A reserve is made where there is room, and a free call makes none.
LEMMA ReserveKeeps ==
  ASSUME NEW a, Sound(a), NEW cap \in Nat, HasRoom(a, cap)
  PROVE  Sound(Reserve(a, cap).account)
<1> DEFINE b == Reserve(a, cap).account
<1>1. /\ b \in Accounts /\ b.reserved = a.reserved + cap /\ b.settled = a.settled /\ b.base = a.base
      /\ b.limit = a.limit /\ b.revision = a.revision /\ b.frozen = a.frozen
  BY DEF Reserve, Sound, Accounts
<1>2. Used(b) = Used(a) /\ Used(a) \in Int
  BY <1>1 DEF Used, Sound, Accounts
<1>3. Ceil(Used(a)) \in Int
  BY <1>2, CeilCovers
<1>4. Within(b)
  BY <1>1, <1>2, <1>3 DEF Sound, Within, Committed, HasRoom, Accounts
<1> QED BY <1>1, <1>4 DEF Sound

\* A settlement adds no more, rounded up, than the reserve it returns; an overrun freezes the account.
LEMMA ReturnKeeps ==
  ASSUME NEW a, Sound(a), NEW cap \in Nat, a.reserved >= cap, NEW exact \in Nat, Ceil(exact) <= cap
  PROVE  Sound([a EXCEPT !.reserved = a.reserved - cap, !.settled = a.settled + exact])
<1> DEFINE b == [a EXCEPT !.reserved = a.reserved - cap, !.settled = a.settled + exact]
<1>0. a \in Accounts /\ a.reserved - cap \in Nat /\ a.settled + exact \in Nat
  BY DEF Sound, Accounts
<1>1. /\ b \in Accounts /\ b.reserved = a.reserved - cap /\ b.settled = a.settled + exact /\ b.base = a.base
      /\ b.limit = a.limit /\ b.revision = a.revision /\ b.frozen = a.frozen
  BY <1>0 DEF Accounts
<1>2. Used(b) = Used(a) + exact /\ Used(a) \in Int /\ b.base <= b.settled
  BY <1>0, <1>1 DEF Used, Sound, Accounts
<1>3. Ceil(Used(b)) <= Ceil(Used(a)) + Ceil(exact)
  BY <1>2, CeilOfSum
<1>4. Ceil(Used(b)) \in Int /\ Ceil(Used(a)) \in Int /\ Ceil(exact) \in Int
  BY <1>2, CeilCovers
<1>5. Within(b)
  BY <1>0, <1>1, <1>3, <1>4 DEF Sound, Within, Committed, Accounts
<1> QED BY <1>1, <1>2, <1>5 DEF Sound

LEMMA SettlementKeeps ==
  ASSUME NEW a, Sound(a), NEW cap \in Nat, NEW r \in Reservations, CanSettle(a, r, cap),
         NEW exact \in Nat, NEW upper \in BOOLEAN, NEW now \in Nat
  PROVE  /\ Sound(Release(a, r, cap, now).account) /\ Release(a, r, cap, now).reservation \in Reservations
         /\ Sound(Hold(a, r, now).account) /\ Hold(a, r, now).reservation \in Reservations
         /\ Sound(Charge(a, r, cap, exact, upper, now).account)
         /\ Charge(a, r, cap, exact, upper, now).reservation \in Reservations
<1> DEFINE b == Advance(a, now)
<1>1. Sound(b) /\ b.reserved >= cap /\ b \in Accounts
  BY AdvanceKeeps DEF CanSettle, Sound
<1> HIDE DEF b
<1>2. Ceil(0) <= cap
  BY CeilIsLeast, ScaleIsPositive
<1>3. Sound([b EXCEPT !.reserved = b.reserved - cap, !.settled = b.settled + 0])
  BY <1>1, <1>2, ReturnKeeps
<1>4. [b EXCEPT !.reserved = b.reserved - cap, !.settled = b.settled + 0] = [b EXCEPT !.reserved = b.reserved - cap]
  <2>1. b.reserved - cap \in Nat /\ b.settled + 0 = b.settled
    BY <1>1 DEF Accounts
  <2> QED BY <1>1, <2>1 DEF Accounts
<1>5. Sound(Release(a, r, cap, now).account) /\ Sound(Hold(a, r, now).account)
  BY <1>1, <1>3, <1>4 DEF Release, Hold, b
<1>6. Sound(Charge(a, r, cap, exact, upper, now).account)
  <2>1. CASE Ceil(exact) > cap
    <3>1. Sound([b EXCEPT !.frozen = TRUE])
      BY <1>1 DEF Sound, Within, Accounts
    <3> QED BY <2>1, <3>1 DEF Charge, b
  <2>2. CASE ~(Ceil(exact) > cap)
    <3>1. Ceil(exact) <= cap
      BY <2>2, CeilCovers
    <3>2. Sound([b EXCEPT !.reserved = b.reserved - cap, !.settled = b.settled + exact])
      BY <1>1, <3>1, ReturnKeeps
    <3> QED BY <2>2, <3>2 DEF Charge, b
  <2> QED BY <2>1, <2>2
<1>7. /\ Release(a, r, cap, now).reservation \in Reservations /\ Hold(a, r, now).reservation \in Reservations
      /\ Charge(a, r, cap, exact, upper, now).reservation \in Reservations
  BY DEF Release, Hold, Charge, Reservations, OnHold
<1> QED BY <1>5, <1>6, <1>7

\* A correction keeps the account sound: the guard is the code's refusal of a negative difference.
LEMMA ReconcileKeeps ==
  ASSUME NEW a, Sound(a), NEW cap \in Nat, NEW r \in Reservations, NEW exact \in Nat, NEW now \in Nat,
         CanReconcile(a, r, cap, exact, now)
  PROVE  /\ Sound(Reconcile(a, r, cap, exact, now).account)
         /\ Reconcile(a, r, cap, exact, now).reservation \in Reservations
<1> DEFINE b == Advance(a, now)
           settled == b.settled - Replaced(r) + exact
           base == BaseAfter(b, settled, r.at)
           reserved == b.reserved - Returned(r, cap)
           frozen == b.frozen \/ Ceil(exact) > cap
           d == [b EXCEPT !.settled = settled, !.base = base, !.reserved = reserved, !.frozen = frozen]
<1>1. Sound(b) /\ b \in Accounts /\ b.reserved = a.reserved
  BY AdvanceKeeps DEF Sound
<1>2. /\ b.reserved \in Nat /\ b.settled \in Nat /\ b.base \in Nat /\ b.base <= b.settled
      /\ b.frozen \in BOOLEAN /\ r.exact \in Nat /\ r.at \in Nat
  BY <1>1 DEF Sound, Accounts, Reservations
<1>3. d = Reconcile(a, r, cap, exact, now).account
  BY DEF Reconcile
<1> HIDE DEF b
<1>4. d.base = base /\ d.settled = settled /\ d.reserved = reserved /\ d.frozen = frozen
  BY <1>1 DEF Accounts
<1>5. 0 <= base /\ base <= settled
  BY <1>3, <1>4 DEF CanReconcile
<1>6. reserved \in Nat /\ reserved <= b.reserved
  BY <1>1, <1>2 DEF CanReconcile, Returned, IsUpperBound, OnHold
<1>7. settled \in Int /\ base \in Int
  BY <1>2 DEF Replaced, BaseAfter
<1>8. /\ d \in Accounts /\ d.limit = b.limit /\ d.revision = b.revision
  <2>1. settled \in Nat /\ base \in Nat /\ frozen \in BOOLEAN
    BY <1>5, <1>7
  <2> HIDE DEF settled, base, reserved, frozen
  <2> QED BY <1>1, <1>6, <2>1 DEF Accounts
<1>9. Within(d)
  <2>1. CASE IsUpperBound(r)
    <3>1. exact <= r.exact /\ settled = b.settled - r.exact + exact /\ reserved = b.reserved
      BY <1>1, <1>2, <2>1 DEF CanReconcile, IsUpperBound, OnHold, Replaced, Returned
    <3>2. settled - base <= b.settled - b.base
      BY <1>2, <3>1 DEF BaseAfter
    <3>3. Used(d) <= Used(b) /\ d.reserved <= b.reserved
      BY <1>2, <1>4, <3>1, <3>2 DEF Used
    <3>4. d.frozen = FALSE => b.frozen = FALSE
      BY <1>2, <1>4
    <3> QED BY <1>1, <1>8, <3>3, <3>4, WithinIsMonotone DEF Sound
  <2>2. CASE ~IsUpperBound(r)
    <3>1. settled = b.settled + exact /\ reserved = b.reserved - cap
      BY <1>2, <2>2 DEF Replaced, Returned
    <3>2. base = b.base
      BY <1>2, <3>1 DEF BaseAfter
    <3>3. Used(d) = Used(b) + exact /\ Used(b) \in Int
      BY <1>2, <1>4, <3>1, <3>2 DEF Used
    <3>4. Ceil(Used(d)) <= Ceil(Used(b)) + Ceil(exact)
      BY <3>3, CeilOfSum
    <3>5. Ceil(Used(d)) \in Int /\ Ceil(Used(b)) \in Int /\ Ceil(exact) \in Int
      BY <3>3, CeilCovers
    <3>6. CASE Ceil(exact) > cap
      BY <1>4, <3>6 DEF Within
    <3>7. CASE ~(Ceil(exact) > cap)
      <4>1. d.reserved + Ceil(Used(d)) <= b.reserved + Ceil(Used(b))
        BY <1>2, <1>4, <3>1, <3>4, <3>5, <3>7
      <4>2. d.frozen = b.frozen /\ d.limit \in Nat
        BY <1>2, <1>4, <1>8, <3>7 DEF Accounts
      <4> QED BY <1>1, <1>2, <1>4, <1>8, <3>1, <3>5, <4>1, <4>2 DEF Sound, Within, Committed
    <3> QED BY <3>6, <3>7
  <2> QED BY <2>1, <2>2
<1>10. Sound(d)
  BY <1>4, <1>5, <1>8, <1>9 DEF Sound
<1>11. Reconcile(a, r, cap, exact, now).reservation \in Reservations
  BY <1>2 DEF Reconcile, Reservations
<1> QED BY <1>3, <1>10, <1>11

LEMMA ReviseKeeps ==
  ASSUME NEW a, Sound(a), a.revision < MaxRevision, NEW limit \in Nat, NEW unfreeze \in BOOLEAN,
         NEW now \in Nat, NEW z \in Zones
  PROVE  Sound(Revise(a, limit, unfreeze, now, z))
<1> DEFINE b == Advance(a, now)
           frozen == b.frozen /\ ~unfreeze
           pin == IF b = a THEN AnyZone ELSE z
           d == [b EXCEPT !.limit = limit, !.revision = b.revision + 1, !.frozen = frozen, !.zone = pin]
<1>1. Sound(b) /\ b \in Accounts /\ b.revision = a.revision
  BY AdvanceKeeps DEF Sound
<1>2. b.revision + 1 \in 1..MaxRevision /\ b.revision + 1 # 1 /\ frozen \in BOOLEAN
      /\ pin \in Zones \cup {AnyZone}
  BY <1>1, LimitsOfModel DEF Accounts
<1>3. d = Revise(a, limit, unfreeze, now, z)
  BY DEF Revise
<1> HIDE DEF b, frozen, pin
<1>4. d \in Accounts /\ d.revision = b.revision + 1 /\ d.base = b.base /\ d.settled = b.settled
  BY <1>1, <1>2 DEF Accounts
<1>5. Sound(d)
  BY <1>1, <1>2, <1>4 DEF Sound, Within
<1> QED BY <1>3, <1>5

----------------------------------------------------------------------------
Inv == TypeOK /\ LimitHeld

LEMMA InvOfInit == Init => Inv
  BY LimitsOfModel DEF Init, Inv, TypeOK, LimitHeld, NoReservation, Reservations

\* The account and the reservation a transaction books are sound.
LEMMA BookingIsTyped ==
  ASSUME NEW c \in Call, NEW after, Sound(after.account), after.reservation \in Reservations, Inv, Books(c, after)
  PROVE  Sound(account') /\ res' \in [Call -> Reservations]
  BY DEF Inv, TypeOK, Books

LEMMA InvOfSound ==
  ASSUME Sound(account'), res' \in [Call -> Reservations], month' \in 0..MaxMonth, zone' \in Zones,
         host' \in [Host -> {"down", "starting", "up"}],
         local' \in [Call -> {"idle", "claimed", "permitted", "sent", "gone"}],
         outcome' \in [Call -> {"none", "claimed", "settled"}],
         send' \in [Call -> {"pending", "permitted", "prevented"}],
         inFlight' \in 0..MaxInFlight, charge' \in [Call -> Nat]
  PROVE  Inv'
  BY DEF Inv, TypeOK, LimitHeld, Sound

LEMMA AccountIsSound ==
  ASSUME Inv, account # NoAccount
  PROVE  Sound(account)
  BY DEF Inv, TypeOK, LimitHeld, Sound

LEMMA ClockIsNat ==
  ASSUME Inv
  PROVE  Clock \subseteq Nat
  BY LimitsOfModel DEF Inv, TypeOK, Clock

LEMMA ClaimKeepsInv ==
  ASSUME Inv, NEW c \in Call, Claim(c)
  PROVE  Inv'
<1>1. PICK now \in Clock, limit \in Limits :
        LET current == IF account = NoAccount THEN Opened(limit, now) ELSE account IN
        /\ inFlight < MaxInFlight /\ HasRoom(Advance(current, now), CapOf[c])
        /\ inFlight' = inFlight + 1 /\ outcome' = [outcome EXCEPT ![c] = "claimed"]
        /\ Books(c, Reserve(Advance(current, now), CapOf[c]))
        /\ \E to \in {"claimed", "gone"} : Goes(c, to)
        /\ UNCHANGED <<month, zone, host, send, charge>>
  BY DEF Claim
<1> DEFINE current == IF account = NoAccount THEN Opened(limit, now) ELSE account
<1>2. now \in Nat /\ limit \in Nat /\ CapOf[c] \in Nat /\ zone \in Zones
  BY ClockIsNat, BoundsAreAmounts, CapsAreAmounts DEF Inv, TypeOK
<1>3. Sound(current)
  BY <1>2, OpenedIsSound, AccountIsSound
<1>4. Sound(Advance(current, now)) /\ HasRoom(Advance(current, now), CapOf[c])
  BY <1>1, <1>2, <1>3, AdvanceKeeps
<1>5. Sound(Reserve(Advance(current, now), CapOf[c]).account)
  BY <1>2, <1>4, ReserveKeeps
<1>6. Reserve(Advance(current, now), CapOf[c]).reservation \in Reservations
  BY DEF Reserve, NoReservation, Reservations
<1>7. Sound(account') /\ res' \in [Call -> Reservations]
  BY <1>1, <1>5, <1>6, BookingIsTyped
<1>8. inFlight' \in 0..MaxInFlight /\ outcome' \in [Call -> {"none", "claimed", "settled"}]
      /\ local' \in [Call -> {"idle", "claimed", "permitted", "sent", "gone"}]
  BY <1>1, LimitsOfModel DEF Inv, TypeOK, Goes
<1> QED BY <1>1, <1>7, <1>8, InvOfSound DEF Inv, TypeOK

\* One transaction settles the outcome, the money and the slot.
LEMMA SettleKeepsInv ==
  ASSUME Inv, NEW c \in Call, NEW after, Settle(c, after),
         Sound(account) /\ CanSettle(account, res[c], CapOf[c]) => Sound(after.account) /\ after.reservation \in Reservations,
         month' \in 0..MaxMonth, zone' \in Zones, host' \in [Host -> {"down", "starting", "up"}],
         local' \in [Call -> {"idle", "claimed", "permitted", "sent", "gone"}],
         send' \in [Call -> {"pending", "permitted", "prevented"}], charge' \in [Call -> Nat]
  PROVE  Inv'
<1>1. Sound(after.account) /\ after.reservation \in Reservations
  BY AccountIsSound DEF Settle, ReadableNow
<1>2. Sound(account') /\ res' \in [Call -> Reservations]
  BY <1>1, BookingIsTyped DEF Settle
<1>3. inFlight' \in 0..MaxInFlight /\ outcome' \in [Call -> {"none", "claimed", "settled"}]
  BY LimitsOfModel DEF Inv, TypeOK, Settle
<1> QED BY <1>2, <1>3, InvOfSound

\* The account is untouched: the other variables must keep their types.
LEMMA InvOfUntouched ==
  ASSUME Inv, UNCHANGED <<account, res>>, month' \in 0..MaxMonth, zone' \in Zones,
         host' \in [Host -> {"down", "starting", "up"}],
         local' \in [Call -> {"idle", "claimed", "permitted", "sent", "gone"}],
         outcome' \in [Call -> {"none", "claimed", "settled"}],
         send' \in [Call -> {"pending", "permitted", "prevented"}],
         inFlight' \in 0..MaxInFlight, charge' \in [Call -> Nat]
  PROVE  Inv'
  BY DEF Inv, TypeOK, LimitHeld

LEMMA AnswersKeepInv ==
  ASSUME Inv, NEW c \in Call, RecordMeasured(c) \/ RecordHeld(c) \/ RecordFree(c) \/ Cancel(c)
  PROVE  Inv'
<1>1. CapOf[c] \in Nat /\ res[c] \in Reservations /\ charge[c] \in Nat /\ Clock \subseteq Nat
  BY CapsAreAmounts, ClockIsNat DEF Inv, TypeOK
<1>2. Answered(c) => /\ month' \in 0..MaxMonth /\ zone' \in Zones /\ host' \in [Host -> {"down", "starting", "up"}]
                     /\ local' \in [Call -> {"idle", "claimed", "permitted", "sent", "gone"}]
                     /\ send' \in [Call -> {"pending", "permitted", "prevented"}] /\ charge' \in [Call -> Nat]
  BY DEF Answered, Goes, Inv, TypeOK
<1>3. CASE RecordMeasured(c)
  <2>1. PICK now \in Clock, exact \in Bounds \cup {charge[c]} :
          /\ Answered(c) /\ exact >= charge[c]
          /\ Settle(c, Charge(account, res[c], CapOf[c], exact, exact # charge[c], now))
    BY <1>3 DEF RecordMeasured
  <2>2. exact \in Nat /\ now \in Nat /\ (exact # charge[c]) \in BOOLEAN
    BY <1>1, BoundsAreAmounts
  <2> DEFINE after == Charge(account, res[c], CapOf[c], exact, exact # charge[c], now)
  <2>3. Sound(account) /\ CanSettle(account, res[c], CapOf[c]) => Sound(after.account) /\ after.reservation \in Reservations
    BY <1>1, <2>2, SettlementKeeps
  <2> HIDE DEF after
  <2>4. Settle(c, after)
    BY <2>1 DEF after
  <2> QED BY <1>2, <2>1, <2>3, <2>4, SettleKeepsInv
<1>4. CASE RecordHeld(c)
  <2>1. PICK now \in Clock : Answered(c) /\ Settle(c, Hold(account, res[c], now))
    BY <1>4 DEF RecordHeld
  <2> DEFINE after == Hold(account, res[c], now)
  <2>2. Sound(account) /\ CanSettle(account, res[c], CapOf[c]) => Sound(after.account) /\ after.reservation \in Reservations
    BY <1>1, SettlementKeeps
  <2> HIDE DEF after
  <2>3. Settle(c, after)
    BY <2>1 DEF after
  <2> QED BY <1>2, <2>1, <2>2, <2>3, SettleKeepsInv
<1>5. CASE RecordFree(c)
  <2>1. PICK now \in Clock : Answered(c) /\ Settle(c, Release(account, res[c], CapOf[c], now))
    BY <1>5 DEF RecordFree
  <2> DEFINE after == Release(account, res[c], CapOf[c], now)
  <2>2. Sound(account) /\ CanSettle(account, res[c], CapOf[c]) => Sound(after.account) /\ after.reservation \in Reservations
    BY <1>1, SettlementKeeps
  <2> HIDE DEF after
  <2>3. Settle(c, after)
    BY <2>1 DEF after
  <2> QED BY <1>2, <2>1, <2>2, <2>3, SettleKeepsInv
<1>6. CASE Cancel(c)
  <2>1. PICK now \in Clock : /\ Settle(c, Release(account, res[c], CapOf[c], now))
                             /\ send' = [send EXCEPT ![c] = "prevented"]
                             /\ UNCHANGED <<month, zone, host, local, charge>>
    BY <1>6 DEF Cancel
  <2> DEFINE after == Release(account, res[c], CapOf[c], now)
  <2>2. Sound(account) /\ CanSettle(account, res[c], CapOf[c]) => Sound(after.account) /\ after.reservation \in Reservations
    BY <1>1, SettlementKeeps
  <2> HIDE DEF after
  <2>3. Settle(c, after)
    BY <2>1 DEF after
  <2>4. /\ month' \in 0..MaxMonth /\ zone' \in Zones /\ host' \in [Host -> {"down", "starting", "up"}]
        /\ local' \in [Call -> {"idle", "claimed", "permitted", "sent", "gone"}]
        /\ send' \in [Call -> {"pending", "permitted", "prevented"}] /\ charge' \in [Call -> Nat]
    BY <2>1 DEF Inv, TypeOK
  <2> QED BY <2>2, <2>3, <2>4, SettleKeepsInv
<1> QED BY <1>3, <1>4, <1>5, <1>6

LEMMA ReconcileCallKeepsInv ==
  ASSUME Inv, NEW c \in Call, ReconcileCall(c)
  PROVE  Inv'
<1>1. PICK now \in Clock, exact \in ChargesOf[c] \cup {0} :
        /\ account # NoAccount /\ CanReconcile(account, res[c], CapOf[c], exact, now)
        /\ Books(c, Reconcile(account, res[c], CapOf[c], exact, now))
        /\ UNCHANGED <<month, zone, host, local, outcome, send, inFlight, charge>>
  BY DEF ReconcileCall, ReadableNow
<1>2. /\ CapOf[c] \in Nat /\ res[c] \in Reservations /\ exact \in Nat /\ now \in Nat
      /\ Sound(account)
  BY <1>1, CapsAreAmounts, ChargesAreAmounts, ClockIsNat, AccountIsSound DEF Inv, TypeOK
<1> DEFINE after == Reconcile(account, res[c], CapOf[c], exact, now)
<1>3. Sound(after.account) /\ after.reservation \in Reservations
  BY <1>1, <1>2, ReconcileKeeps
<1> HIDE DEF after
<1>4. Books(c, after)
  BY <1>1 DEF after
<1>5. Sound(account') /\ res' \in [Call -> Reservations]
  BY <1>3, <1>4, BookingIsTyped
<1> QED BY <1>1, <1>5, InvOfSound DEF Inv, TypeOK

\* A start settles only calls it has counted, and their holds keep the account sound.
LEMMA StartSlotsKeepsInv ==
  ASSUME Inv, NEW h \in Host, StartSlots(h)
  PROVE  Inv'
<1>1. host' \in [Host -> {"down", "starting", "up"}] /\ UNCHANGED <<month, zone, local, send, charge>>
  BY DEF StartSlots, Inv, TypeOK
<1>2. CASE Lost(h) # {} /\ ReadableNow /\ inFlight = Cardinality(Open)
  <2>1. PICK now \in Clock :
            /\ outcome' = [c \in Call |-> IF c \in Lost(h) THEN "settled" ELSE outcome[c]]
            /\ inFlight' = inFlight - Cardinality(Lost(h))
            /\ account' = Advance(account, now)
            /\ res' = [c \in Call |-> IF c \in Lost(h) THEN Hold(account, res[c], now).reservation ELSE res[c]]
    BY <1>2 DEF StartSlots
  <2>2. Sound(account')
    BY <1>2, <2>1, AccountIsSound, ClockIsNat, AdvanceKeeps DEF ReadableNow
  <2>3. res' \in [Call -> Reservations]
    BY <2>1 DEF Inv, TypeOK, Hold, Reservations, OnHold
  <2>4. Lost(h) \subseteq Open /\ IsFiniteSet(Open)
    BY CallsAreFinite, FS_Subset DEF Lost, Open
  <2>5. Cardinality(Lost(h)) \in Nat /\ Cardinality(Lost(h)) <= Cardinality(Open)
    BY <2>4, FS_Subset, FS_CardinalityType
  <2>6. inFlight' \in 0..MaxInFlight
    BY <1>2, <2>1, <2>5, LimitsOfModel DEF Inv, TypeOK
  <2>7. outcome' \in [Call -> {"none", "claimed", "settled"}]
    BY <2>1 DEF Inv, TypeOK
  <2> QED BY <1>1, <2>2, <2>3, <2>6, <2>7, InvOfSound DEF Inv, TypeOK
<1>3. CASE ~(Lost(h) # {} /\ ReadableNow /\ inFlight = Cardinality(Open))
  <2>1. UNCHANGED <<outcome, inFlight, account, res>>
    BY <1>3 DEF StartSlots
  <2> QED BY <1>1, <2>1, InvOfUntouched DEF Inv, TypeOK
<1> QED BY <1>2, <1>3

LEMMA StartHoldsKeepsInv ==
  ASSUME Inv, NEW h \in Host, StartHolds(h)
  PROVE  Inv'
<1>1. /\ host' \in [Host -> {"down", "starting", "up"}]
      /\ UNCHANGED <<month, zone, local, outcome, send, account, inFlight, charge>>
      /\ res' \in [Call -> Reservations]
  BY DEF StartHolds, Inv, TypeOK, Recover, Reservations
<1> QED BY <1>1 DEF Inv, TypeOK, LimitHeld

LEMMA NextKeepsInv ==
  ASSUME Inv, [Next]_vars
  PROVE  Inv'
<1>1. CASE \E c \in Call : CallStep(c)
  <2>1. PICK c \in Call : CallStep(c)
    BY <1>1
  <2>2. CASE Claim(c)
    BY <2>2, ClaimKeepsInv
  <2>3. CASE Permit(c)
    BY <2>3, InvOfUntouched DEF Permit, Goes, Inv, TypeOK
  <2>4. CASE Send(c)
    BY <2>4, InvOfUntouched, ChargesAreAmounts DEF Send, Goes, durable, Inv, TypeOK
  <2>5. CASE RecordMeasured(c) \/ RecordHeld(c) \/ RecordFree(c) \/ Cancel(c)
    BY <2>5, AnswersKeepInv
  <2>6. CASE RecordFails(c)
    BY <2>6, InvOfUntouched DEF RecordFails, Answered, Goes, durable, Inv, TypeOK
  <2>7. CASE ReconcileCall(c)
    BY <2>7, ReconcileCallKeepsInv
  <2> QED BY <2>1, <2>2, <2>3, <2>4, <2>5, <2>6, <2>7 DEF CallStep
<1>2. CASE \E h \in Host : HostStep(h)
  <2>1. PICK h \in Host : HostStep(h)
    BY <1>2
  <2>2. CASE Crash(h)
    BY <2>2, InvOfUntouched DEF Crash, durable, Inv, TypeOK
  <2> QED BY <2>1, <2>2, StartSlotsKeepsInv, StartHoldsKeepsInv DEF HostStep
<1>3. CASE CreateBudget
  <2>1. PICK limit \in Limits, now \in Clock, monthly \in Renewals :
          /\ account' = Governed(limit, monthly, now, zone)
          /\ UNCHANGED <<month, zone, host, local, outcome, send, res, inFlight, charge>>
    BY <1>3 DEF CreateBudget
  <2>2. Sound(account')
    BY <2>1, OpenedIsSound, BoundsAreAmounts, ClockIsNat DEF Inv, TypeOK
  <2> QED BY <2>1, <2>2, InvOfSound DEF Inv, TypeOK
<1>4. CASE \E unfreeze \in BOOLEAN : ReviseBudget(unfreeze)
  <2>1. PICK unfreeze \in BOOLEAN, limit \in Limits, now \in Clock :
          /\ account # NoAccount /\ account.revision < MaxRevision
          /\ account' = Revise(account, limit, unfreeze, now, zone)
          /\ UNCHANGED <<month, zone, host, local, outcome, send, res, inFlight, charge>>
    BY <1>4 DEF ReviseBudget, ReadableNow
  <2>2. Sound(account')
    BY <2>1, ReviseKeeps, AccountIsSound, BoundsAreAmounts, ClockIsNat DEF Inv, TypeOK
  <2> QED BY <2>1, <2>2, InvOfSound DEF Inv, TypeOK
<1>5. CASE NextMonth
  BY <1>5, InvOfUntouched, LimitsOfModel DEF NextMonth, durable, Inv, TypeOK
<1>6. CASE UNCHANGED vars
  BY <1>6, InvOfUntouched DEF vars, durable, Inv, TypeOK
<1> QED BY <1>1, <1>2, <1>3, <1>4, <1>5, <1>6 DEF Next

LEMMA InvIsInvariant == Spec => []Inv
  BY InvOfInit, NextKeepsInv, PTL DEF Spec

\* Whatever the calls, hosts, quotes and charges, every amount of the account is a natural number and
\* the slots taken lie between none and the allocation's limit (parseProviderSpendAccount, parseModelAllocation).
THEOREM CallsAreTyped == Spec => []TypeOK
  BY InvIsInvariant, PTL DEF Inv

\* The integrity check of parseProviderSpendAccount that refuses an account over its first limit, and with it
\* every later call of the scope, never fires: not after a crash, a late answer, a refund or a new month.
THEOREM FirstLimitIsHeld == Spec => []LimitHeld
  BY InvIsInvariant, PTL DEF Inv

----------------------------------------------------------------------------
(* What the process of a call does, what its records say and what it may   *)
(* be charged hang together; and the slots taken are the open calls.       *)
Live == {c \in Call : local[c] \in {"permitted", "sent"}}
Linked(c) ==
  /\ c \in Live => c \in Open /\ send[c] = "permitted" /\ Running(c)
  /\ local[c] = "claimed" => outcome[c] # "none"
  /\ outcome[c] = "none" <=> res[c].state = "none"
  /\ outcome[c] = "claimed" <=> res[c].state = "reserved"
  /\ outcome[c] = "none" => send[c] = "pending"
  /\ send[c] = "pending" => outcome[c] # "settled"
  /\ local[c] = "permitted" \/ send[c] # "permitted" => charge[c] = 0
  /\ res[c].state = "released" => charge[c] = 0
  /\ res[c].state = "settled" => charge[c] <= res[c].exact \/ charge[c] > Scale * CapOf[c]
Custody == (\A c \in Call : Linked(c)) /\ inFlight = Cardinality(Open)

LEMMA OpenIsFinite == IsFiniteSet(Open) /\ Cardinality(Open) \in Nat
  BY CallsAreFinite, FS_Subset, FS_CardinalityType DEF Open

LEMMA CustodyOfInit == Init => Custody
<1> SUFFICES ASSUME Init PROVE Custody
  OBVIOUS
<1>1. Open = {} /\ Live = {}
  BY DEF Init, Open, Live
<1>2. Cardinality(Open) = 0
  BY <1>1, FS_EmptySet
<1>3. \A c \in Call : Linked(c)
  BY <1>1 DEF Init, Linked, NoReservation, Open, Live
<1> QED BY <1>2, <1>3 DEF Custody, Init

LEMMA ClaimKeepsCustody ==
  ASSUME Inv, Custody, NEW c \in Call, Claim(c)
  PROVE  Custody'
<1>1. /\ outcome[c] = "none" /\ inFlight' = inFlight + 1 /\ outcome' = [outcome EXCEPT ![c] = "claimed"]
      /\ local' \in {[local EXCEPT ![c] = "claimed"], [local EXCEPT ![c] = "gone"]} /\ local[c] = "idle"
      /\ res' = [res EXCEPT ![c] = [NoReservation EXCEPT !.state = "reserved"]]
      /\ UNCHANGED <<host, send, charge>>
  BY DEF Claim, Books, Reserve, Goes
<1>2. Open' = Open \cup {c} /\ c \notin Open
  BY <1>1 DEF Open, Inv, TypeOK
<1>3. inFlight' = Cardinality(Open')
  BY <1>1, <1>2, OpenIsFinite, FS_AddElement DEF Custody
<1>4. \A d \in Call : Linked(d)'
  <2> TAKE d \in Call
  <2>1. CASE d = c
    BY <1>1, <2>1 DEF Custody, Linked, Live, Open, Running, NoReservation, Inv, TypeOK
  <2>2. CASE d # c
    BY <1>1, <2>2 DEF Custody, Linked, Live, Open, Running, Inv, TypeOK
  <2> QED BY <2>1, <2>2
<1> QED BY <1>3, <1>4 DEF Custody

\* A settlement by one call's own process, or by its cancellation.
LEMMA SettleKeepsCustody ==
  ASSUME Inv, Custody, NEW c \in Call, NEW after, Settle(c, after), UNCHANGED <<host, charge>>,
         \A d \in Call \ {c} : local'[d] = local[d] /\ send'[d] = send[d],
         local'[c] \notin {"permitted", "sent"}, send'[c] # "pending", send'[c] # "permitted" => charge[c] = 0,
         after.reservation.state \notin {"none", "reserved"},
         after.reservation.state = "released" => charge[c] = 0,
         after.reservation.state = "settled" => charge[c] <= after.reservation.exact
  PROVE  Custody'
<1>1. /\ outcome[c] = "claimed" /\ outcome' = [outcome EXCEPT ![c] = "settled"] /\ inFlight' = inFlight - 1
      /\ res' = [res EXCEPT ![c] = after.reservation]
  BY DEF Settle, Books
<1>2. Open' = Open \ {c} /\ c \in Open
  BY <1>1 DEF Open, Inv, TypeOK
<1>3. inFlight' = Cardinality(Open')
  BY <1>1, <1>2, OpenIsFinite, FS_RemoveElement DEF Custody
<1>4. \A d \in Call : Linked(d)'
  <2> TAKE d \in Call
  <2>1. CASE d = c
    BY <1>1, <2>1 DEF Custody, Linked, Live, Open, Running, Inv, TypeOK
  <2>2. CASE d # c
    BY <1>1, <2>2 DEF Custody, Linked, Live, Open, Running, Inv, TypeOK
  <2> QED BY <2>1, <2>2
<1> QED BY <1>3, <1>4 DEF Custody

LEMMA AnswersKeepCustody ==
  ASSUME Inv, Custody, NEW c \in Call, RecordMeasured(c) \/ RecordHeld(c) \/ RecordFree(c) \/ Cancel(c)
  PROVE  Custody'
<1>1. Answered(c) => /\ UNCHANGED <<host, charge, send>> /\ local' = [local EXCEPT ![c] = "gone"]
                     /\ send[c] = "permitted"
  BY DEF Answered, Goes, Custody, Linked, Live
<1>2. CASE RecordMeasured(c)
  <2>1. PICK now \in Clock, exact \in Bounds \cup {charge[c]} :
          /\ Answered(c) /\ exact >= charge[c]
          /\ Settle(c, Charge(account, res[c], CapOf[c], exact, exact # charge[c], now))
    BY <1>2 DEF RecordMeasured
  <2> DEFINE after == Charge(account, res[c], CapOf[c], exact, exact # charge[c], now)
  <2>2. /\ after.reservation.state \in {"overrun", "settled"}
        /\ after.reservation.state = "settled" => charge[c] <= after.reservation.exact
    BY <2>1 DEF Charge, Inv, TypeOK, Reservations, Settle
  <2> HIDE DEF after
  <2>3. Settle(c, after)
    BY <2>1 DEF after
  <2> QED BY <1>1, <2>1, <2>2, <2>3, SettleKeepsCustody DEF Inv, TypeOK
<1>3. CASE RecordHeld(c)
  <2>1. PICK now \in Clock : Answered(c) /\ Settle(c, Hold(account, res[c], now))
    BY <1>3 DEF RecordHeld
  <2> DEFINE after == Hold(account, res[c], now)
  <2>2. after.reservation.state = "held"
    BY DEF Hold, Inv, TypeOK, Reservations
  <2> HIDE DEF after
  <2>3. Settle(c, after)
    BY <2>1 DEF after
  <2> QED BY <1>1, <2>1, <2>2, <2>3, SettleKeepsCustody DEF Inv, TypeOK
<1>4. CASE RecordFree(c)
  <2>1. PICK now \in Clock : Answered(c) /\ charge[c] = 0 /\ Settle(c, Release(account, res[c], CapOf[c], now))
    BY <1>4 DEF RecordFree
  <2> DEFINE after == Release(account, res[c], CapOf[c], now)
  <2>2. after.reservation.state = "released"
    BY DEF Release, Inv, TypeOK, Reservations
  <2> HIDE DEF after
  <2>3. Settle(c, after)
    BY <2>1 DEF after
  <2> QED BY <1>1, <2>1, <2>2, <2>3, SettleKeepsCustody DEF Inv, TypeOK
<1>5. CASE Cancel(c)
  <2>1. PICK now \in Clock : /\ Settle(c, Release(account, res[c], CapOf[c], now))
                             /\ send[c] = "pending" /\ send' = [send EXCEPT ![c] = "prevented"]
                             /\ UNCHANGED <<month, zone, host, local, charge>>
    BY <1>5 DEF Cancel, Preventable
  <2> DEFINE after == Release(account, res[c], CapOf[c], now)
  <2>2. after.reservation.state = "released"
    BY DEF Release, Inv, TypeOK, Reservations
  <2> HIDE DEF after
  <2>3. Settle(c, after)
    BY <2>1 DEF after
  <2>4. charge[c] = 0 /\ send'[c] = "prevented" /\ local'[c] \notin {"permitted", "sent"}
    BY <2>1 DEF Custody, Linked, Live, Inv, TypeOK
  <2>5. /\ UNCHANGED <<host, charge>> /\ send'[c] # "pending"
        /\ \A d \in Call \ {c} : local'[d] = local[d] /\ send'[d] = send[d]
    BY <2>1 DEF Inv, TypeOK
  <2> QED BY <2>2, <2>3, <2>4, <2>5, SettleKeepsCustody
<1> QED BY <1>2, <1>3, <1>4, <1>5

\* A host that starts has no live call left, and settles none of another host's.
LEMMA StartSlotsKeepsCustody ==
  ASSUME Inv, Custody, NEW h \in Host, StartSlots(h)
  PROVE  Custody'
<1>0. /\ host[h] = "down" /\ UNCHANGED <<local, send, charge>>
      /\ \A g \in Host : host[g] = "up" => host'[g] = "up"
  BY DEF StartSlots, Inv, TypeOK
<1>1. \A c \in Call : HostOf[c] \in Host
  BY HostsOfCalls
<1>2. CASE Lost(h) # {} /\ ReadableNow /\ inFlight = Cardinality(Open)
  <2>1. PICK now \in Clock :
            /\ outcome' = [c \in Call |-> IF c \in Lost(h) THEN "settled" ELSE outcome[c]]
            /\ inFlight' = inFlight - Cardinality(Lost(h))
            /\ res' = [c \in Call |-> IF c \in Lost(h) THEN Hold(account, res[c], now).reservation ELSE res[c]]
    BY <1>2 DEF StartSlots
  <2>2. Open' = Open \ Lost(h) /\ Open \cap Lost(h) = Lost(h)
    BY <2>1 DEF Open, Lost
  <2>3. inFlight' = Cardinality(Open')
    BY <2>1, <2>2, OpenIsFinite, FS_Difference DEF Custody
  <2>4. \A c \in Call : Linked(c)'
    <3> TAKE c \in Call
    <3>1. CASE c \in Lost(h)
      <4>1. c \in Open /\ send[c] = "permitted" /\ ~Running(c)
        BY <1>0, <3>1 DEF Lost, Ended, Running
      <4>2. c \notin Live /\ outcome'[c] = "settled" /\ res'[c].state = "held"
        BY <2>1, <3>1, <4>1 DEF Custody, Linked, Hold, Inv, TypeOK, Reservations
      <4> QED BY <1>0, <4>1, <4>2 DEF Custody, Linked, Live, Open
    <3>2. CASE c \notin Lost(h)
      <4>1. outcome'[c] = outcome[c] /\ res'[c] = res[c] /\ (Running(c) => Running(c)')
        BY <1>0, <1>1, <2>1, <3>2 DEF Running
      <4> QED BY <1>0, <4>1 DEF Custody, Linked, Live, Open
    <3> QED BY <3>1, <3>2
  <2> QED BY <2>3, <2>4 DEF Custody
<1>3. CASE ~(Lost(h) # {} /\ ReadableNow /\ inFlight = Cardinality(Open))
  <2>1. UNCHANGED <<outcome, inFlight, res>>
    BY <1>3 DEF StartSlots
  <2> QED BY <1>0, <1>1, <2>1 DEF Custody, Linked, Live, Open, Running
<1> QED BY <1>2, <1>3

\* Steps of one call that touch neither its outcome nor its money.
LEMMA LocalStepsKeepCustody ==
  ASSUME Inv, Custody, NEW c \in Call, Permit(c) \/ Send(c) \/ RecordFails(c)
  PROVE  Custody'
<1>1. UNCHANGED <<host, outcome, res, inFlight>> /\ Open' = Open
  BY DEF Permit, Send, RecordFails, Answered, durable, Open
<1>2. \A d \in Call \ {c} : local'[d] = local[d] /\ send'[d] = send[d] /\ charge'[d] = charge[d]
  BY DEF Permit, Send, RecordFails, Answered, Goes, durable, Inv, TypeOK
<1>3. Linked(c)'
  <2>1. CASE Permit(c)
    BY <1>1, <2>1 DEF Permit, Goes, Custody, Linked, Live, Open, Running, Inv, TypeOK
  <2>2. CASE Send(c)
    BY <1>1, <2>2 DEF Send, Goes, durable, Custody, Linked, Live, Open, Running, Inv, TypeOK
  <2>3. CASE RecordFails(c)
    BY <1>1, <2>3 DEF RecordFails, Answered, Goes, durable, Custody, Linked, Live, Open, Running, Inv, TypeOK
  <2> QED BY <2>1, <2>2, <2>3
<1>4. \A d \in Call \ {c} : Linked(d)'
  BY <1>1, <1>2 DEF Custody, Linked, Live, Open, Running, Inv, TypeOK
<1> QED BY <1>1, <1>3, <1>4 DEF Custody

\* A corrected reservation answers for no charge any more.
LEMMA ReconcileKeepsCustody ==
  ASSUME Inv, Custody, NEW c \in Call, ReconcileCall(c)
  PROVE  Custody'
<1>1. PICK now \in Clock, exact \in ChargesOf[c] \cup {0} :
        /\ CanReconcile(account, res[c], CapOf[c], exact, now)
        /\ Books(c, Reconcile(account, res[c], CapOf[c], exact, now))
        /\ UNCHANGED <<month, zone, host, local, outcome, send, inFlight, charge>>
  BY DEF ReconcileCall
<1>2. res' = [res EXCEPT ![c] = Reconcile(account, res[c], CapOf[c], exact, now).reservation]
  BY <1>1 DEF Books
<1>3. res'[c].state = "reconciled"
  BY <1>2 DEF Reconcile, Inv, TypeOK
<1>4. res[c].state \notin {"none", "reserved"}
  BY <1>1 DEF CanReconcile, IsUpperBound, OnHold
<1>5. Linked(c)'
  BY <1>1, <1>3, <1>4 DEF Custody, Linked, Live, Open, Running
<1>6. \A d \in Call \ {c} : Linked(d)'
  BY <1>1, <1>2 DEF Custody, Linked, Live, Open, Running, Inv, TypeOK
<1> QED BY <1>1, <1>5, <1>6 DEF Custody, Open

\* A host that dies takes its processes along.
LEMMA CrashKeepsCustody ==
  ASSUME Inv, Custody, NEW h \in Host, Crash(h)
  PROVE  Custody'
<1>1. UNCHANGED <<outcome, send, res, inFlight, charge>> /\ Open' = Open
  BY DEF Crash, durable, Open
<1>2. ASSUME NEW c \in Call PROVE Linked(c)'
  <2>1. CASE HostOf[c] = h
    BY <1>1, <2>1 DEF Crash, Custody, Linked, Live, Open, Running, Inv, TypeOK
  <2>2. CASE HostOf[c] # h
    <3>1. local'[c] = local[c] /\ host'[HostOf[c]] = host[HostOf[c]]
      BY <2>2, HostsOfCalls DEF Crash, Inv, TypeOK
    <3> QED BY <1>1, <3>1 DEF Custody, Linked, Live, Open, Running
  <2> QED BY <2>1, <2>2
<1> QED BY <1>1, <1>2 DEF Custody

\* A hold that is recovered was quoted at nothing.
LEMMA StartHoldsKeepsCustody ==
  ASSUME Inv, Custody, NEW h \in Host, StartHolds(h)
  PROVE  Custody'
<1>1. /\ UNCHANGED <<local, outcome, send, inFlight, charge>> /\ Open' = Open
      /\ host' = [host EXCEPT ![h] = "up"]
  BY DEF StartHolds, Open
<1>2. ASSUME NEW c \in Call PROVE Linked(c)'
  <2>1. Running(c) => Running(c)'
    BY <1>1, HostsOfCalls DEF Running, Inv, TypeOK
  <2>2. CASE res'[c] = res[c]
    BY <1>1, <2>1, <2>2 DEF Custody, Linked, Live, Open
  <2>3. CASE res[c].state = "held" /\ CapOf[c] = 0 /\ res'[c] = [res[c] EXCEPT !.state = "settled"]
    <3>1. res'[c].state = "settled" /\ res'[c].exact = res[c].exact
      BY <2>3 DEF Inv, TypeOK, Reservations
    <3>2. charge[c] <= res[c].exact \/ charge[c] > Scale * CapOf[c]
      BY <2>3, ScaleIsPositive DEF Inv, TypeOK, Reservations
    <3> QED BY <1>1, <2>1, <2>3, <3>1, <3>2 DEF Custody, Linked, Live, Open
  <2> QED BY <2>2, <2>3 DEF StartHolds, CanRecover, Recover
<1> QED BY <1>1, <1>2 DEF Custody

LEMMA NextKeepsCustody == Inv /\ Custody /\ [Next]_vars => Custody'
<1> SUFFICES ASSUME Inv, Custody, [Next]_vars PROVE Custody'
  OBVIOUS
<1>1. ASSUME NEW c \in Call, CallStep(c) PROVE Custody'
  BY <1>1, ClaimKeepsCustody, AnswersKeepCustody, LocalStepsKeepCustody, ReconcileKeepsCustody DEF CallStep
<1>2. ASSUME NEW h \in Host, HostStep(h) PROVE Custody'
  BY <1>2, CrashKeepsCustody, StartSlotsKeepsCustody, StartHoldsKeepsCustody DEF HostStep
<1>3. ASSUME UNCHANGED <<host, local, outcome, send, res, inFlight, charge>> PROVE Custody'
  BY <1>3 DEF Custody, Linked, Live, Open, Running
<1>4. CreateBudget \/ (\E unfreeze \in BOOLEAN : ReviseBudget(unfreeze)) \/ NextMonth \/ UNCHANGED vars
      => UNCHANGED <<host, local, outcome, send, res, inFlight, charge>>
  BY DEF CreateBudget, ReviseBudget, NextMonth, vars, durable
<1> QED BY <1>1, <1>2, <1>3, <1>4 DEF Next

LEMMA CustodyIsInvariant == Spec => []Custody
<1> QED BY CustodyOfInit, NextKeepsCustody, InvIsInvariant, PTL DEF Spec

\* Every live send holds a slot, so a host that restarts or a cancellation frees none of them.
THEOREM LiveCallsHaveSlots == Spec => []LiveWithinCapacity
<1>1. Inv /\ Custody => LiveWithinCapacity
  <2> SUFFICES ASSUME Inv, Custody PROVE Cardinality(Live) <= MaxInFlight
    BY DEF LiveWithinCapacity, Live
  <2>1. Live \subseteq Open
    BY DEF Custody, Linked, Live
  <2>2. Cardinality(Live) <= Cardinality(Open) /\ Cardinality(Live) \in Nat
    BY <2>1, OpenIsFinite, FS_Subset, FS_CardinalityType
  <2> QED BY <2>2, OpenIsFinite, LimitsOfModel DEF Custody, Inv, TypeOK
<1> QED BY <1>1, CustodyIsInvariant, InvIsInvariant, PTL

\* Whatever is cancelled, lost or recovered, a call the provider may charge for keeps its reserve or
\* is counted with its charge, until an operator corrects it.
THEOREM PossibleChargesAreCovered == Spec => []ChargesCovered
<1>1. Inv /\ Custody => ChargesCovered
  <2> SUFFICES ASSUME Inv, Custody, NEW c \in Call,
                      res[c].state # "reconciled", charge[c] <= Scale * CapOf[c]
               PROVE  charge[c] <= Spent(res[c]) + Scale * Reserves(res[c], CapOf[c])
    BY DEF ChargesCovered
  <2>1. /\ charge[c] \in Nat /\ CapOf[c] \in Nat /\ Scale \in Nat /\ Scale * CapOf[c] \in Nat /\ Scale * 0 = 0
        /\ res[c].exact \in Nat
        /\ res[c].state \in {"none", "reserved", "released", "settled", "reconciled"} \cup OnHold
    BY CapsAreAmounts, ScaleIsPositive DEF Inv, TypeOK, Reservations
  <2>2. CASE res[c].state = "reserved" \/ res[c].state \in OnHold
    BY <2>1, <2>2 DEF Spent, Reserves, OnHold
  <2>3. CASE res[c].state \in {"none", "released"}
    <3>1. charge[c] = 0
      BY <2>3 DEF Custody, Linked
    <3> QED BY <2>1, <2>3, <3>1 DEF Spent, Reserves, OnHold
  <2>4. CASE res[c].state = "settled"
    BY <2>1, <2>4 DEF Spent, Reserves, OnHold, Custody, Linked
  <2> QED BY <2>1, <2>2, <2>3, <2>4
<1> QED BY <1>1, CustodyIsInvariant, InvIsInvariant, PTL
----------------------------------------------------------------------------
(* Sums over a finite set.  SumFunction takes the elements in an order of  *)
(* its own; two sums over one set take them in the same order.             *)
\* Every set of natural numbers that is not empty has a least one.
LEMMA LeastNatural ==
  ASSUME NEW S \in SUBSET Nat, S # {}
  PROVE  \E x \in S : \A y \in S : x <= y
<1> DEFINE Below == {p \in Nat \X Nat : p[1] < p[2]}
<1>1. IsWellFoundedOn(Below, Nat)
  BY NatLessThanWellFounded DEF OpToRel
<1>2. PICK x \in S : \A y \in S : <<y, x>> \notin Below
  BY <1>1, WFMin
<1>3. \A y \in S : ~(y < x)
  BY <1>2
<1> QED BY <1>3

\* Of the subsets of a finite set that have a property one is least: it loses the property with any of its elements.
LEMMA LeastSubset ==
  ASSUME NEW S, IsFiniteSet(S), NEW P \in SUBSET SUBSET S, P # {}
  PROVE  \E T \in P : \A x \in T : T \ {x} \notin P
<1> DEFINE sizes == {Cardinality(T) : T \in P}
<1>1. \A T \in SUBSET S : /\ Cardinality(T) \in Nat
                          /\ \A x \in T : Cardinality(T \ {x}) = Cardinality(T) - 1
  BY FS_Subset, FS_CardinalityType, FS_RemoveElement
<1>2. PICK n \in sizes : \A m \in sizes : n <= m
  <2>1. sizes \in SUBSET Nat /\ sizes # {}
    BY <1>1
  <2> HIDE DEF sizes
  <2> QED BY <2>1, LeastNatural
<1>3. PICK T \in P : n = Cardinality(T)
  BY DEF sizes
<1>4. ASSUME NEW x \in T, T \ {x} \in P PROVE FALSE
  <2>1. n <= Cardinality(T \ {x})
    BY <1>2, <1>4
  <2> QED BY <1>1, <1>3, <2>1
<1> QED BY <1>3, <1>4

\* What SumFunctionOnSet computes: one element after the other, in an order of its own.
Pick(s) == CHOOSE x \in s : TRUE
IsFold(sum, f, S) == sum = [s \in SUBSET S |-> IF s = {} THEN 0 ELSE f[Pick(s)] + sum[s \ {Pick(s)}]]

LEMMA PickIsMember == \A s : s # {} => Pick(s) \in s
  BY DEF Pick

LEMMA FoldOfSubset ==
  ASSUME NEW sum, NEW f, NEW S, IsFold(sum, f, S)
  PROVE  \A s \in SUBSET S : sum[s] = IF s = {} THEN 0 ELSE f[Pick(s)] + sum[s \ {Pick(s)}]
<1> DEFINE step(t) == IF t = {} THEN 0 ELSE f[Pick(t)] + sum[t \ {Pick(t)}]
<1>1. sum = [t \in SUBSET S |-> step(t)]
  BY DEF IsFold
<1> HIDE DEF step
<1>2. \A s \in SUBSET S : sum[s] = step(s)
  BY <1>1
<1> QED BY <1>2 DEF step

\* Folds of functions that agree agree.
LEMMA FoldsAgree ==
  ASSUME NEW f, NEW g, NEW A, NEW B, NEW a, NEW b, IsFold(a, f, A), IsFold(b, g, B),
         NEW S, IsFiniteSet(S), S \subseteq A, S \subseteq B, \A x \in S : f[x] = g[x]
  PROVE  a[S] = b[S]
<1> DEFINE P == {s \in SUBSET S : a[s] # b[s]}
<1> SUFFICES ASSUME P # {} PROVE FALSE
  BY DEF P
<1>1. PICK s \in P : \A x \in s : s \ {x} \notin P
  BY LeastSubset
<1>2. s \in SUBSET A /\ s \in SUBSET B /\ s \subseteq S
  OBVIOUS
<1>3. a[s] = (IF s = {} THEN 0 ELSE f[Pick(s)] + a[s \ {Pick(s)}])
  <2>1. \A t \in SUBSET A : a[t] = (IF t = {} THEN 0 ELSE f[Pick(t)] + a[t \ {Pick(t)}])
    BY FoldOfSubset
  <2> QED BY <1>2, <2>1
<1>4. b[s] = (IF s = {} THEN 0 ELSE g[Pick(s)] + b[s \ {Pick(s)}])
  <2>1. \A t \in SUBSET B : b[t] = (IF t = {} THEN 0 ELSE g[Pick(t)] + b[t \ {Pick(t)}])
    BY FoldOfSubset
  <2> QED BY <1>2, <2>1
<1>5. s # {} => Pick(s) \in s
  BY PickIsMember
<1>6. s # {} => a[s \ {Pick(s)}] = b[s \ {Pick(s)}] /\ f[Pick(s)] = g[Pick(s)]
  BY <1>1, <1>2, <1>5
<1> QED BY <1>3, <1>4, <1>6 DEF P

LEMMA FoldExists ==
  ASSUME NEW f, NEW S, IsFiniteSet(S)
  PROVE  \E sum : IsFold(sum, f, S)
<1> DEFINE P == {T \in SUBSET S : ~\E sum : IsFold(sum, f, T)}
<1> SUFFICES ASSUME P # {} PROVE FALSE
  BY DEF P
<1>1. PICK T \in P : \A x \in T : T \ {x} \notin P
  BY LeastSubset
<1> DEFINE before == [x \in T |-> CHOOSE sum : IsFold(sum, f, T \ {x})]
           sum == [s \in SUBSET T |-> IF s = {} THEN 0 ELSE f[Pick(s)] + before[Pick(s)][s \ {Pick(s)}]]
<1>2. \A x \in T : IsFold(before[x], f, T \ {x})
  <2> TAKE x \in T
  <2>1. \E it : IsFold(it, f, T \ {x})
    BY <1>1
  <2>2. IsFold(CHOOSE it : IsFold(it, f, T \ {x}), f, T \ {x})
    BY <2>1
  <2> QED BY <2>2
<1> HIDE DEF before
<1>3. ASSUME NEW s \in SUBSET T PROVE sum[s] = IF s = {} THEN 0 ELSE f[Pick(s)] + before[Pick(s)][s \ {Pick(s)}]
  OBVIOUS
<1> HIDE DEF sum
<1>4. ASSUME NEW s \in SUBSET T, s # {} PROVE sum[s \ {Pick(s)}] = before[Pick(s)][s \ {Pick(s)}]
  <2> DEFINE x == Pick(s)
             u == s \ {x}
             y == Pick(u)
  <2>1. x \in s /\ x \in T /\ u \in SUBSET (T \ {x}) /\ u \in SUBSET T
    BY <1>4, PickIsMember
  <2> HIDE DEF x
  <2>2. IsFold(before[x], f, T \ {x})
    BY <1>2, <2>1
  <2> HIDE DEF u
  <2>3. before[x][u] = IF u = {} THEN 0 ELSE f[y] + before[x][u \ {y}]
    <3>1. \A t \in SUBSET (T \ {x}) : before[x][t] = IF t = {} THEN 0 ELSE f[Pick(t)] + before[x][t \ {Pick(t)}]
      BY <2>2, FoldOfSubset
    <3> QED BY <2>1, <3>1
  <2>4. sum[u] = IF u = {} THEN 0 ELSE f[y] + before[y][u \ {y}]
    BY <1>3, <2>1
  <2>5. CASE u = {}
    BY <2>3, <2>4, <2>5 DEF u, x
  <2>6. CASE u # {}
    <3>1. y \in u /\ y \in T
      BY <2>1, <2>6, PickIsMember
    <3> HIDE DEF y
    <3>2. IsFold(before[y], f, T \ {y})
      BY <1>2, <3>1
    <3>3. u \ {y} \subseteq T \ {x} /\ u \ {y} \subseteq T \ {y} /\ IsFiniteSet(u \ {y})
      BY <1>1, <2>1, FS_Subset
    <3>4. before[x][u \ {y}] = before[y][u \ {y}]
      BY <2>2, <3>2, <3>3, FoldsAgree
    <3> QED BY <2>3, <2>4, <2>6, <3>4 DEF u, x
  <2> QED BY <2>5, <2>6
<1>5. sum = [s \in SUBSET T |-> IF s = {} THEN 0 ELSE f[Pick(s)] + sum[s \ {Pick(s)}]]
  <2>1. sum = [s \in SUBSET T |-> sum[s]]
    BY DEF sum
  <2>2. \A s \in SUBSET T : sum[s] = IF s = {} THEN 0 ELSE f[Pick(s)] + sum[s \ {Pick(s)}]
    BY <1>3, <1>4
  <2> HIDE DEF sum
  <2> QED BY <2>1, <2>2
<1> QED BY <1>1, <1>5 DEF IsFold

LEMMA SumIsFold ==
  ASSUME NEW S, IsFiniteSet(S), NEW f, DOMAIN f = S
  PROVE  \E sum : IsFold(sum, f, S) /\ SumFunction(f) = sum[S]
<1>1. SumFunction(f) = (CHOOSE sum : IsFold(sum, f, S))[S]
  BY DEF SumFunction, SumFunctionOnSet, FoldFunctionOnSet, MapThenFoldSet, IsFold, Pick
<1>2. IsFold(CHOOSE sum : IsFold(sum, f, S), f, S)
  BY FoldExists
<1> QED BY <1>1, <1>2

\* A sum of no numbers is zero; every other sum is one summand and the sum of the rest.
Parts(sum, f, S) ==
  /\ sum[{}] = 0
  /\ \A s \in SUBSET S : s # {} => Pick(s) \in s /\ sum[s] = f[Pick(s)] + sum[s \ {Pick(s)}]
LEMMA SumOfParts ==
  ASSUME NEW sum, NEW f, NEW S, IsFold(sum, f, S)
  PROVE  Parts(sum, f, S)
<1>1. \A s \in SUBSET S : sum[s] = IF s = {} THEN 0 ELSE f[Pick(s)] + sum[s \ {Pick(s)}]
  BY FoldOfSubset
<1> QED BY <1>1, PickIsMember DEF Parts

\* The sum of integers is an integer, that of zeros zero.
LEMMA SumIsTyped ==
  ASSUME NEW S, IsFiniteSet(S), NEW f \in [S -> Int]
  PROVE  /\ SumFunction(f) \in Int
         /\ (\A x \in S : f[x] = 0) => SumFunction(f) = 0
<1>1. PICK sum : IsFold(sum, f, S) /\ SumFunction(f) = sum[S]
  BY SumIsFold
<1>2. Parts(sum, f, S)
  BY <1>1, SumOfParts
<1> DEFINE Good(s) == sum[s] \in Int /\ ((\A x \in S : f[x] = 0) => sum[s] = 0)
           P == {s \in SUBSET S : ~Good(s)}
<1>3. P = {}
  <2> SUFFICES ASSUME P # {} PROVE FALSE
    OBVIOUS
  <2>1. PICK s \in P : \A x \in s : s \ {x} \notin P
    BY LeastSubset
  <2>2. CASE s = {}
    BY <1>2, <2>1, <2>2 DEF Parts
  <2>3. CASE s # {}
    <3>1. PICK x \in s : sum[s] = f[x] + sum[s \ {x}]
      BY <1>2, <2>3 DEF Parts
    <3>2. Good(s \ {x}) /\ f[x] \in Int /\ x \in S
      BY <2>1
    <3>3. Good(s)
      BY <3>1, <3>2
    <3> QED BY <3>3
  <2> QED BY <2>2, <2>3
<1>4. Good(S)
  BY <1>3
<1> QED BY <1>1, <1>4

\* Changing one summand changes the sum by the difference.
LEMMA SumChanges ==
  ASSUME NEW S, IsFiniteSet(S), NEW f \in [S -> Int], NEW g \in [S -> Int], NEW c \in S,
         \A x \in S \ {c} : g[x] = f[x]
  PROVE  SumFunction(g) = SumFunction(f) + (g[c] - f[c])
<1>1. PICK a : IsFold(a, f, S) /\ SumFunction(f) = a[S]
  BY SumIsFold
<1>2. PICK b : IsFold(b, g, S) /\ SumFunction(g) = b[S]
  BY SumIsFold
<1>3. Parts(a, f, S)
  BY <1>1, SumOfParts
<1>4. Parts(b, g, S)
  BY <1>2, SumOfParts
<1> DEFINE Moved(s) == a[s] \in Int /\ b[s] = a[s] + (IF c \in s THEN g[c] - f[c] ELSE 0)
           P == {s \in SUBSET S : ~Moved(s)}
<1>5. P = {}
  <2> SUFFICES ASSUME P # {} PROVE FALSE
    OBVIOUS
  <2>1. PICK s \in P : \A x \in s : s \ {x} \notin P
    BY LeastSubset
  <2>2. CASE s = {}
    BY <1>3, <1>4, <2>1, <2>2 DEF Parts
  <2>3. CASE s # {}
    <3>1. PICK x \in s : a[s] = f[x] + a[s \ {x}] /\ b[s] = g[x] + b[s \ {x}]
      BY <1>3, <1>4, <2>3 DEF Parts
    <3>2. Moved(s \ {x})
      BY <2>1
    <3>3. f[x] \in Int /\ g[x] \in Int /\ f[c] \in Int /\ g[c] \in Int /\ (x # c => g[x] = f[x])
      OBVIOUS
    <3>4. Moved(s)
      BY <3>1, <3>2, <3>3
    <3> QED BY <3>4
  <2> QED BY <2>2, <2>3
<1>6. Moved(S)
  BY <1>5
<1> QED BY <1>1, <1>2, <1>6
----------------------------------------------------------------------------
(* The books.  What the account holds is the sum of what its reservations  *)
(* bind, and this month's use covers what this month's reservations spent. *)
(* A reservation is never dated after the month the account is in, so the  *)
(* month that ends leaves none of its spending to the next.                *)
ReserveOf(r) == [c \in Call |-> Reserves(r[c], CapOf[c])]
SpentOf(r) == [c \in Call |-> Spent(r[c])]
SpentSince(start, r) == [c \in Call |-> IF r[c].at >= start THEN Spent(r[c]) ELSE 0]
AddsUp(a, r) == a.reserved = SumFunction(ReserveOf(r)) /\ a.settled = SumFunction(SpentOf(r))
Timely(a, r) == a.monthly =>
  /\ a.start < a.reset /\ \A c \in Call : r[c].at < a.reset
  /\ Used(a) >= SumFunction(SpentSince(a.start, r))
Audited(a, r) == AddsUp(a, r) /\ Timely(a, r)
\* Nothing is spent before a reservation is settled.
Unspent(r) == \A c \in Call : r[c].state \notin {"settled", "reconciled"} => r[c].exact = 0
Audit ==
  /\ account = NoAccount => \A c \in Call : res[c] = NoReservation
  /\ Unspent(res)
  /\ account # NoAccount => Audited(account, res)

LEMMA AmountsAreNumbers ==
  ASSUME NEW r \in [Call -> Reservations], NEW start \in Nat
  PROVE  /\ ReserveOf(r) \in [Call -> Nat] /\ SpentOf(r) \in [Call -> Nat] /\ SpentSince(start, r) \in [Call -> Nat]
         /\ ReserveOf(r) \in [Call -> Int] /\ SpentOf(r) \in [Call -> Int] /\ SpentSince(start, r) \in [Call -> Int]
<1>1. \A c \in Call : Reserves(r[c], CapOf[c]) \in Nat /\ Spent(r[c]) \in Nat
  BY CapsAreAmounts DEF Reserves, Spent, Reservations
<1> QED BY <1>1 DEF ReserveOf, SpentOf, SpentSince

\* A month that ends leaves none of its spending behind: every reservation is dated before the reset.
LEMMA AdvanceIsAudited ==
  ASSUME NEW a, Sound(a), NEW r \in [Call -> Reservations], Audited(a, r), NEW now \in Nat
  PROVE  /\ Audited(Advance(a, now), r) /\ Advance(a, now).monthly = a.monthly
         /\ Advance(a, now).monthly => now < Advance(a, now).reset
<1> DEFINE b == Advance(a, now)
<1>1. CASE a.monthly /\ now >= a.reset
  <2>0. /\ a \in Accounts /\ now + 1 \in Nat
        /\ b = [a EXCEPT !.start = a.reset, !.reset = now + 1, !.base = a.settled]
    BY <1>1 DEF Advance, Sound
  <2>1. /\ b.start = a.reset /\ b.reset = now + 1 /\ b.base = a.settled /\ b.settled = a.settled
        /\ b.reserved = a.reserved /\ b.monthly = a.monthly /\ a.reset \in Nat /\ a.settled \in Nat
    BY <2>0 DEF Accounts
  <2> HIDE DEF b
  <2>2. AddsUp(b, r)
    BY <2>1 DEF Audited, AddsUp
  <2>3. \A c \in Call : r[c].at \in Nat /\ r[c].at < a.reset
    BY <1>1 DEF Audited, Timely, Reservations
  <2>4. \A c \in Call : SpentSince(b.start, r)[c] = 0
    BY <2>1, <2>3 DEF SpentSince
  <2>5. SumFunction(SpentSince(b.start, r)) = 0
    BY <2>1, <2>4, AmountsAreNumbers, CallsAreFinite, SumIsTyped
  <2>6. Used(b) = 0
    BY <2>1 DEF Used
  <2>7. b.start < b.reset /\ \A c \in Call : r[c].at < b.reset
    BY <1>1, <2>1, <2>3
  <2> QED BY <2>1, <2>2, <2>5, <2>6, <2>7 DEF Audited, Timely, b
<1>2. CASE ~(a.monthly /\ now >= a.reset)
  BY <1>2 DEF Advance, Sound, Accounts
<1> QED BY <1>1, <1>2

\* A transaction that changes one reservation moves the account by what that reservation binds.
LEMMA ChangeIsAudited ==
  ASSUME NEW a \in Accounts, NEW b \in Accounts, NEW r \in [Call -> Reservations], Audited(a, r),
         NEW c \in Call, NEW x \in Reservations,
         b.reserved = a.reserved + (Reserves(x, CapOf[c]) - Reserves(r[c], CapOf[c])),
         b.settled = a.settled + (Spent(x) - Spent(r[c])),
         b.monthly = a.monthly, b.start = a.start, b.reset = a.reset,
         b.monthly => /\ x.at < b.reset
                      /\ Used(b) >= Used(a) + ((IF x.at >= b.start THEN Spent(x) ELSE 0)
                                                - (IF r[c].at >= b.start THEN Spent(r[c]) ELSE 0))
  PROVE  Audited(b, [r EXCEPT ![c] = x])
<1> DEFINE s == [r EXCEPT ![c] = x]
<1>1. s \in [Call -> Reservations] /\ s[c] = x /\ \A d \in Call \ {c} : s[d] = r[d]
  OBVIOUS
<1> HIDE DEF s
<1>2. a.start \in Nat /\ b.start = a.start
  BY DEF Accounts
<1>3. SumFunction(ReserveOf(s)) = SumFunction(ReserveOf(r)) + (Reserves(x, CapOf[c]) - Reserves(r[c], CapOf[c]))
  <2>1. /\ ReserveOf(s)[c] = Reserves(x, CapOf[c]) /\ ReserveOf(r)[c] = Reserves(r[c], CapOf[c])
        /\ \A d \in Call \ {c} : ReserveOf(s)[d] = ReserveOf(r)[d]
    BY <1>1 DEF ReserveOf
  <2>2. ReserveOf(s) \in [Call -> Int] /\ ReserveOf(r) \in [Call -> Int]
    BY <1>1, <1>2, AmountsAreNumbers
  <2>3. SumFunction(ReserveOf(s)) = SumFunction(ReserveOf(r)) + (ReserveOf(s)[c] - ReserveOf(r)[c])
    BY <2>1, <2>2, CallsAreFinite, SumChanges
  <2> QED BY <2>1, <2>3
<1>4. SumFunction(SpentOf(s)) = SumFunction(SpentOf(r)) + (Spent(x) - Spent(r[c]))
  <2>1. /\ SpentOf(s)[c] = Spent(x) /\ SpentOf(r)[c] = Spent(r[c])
        /\ \A d \in Call \ {c} : SpentOf(s)[d] = SpentOf(r)[d]
    BY <1>1 DEF SpentOf
  <2>2. SpentOf(s) \in [Call -> Int] /\ SpentOf(r) \in [Call -> Int]
    BY <1>1, <1>2, AmountsAreNumbers
  <2>3. SumFunction(SpentOf(s)) = SumFunction(SpentOf(r)) + (SpentOf(s)[c] - SpentOf(r)[c])
    BY <2>1, <2>2, CallsAreFinite, SumChanges
  <2> QED BY <2>1, <2>3
<1>5. AddsUp(b, s)
  BY <1>3, <1>4 DEF Audited, AddsUp
<1>6. ASSUME b.monthly PROVE Used(b) >= SumFunction(SpentSince(b.start, s))
  <2> DEFINE before == SpentSince(b.start, r)
             after == SpentSince(b.start, s)
  <2>1. /\ after[c] = IF x.at >= b.start THEN Spent(x) ELSE 0
        /\ before[c] = IF r[c].at >= b.start THEN Spent(r[c]) ELSE 0
        /\ \A d \in Call \ {c} : after[d] = before[d]
    BY <1>1 DEF SpentSince
  <2>2. after \in [Call -> Int] /\ before \in [Call -> Int]
    BY <1>1, <1>2, AmountsAreNumbers
  <2>3. Used(a) >= SumFunction(before)
    BY <1>2, <1>6 DEF Audited, Timely
  <2> HIDE DEF before, after
  <2>4. SumFunction(after) = SumFunction(before) + (after[c] - before[c]) /\ SumFunction(before) \in Int
    BY <2>1, <2>2, CallsAreFinite, SumChanges, SumIsTyped
  <2>5. Used(b) >= Used(a) + (after[c] - before[c]) /\ after[c] \in Int /\ before[c] \in Int
    BY <1>6, <2>1, <2>2
  <2>6. Used(a) \in Int /\ Used(b) \in Int
    BY DEF Used, Accounts
  <2>7. Used(b) >= SumFunction(after)
    BY <2>3, <2>4, <2>5, <2>6
  <2> QED BY <2>7 DEF after
<1>7. ASSUME b.monthly PROVE b.start < b.reset /\ \A d \in Call : s[d].at < b.reset
  BY <1>1, <1>7 DEF Audited, Timely
<1> QED BY <1>5, <1>6, <1>7 DEF Audited, Timely, s

\* Reservations that bind as much, with the same dates, are audited alike.
LEMMA SameIsAudited ==
  ASSUME NEW a, NEW r, NEW s, Audited(a, r),
         \A c \in Call : /\ s[c].at = r[c].at /\ Spent(s[c]) = Spent(r[c])
                         /\ Reserves(s[c], CapOf[c]) = Reserves(r[c], CapOf[c])
  PROVE  Audited(a, s)
<1>1. /\ ReserveOf(s) = ReserveOf(r) /\ SpentOf(s) = SpentOf(r)
      /\ SpentSince(a.start, s) = SpentSince(a.start, r)
  BY DEF ReserveOf, SpentOf, SpentSince
<1> QED BY <1>1 DEF Audited, AddsUp, Timely

\* An account opens with nothing in it, and no reservation was made before it.
LEMMA OpenedIsAudited ==
  ASSUME NEW limit, NEW now \in Nat, NEW z, NEW monthly \in BOOLEAN, NEW r \in [Call -> Reservations],
         \A c \in Call : r[c] = NoReservation
  PROVE  Audited(Opened(limit, now), r) /\ Audited(Governed(limit, monthly, now, z), r)
<1>1. \A start \in Nat : /\ \A c \in Call : SpentSince(start, r)[c] = 0
                         /\ \A c \in Call : ReserveOf(r)[c] = 0 /\ SpentOf(r)[c] = 0
  BY DEF SpentSince, ReserveOf, SpentOf, NoReservation, Spent, Reserves, OnHold
<1>2. \A start \in Nat : /\ SumFunction(SpentSince(start, r)) = 0
                         /\ SumFunction(ReserveOf(r)) = 0 /\ SumFunction(SpentOf(r)) = 0
  BY <1>1, AmountsAreNumbers, CallsAreFinite, SumIsTyped
<1>3. \A c \in Call : r[c].at = 0
  BY DEF NoReservation
<1>4. ASSUME NEW a, a.reserved = 0, a.settled = 0, a.base = 0,
             a.monthly => a.start = now /\ a.reset = now + 1
      PROVE  Audited(a, r)
  BY <1>2, <1>3, <1>4 DEF Audited, AddsUp, Timely, Used
<1>5. Audited(Opened(limit, now), r)
  BY <1>4 DEF Opened
<1>6. Audited(Governed(limit, monthly, now, z), r)
  BY <1>4 DEF Opened, Governed
<1> QED BY <1>5, <1>6

\* A claim reserves what it was quoted.
LEMMA ReserveIsAudited ==
  ASSUME NEW a, Sound(a), NEW c \in Call, HasRoom(a, CapOf[c]),
         NEW r \in [Call -> Reservations], Audited(a, r), r[c].state = "none"
  PROVE  Audited(Reserve(a, CapOf[c]).account, [r EXCEPT ![c] = Reserve(a, CapOf[c]).reservation])
<1> DEFINE b == Reserve(a, CapOf[c]).account
           x == Reserve(a, CapOf[c]).reservation
<1>1. /\ CapOf[c] \in Nat /\ a \in Accounts /\ b \in Accounts
  BY CapsAreAmounts, ReserveKeeps DEF Sound
<1>2. /\ b.reserved = a.reserved + CapOf[c] /\ b.settled = a.settled /\ b.base = a.base
      /\ b.monthly = a.monthly /\ b.start = a.start /\ b.reset = a.reset
  BY <1>1 DEF Reserve, Accounts
<1>3. x \in Reservations /\ x.state = "reserved" /\ x.at = 0
  BY DEF Reserve, NoReservation, Reservations
<1> HIDE DEF b, x
<1>4. Reserves(x, CapOf[c]) = CapOf[c] /\ Reserves(r[c], CapOf[c]) = 0 /\ Spent(x) = 0 /\ Spent(r[c]) = 0
  BY <1>3 DEF Reserves, Spent, OnHold
<1>5. a.settled \in Int /\ b.base \in Int /\ a.reserved \in Int /\ a.start \in Nat
  BY <1>1 DEF Accounts
<1>6. a.monthly => 0 < a.reset
  BY <1>1, <1>5 DEF Audited, Timely, Accounts
<1>7. Used(b) = Used(a) /\ Used(a) \in Int
  BY <1>1, <1>2 DEF Used, Accounts
<1>8. /\ b.reserved = a.reserved + (Reserves(x, CapOf[c]) - Reserves(r[c], CapOf[c]))
      /\ b.settled = a.settled + (Spent(x) - Spent(r[c]))
  BY <1>1, <1>2, <1>4, <1>5
<1>9. b.monthly => /\ x.at < b.reset
                   /\ Used(b) >= Used(a) + ((IF x.at >= b.start THEN Spent(x) ELSE 0)
                                             - (IF r[c].at >= b.start THEN Spent(r[c]) ELSE 0))
  BY <1>2, <1>3, <1>4, <1>6, <1>7
<1>10. Audited(b, [r EXCEPT ![c] = x])
  BY <1>1, <1>2, <1>3, <1>8, <1>9, ChangeIsAudited
<1> QED BY <1>10 DEF b, x

\* A settlement returns the reserve and counts the exact sum once, or keeps the reserve.
LEMMA SettlementIsAudited ==
  ASSUME NEW a, Sound(a), NEW c \in Call, NEW r \in [Call -> Reservations], Audited(a, r),
         CanSettle(a, r[c], CapOf[c]), NEW exact \in Nat, NEW upper \in BOOLEAN, NEW now \in Nat,
         NEW after, after \in {Release(a, r[c], CapOf[c], now), Hold(a, r[c], now),
                               Charge(a, r[c], CapOf[c], exact, upper, now)}
  PROVE  Audited(after.account, [r EXCEPT ![c] = after.reservation])
<1> DEFINE b == Advance(a, now)
           d == after.account
           x == after.reservation
<1>1. /\ Sound(b) /\ b \in Accounts /\ Audited(b, r) /\ (b.monthly => now < b.reset)
      /\ CapOf[c] \in Nat /\ r[c] \in Reservations /\ r[c].state = "reserved"
  BY AdvanceKeeps, AdvanceIsAudited, CapsAreAmounts DEF Sound, CanSettle
<1>2. d \in Accounts /\ x \in Reservations
  BY <1>1, SettlementKeeps DEF Sound
<1>3. Reserves(r[c], CapOf[c]) = CapOf[c] /\ Spent(r[c]) = 0
  BY <1>1 DEF Reserves, Spent, OnHold
<1>4. /\ d.base = b.base /\ d.monthly = b.monthly /\ d.start = b.start /\ d.reset = b.reset
      /\ \/ /\ d.reserved = b.reserved - CapOf[c] /\ d.settled = b.settled
            /\ x.state = "released" /\ x.at = r[c].at
         \/ /\ d.reserved = b.reserved /\ d.settled = b.settled /\ x.state \in OnHold /\ x.at = r[c].at
         \/ /\ d.reserved = b.reserved - CapOf[c] /\ d.settled = b.settled + exact
            /\ x.state = "settled" /\ x.exact = exact /\ x.at = now
  <2>0. b \in Accounts /\ r[c] \in Reservations
    BY <1>1
  <2>1. CASE after = Release(a, r[c], CapOf[c], now)
    <3>1. d = [b EXCEPT !.reserved = b.reserved - CapOf[c]] /\ x = [r[c] EXCEPT !.state = "released"]
      BY <2>1 DEF Release
    <3> HIDE DEF b, d, x
    <3> QED BY <2>0, <3>1 DEF Accounts, Reservations
  <2>2. CASE after = Hold(a, r[c], now)
    <3>1. d = b /\ x = [r[c] EXCEPT !.state = "held"]
      BY <2>2 DEF Hold
    <3> HIDE DEF b, d, x
    <3> QED BY <2>0, <3>1 DEF Reservations, OnHold
  <2>3. CASE after = Charge(a, r[c], CapOf[c], exact, upper, now) /\ Ceil(exact) > CapOf[c]
    <3>1. d = [b EXCEPT !.frozen = TRUE] /\ x = [r[c] EXCEPT !.state = "overrun"]
      BY <2>3 DEF Charge
    <3> HIDE DEF b, d, x
    <3> QED BY <2>0, <3>1 DEF Accounts, Reservations, OnHold
  <2>4. CASE after = Charge(a, r[c], CapOf[c], exact, upper, now) /\ ~(Ceil(exact) > CapOf[c])
    <3>1. /\ d = [b EXCEPT !.reserved = b.reserved - CapOf[c], !.settled = b.settled + exact]
          /\ x = [r[c] EXCEPT !.state = "settled", !.exact = exact, !.upper = upper, !.at = now]
      BY <2>4 DEF Charge
    <3> HIDE DEF b, d, x
    <3> QED BY <2>0, <3>1 DEF Accounts, Reservations
  <2> QED BY <2>1, <2>2, <2>3, <2>4
<1> HIDE DEF b, d, x
<1>6. /\ d.reserved = b.reserved + (Reserves(x, CapOf[c]) - Reserves(r[c], CapOf[c]))
      /\ d.settled = b.settled + (Spent(x) - Spent(r[c])) /\ Spent(x) \in Nat
      /\ Spent(x) # 0 => x.at = now
  <2>1. b.reserved \in Int /\ b.settled \in Int
    BY <1>1 DEF Accounts
  <2> QED BY <1>1, <1>3, <1>4, <2>1 DEF Reserves, Spent, OnHold
<1>7. Used(d) = Used(b) + Spent(x) /\ Used(b) \in Int
  BY <1>1, <1>3, <1>4, <1>6 DEF Used, Accounts
<1>8. b.monthly => x.at < b.reset
  BY <1>1, <1>4 DEF Audited, Timely
<1>9. d.monthly => /\ x.at < d.reset
                   /\ Used(d) >= Used(b) + ((IF x.at >= d.start THEN Spent(x) ELSE 0)
                                             - (IF r[c].at >= d.start THEN Spent(r[c]) ELSE 0))
  BY <1>3, <1>4, <1>6, <1>7, <1>8
<1>10. Audited(d, [r EXCEPT ![c] = x])
  BY <1>1, <1>2, <1>4, <1>6, <1>9, ChangeIsAudited
<1> QED BY <1>10 DEF d, x

\* A correction replaces what the reservation bound, in the month it was dated.
LEMMA ReconcileIsAudited ==
  ASSUME NEW a, Sound(a), NEW c \in Call, NEW r \in [Call -> Reservations], Audited(a, r), NEW exact \in Nat,
         NEW now \in Nat, CanReconcile(a, r[c], CapOf[c], exact, now)
  PROVE  LET after == Reconcile(a, r[c], CapOf[c], exact, now) IN
         Audited(after.account, [r EXCEPT ![c] = after.reservation])
<1> DEFINE b == Advance(a, now)
           after == Reconcile(a, r[c], CapOf[c], exact, now)
           d == after.account
           x == after.reservation
           settled == b.settled - Replaced(r[c]) + exact
           base == BaseAfter(b, settled, r[c].at)
<1>1. /\ b \in Accounts /\ Audited(b, r) /\ (b.monthly => now < b.reset)
      /\ CapOf[c] \in Nat /\ r[c] \in Reservations
  BY AdvanceKeeps, AdvanceIsAudited, CapsAreAmounts DEF Sound
<1>2. d \in Accounts /\ x \in Reservations
  BY <1>1, ReconcileKeeps DEF Sound
<1>3. /\ d.reserved = b.reserved - Returned(r[c], CapOf[c]) /\ d.settled = settled /\ d.base = base
      /\ d.monthly = b.monthly /\ d.start = b.start /\ d.reset = b.reset
  <2>1. Advance(a, now) \in Accounts
    BY <1>1
  <2> QED BY <2>1 DEF Reconcile, Accounts
<1>4. x.state = "reconciled" /\ x.exact = exact /\ x.at = IF IsUpperBound(r[c]) THEN r[c].at ELSE now
  BY DEF Reconcile
<1>5. Reserves(x, CapOf[c]) = 0 /\ Spent(x) = exact
  BY <1>4 DEF Reserves, Spent, OnHold
<1>6. \/ IsUpperBound(r[c]) /\ exact <= r[c].exact
      \/ ~IsUpperBound(r[c]) /\ r[c].state \in OnHold
  BY DEF CanReconcile, IsUpperBound, OnHold
<1>7. /\ b.reserved \in Int /\ b.settled \in Int /\ b.base \in Int /\ r[c].exact \in Nat /\ r[c].at \in Nat
      /\ b.start \in Nat /\ b.reset \in Nat
  BY <1>1 DEF Accounts, Reservations
<1>8. b.monthly => r[c].at < b.reset
  BY <1>1 DEF Audited, Timely
<1> HIDE DEF b, d, x
<1>9. CASE IsUpperBound(r[c])
  <2>1. /\ Reserves(r[c], CapOf[c]) = 0 /\ Spent(r[c]) = r[c].exact /\ exact <= r[c].exact
        /\ Replaced(r[c]) = r[c].exact /\ Returned(r[c], CapOf[c]) = 0 /\ x.at = r[c].at
    BY <1>4, <1>6, <1>9 DEF IsUpperBound, Reserves, Spent, OnHold, Replaced, Returned
  <2>2. /\ d.reserved = b.reserved + (Reserves(x, CapOf[c]) - Reserves(r[c], CapOf[c]))
        /\ d.settled = b.settled + (Spent(x) - Spent(r[c]))
    BY <1>3, <1>5, <1>7, <2>1
  <2>3. base = IF b.monthly /\ exact < r[c].exact /\ r[c].at < b.start THEN b.base - (r[c].exact - exact) ELSE b.base
    BY <1>7, <2>1 DEF BaseAfter
  <2>4. Used(b) = b.settled - b.base /\ Used(d) = (b.settled - r[c].exact + exact) - base
    <3>1. d.settled = b.settled - r[c].exact + exact /\ d.base = base
      BY <1>3, <2>1
    <3> QED BY <3>1 DEF Used
  <2>5. d.monthly => /\ x.at < d.reset
                     /\ Used(d) >= Used(b) + ((IF x.at >= d.start THEN Spent(x) ELSE 0)
                                               - (IF r[c].at >= d.start THEN Spent(r[c]) ELSE 0))
    <3> SUFFICES ASSUME d.monthly PROVE
             /\ x.at < d.reset
             /\ Used(d) >= Used(b) + ((IF x.at >= d.start THEN Spent(x) ELSE 0)
                                       - (IF r[c].at >= d.start THEN Spent(r[c]) ELSE 0))
      OBVIOUS
    <3>1. CASE r[c].at < b.start
      <4>1. base = b.base - (r[c].exact - exact)
        BY <1>3, <1>7, <2>1, <2>3, <3>1
      <4>2. Used(d) = Used(b) /\ Used(b) \in Int
        BY <1>7, <2>1, <2>4, <4>1
      <4> QED BY <1>3, <1>7, <1>8, <2>1, <3>1, <4>2
    <3>2. CASE ~(r[c].at < b.start)
      <4>1. Used(d) = Used(b) + (exact - r[c].exact)
        BY <1>7, <2>3, <2>4, <3>2
      <4> QED BY <1>3, <1>5, <1>7, <1>8, <2>1, <2>4, <3>2, <4>1
    <3> QED BY <3>1, <3>2
  <2> QED BY <1>1, <1>2, <1>3, <2>2, <2>5, ChangeIsAudited DEF d, x
<1>10. CASE ~IsUpperBound(r[c])
  <2>1. /\ Reserves(r[c], CapOf[c]) = CapOf[c] /\ Spent(r[c]) = 0
        /\ Replaced(r[c]) = 0 /\ Returned(r[c], CapOf[c]) = CapOf[c] /\ x.at = now
    BY <1>4, <1>6, <1>10 DEF Reserves, Spent, OnHold, Replaced, Returned
  <2>2. /\ d.reserved = b.reserved + (Reserves(x, CapOf[c]) - Reserves(r[c], CapOf[c]))
        /\ d.settled = b.settled + (Spent(x) - Spent(r[c]))
    BY <1>1, <1>3, <1>5, <1>7, <2>1
  <2>3. base = b.base
    BY <1>7, <2>1 DEF BaseAfter
  <2>4. Used(d) = Used(b) + exact /\ Used(b) \in Int
    BY <1>3, <1>7, <2>1, <2>3 DEF Used
  <2>5. d.monthly => /\ x.at < d.reset
                     /\ Used(d) >= Used(b) + ((IF x.at >= d.start THEN Spent(x) ELSE 0)
                                               - (IF r[c].at >= d.start THEN Spent(r[c]) ELSE 0))
    BY <1>1, <1>3, <1>5, <2>1, <2>4
  <2> QED BY <1>1, <1>2, <1>3, <2>2, <2>5, ChangeIsAudited DEF d, x
<1> QED BY <1>9, <1>10

LEMMA AuditOfBooked ==
  ASSUME Sound(account'), Unspent(res'), Audited(account', res')
  PROVE  Audit'
  BY NoAccountIsNoRecord DEF Audit, Sound

\* One reservation is booked: nothing is spent by it before it is settled.
LEMMA UnspentAfter ==
  ASSUME Inv, Audit, NEW c \in Call, NEW x \in Reservations, res' = [res EXCEPT ![c] = x],
         x.state \notin {"settled", "reconciled"} => x.exact = 0
  PROVE  Unspent(res')
  BY DEF Inv, TypeOK, Audit, Unspent

LEMMA AuditOfInit == Init => Audit
  BY DEF Init, Audit, Unspent, NoReservation

LEMMA ClaimKeepsAudit ==
  ASSUME Inv, Custody, Audit, NEW c \in Call, Claim(c)
  PROVE  Audit'
<1>1. PICK now \in Clock, limit \in Limits :
        LET current == IF account = NoAccount THEN Opened(limit, now) ELSE account IN
        /\ outcome[c] = "none" /\ HasRoom(Advance(current, now), CapOf[c])
        /\ Books(c, Reserve(Advance(current, now), CapOf[c]))
  BY DEF Claim
<1> DEFINE current == IF account = NoAccount THEN Opened(limit, now) ELSE account
           b == Advance(current, now)
           after == Reserve(b, CapOf[c])
<1>2. now \in Nat /\ limit \in Nat /\ CapOf[c] \in Nat /\ zone \in Zones /\ res \in [Call -> Reservations]
  BY ClockIsNat, BoundsAreAmounts, CapsAreAmounts DEF Inv, TypeOK
<1>3. Sound(current) /\ Audited(current, res)
  <2>1. CASE account = NoAccount
    <3>1. \A d \in Call : res[d] = NoReservation
      BY <2>1 DEF Audit
    <3>2. Audited(Opened(limit, now), res)
      BY <1>2, <3>1, OpenedIsAudited
    <3> QED BY <1>2, <2>1, <3>2, OpenedIsSound
  <2>2. CASE account # NoAccount
    BY <2>2, AccountIsSound DEF Audit
  <2> QED BY <2>1, <2>2
<1> HIDE DEF current
<1>4. Sound(b) /\ Audited(b, res)
  BY <1>2, <1>3, AdvanceKeeps, AdvanceIsAudited
<1>5. HasRoom(b, CapOf[c]) /\ Books(c, after) /\ res[c].state = "none"
  BY <1>1 DEF current, Custody, Linked
<1> HIDE DEF b
<1>6. Audited(after.account, [res EXCEPT ![c] = after.reservation]) /\ Sound(after.account)
  BY <1>2, <1>4, <1>5, ReserveIsAudited, ReserveKeeps
<1>7. after.reservation \in Reservations /\ after.reservation.exact = 0
  BY DEF Reserve, NoReservation, Reservations
<1> HIDE DEF after
<1>8. account' = after.account /\ res' = [res EXCEPT ![c] = after.reservation]
  BY <1>5 DEF Books
<1>9. Unspent(res')
  BY <1>7, <1>8, UnspentAfter
<1> QED BY <1>6, <1>8, <1>9, AuditOfBooked

LEMMA SettleKeepsAudit ==
  ASSUME Inv, Audit, NEW c \in Call, NEW after, Settle(c, after), NEW exact \in Nat, NEW upper \in BOOLEAN,
         NEW now \in Nat,
         after \in {Release(account, res[c], CapOf[c], now), Hold(account, res[c], now),
                    Charge(account, res[c], CapOf[c], exact, upper, now)}
  PROVE  Audit'
<1>1. /\ Sound(account) /\ Audited(account, res) /\ CanSettle(account, res[c], CapOf[c])
      /\ res \in [Call -> Reservations] /\ res[c] \in Reservations /\ CapOf[c] \in Nat
  BY AccountIsSound, CapsAreAmounts DEF Settle, ReadableNow, Audit, Inv, TypeOK
<1>2. Sound(after.account) /\ after.reservation \in Reservations
  BY <1>1, SettlementKeeps
<1>3. Audited(after.account, [res EXCEPT ![c] = after.reservation])
  BY <1>1, SettlementIsAudited
<1>4. res[c].exact = 0
  BY <1>1 DEF CanSettle, Audit, Unspent
<1>5. after.reservation.state \notin {"settled", "reconciled"} => after.reservation.exact = 0
  <2>1. \/ after.reservation \in {[res[c] EXCEPT !.state = "released"], [res[c] EXCEPT !.state = "held"],
                                  [res[c] EXCEPT !.state = "overrun"]}
        \/ after.reservation = [res[c] EXCEPT !.state = "settled", !.exact = exact, !.upper = upper, !.at = now]
    BY DEF Release, Hold, Charge
  <2> DEFINE x == after.reservation
             r == res[c]
  <2> HIDE DEF x, r
  <2>2. r \in Reservations /\ r.exact = 0
    BY <1>1, <1>4 DEF r
  <2>3. \/ x \in {[r EXCEPT !.state = "released"], [r EXCEPT !.state = "held"], [r EXCEPT !.state = "overrun"]}
        \/ x = [r EXCEPT !.state = "settled", !.exact = exact, !.upper = upper, !.at = now]
    BY <2>1 DEF x, r
  <2>4. x.state \notin {"settled", "reconciled"} => x.exact = 0
    BY <2>2, <2>3 DEF Reservations
  <2> QED BY <2>4 DEF x
<1>6. account' = after.account /\ res' = [res EXCEPT ![c] = after.reservation]
  BY DEF Settle, Books
<1>7. Unspent(res')
  BY <1>2, <1>5, <1>6, UnspentAfter
<1> QED BY <1>2, <1>3, <1>6, <1>7, AuditOfBooked

LEMMA AnswersKeepAudit ==
  ASSUME Inv, Audit, NEW c \in Call, RecordMeasured(c) \/ RecordHeld(c) \/ RecordFree(c) \/ Cancel(c)
  PROVE  Audit'
<1>1. charge[c] \in Nat /\ Clock \subseteq Nat
  BY ClockIsNat DEF Inv, TypeOK
<1>2. PICK now \in Clock, exact \in Bounds \cup {charge[c]} :
        \E after \in {Release(account, res[c], CapOf[c], now), Hold(account, res[c], now),
                      Charge(account, res[c], CapOf[c], exact, exact # charge[c], now)} : Settle(c, after)
  BY DEF RecordMeasured, RecordHeld, RecordFree, Cancel
<1>3. exact \in Nat /\ now \in Nat /\ (exact # charge[c]) \in BOOLEAN
  BY <1>1, BoundsAreAmounts
<1> QED BY <1>2, <1>3, SettleKeepsAudit

LEMMA ReconcileCallKeepsAudit ==
  ASSUME Inv, Audit, NEW c \in Call, ReconcileCall(c)
  PROVE  Audit'
<1>1. PICK now \in Clock, exact \in ChargesOf[c] \cup {0} :
        /\ account # NoAccount /\ CanReconcile(account, res[c], CapOf[c], exact, now)
        /\ Books(c, Reconcile(account, res[c], CapOf[c], exact, now))
  BY DEF ReconcileCall, ReadableNow
<1> DEFINE after == Reconcile(account, res[c], CapOf[c], exact, now)
<1>2. /\ CapOf[c] \in Nat /\ res \in [Call -> Reservations] /\ res[c] \in Reservations
      /\ exact \in Nat /\ now \in Nat /\ Sound(account) /\ Audited(account, res)
  BY <1>1, CapsAreAmounts, ChargesAreAmounts, ClockIsNat, AccountIsSound DEF Inv, TypeOK, Audit
<1>3. Sound(after.account) /\ after.reservation \in Reservations
  BY <1>1, <1>2, ReconcileKeeps
<1>7. after.reservation.state = "reconciled"
  BY DEF Reconcile
<1>4. Audited(after.account, [res EXCEPT ![c] = after.reservation])
  BY <1>1, <1>2, ReconcileIsAudited
<1> HIDE DEF after
<1>5. account' = after.account /\ res' = [res EXCEPT ![c] = after.reservation]
  BY <1>1 DEF Books, after
<1>6. Unspent(res')
  BY <1>3, <1>5, <1>7, UnspentAfter
<1> QED BY <1>3, <1>4, <1>5, <1>6, AuditOfBooked

\* A start holds what was reserved: held or reserved, it binds as much.
LEMMA StartSlotsKeepsAudit ==
  ASSUME Inv, Custody, Audit, NEW h \in Host, StartSlots(h)
  PROVE  Audit'
<1>1. CASE Lost(h) # {} /\ ReadableNow /\ inFlight = Cardinality(Open)
  <2>1. PICK now \in Clock :
            /\ account' = Advance(account, now)
            /\ res' = [c \in Call |-> IF c \in Lost(h) THEN Hold(account, res[c], now).reservation ELSE res[c]]
    BY <1>1 DEF StartSlots
  <2>2. /\ Sound(account) /\ Audited(account, res) /\ res \in [Call -> Reservations] /\ now \in Nat
    BY <1>1, AccountIsSound, ClockIsNat DEF ReadableNow, Audit, Inv, TypeOK
  <2>3. Sound(account') /\ Audited(account', res)
    BY <2>1, <2>2, AdvanceKeeps, AdvanceIsAudited
  <2>4. ASSUME NEW c \in Call
        PROVE  /\ res'[c].at = res[c].at /\ Spent(res'[c]) = Spent(res[c])
               /\ Reserves(res'[c], CapOf[c]) = Reserves(res[c], CapOf[c])
               /\ res'[c].state \notin {"settled", "reconciled"} => res'[c].exact = 0
    <3>1. CASE c \in Lost(h)
      <4>1. res[c].state = "reserved" /\ res[c] \in Reservations
        BY <2>2, <3>1 DEF Lost, Open, Custody, Linked
      <4>2. res'[c] = [res[c] EXCEPT !.state = "held"]
        BY <2>1, <3>1 DEF Hold
      <4>3. res'[c].state = "held" /\ res'[c].at = res[c].at /\ res'[c].exact = res[c].exact
        BY <4>1, <4>2 DEF Reservations
      <4> QED BY <4>1, <4>3 DEF Spent, Reserves, OnHold, Audit, Unspent
    <3>2. CASE c \notin Lost(h)
      BY <2>1, <3>2 DEF Audit, Unspent
    <3> QED BY <3>1, <3>2
  <2>5. Audited(account', res') /\ Unspent(res')
    BY <2>3, <2>4, SameIsAudited DEF Unspent
  <2> QED BY <2>3, <2>5, AuditOfBooked
<1>2. CASE ~(Lost(h) # {} /\ ReadableNow /\ inFlight = Cardinality(Open))
  BY <1>2 DEF StartSlots, Audit
<1> QED BY <1>1, <1>2

\* A hold that is recovered bound nothing and had spent nothing.
LEMMA StartHoldsKeepsAudit ==
  ASSUME Inv, Audit, NEW h \in Host, StartHolds(h)
  PROVE  Audit'
<1>1. account' = account /\ res \in [Call -> Reservations]
  BY DEF StartHolds, Inv, TypeOK
<1>2. CASE ReadableNow
  <2>1. res' = [c \in Call |-> IF CanRecover(res[c], CapOf[c]) THEN Recover(res[c]) ELSE res[c]]
    BY <1>2 DEF StartHolds
  <2>2. ASSUME NEW c \in Call
        PROVE  /\ res'[c].at = res[c].at /\ Spent(res'[c]) = Spent(res[c])
               /\ Reserves(res'[c], CapOf[c]) = Reserves(res[c], CapOf[c])
               /\ res'[c].state \notin {"settled", "reconciled"} => res'[c].exact = 0
    <3>1. CASE CanRecover(res[c], CapOf[c])
      <4>1. res[c].state = "held" /\ CapOf[c] = 0 /\ res[c] \in Reservations /\ res[c].exact = 0
        BY <1>1, <3>1 DEF CanRecover, Audit, Unspent
      <4>2. res'[c] = [res[c] EXCEPT !.state = "settled"]
        BY <2>1, <3>1 DEF Recover
      <4>3. res'[c].state = "settled" /\ res'[c].at = res[c].at /\ res'[c].exact = 0
        BY <4>1, <4>2 DEF Reservations
      <4> QED BY <4>1, <4>3 DEF Spent, Reserves, OnHold
    <3>2. CASE ~CanRecover(res[c], CapOf[c])
      BY <2>1, <3>2 DEF Audit, Unspent
    <3> QED BY <3>1, <3>2
  <2>3. Audited(account, res) /\ account # NoAccount
    BY <1>2 DEF ReadableNow, Audit
  <2>4. Audited(account', res') /\ Unspent(res')
    BY <1>1, <2>2, <2>3, SameIsAudited DEF Unspent
  <2> QED BY <1>1, <2>3, <2>4 DEF Audit
<1>3. CASE ~ReadableNow
  <2>1. res' = res
    BY <1>1, <1>3 DEF StartHolds
  <2> QED BY <1>1, <2>1 DEF Audit
<1> QED BY <1>2, <1>3

LEMMA CreateBudgetKeepsAudit ==
  ASSUME Inv, Audit, CreateBudget
  PROVE  Audit'
<1>1. PICK limit \in Limits, now \in Clock, monthly \in Renewals :
        account = NoAccount /\ account' = Governed(limit, monthly, now, zone) /\ res' = res
  BY DEF CreateBudget
<1>2. limit \in Nat /\ now \in Nat /\ monthly \in BOOLEAN /\ zone \in Zones /\ res \in [Call -> Reservations]
  BY BoundsAreAmounts, ClockIsNat DEF Inv, TypeOK
<1>3. Sound(account')
  BY <1>1, <1>2, OpenedIsSound
<1>4. \A c \in Call : res[c] = NoReservation
  BY <1>1 DEF Audit
<1>5. Audited(account', res')
  BY <1>1, <1>2, <1>4, OpenedIsAudited
<1>6. Unspent(res')
  BY <1>1 DEF Audit
<1> QED BY <1>3, <1>5, <1>6, AuditOfBooked

LEMMA ReviseBudgetKeepsAudit ==
  ASSUME Inv, Audit, NEW unfreeze \in BOOLEAN, ReviseBudget(unfreeze)
  PROVE  Audit'
<1>1. PICK limit \in Limits, now \in Clock :
        /\ account # NoAccount /\ account.revision < MaxRevision /\ res' = res
        /\ account' = Revise(account, limit, unfreeze, now, zone)
  BY DEF ReviseBudget, ReadableNow
<1>2. limit \in Nat /\ now \in Nat /\ zone \in Zones /\ res \in [Call -> Reservations] /\ Sound(account)
  BY <1>1, BoundsAreAmounts, ClockIsNat, AccountIsSound DEF Inv, TypeOK
<1>3. Sound(account')
  BY <1>1, <1>2, ReviseKeeps
<1> DEFINE b == Advance(account, now)
<1>4. b \in Accounts /\ Audited(b, res)
  BY <1>1, <1>2, AdvanceKeeps, AdvanceIsAudited DEF Audit, Sound
<1>5. /\ account'.reserved = b.reserved /\ account'.settled = b.settled /\ account'.base = b.base
      /\ account'.monthly = b.monthly /\ account'.start = b.start /\ account'.reset = b.reset
  BY <1>1, <1>4 DEF Revise, Accounts
<1> HIDE DEF b
<1>6. Audited(account', res)
  BY <1>4, <1>5 DEF Audited, AddsUp, Timely, Used
<1> QED BY <1>1, <1>3, <1>6, AuditOfBooked DEF Audit

LEMMA NextKeepsAudit == Inv /\ Custody /\ Audit /\ [Next]_vars => Audit'
<1> SUFFICES ASSUME Inv, Custody, Audit, [Next]_vars PROVE Audit'
  OBVIOUS
<1>1. ASSUME UNCHANGED <<account, res>> PROVE Audit'
  BY <1>1 DEF Audit
<1>2. ASSUME NEW c \in Call, CallStep(c) PROVE Audit'
  <2>1. Permit(c) \/ Send(c) \/ RecordFails(c) => UNCHANGED <<account, res>>
    BY DEF Permit, Send, RecordFails, durable
  <2> QED BY <1>1, <1>2, <2>1, ClaimKeepsAudit, AnswersKeepAudit, ReconcileCallKeepsAudit DEF CallStep
<1>3. ASSUME NEW h \in Host, HostStep(h) PROVE Audit'
  <2>1. Crash(h) => UNCHANGED <<account, res>>
    BY DEF Crash, durable
  <2> QED BY <1>1, <1>3, <2>1, StartSlotsKeepsAudit, StartHoldsKeepsAudit DEF HostStep
<1>4. NextMonth \/ UNCHANGED vars => UNCHANGED <<account, res>>
  BY DEF NextMonth, vars, durable
<1> QED BY <1>1, <1>2, <1>3, <1>4, CreateBudgetKeepsAudit, ReviseBudgetKeepsAudit DEF Next

LEMMA AuditIsInvariant == Spec => []Audit
  BY AuditOfInit, NextKeepsAudit, InvIsInvariant, CustodyIsInvariant, PTL DEF Spec

\* However many calls, hosts, starts, refunds and revisions: the account is the fold of its reservations, each
\* reserve and each exact sum counted once (verifyProviderSpendIntegrity).
THEOREM AccountIsTheSum == Spec => []MoneyAddsUp
<1>1. Audit => MoneyAddsUp
  BY DEF Audit, Audited, AddsUp, ReserveOf, SpentOf, MoneyAddsUp
<1> QED BY <1>1, AuditIsInvariant, PTL

\* No correction of an earlier month, and no late answer, frees allowance that this month's calls have used.
THEOREM MonthKeepsItsUse == Spec => []AllowanceOfItsMonth
<1>1. Audit => AllowanceOfItsMonth
  BY DEF Audit, Audited, Timely, SpentSince, AllowanceOfItsMonth
<1> QED BY <1>1, AuditIsInvariant, PTL
=============================================================================
