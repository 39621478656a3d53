----------------------------- MODULE Memberships -----------------------------
(* The memberships of one user, app/users.py: bought packages whose time runs *)
(* one at a time, the dearest first; a package that is overtaken is paused    *)
(* with the time it has left.                                                 *)
EXTENDS Integers, FiniteSets

CONSTANTS
  Package,   \* the catalogue
  Price,     \* points_cost, in units
  Days,      \* duration_days, in steps of the clock
  Slots,     \* concurrency
  Bonus,     \* bonus_free_uses, in units of video quota
  Discount   \* task_discount_points, in units

ASSUME MembershipConstants ==
  /\ IsFiniteSet(Package)
  /\ Price \in [Package -> Nat \ {0}]
  /\ Days \in [Package -> Nat \ {0}]
  /\ Slots \in [Package -> Nat \ {0}]
  /\ Bonus \in [Package -> Nat]
  /\ Discount \in [Package -> Nat]

\* left is remaining_seconds, run the time since activated_at, older the packages
\* with an earlier purchased_at.  A package that can be bought again has left its
\* old record expired for good, so one record per package is kept.
Membership == [status : {"none", "paused", "active", "expired"},
               left : Nat, run : Nat, older : SUBSET Package, slots : Nat]
NoMembership == [status |-> "none", left |-> 0, run |-> 0, older |-> {}, slots |-> 0]

\* _membership_remaining_seconds
Remaining(m) ==
  IF m.status # "active" THEN m.left
  ELSE IF m.run >= m.left THEN 0 ELSE m.left - m.run

IsLive(m) == m.status \in {"paused", "active"} /\ Remaining(m) > 0

LivePackages(ms) == {p \in Package : IsLive(ms[p])}

\* _membership_rank: the price, then the time of purchase.
Outranks(ms, p, q) ==
  \/ Price[p] > Price[q]
  \/ Price[p] = Price[q] /\ q \in ms[p].older

IsHighest(ms, p) ==
  p \in LivePackages(ms) /\ \A q \in LivePackages(ms) \ {p} : Outranks(ms, p, q)

\* Mutant: an overtaken membership is paused with the time it had when activated.
PauseWhole(m) == [m EXCEPT !.status = "paused", !.run = 0]

Pause(m) == [m EXCEPT !.status = "paused", !.left = Remaining(m), !.run = 0]
Expire(m) == [m EXCEPT !.status = "expired", !.left = 0, !.run = 0]

\* _sync_membership_state: the highest membership with time left becomes active
\* from now on, the one that was active is paused, or expired.
SyncOne(ms, p) ==
  LET m == ms[p]
  IN  IF m.status \notin {"paused", "active"} THEN m
      ELSE IF m.status = "active" /\ Remaining(m) = 0 THEN Expire(m)
      ELSE IF ~IsHighest(ms, p) THEN Pause(m)
      ELSE IF m.status = "active" THEN m
      ELSE [m EXCEPT !.status = "active", !.run = 0]

SyncMembershipState(ms) == [p \in Package |-> SyncOne(ms, p)]

ActivePackages(ms) == {p \in Package : ms[p].status = "active"}

\* The membership's concurrency while one is active, the user's own otherwise.
EffectiveConcurrency(ms, base) ==
  IF ActivePackages(ms) = {} THEN base
  ELSE ms[CHOOSE p \in ActivePackages(ms) : TRUE].slots

\* membership_task_discount_units_by_token_hash
MembershipDiscount(ms) ==
  LET active == ActivePackages(SyncMembershipState(ms))
  IN  IF active = {} THEN 0 ELSE Discount[CHOOSE p \in active : TRUE]

\* One live purchase per package, and none while the dearest package runs.
MayPurchase(ms, p) ==
  LET live == LivePackages(ms)
  IN  /\ p \notin live
      /\ ~\E q \in live : \A r \in Package : Price[q] >= Price[r]

Bought(ms, p) ==
  [q \in Package |->
    IF q = p THEN [status |-> "paused", left |-> Days[p], run |-> 0,
                   older |-> Package \ {p}, slots |-> Slots[p]]
    ELSE [ms[q] EXCEPT !.older = @ \ {p}]]

\* _set_effective_concurrency writes into the active membership, if there is one.
SetSlots(ms, n) ==
  [p \in Package |-> IF ms[p].status = "active" THEN [ms[p] EXCEPT !.slots = n] ELSE ms[p]]
=============================================================================
