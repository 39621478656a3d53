---------------------------- MODULE Wallet_proofs ----------------------------
(* Proofs about Wallet, for any users, packages, prices, cards and bounds.    *)
EXTENDS Wallet, FiniteSetTheorems, TLAPS

-----------------------------------------------------------------------------
(* What the operators of TokenLedger do to a row.                            *)

\* A row is not the mark of a row that is gone.
LEMMA EntryIsThere == ASSUME NEW e \in Entry PROVE e # NoEntry
<1>1. DOMAIN e = {"video", "credit", "conc", "first", "res"}
  BY DEF Entry
<1>2. DOMAIN NoEntry = {"gone"}
  BY DEF NoEntry
<1> QED BY <1>1, <1>2

\* A new row has no charges.
LEMMA NewEntry ==
  ASSUME NEW n \in Nat
  PROVE  /\ CreateTempToken(n) \in Entry
         /\ CreateTempToken(n).conc = 1
         /\ \A t \in Task : CreateTempToken(n).res[t].status = "none"
BY DEF CreateTempToken, Entry, NoReservation, Reservation

\* Neither the limit nor a charge is touched when points or video quota change.
LEMMA BalanceOps ==
  ASSUME NEW e \in Entry, NEW n \in Nat, NEW k \in Int
  PROVE  /\ AddTempCredit(e, n) \in Entry
         /\ AddTempCredit(e, n).conc = e.conc /\ AddTempCredit(e, n).res = e.res
         /\ CanDeduct(e, n) => /\ DeductTempPoints(e, n) \in Entry
                               /\ DeductTempPoints(e, n).conc = e.conc
                               /\ DeductTempPoints(e, n).res = e.res
         /\ CanAdjust(e, k) => /\ AdjustTempVideoQuota(e, k) \in Entry
                               /\ AdjustTempVideoQuota(e, k).conc = e.conc
                               /\ AdjustTempVideoQuota(e, k).res = e.res
<1>1. e.credit \in Nat /\ e.video \in Nat
  BY DEF Entry
<1>2. AddTempCredit(e, n) = [e EXCEPT !.credit = e.credit + n] /\ e.credit + n \in Nat
  BY <1>1 DEF AddTempCredit
<1>3. CanDeduct(e, n) => e.credit - n \in Nat
  BY <1>1 DEF CanDeduct
<1>4. CanAdjust(e, k) => e.video + k \in Nat
  BY <1>1 DEF CanAdjust
<1> QED BY <1>2, <1>3, <1>4 DEF Entry, DeductTempPoints, AdjustTempVideoQuota

\* The price is paid, and the limit is the package's.
LEMMA PurchaseOps ==
  ASSUME NEW e \in Entry, NEW price \in Nat, NEW bonus \in Nat, NEW conc \in Nat,
         CanDeduct(e, price)
  PROVE  /\ PurchaseTempMembership(e, price, bonus, conc) \in Entry
         /\ PurchaseTempMembership(e, price, bonus, conc).res = e.res
<1>1. e.credit - price \in Nat /\ e.video + bonus \in Nat
  BY DEF Entry, CanDeduct
<1> QED BY <1>1 DEF Entry, PurchaseTempMembership

LEMMA SettingOps ==
  ASSUME NEW e \in Entry, NEW n \in Nat, NEW f \in {"video", "points"}
  PROVE  /\ UpdateConcurrency(e, n) \in Entry
         /\ UpdateConcurrency(e, n).conc = n /\ UpdateConcurrency(e, n).res = e.res
         /\ SetBillingPriority(e, f) \in Entry
         /\ SetBillingPriority(e, f).conc = e.conc /\ SetBillingPriority(e, f).res = e.res
BY DEF Entry, UpdateConcurrency, SetBillingPriority

\* A reservation that is allowed leaves no balance overdrawn and the charge standing.
LEMMA ReserveOps ==
  ASSUME NEW e \in Entry, NEW t \in Task, NEW cost \in Nat, NEW video \in Nat,
         CanReserve(e, t, cost, video)
  PROVE  LET f == ReserveTempQuota(e, t, cost, video)
         IN  /\ f \in Entry /\ f.conc = e.conc
             /\ f.res[t].status = "reserved"
             /\ \A s \in Task \ {t} : f.res[s] = e.res[s]
<1>1. CASE e.res[t].status = "reserved"
  BY <1>1 DEF ReserveTempQuota, Entry
<1>2. CASE e.res[t].status # "reserved" /\ FreeUsed(e, cost, video)
  <2> DEFINE r == [status |-> "reserved", free |-> TRUE, units |-> video]
  <2>1. e.video - video \in Nat /\ r \in Reservation
    BY <1>2 DEF FreeUsed, Entry, Reservation
  <2>2. ReserveTempQuota(e, t, cost, video) =
          [e EXCEPT !.video = e.video - video, !.res = [e.res EXCEPT ![t] = r]]
    BY <1>2 DEF ReserveTempQuota, Entry
  <2>3. r.status = "reserved"
    OBVIOUS
  <2> HIDE DEF r
  <2>4. [e.res EXCEPT ![t] = r] \in [Task -> Reservation]
    BY <2>1 DEF Entry
  <2> QED BY <2>1, <2>2, <2>3, <2>4 DEF Entry
<1>3. CASE e.res[t].status # "reserved" /\ ~FreeUsed(e, cost, video)
  <2> DEFINE r == [status |-> "reserved", free |-> FALSE, units |-> cost]
  <2>1. e.credit - cost \in Nat /\ r \in Reservation
    BY <1>3 DEF CanReserve, Entry, Reservation
  <2>2. ReserveTempQuota(e, t, cost, video) =
          [e EXCEPT !.credit = e.credit - cost, !.res = [e.res EXCEPT ![t] = r]]
    BY <1>3 DEF ReserveTempQuota, Entry
  <2>3. r.status = "reserved"
    OBVIOUS
  <2> HIDE DEF r
  <2>4. [e.res EXCEPT ![t] = r] \in [Task -> Reservation]
    BY <2>1 DEF Entry
  <2> QED BY <2>1, <2>2, <2>3, <2>4 DEF Entry
<1> QED BY <1>1, <1>2, <1>3

\* A refund closes the charge of its task and no other.
LEMMA RefundOps ==
  ASSUME NEW e \in Entry, NEW t \in Task
  PROVE  LET f == RefundTempQuota(e, t)
         IN  /\ f \in Entry /\ f.conc = e.conc
             /\ f.res[t].status # "reserved"
             /\ e.res[t].status # "reserved" => f.res[t] = e.res[t]
             /\ \A s \in Task \ {t} : f.res[s] = e.res[s]
<1>1. CASE e.res[t].status # "reserved"
  BY <1>1 DEF RefundTempQuota
<1>2. CASE e.res[t].status = "reserved"
  <2> DEFINE r == e.res[t]
             v == IF r.free THEN e.video + r.units ELSE e.video
             c == IF r.free THEN e.credit ELSE e.credit + r.units
             q == [r EXCEPT !.status = "refunded"]
  <2>1. v \in Nat /\ c \in Nat /\ q \in Reservation /\ q.status = "refunded"
    BY DEF Entry, Reservation
  <2>2. RefundTempQuota(e, t) =
          [e EXCEPT !.video = v, !.credit = c, !.res = [e.res EXCEPT ![t] = q]]
    BY <1>2 DEF RefundTempQuota, Entry
  <2> HIDE DEF v, c, q
  <2>3. [e.res EXCEPT ![t] = q] \in [Task -> Reservation]
    BY <2>1 DEF Entry
  <2> QED BY <1>2, <2>1, <2>2, <2>3 DEF Entry
<1> QED BY <1>1, <1>2

-----------------------------------------------------------------------------
(* What the operators of Memberships do to a user's memberships.             *)

Mems == [Package -> Membership]

\* One membership at most is active.
Single(ms) ==
  \A p, q \in Package : ms[p].status = "active" /\ ms[q].status = "active" => p = q

\* A record that is closed has no time left.
Closed(ms) == \A p \in Package : ms[p].status \in {"none", "expired"} => ms[p].left = 0

\* Of two packages one at most is the older.
Ordered(ms) ==
  \A p, q \in Package : p # q => ~(q \in ms[p].older /\ p \in ms[q].older)

Sound(ms) == ms \in Mems /\ Single(ms) /\ Closed(ms) /\ Ordered(ms)

LEMMA NoMemberships == Sound([p \in Package |-> NoMembership])
BY DEF Sound, Mems, Single, Closed, Ordered, Membership, NoMembership

LEMMA RemainingType == ASSUME NEW m \in Membership PROVE Remaining(m) \in Nat
BY DEF Membership, Remaining

\* One record of a synchronisation: no time is lost, the order of purchase stays.
LEMMA SyncOneKeeps ==
  ASSUME NEW ms \in Mems, NEW p \in Package, Closed(ms)
  PROVE  LET m == SyncOne(ms, p)
         IN  /\ m \in Membership
             /\ Remaining(m) = Remaining(ms[p])
             /\ m.status \in {"none", "expired"} => m.left = 0
             /\ m.older = ms[p].older
             /\ m.status = "active" => IsHighest(ms, p)
<1> DEFINE m == ms[p]
<1>1. m \in Membership /\ Remaining(m) \in Nat
  BY RemainingType DEF Mems
<1>2. m.status \in {"none", "expired"} => m.left = 0
  BY DEF Closed
<1>3. CASE m.status \notin {"paused", "active"}
  BY <1>1, <1>2, <1>3 DEF SyncOne
<1>4. CASE m.status = "active" /\ Remaining(m) = 0
  <2>1. SyncOne(ms, p) = Expire(m)
    BY <1>4 DEF SyncOne
  <2>2. /\ Expire(m) \in Membership /\ Expire(m).status = "expired" /\ Expire(m).left = 0
        /\ Expire(m).older = m.older
    BY <1>1 DEF Expire, Membership
  <2> QED BY <1>4, <2>1, <2>2 DEF Remaining
<1>5. CASE m.status \in {"paused", "active"} /\ ~(m.status = "active" /\ Remaining(m) = 0) /\ ~IsHighest(ms, p)
  <2>1. SyncOne(ms, p) = Pause(m)
    BY <1>5 DEF SyncOne
  <2>2. /\ Pause(m) \in Membership /\ Pause(m).status = "paused" /\ Pause(m).left = Remaining(m)
        /\ Pause(m).older = m.older
    BY <1>1 DEF Pause, Membership
  <2> QED BY <2>1, <2>2 DEF Remaining
<1>6. CASE m.status = "active" /\ ~(Remaining(m) = 0) /\ IsHighest(ms, p)
  <2>1. SyncOne(ms, p) = m
    BY <1>6 DEF SyncOne
  <2> QED BY <1>1, <1>6, <2>1
<1>7. CASE m.status = "paused" /\ IsHighest(ms, p)
  <2> DEFINE a == [m EXCEPT !.status = "active", !.run = 0]
  <2>1. SyncOne(ms, p) = a
    BY <1>7 DEF SyncOne
  <2>2. a \in Membership /\ a.status = "active" /\ a.run = 0 /\ a.left = m.left /\ a.older = m.older
    BY <1>1 DEF Membership
  <2>3. Remaining(a) = m.left /\ Remaining(m) = m.left
    BY <1>1, <1>7, <2>2 DEF Remaining, Membership
  <2> QED BY <1>7, <2>1, <2>2, <2>3
<1> QED BY <1>3, <1>4, <1>5, <1>6, <1>7

\* Two memberships cannot both be the highest.
LEMMA OneHighest ==
  ASSUME NEW ms \in Mems, Ordered(ms), NEW p \in Package, NEW q \in Package,
         IsHighest(ms, p), IsHighest(ms, q)
  PROVE  p = q
<1> SUFFICES ASSUME p # q PROVE FALSE
  OBVIOUS
<1>1. Outranks(ms, p, q) /\ Outranks(ms, q, p)
  BY DEF IsHighest
<1>2. Price[p] \in Nat /\ Price[q] \in Nat
  BY MembershipConstants
<1> QED BY <1>1, <1>2 DEF Outranks, Ordered

LEMMA SyncKeeps ==
  ASSUME NEW ms, Sound(ms)
  PROVE  /\ Sound(SyncMembershipState(ms))
         /\ \A p \in Package : Remaining(SyncMembershipState(ms)[p]) = Remaining(ms[p])
<1> DEFINE new == SyncMembershipState(ms)
<1>1. \A p \in Package : new[p] = SyncOne(ms, p)
  BY DEF SyncMembershipState
<1>2. \A p \in Package :
        /\ new[p] \in Membership
        /\ Remaining(new[p]) = Remaining(ms[p])
        /\ new[p].status \in {"none", "expired"} => new[p].left = 0
        /\ new[p].older = ms[p].older
        /\ new[p].status = "active" => IsHighest(ms, p)
  BY <1>1, SyncOneKeeps DEF Sound
<1>3. new \in Mems
  BY <1>2 DEF SyncMembershipState, Mems
<1> HIDE DEF new
<1>4. Single(new)
  BY <1>2, OneHighest DEF Sound, Single
<1>5. Closed(new)
  BY <1>2 DEF Closed
<1>6. Ordered(new)
  BY <1>2 DEF Sound, Ordered
<1> QED BY <1>2, <1>3, <1>4, <1>5, <1>6 DEF Sound, new

\* A purchase adds the days of the package, and touches no other.
LEMMA BuyAdds ==
  ASSUME NEW ms, Sound(ms), NEW p \in Package, MayPurchase(ms, p)
  PROVE  /\ Sound(Bought(ms, p))
         /\ Remaining(Bought(ms, p)[p]) = Remaining(ms[p]) + Days[p]
         /\ \A q \in Package \ {p} : Remaining(Bought(ms, p)[q]) = Remaining(ms[q])
<1> DEFINE new == Bought(ms, p)
<1>0. /\ \A q \in Package : ms[q] \in Membership
      /\ Days[p] \in Nat \ {0} /\ Slots[p] \in Nat \ {0}
  BY MembershipConstants DEF Sound, Mems
<1>1. /\ new[p] = [status |-> "paused", left |-> Days[p], run |-> 0,
                   older |-> Package \ {p}, slots |-> Slots[p]]
      /\ \A q \in Package \ {p} : new[q] = [ms[q] EXCEPT !.older = ms[q].older \ {p}]
  BY DEF Bought
<1>2. new[p] \in Membership /\ new[p].status = "paused" /\ new[p].left = Days[p]
  BY <1>0, <1>1 DEF Membership
<1>3. \A q \in Package \ {p} :
        /\ new[q] \in Membership /\ new[q].status = ms[q].status /\ new[q].left = ms[q].left
        /\ new[q].run = ms[q].run /\ new[q].older = ms[q].older \ {p}
  <2> SUFFICES ASSUME NEW q \in Package \ {p}
               PROVE  /\ new[q] \in Membership /\ new[q].status = ms[q].status
                      /\ new[q].left = ms[q].left /\ new[q].run = ms[q].run
                      /\ new[q].older = ms[q].older \ {p}
    OBVIOUS
  <2> DEFINE older == ms[q].older \ {p}
             n == new[q]
  <2>1. older \in SUBSET Package /\ ms[q] \in Membership
    BY <1>0 DEF Membership
  <2>2. n = [ms[q] EXCEPT !.older = older]
    BY <1>1
  <2> HIDE DEF older, n
  <2>3. /\ n \in Membership /\ n.status = ms[q].status /\ n.left = ms[q].left
        /\ n.run = ms[q].run /\ n.older = older
    BY <2>1, <2>2 DEF Membership
  <2> QED BY <2>3 DEF older, n
<1>4. Remaining(ms[p]) = 0
  <2>1. ~IsLive(ms[p])
    BY DEF MayPurchase, LivePackages
  <2>2. CASE ms[p].status \in {"paused", "active"}
    BY <1>0, <2>1, <2>2, RemainingType DEF IsLive
  <2>3. CASE ms[p].status \in {"none", "expired"}
    BY <2>3 DEF Sound, Closed, Remaining
  <2> QED BY <1>0, <2>2, <2>3 DEF Membership
<1>5. Remaining(new[p]) = Days[p] /\ \A q \in Package \ {p} : Remaining(new[q]) = Remaining(ms[q])
  BY <1>2, <1>3 DEF Remaining
<1>6. new \in Mems
  BY <1>2, <1>3 DEF Bought, Mems
<1> HIDE DEF new
<1>7. Single(new) /\ Closed(new)
  BY <1>2, <1>3 DEF Sound, Single, Closed
<1>8. new[p].older = Package \ {p}
  BY <1>1
<1>9. Ordered(new)
  BY <1>3, <1>8 DEF Sound, Ordered
<1> QED BY <1>0, <1>4, <1>5, <1>6, <1>7, <1>9 DEF Sound, new

LEMMA SlotsKeep ==
  ASSUME NEW ms, Sound(ms), NEW n \in Nat
  PROVE  /\ Sound(SetSlots(ms, n))
         /\ \A p \in Package : Remaining(SetSlots(ms, n)[p]) = Remaining(ms[p])
<1> DEFINE new == SetSlots(ms, n)
<1>1. \A p \in Package : ms[p] \in Membership
  BY DEF Sound, Mems
<1>2. \A p \in Package :
        /\ new[p] \in Membership /\ new[p].status = ms[p].status /\ new[p].left = ms[p].left
        /\ new[p].run = ms[p].run /\ new[p].older = ms[p].older
  BY <1>1 DEF SetSlots, Membership
<1>3. new \in Mems
  BY <1>2 DEF SetSlots, Mems
<1> HIDE DEF new
<1> QED BY <1>2, <1>3 DEF Sound, Single, Closed, Ordered, Remaining, new

\* A step of the clock takes one step off the membership that runs.
LEMMA RunKeeps ==
  ASSUME NEW ms, Sound(ms), NEW p \in ActivePackages(ms), ms[p].run < ms[p].left
  PROVE  LET new == [ms EXCEPT ![p].run = @ + 1]
         IN  /\ Sound(new)
             /\ Remaining(new[p]) + 1 = Remaining(ms[p])
             /\ \A q \in Package \ {p} : new[q] = ms[q]
<1> DEFINE m == [ms[p] EXCEPT !.run = ms[p].run + 1]
           new == [ms EXCEPT ![p] = m]
<1>1. ms \in Mems /\ p \in Package /\ ms[p] \in Membership /\ ms[p].status = "active"
  BY DEF Sound, Mems, ActivePackages
<1>2. /\ m \in Membership /\ m.status = "active" /\ m.left = ms[p].left
      /\ m.run = ms[p].run + 1 /\ m.older = ms[p].older
  BY <1>1 DEF Membership
<1>3. new = [ms EXCEPT ![p].run = @ + 1]
  BY <1>1 DEF Mems
<1> HIDE DEF m
<1>4. new \in Mems /\ new[p] = m /\ \A q \in Package \ {p} : new[q] = ms[q]
  BY <1>1, <1>2 DEF Mems
<1> HIDE DEF new
<1>5. Sound(new)
  BY <1>1, <1>2, <1>4 DEF Sound, Single, Closed, Ordered
<1>6. Remaining(m) + 1 = Remaining(ms[p])
  BY <1>1, <1>2 DEF Remaining, Membership
<1> QED BY <1>3, <1>4, <1>5, <1>6

\* The limit and the discount a membership brings are numbers.
LEMMA LimitType ==
  ASSUME NEW ms \in Mems, NEW base \in Nat
  PROVE  EffectiveConcurrency(ms, base) \in Nat
<1>1. CASE ActivePackages(ms) = {}
  BY <1>1 DEF EffectiveConcurrency
<1>2. CASE ActivePackages(ms) # {}
  <2>1. PICK p \in Package : p = CHOOSE q \in ActivePackages(ms) : TRUE
    BY <1>2 DEF ActivePackages
  <2>2. ms[p].slots \in Nat
    BY DEF Mems, Membership
  <2> QED BY <1>2, <2>1, <2>2 DEF EffectiveConcurrency
<1> QED BY <1>1, <1>2

LEMMA DiscountType == ASSUME NEW ms \in Mems PROVE MembershipDiscount(ms) \in Nat
<1> DEFINE active == ActivePackages(SyncMembershipState(ms))
<1>1. CASE active = {}
  BY <1>1 DEF MembershipDiscount
<1>2. CASE active # {}
  <2>1. PICK p \in Package : p = CHOOSE q \in active : TRUE
    BY <1>2 DEF ActivePackages
  <2>2. Discount[p] \in Nat
    BY MembershipConstants
  <2> QED BY <1>2, <2>1, <2>2 DEF MembershipDiscount
<1> QED BY <1>1, <1>2

-----------------------------------------------------------------------------
(* The types of the state.                                                   *)

Rows == [Hash -> {NoEntry} \cup Entry]

UserRow == [there : {TRUE}, hash : Hash, enabled : BOOLEAN, base : Nat, eff : Nat,
            discount : Nat, mem : Mems]
Users == [User -> {NoUser} \cup UserRow]

TaskRow == [st : {"none", "initializing", "live", "success", "failed", "settled", "deleted"},
            owner : Hash \cup {NoHash}, born : Hash \cup {NoHash}]
ReqRow == [at : {"retry", "price", "reserve", "files", "drop", "refund", "delete"},
           hash : Hash, cost : Nat, drop : SUBSET Task]

\* What an operation under way carries with it.
OpOK ==
  /\ op.at \in {"idle", "register", "unregister", "rotated", "list", "migrate", "bought",
                "limited", "synced", "redeem", "credited"}
  /\ op.at \in {"rotated", "list"} =>
       op \in [at : {"rotated", "list"}, user : User, old : Hash, hash : Hash]
  /\ op.at = "migrate" => op \in [at : {"migrate"}, hash : Hash, todo : SUBSET Task]
  /\ op.at \in {"register", "unregister"} => op.hash \in Hash
  /\ op.at \in {"rotated", "bought", "synced", "redeem"} => IsThere(op.hash)
  /\ op.at \in {"register", "rotated", "bought", "limited", "synced", "redeem"} => op.user \in User
  /\ op.at \in {"rotated", "bought", "limited", "synced"} => usr[op.user].there
  /\ op.at \in {"bought", "limited"} => Sound(op.mem)
  /\ op.at = "limited" => op.eff \in Nat /\ op.base \in Nat
  /\ op.at \in {"redeem", "credited"} => op.card \in Card

\* A row never has a hash that is still to be minted.
LedgerOK == /\ minted \in 0 .. MaxHash + 1 /\ tok \in Rows
            /\ \A h \in Hash : IsThere(h) => h <= minted
UsersOK == usr \in Users /\ \A u \in User : usr[u].there => Sound(usr[u].mem)
TasksOK == /\ task \in [Task -> TaskRow]
           /\ req \in [Task -> {IdleReq} \cup ReqRow]
           /\ seen \in [Task -> Hash \cup {NoHash}]
RestOK == /\ card \in [Card -> {"none", "unused", "redeeming", "redeemed", "deleted"}]
          /\ credited \in [Card -> Nat]
          /\ paid \in [User -> [Package -> Nat]]
          /\ spent \in [User -> [Package -> Nat]]
          /\ up \in BOOLEAN

Types == LedgerOK /\ UsersOK /\ TasksOK /\ RestOK /\ OpOK

LEMMA RowThere ==
  ASSUME tok \in Rows, NEW h, IsThere(h)
  PROVE  h \in Hash /\ tok[h] \in Entry
BY DEF Rows, IsThere

LEMMA UserThere ==
  ASSUME usr \in Users, NEW u \in User, usr[u].there
  PROVE  usr[u] \in UserRow
<1>1. ~NoUser.there
  BY DEF NoUser
<1> QED BY <1>1 DEF Users

LEMMA ReqActive ==
  ASSUME TasksOK, NEW t \in Task, req[t].at # "idle"
  PROVE  req[t] \in ReqRow
<1>1. IdleReq.at = "idle"
  BY DEF IdleReq
<1> QED BY <1>1 DEF TasksOK

\* Writing a row leaves the others as they are.
LEMMA RowWrite ==
  ASSUME tok \in Rows, NEW h \in Hash, NEW e \in Entry, tok' = [tok EXCEPT ![h] = e]
  PROVE  /\ tok' \in Rows /\ tok'[h] = e /\ IsThere(h)'
         /\ \A g \in Hash \ {h} : tok'[g] = tok[g]
         /\ \A g : IsThere(g)' <=> IsThere(g) \/ g = h
<1>1. e # NoEntry
  BY EntryIsThere
<1> QED BY <1>1 DEF Rows, IsThere

LEMMA RowDrop ==
  ASSUME tok \in Rows, NEW h \in Hash, tok' = [tok EXCEPT ![h] = NoEntry]
  PROVE  /\ tok' \in Rows /\ tok'[h] = NoEntry /\ ~IsThere(h)'
         /\ \A g \in Hash \ {h} : tok'[g] = tok[g]
         /\ \A g : IsThere(g)' <=> IsThere(g) /\ g # h
BY DEF Rows, IsThere

\* Writing a user row: the hash, the limit and the memberships it has afterwards.
UserChange(u, hash, eff, mem) ==
  /\ usr' \in Users
  /\ usr'[u] \in UserRow /\ usr'[u].there
  /\ usr'[u].hash = hash /\ usr'[u].eff = eff /\ usr'[u].mem = mem
  /\ \A v \in User \ {u} : usr'[v] = usr[v]

LEMMA UserWrite ==
  ASSUME usr \in Users, NEW u \in User, NEW v \in UserRow, usr' = [usr EXCEPT ![u] = v]
  PROVE  UserChange(u, v.hash, v.eff, v.mem)
BY DEF Users, UserRow, UserChange

LEMMA UserChangeKeeps ==
  ASSUME UsersOK, NEW u \in User, NEW hash, NEW eff, NEW mem, Sound(mem),
         UserChange(u, hash, eff, mem)
  PROVE  UsersOK'
BY DEF UsersOK, UserChange

-----------------------------------------------------------------------------
(* What each action does to the user rows.                                   *)

LEMMA HashFacts == /\ MaxHash \in Nat /\ NoHash \notin Hash
                   /\ \A n \in 0 .. MaxHash : n + 1 \in Hash /\ n + 1 # NoHash
                   /\ \A h \in Hash : h \in Nat /\ h <= MaxHash + 1
BY WalletConstants DEF Hash, NoHash

\* A registered user of this row.
LEMMA OpUser ==
  ASSUME Types, op.at \in {"rotated", "bought", "limited", "synced"}
  PROVE  op.user \in User /\ usr[op.user] \in UserRow /\ Sound(usr[op.user].mem)
BY UserThere DEF Types, OpOK, UsersOK

LEMMA RegisterUserRow ==
  ASSUME Types, RegisterUser
  PROVE  /\ op.user \in User /\ op.hash \in Hash
         /\ UserChange(op.user, op.hash, 1, [p \in Package |-> NoMembership])
<1> DEFINE none == [p \in Package |-> NoMembership]
           v == [there |-> TRUE, hash |-> op.hash, enabled |-> TRUE, base |-> 1, eff |-> 1,
                 discount |-> 0, mem |-> none]
<1>1. op.user \in User /\ op.hash \in Hash
  BY DEF Types, OpOK, RegisterUser
<1>2. none \in Mems
  BY NoMemberships DEF Sound
<1>3. usr' = [usr EXCEPT ![op.user] = v]
  BY DEF RegisterUser
<1> HIDE DEF none
<1>4. v \in UserRow
  BY <1>1, <1>2 DEF UserRow
<1>5. v.hash = op.hash /\ v.eff = 1 /\ v.mem = none
  OBVIOUS
<1> HIDE DEF v
<1> QED BY <1>1, <1>3, <1>4, <1>5, UserWrite DEF Types, UsersOK, none

LEMMA DeleteUserRow ==
  ASSUME Types, NEW u \in User, DeleteUser(u)
  PROVE  /\ usr' \in Users /\ ~usr'[u].there
         /\ \A v \in User \ {u} : usr'[v] = usr[v]
BY DEF Types, UsersOK, Users, DeleteUser, NoUser

LEMMA RotateUserRow ==
  ASSUME Types, RotateUser
  PROVE  /\ op.user \in User /\ op.hash \in Hash
         /\ UserChange(op.user, op.hash, usr[op.user].eff, usr[op.user].mem)
<1> DEFINE v == [usr[op.user] EXCEPT !.hash = op.hash]
<1>1. op.user \in User /\ op.hash \in Hash /\ usr[op.user] \in UserRow
  BY OpUser DEF Types, OpOK, RotateUser
<1>2. usr' = [usr EXCEPT ![op.user] = v]
  BY <1>1 DEF RotateUser, Types, UsersOK, Users
<1>3. v \in UserRow /\ v.hash = op.hash /\ v.eff = usr[op.user].eff /\ v.mem = usr[op.user].mem
  BY <1>1 DEF UserRow
<1> HIDE DEF v
<1> QED BY <1>1, <1>2, <1>3, UserWrite DEF Types, UsersOK

LEMMA WriteUserRow ==
  ASSUME Types, WriteUser
  PROVE  /\ op.user \in User /\ Sound(op.mem)
         /\ UserChange(op.user, usr[op.user].hash, op.eff, op.mem)
<1> DEFINE v == [usr[op.user] EXCEPT !.mem = op.mem, !.eff = op.eff, !.base = op.base]
<1>1. /\ op.user \in User /\ usr[op.user] \in UserRow /\ Sound(op.mem)
      /\ op.eff \in Nat /\ op.base \in Nat
  BY OpUser DEF Types, OpOK, WriteUser
<1>2. usr' = [usr EXCEPT ![op.user] = v]
  BY <1>1 DEF WriteUser, Types, UsersOK, Users
<1>3. v \in UserRow /\ v.hash = usr[op.user].hash /\ v.eff = op.eff /\ v.mem = op.mem
  BY <1>1 DEF UserRow, Sound
<1> HIDE DEF v
<1> QED BY <1>1, <1>2, <1>3, UserWrite DEF Types, UsersOK

\* A signed-in user has a row and a token row.
LEMMA SignedInRows ==
  ASSUME Types, NEW u \in User, HasRow(u)
  PROVE  /\ usr[u] \in UserRow /\ usr[u].there /\ Sound(usr[u].mem)
         /\ usr[u].hash \in Hash /\ tok[usr[u].hash] \in Entry
BY UserThere, RowThere DEF HasRow, Types, UsersOK, LedgerOK

LEMMA SyncUserRowChange ==
  ASSUME Types, NEW u \in User, SyncUserMembership(u)
  PROVE  LET ms == SyncMembershipState(usr[u].mem)
         IN  /\ Sound(ms)
             /\ UserChange(u, usr[u].hash, EffectiveConcurrency(ms, usr[u].base), ms)
<1> DEFINE ms == SyncMembershipState(usr[u].mem)
           eff == EffectiveConcurrency(ms, usr[u].base)
           v == [usr[u] EXCEPT !.mem = ms, !.eff = eff]
<1>1. HasRow(u)
  BY DEF SyncUserMembership, SignedIn
<1>2. usr[u] \in UserRow /\ Sound(usr[u].mem)
  BY <1>1, SignedInRows
<1>3. Sound(ms) /\ eff \in Nat
  BY <1>2, SyncKeeps, LimitType DEF Sound, UserRow
<1>4. usr' = [usr EXCEPT ![u] = v]
  BY DEF SyncUserMembership, Types, UsersOK, Users
<1> HIDE DEF ms, eff
<1>5. v \in UserRow /\ v.hash = usr[u].hash /\ v.eff = eff /\ v.mem = ms
  BY <1>2, <1>3 DEF UserRow, Sound
<1> HIDE DEF v
<1>6. UserChange(u, usr[u].hash, eff, ms)
  BY <1>4, <1>5, UserWrite DEF Types, UsersOK
<1> QED BY <1>3, <1>6 DEF ms, eff

LEMMA TickRow ==
  ASSUME Types, NEW u \in User, Tick(u)
  PROVE  \E p \in ActivePackages(usr[u].mem) :
           /\ usr[u].there /\ Sound(usr[u].mem)
           /\ usr[u].mem[p].run < usr[u].mem[p].left
           /\ UserChange(u, usr[u].hash, usr[u].eff, [usr[u].mem EXCEPT ![p].run = @ + 1])
           /\ Sound([usr[u].mem EXCEPT ![p].run = @ + 1])
           /\ spent' = [spent EXCEPT ![u][p] = @ + 1]
<1>1. usr[u].there /\ usr[u] \in UserRow /\ Sound(usr[u].mem)
  BY UserThere DEF Tick, Types, UsersOK
<1>2. PICK p \in ActivePackages(usr[u].mem) :
        /\ usr[u].mem[p].run < usr[u].mem[p].left
        /\ usr' = [usr EXCEPT ![u].mem[p].run = @ + 1]
        /\ spent' = [spent EXCEPT ![u][p] = @ + 1]
  BY DEF Tick
<1> DEFINE ms == [usr[u].mem EXCEPT ![p].run = @ + 1]
           v == [usr[u] EXCEPT !.mem = ms]
<1>3. Sound(ms)
  BY <1>1, <1>2, RunKeeps
<1>4. usr' = [usr EXCEPT ![u] = v]
  BY <1>1, <1>2 DEF Types, UsersOK, Users, UserRow
<1> HIDE DEF ms
<1>5. v \in UserRow /\ v.hash = usr[u].hash /\ v.eff = usr[u].eff /\ v.mem = ms
  BY <1>1, <1>3 DEF UserRow, Sound
<1> HIDE DEF v
<1>6. UserChange(u, usr[u].hash, usr[u].eff, ms)
  BY <1>4, <1>5, UserWrite DEF Types, UsersOK
<1> QED BY <1>1, <1>2, <1>3, <1>6 DEF ms

LEMMA SwitchRow ==
  ASSUME Types, NEW u \in User,
         SetUserEnabled(u) \/ \E n \in Amount : SetModelDiscounts(u, n)
  PROVE  usr[u].there /\ UserChange(u, usr[u].hash, usr[u].eff, usr[u].mem)
<1>1. usr[u].there /\ usr[u] \in UserRow
  BY UserThere DEF Types, UsersOK, SetUserEnabled, SetModelDiscounts
<1>2. CASE SetUserEnabled(u)
  <2> DEFINE v == [usr[u] EXCEPT !.enabled = ~usr[u].enabled]
  <2>1. usr' = [usr EXCEPT ![u] = v]
    BY <1>2 DEF SetUserEnabled, Types, UsersOK, Users
  <2>2. v \in UserRow /\ v.hash = usr[u].hash /\ v.eff = usr[u].eff /\ v.mem = usr[u].mem
    BY <1>1 DEF UserRow
  <2> HIDE DEF v
  <2> QED BY <1>1, <2>1, <2>2, UserWrite DEF Types, UsersOK
<1>3. ASSUME NEW n \in Amount, SetModelDiscounts(u, n)
      PROVE  UserChange(u, usr[u].hash, usr[u].eff, usr[u].mem)
  <2> DEFINE v == [usr[u] EXCEPT !.discount = n]
  <2>1. usr' = [usr EXCEPT ![u] = v]
    BY <1>3 DEF SetModelDiscounts, Types, UsersOK, Users
  <2>2. v \in UserRow /\ v.hash = usr[u].hash /\ v.eff = usr[u].eff /\ v.mem = usr[u].mem
    BY <1>1, WalletConstants DEF UserRow
  <2> HIDE DEF v
  <2> QED BY <1>1, <2>1, <2>2, UserWrite DEF Types, UsersOK
<1> QED BY <1>1, <1>2, <1>3

\* list_users: the memberships are brought up to date, the limits are not.
LEMMA SyncAllRows ==
  ASSUME Types, usr' = SyncAll
  PROVE  /\ UsersOK'
         /\ \A u \in User :
              /\ usr'[u].there = usr[u].there
              /\ usr[u].there => /\ usr'[u].hash = usr[u].hash /\ usr'[u].eff = usr[u].eff
                                 /\ usr'[u].mem = SyncMembershipState(usr[u].mem)
<1> SUFFICES ASSUME NEW u \in User
             PROVE  /\ usr'[u] \in {NoUser} \cup UserRow
                    /\ usr'[u].there = usr[u].there
                    /\ usr[u].there => /\ usr'[u].hash = usr[u].hash /\ usr'[u].eff = usr[u].eff
                                       /\ usr'[u].mem = SyncMembershipState(usr[u].mem)
                                       /\ Sound(usr'[u].mem)
  <2>1. usr' = [u \in User |-> usr'[u]]
    BY DEF SyncAll
  <2> QED BY <2>1 DEF UsersOK, Users
<1>1. CASE ~usr[u].there
  BY <1>1 DEF SyncAll, Types, UsersOK, Users
<1>2. CASE usr[u].there
  <2> DEFINE ms == SyncMembershipState(usr[u].mem)
             v == [usr[u] EXCEPT !.mem = ms]
  <2>1. usr[u] \in UserRow /\ Sound(ms)
    BY <1>2, UserThere, SyncKeeps DEF Types, UsersOK
  <2>2. usr'[u] = v
    BY <1>2 DEF SyncAll
  <2> HIDE DEF ms
  <2>3. v \in UserRow /\ v.there = usr[u].there /\ v.hash = usr[u].hash /\ v.eff = usr[u].eff /\ v.mem = ms
    BY <2>1 DEF UserRow, Sound
  <2> HIDE DEF v
  <2> QED BY <2>1, <2>2, <2>3 DEF ms
<1> QED BY <1>1, <1>2

-----------------------------------------------------------------------------
(* What each action does to the token rows.                                  *)

\* The row of h changes and stays.
RowChange(h) ==
  /\ tok' \in Rows /\ h \in Hash /\ IsThere(h) /\ tok'[h] \in Entry
  /\ \A g \in Hash \ {h} : tok'[g] = tok[g]
  /\ \A g : IsThere(g)' <=> IsThere(g)

SameConc(h) == tok'[h].conc = tok[h].conc
SameRes(h) == tok'[h].res = tok[h].res

\* What a reservation and a refund of task t do to the charges of the row.
Reserves(h, t) ==
  /\ tok'[h].res[t].status = "reserved"
  /\ \A s \in Task \ {t} : tok'[h].res[s] = tok[h].res[s]
Refunds(h, t) ==
  /\ tok'[h].res[t].status # "reserved"
  /\ tok[h].res[t].status # "reserved" => tok'[h].res[t] = tok[h].res[t]
  /\ \A s \in Task \ {t} : tok'[h].res[s] = tok[h].res[s]

LEMMA RowChanges ==
  ASSUME tok \in Rows, NEW h, IsThere(h), NEW e \in Entry, tok' = [tok EXCEPT ![h] = e]
  PROVE  RowChange(h) /\ tok'[h] = e
BY RowThere, RowWrite DEF RowChange

\* A row of a new token at the next hash.
NewRow ==
  /\ minted < MaxHash + 1 /\ minted' = minted + 1 /\ minted + 1 \in Hash
  /\ tok' \in Rows
  /\ tok'[minted + 1] \in Entry /\ tok'[minted + 1].conc = 1
  /\ \A t \in Task : tok'[minted + 1].res[t].status = "none"
  /\ \A g \in Hash \ {minted + 1} : tok'[g] = tok[g]
  /\ \A g : IsThere(g)' <=> IsThere(g) \/ g = minted + 1

LEMMA NewRows ==
  ASSUME LedgerOK, minted < MaxHash + 1, minted' = minted + 1,
         tok' = [tok EXCEPT ![minted + 1] = CreateTempToken(FreeLimit)]
  PROVE  NewRow
<1>1. minted \in 0 .. MaxHash /\ minted + 1 \in Hash /\ FreeLimit \in Nat
  BY HashFacts, WalletConstants DEF LedgerOK
<1>2. CreateTempToken(FreeLimit) \in Entry /\ CreateTempToken(FreeLimit).conc = 1
      /\ \A t \in Task : CreateTempToken(FreeLimit).res[t].status = "none"
  BY <1>1, NewEntry
<1>3. minted < MaxHash + 1 /\ minted' = minted + 1 /\ tok \in Rows
  BY DEF LedgerOK
<1>4. /\ tok' \in Rows /\ tok'[minted + 1] = CreateTempToken(FreeLimit)
      /\ \A g \in Hash \ {minted + 1} : tok'[g] = tok[g]
      /\ \A g : IsThere(g)' <=> IsThere(g) \/ g = minted + 1
  BY <1>1, <1>2, <1>3, RowWrite
<1> QED BY <1>1, <1>2, <1>3, <1>4 DEF NewRow

LEMMA RegisterTokenRow == ASSUME Types, NEW u \in User, RegisterToken(u) PROVE NewRow
<1>1. minted < MaxHash + 1
  BY HashFacts DEF RegisterToken, Types, LedgerOK
<1> QED BY <1>1, NewRows DEF RegisterToken, Types

LEMMA PurchaseRow ==
  ASSUME Types, NEW u \in User, NEW p \in Package, PurchaseMembership(u, p)
  PROVE  /\ usr[u] \in UserRow /\ usr[u].there /\ Sound(usr[u].mem)
         /\ RowChange(usr[u].hash) /\ SameRes(usr[u].hash)
<1> DEFINE h == usr[u].hash
           e == PurchaseTempMembership(tok[h], Price[p], Bonus[p], Slots[p])
<1>1. HasRow(u) /\ CanDeduct(tok[h], Price[p]) /\ tok' = [tok EXCEPT ![h] = e]
  BY DEF PurchaseMembership, SignedIn
<1>2. usr[u] \in UserRow /\ usr[u].there /\ Sound(usr[u].mem) /\ tok[h] \in Entry /\ IsThere(h)
  BY <1>1, SignedInRows DEF HasRow
<1>3. Price[p] \in Nat /\ Bonus[p] \in Nat /\ Slots[p] \in Nat
  BY MembershipConstants
<1>4. e \in Entry /\ e.res = tok[h].res
  BY <1>1, <1>2, <1>3, PurchaseOps
<1> HIDE DEF e
<1>5. RowChange(h) /\ tok'[h] = e
  BY <1>1, <1>2, <1>4, RowChanges DEF Types, LedgerOK
<1> QED BY <1>2, <1>4, <1>5 DEF SameRes

\* The rows whose limit is written.
LEMMA LimitRow ==
  ASSUME Types, NEW h, IsThere(h), NEW n \in Nat,
         tok' = [tok EXCEPT ![h] = UpdateConcurrency(@, n)]
  PROVE  RowChange(h) /\ SameRes(h) /\ tok'[h].conc = n
<1> DEFINE e == UpdateConcurrency(tok[h], n)
<1>1. tok \in Rows /\ tok[h] \in Entry /\ h \in Hash
  BY RowThere DEF Types, LedgerOK
<1>2. e \in Entry /\ e.conc = n /\ e.res = tok[h].res
  BY <1>1, SettingOps
<1>3. tok' = [tok EXCEPT ![h] = e]
  BY <1>1 DEF Rows
<1> HIDE DEF e
<1> QED BY <1>1, <1>2, <1>3, RowChanges DEF SameRes

LEMMA LimitPurchasedRow ==
  ASSUME Types, LimitPurchased
  PROVE  LET eff == EffectiveConcurrency(op.mem, usr[op.user].base)
         IN  /\ eff \in Nat /\ usr[op.user].base \in Nat
             /\ RowChange(op.hash) /\ SameRes(op.hash) /\ tok'[op.hash].conc = eff
<1>1. usr[op.user] \in UserRow /\ Sound(op.mem) /\ IsThere(op.hash)
  BY OpUser DEF LimitPurchased, Types, OpOK
<1>2. EffectiveConcurrency(op.mem, usr[op.user].base) \in Nat /\ usr[op.user].base \in Nat
  BY <1>1, LimitType DEF Sound, UserRow
<1>3. tok' = [tok EXCEPT ![op.hash] = UpdateConcurrency(@, EffectiveConcurrency(op.mem, usr[op.user].base))]
  BY DEF LimitPurchased
<1> QED BY <1>1, <1>2, <1>3, LimitRow

LEMMA SetLimitRow ==
  ASSUME Types, NEW u \in User, NEW n \in Limits, SetUserConcurrency(u, n)
  PROVE  /\ usr[u] \in UserRow /\ usr[u].there /\ Sound(usr[u].mem) /\ n \in Nat
         /\ RowChange(usr[u].hash) /\ SameRes(usr[u].hash) /\ tok'[usr[u].hash].conc = n
<1>1. HasRow(u) /\ n \in Nat /\ tok' = [tok EXCEPT ![usr[u].hash] = UpdateConcurrency(@, n)]
  BY WalletConstants DEF SetUserConcurrency
<1> QED BY <1>1, SignedInRows, LimitRow DEF HasRow

LEMMA SyncTokenRow ==
  ASSUME Types, SyncToken
  PROVE  RowChange(op.hash) /\ SameRes(op.hash) /\ tok'[op.hash].conc = usr[op.user].eff
<1>1. IsThere(op.hash) /\ usr[op.user].eff \in Nat
  BY OpUser DEF SyncToken, Types, OpOK, UserRow
<1>2. tok' = [tok EXCEPT ![op.hash] = UpdateConcurrency(@, usr[op.user].eff)]
  BY DEF SyncToken
<1> QED BY <1>1, <1>2, LimitRow

\* The rows whose balances are changed.
LEMMA PointsRow ==
  ASSUME Types, NEW u \in User, NEW n \in Amount, UsersAddPoints(u, n) \/ UsersDeductPoints(u, n)
  PROVE  usr' = SyncAll /\ RowChange(usr[u].hash) /\ SameRes(usr[u].hash) /\ SameConc(usr[u].hash)
<1> DEFINE h == usr[u].hash
           e1 == AddTempCredit(tok[h], n)
           e2 == DeductTempPoints(tok[h], n)
           e3 == AdjustTempVideoQuota(tok[h], n)
           e4 == AdjustTempVideoQuota(tok[h], -n)
<1>1. HasRow(u) /\ usr' = SyncAll
  BY DEF UsersAddPoints, UsersDeductPoints
<1>2. IsThere(h) /\ tok[h] \in Entry /\ n \in Nat /\ -n \in Int /\ n \in Int
  BY <1>1, SignedInRows, WalletConstants DEF HasRow
<1>3. \/ tok' = [tok EXCEPT ![h] = e1]
      \/ tok' = [tok EXCEPT ![h] = e2] /\ CanDeduct(tok[h], n)
      \/ tok' = [tok EXCEPT ![h] = e3] /\ CanAdjust(tok[h], n)
      \/ tok' = [tok EXCEPT ![h] = e4] /\ CanAdjust(tok[h], -n)
  BY DEF UsersAddPoints, UsersDeductPoints, AddUserPoints, DeductUserPoints, AdjustUserVideoQuota
<1>4. /\ e1 \in Entry /\ e1.conc = tok[h].conc /\ e1.res = tok[h].res
      /\ CanDeduct(tok[h], n) => e2 \in Entry /\ e2.conc = tok[h].conc /\ e2.res = tok[h].res
      /\ CanAdjust(tok[h], n) => e3 \in Entry /\ e3.conc = tok[h].conc /\ e3.res = tok[h].res
      /\ CanAdjust(tok[h], -n) => e4 \in Entry /\ e4.conc = tok[h].conc /\ e4.res = tok[h].res
  BY <1>2, BalanceOps
<1> HIDE DEF e1, e2, e3, e4
<1>5. PICK e \in Entry : tok' = [tok EXCEPT ![h] = e] /\ e.conc = tok[h].conc /\ e.res = tok[h].res
  BY <1>3, <1>4
<1>6. RowChange(h) /\ tok'[h] = e
  BY <1>2, <1>5, RowChanges DEF Types, LedgerOK
<1> QED BY <1>1, <1>5, <1>6 DEF SameRes, SameConc

LEMMA PriorityRow ==
  ASSUME Types, NEW u \in User, NEW f \in {"video", "points"}, SetTempBillingPriority(u, f)
  PROVE  RowChange(usr[u].hash) /\ SameRes(usr[u].hash) /\ SameConc(usr[u].hash)
<1> DEFINE h == usr[u].hash
           e == SetBillingPriority(tok[h], f)
<1>1. HasRow(u) /\ tok' = [tok EXCEPT ![h] = e]
  BY DEF SetTempBillingPriority, SignedIn
<1>2. IsThere(h) /\ tok[h] \in Entry
  BY <1>1, SignedInRows DEF HasRow
<1>3. e \in Entry /\ e.conc = tok[h].conc /\ e.res = tok[h].res
  BY <1>2, SettingOps
<1> HIDE DEF e
<1>4. RowChange(h) /\ tok'[h] = e
  BY <1>1, <1>2, <1>3, RowChanges DEF Types, LedgerOK
<1> QED BY <1>3, <1>4 DEF SameRes, SameConc

LEMMA CreditRow ==
  ASSUME Types, CreditCard
  PROVE  RowChange(op.hash) /\ SameRes(op.hash) /\ SameConc(op.hash)
<1> DEFINE h == op.hash
           e == AddTempCredit(tok[h], CardUnits)
<1>1. IsThere(h) /\ tok[h] \in Entry /\ CardUnits \in Nat /\ CardUnits \in Int
  BY RowThere, WalletConstants DEF CreditCard, Types, OpOK, LedgerOK
<1>2. tok' = [tok EXCEPT ![h] = e]
  BY DEF CreditCard
<1>3. e \in Entry /\ e.conc = tok[h].conc /\ e.res = tok[h].res
  BY <1>1, BalanceOps
<1> HIDE DEF e
<1>4. RowChange(h) /\ tok'[h] = e
  BY <1>1, <1>2, <1>3, RowChanges DEF Types, LedgerOK
<1> QED BY <1>3, <1>4 DEF SameRes, SameConc

\* The price of a task is a number, whoever owns the hash now.
LEMMA CostType == ASSUME Types, NEW h PROVE Cost(h) \in Nat
<1> DEFINE owners == {u \in User : usr[u].there /\ usr[u].hash = h}
<1>1. DiscountUnits(h) \in Nat
  <2>1. CASE owners = {}
    BY <2>1 DEF DiscountUnits
  <2>2. CASE owners # {}
    <3>1. PICK u \in owners : u = CHOOSE v \in owners : TRUE
      BY <2>2
    <3>2. usr[u] \in UserRow /\ Sound(usr[u].mem)
      BY <3>1, UserThere DEF Types, UsersOK
    <3>3. MembershipDiscount(usr[u].mem) \in Nat /\ usr[u].discount \in Nat
      BY <3>2, DiscountType DEF Sound, UserRow
    <3>4. DiscountUnits(h) = MembershipDiscount(usr[u].mem) + usr[u].discount
      BY <2>2, <3>1 DEF DiscountUnits
    <3> QED BY <3>3, <3>4
  <2> QED BY <2>1, <2>2
<1>2. BaseCost - DiscountUnits(h) \in Int
  BY <1>1, WalletConstants
<1>3. \A n \in Int : Max({1, n}) \in Nat
  <2> TAKE n \in Int
  <2>1. CASE n <= 1
    <3>1. 1 \in {1, n} /\ \A y \in {1, n} : 1 >= y
      BY <2>1
    <3> QED BY <3>1 DEF Max
  <2>2. CASE n > 1
    <3>1. n \in {1, n} /\ \A y \in {1, n} : n >= y
      BY <2>2
    <3> QED BY <2>2, <3>1 DEF Max
  <2> QED BY <2>1, <2>2
<1> QED BY <1>2, <1>3 DEF Cost

LEMMA ChargeRow ==
  ASSUME Types, NEW h, NEW t \in Task, NEW cost \in Nat, IsThere(h),
         CanReserve(tok[h], t, cost, VideoCost),
         tok' = [tok EXCEPT ![h] = ReserveTempQuota(@, t, cost, VideoCost)]
  PROVE  RowChange(h) /\ SameConc(h) /\ Reserves(h, t)
<1> DEFINE e == ReserveTempQuota(tok[h], t, cost, VideoCost)
<1>1. h \in Hash /\ tok[h] \in Entry /\ VideoCost \in Nat
  BY RowThere, WalletConstants DEF Types, LedgerOK
<1>2. /\ e \in Entry /\ e.conc = tok[h].conc /\ e.res[t].status = "reserved"
      /\ \A s \in Task \ {t} : e.res[s] = tok[h].res[s]
  BY <1>1, ReserveOps
<1>3. tok' = [tok EXCEPT ![h] = e]
  BY <1>1 DEF Types, LedgerOK, Rows
<1> HIDE DEF e
<1>4. RowChange(h) /\ tok'[h] = e
  BY <1>2, <1>3, RowChanges DEF Types, LedgerOK
<1> QED BY <1>2, <1>4 DEF SameConc, Reserves

LEMMA ReserveRow ==
  ASSUME Types, NEW t \in Task, ReserveQuota(t)
  PROVE  LET h == req[t].hash IN RowChange(h) /\ SameConc(h) /\ Reserves(h, t)
<1>1. req[t].cost \in Nat
  BY ReqActive DEF Types, ReserveQuota, ReqRow
<1> QED BY <1>1, ChargeRow DEF ReserveQuota

LEMMA ChatRow ==
  ASSUME Types, NEW t \in Task, NEW u \in User, CreateChatTask(t, u)
  PROVE  LET h == usr[u].hash IN RowChange(h) /\ SameConc(h) /\ Reserves(h, t)
<1> QED BY CostType, ChargeRow DEF CreateChatTask, SignedIn, HasRow

\* A refund at a hash that has no row does nothing.
LEMMA RefundRow ==
  ASSUME Types, NEW h, NEW t \in Task, tok' = RefundAt(h, t)
  PROVE  \/ ~IsThere(h) /\ tok' = tok
         \/ RowChange(h) /\ SameConc(h) /\ Refunds(h, t)
<1> DEFINE e == RefundTempQuota(tok[h], t)
<1>1. CASE ~IsThere(h)
  BY <1>1 DEF RefundAt
<1>2. CASE IsThere(h)
  <2>1. h \in Hash /\ tok[h] \in Entry
    BY <1>2, RowThere DEF Types, LedgerOK
  <2>2. /\ e \in Entry /\ e.conc = tok[h].conc /\ e.res[t].status # "reserved"
        /\ tok[h].res[t].status # "reserved" => e.res[t] = tok[h].res[t]
        /\ \A s \in Task \ {t} : e.res[s] = tok[h].res[s]
    BY <2>1, RefundOps
  <2>3. tok' = [tok EXCEPT ![h] = e]
    BY <1>2, <2>1 DEF RefundAt, Types, LedgerOK, Rows
  <2> HIDE DEF e
  <2>4. RowChange(h) /\ tok'[h] = e
    BY <1>2, <2>2, <2>3, RowChanges DEF Types, LedgerOK
  <2> QED BY <2>2, <2>4 DEF SameConc, Refunds
<1> QED BY <1>1, <1>2

\* The row moves to the next hash, and nothing stays behind.
LEMMA RotateRow ==
  ASSUME Types, NEW u \in User, RotateTempToken(u)
  PROVE  LET old == usr[u].hash
             new == minted + 1
         IN  /\ usr[u] \in UserRow /\ usr[u].there /\ Sound(usr[u].mem)
             /\ minted < MaxHash /\ minted' = new /\ new \in Hash /\ new # old /\ IsThere(old)
             /\ tok' \in Rows /\ tok'[new] = tok[old] /\ tok[old] \in Entry /\ tok'[old] = NoEntry
             /\ \A g \in Hash \ {old, new} : tok'[g] = tok[g]
             /\ \A g : IsThere(g)' <=> (IsThere(g) /\ g # old) \/ g = new
<1> DEFINE old == usr[u].hash
           new == minted + 1
<1>1. HasRow(u) /\ minted < MaxHash /\ minted' = new /\ tok' = [tok EXCEPT ![new] = tok[old], ![old] = NoEntry]
  BY DEF RotateTempToken, SignedIn, MoveToken
<1>2. /\ usr[u] \in UserRow /\ usr[u].there /\ Sound(usr[u].mem)
      /\ old \in Hash /\ tok[old] \in Entry /\ IsThere(old)
  BY <1>1, SignedInRows DEF HasRow
<1>3. new \in Hash /\ new # old
  BY <1>1, <1>2, HashFacts DEF Types, LedgerOK
<1>4. tok[old] # NoEntry
  BY <1>2, EntryIsThere
<1>5. tok \in Rows
  BY DEF Types, LedgerOK
<1> HIDE DEF old, new
<1>6. /\ tok' \in Rows /\ tok'[new] = tok[old] /\ tok'[old] = NoEntry
      /\ \A g \in Hash \ {old, new} : tok'[g] = tok[g]
  BY <1>1, <1>2, <1>3, <1>5 DEF Rows
<1>7. \A g : IsThere(g)' <=> (IsThere(g) /\ g # old) \/ g = new
  BY <1>2, <1>3, <1>4, <1>6 DEF IsThere
<1> QED BY <1>1, <1>2, <1>3, <1>6, <1>7 DEF old, new

\* A repair gives a user whose row is gone a new one.
LEMMA RepairRow ==
  ASSUME Types, NEW u \in User, RepairUserToken(u)
  PROVE  /\ NewRow
         /\ usr[u].there /\ ~HasRow(u)
         /\ UserChange(u, minted + 1, usr[u].eff, usr[u].mem)
         /\ cut' = (cut \ {<<u, "wallet">>}) \cup {<<u, "slots">>}
<1>1. /\ minted' = minted + 1 /\ minted <= MaxHash
      /\ tok' = [tok EXCEPT ![minted + 1] = CreateTempToken(FreeLimit)]
      /\ usr' = [usr EXCEPT ![u].hash = minted + 1]
      /\ cut' = (cut \ {<<u, "wallet">>}) \cup {<<u, "slots">>}
      /\ usr[u].there /\ ~HasRow(u)
  BY DEF RepairUserToken
<1>2. NewRow
  BY <1>1, NewRows, HashFacts DEF Types, LedgerOK
<1> DEFINE v == [usr[u] EXCEPT !.hash = minted + 1]
<1>3. usr[u] \in UserRow
  BY <1>1, UserThere DEF Types, UsersOK
<1>4. usr' = [usr EXCEPT ![u] = v]
  BY <1>1, <1>3 DEF Types, UsersOK, Users
<1>5. v \in UserRow /\ v.hash = minted + 1 /\ v.eff = usr[u].eff /\ v.mem = usr[u].mem
  BY <1>2, <1>3 DEF UserRow, NewRow
<1> HIDE DEF v
<1>6. UserChange(u, minted + 1, usr[u].eff, usr[u].mem)
  BY <1>3, <1>4, <1>5, UserWrite DEF Types, UsersOK
<1> QED BY <1>1, <1>2, <1>6

-----------------------------------------------------------------------------
(* Every step keeps the types.                                               *)

LEMMA SameLedger == ASSUME LedgerOK, UNCHANGED ledger PROVE LedgerOK'
BY DEF LedgerOK, ledger, IsThere

LEMMA LedgerGrows ==
  ASSUME LedgerOK, tok' \in Rows, minted' \in {minted, minted + 1}, minted' <= MaxHash + 1,
         \A g : IsThere(g)' => IsThere(g) \/ g = minted'
  PROVE  LedgerOK'
BY HashFacts DEF LedgerOK

LEMMA RowKept == ASSUME LedgerOK, NEW h, RowChange(h), minted' = minted PROVE LedgerOK'
BY HashFacts DEF LedgerOK, RowChange

LEMMA SameUsers == ASSUME UsersOK, usr' = usr PROVE UsersOK'
BY DEF UsersOK

LEMMA SameTasks == ASSUME TasksOK, UNCHANGED taskVars PROVE TasksOK'
BY DEF TasksOK, taskVars

LEMMA SameRest ==
  ASSUME RestOK, UNCHANGED <<card, credited, paid, spent, up>> PROVE RestOK'
BY DEF RestOK

LEMMA IdleOp == ASSUME op' = Idle PROVE OpOK'
BY DEF OpOK, Idle

LEMMA SameOp ==
  ASSUME OpOK, op' = op,
         \/ op = Idle
         \/ /\ \A g : IsThere(g) => IsThere(g)'
            /\ \A u \in User : usr[u].there => usr'[u].there
  PROVE  OpOK'
<1>1. CASE op = Idle
  BY <1>1, IdleOp
<1>2. CASE /\ \A g : IsThere(g) => IsThere(g)'
           /\ \A u \in User : usr[u].there => usr'[u].there
  BY <1>2 DEF OpOK
<1> QED BY <1>1, <1>2

\* Acts that begin an operation or are done in one step.
LEMMA AccountTypes == ASSUME Types, NEW u \in User, Account(u) PROVE Types'
<1> USE DEF Types
<1>1. CASE RegisterToken(u)
  <2>1. NewRow
    BY <1>1, RegisterTokenRow
  <2>2. LedgerOK'
    BY <2>1, LedgerGrows, HashFacts DEF NewRow, LedgerOK
  <2>3. op' = [at |-> "register", user |-> u, hash |-> minted + 1] /\ minted + 1 \in Hash
    BY <1>1, <2>1 DEF RegisterToken, NewRow
  <2>4. OpOK'
    BY <2>3 DEF OpOK
  <2> QED BY <1>1, <2>2, <2>4, SameUsers, SameTasks, SameRest DEF RegisterToken, ghosts
<1>2. CASE DeleteUser(u)
  <2>1. usr' \in Users /\ ~usr'[u].there /\ \A v \in User \ {u} : usr'[v] = usr[v]
    BY <1>2, DeleteUserRow
  <2>2. UsersOK'
    BY <2>1 DEF UsersOK
  <2>3. op' = [at |-> "unregister", hash |-> usr[u].hash] /\ usr[u].hash \in Hash
    BY <1>2, UserThere DEF DeleteUser, UsersOK, UserRow
  <2>4. OpOK'
    BY <2>3 DEF OpOK
  <2> QED BY <1>2, <2>2, <2>4, SameLedger, SameTasks, SameRest DEF DeleteUser, ghosts
<1>3. CASE SyncUserMembership(u)
  <2> DEFINE ms == SyncMembershipState(usr[u].mem)
             eff == EffectiveConcurrency(ms, usr[u].base)
  <2>1. Sound(ms) /\ UserChange(u, usr[u].hash, eff, ms)
    BY <1>3, SyncUserRowChange
  <2>2. UsersOK'
    BY <2>1, UserChangeKeeps
  <2>3. op' \in {Idle, [at |-> "synced", user |-> u, hash |-> usr[u].hash]} /\ IsThere(usr[u].hash)
    BY <1>3 DEF SyncUserMembership, SignedIn, HasRow
  <2>4. tok' = tok /\ usr'[u].there
    BY <1>3, <2>1 DEF SyncUserMembership, ledger, UserChange
  <2>5. OpOK'
    BY <2>3, <2>4, IdleOp DEF OpOK, IsThere
  <2> QED BY <1>3, <2>2, <2>5, SameLedger, SameTasks, SameRest DEF SyncUserMembership
<1>4. CASE Tick(u)
  <2>1. PICK p \in ActivePackages(usr[u].mem) :
           /\ usr[u].there
           /\ UserChange(u, usr[u].hash, usr[u].eff, [usr[u].mem EXCEPT ![p].run = @ + 1])
           /\ Sound([usr[u].mem EXCEPT ![p].run = @ + 1])
           /\ spent' = [spent EXCEPT ![u][p] = @ + 1]
    BY <1>4, TickRow
  <2>2. UsersOK'
    BY <2>1, UserChangeKeeps
  <2>3. tok' = tok /\ op' = op /\ \A v \in User : usr[v].there => usr'[v].there
    BY <1>4, <2>1 DEF Tick, ledger, UserChange
  <2>4. OpOK'
    BY <2>3, SameOp DEF IsThere
  <2>5. RestOK'
    <3>1. p \in Package
      BY DEF ActivePackages
    <3> QED BY <1>4, <2>1, <3>1 DEF RestOK, Tick
  <2> QED BY <1>4, <2>2, <2>4, <2>5, SameLedger, SameTasks DEF Tick
<1>5. CASE RotateTempToken(u)
  <2>1. /\ usr[u] \in UserRow /\ usr[u].there
        /\ minted < MaxHash /\ minted' = minted + 1 /\ minted + 1 \in Hash
        /\ tok' \in Rows
        /\ \A g : IsThere(g)' <=> (IsThere(g) /\ g # usr[u].hash) \/ g = minted + 1
    BY <1>5, RotateRow
  <2>2. LedgerOK'
    BY <2>1, LedgerGrows, HashFacts DEF LedgerOK
  <2>3. /\ op' = [at |-> "rotated", user |-> u, old |-> usr[u].hash, hash |-> minted + 1]
        /\ usr[u].hash \in Hash /\ usr' = usr
    BY <1>5, <2>1 DEF RotateTempToken, UserRow
  <2>4. OpOK'
    BY <2>1, <2>3 DEF OpOK
  <2> QED BY <1>5, <2>2, <2>3, <2>4, SameUsers, SameTasks, SameRest DEF RotateTempToken, ghosts
<1>6. ASSUME NEW p \in Package, PurchaseMembership(u, p) PROVE Types'
  <2> DEFINE ms == SyncMembershipState(usr[u].mem)
             new == SyncMembershipState(Bought(ms, p))
  <2>1. /\ usr[u] \in UserRow /\ usr[u].there /\ Sound(usr[u].mem)
        /\ RowChange(usr[u].hash)
    BY <1>6, PurchaseRow
  <2>2. LedgerOK'
    BY <1>6, <2>1, RowKept DEF PurchaseMembership
  <2>3. Sound(new)
    BY <1>6, <2>1, SyncKeeps, BuyAdds DEF PurchaseMembership
  <2>4. op' = [at |-> "bought", user |-> u, hash |-> usr[u].hash, mem |-> new] /\ usr' = usr
    BY <1>6 DEF PurchaseMembership
  <2> HIDE DEF new
  <2>5. OpOK'
    BY <2>1, <2>3, <2>4 DEF OpOK, RowChange
  <2>6. RestOK'
    <3>1. Days[p] \in Nat
      BY MembershipConstants
    <3> QED BY <1>6, <3>1 DEF RestOK, PurchaseMembership
  <2> QED BY <1>6, <2>2, <2>4, <2>5, <2>6, SameUsers, SameTasks DEF PurchaseMembership
<1>7. ASSUME NEW n \in Limits, SetUserConcurrency(u, n) PROVE Types'
  <2> DEFINE ms == SyncMembershipState(usr[u].mem)
             mem == SetSlots(ms, n)
             base == IF ActivePackages(ms) = {} THEN n ELSE usr[u].base
  <2>1. /\ usr[u] \in UserRow /\ usr[u].there /\ Sound(usr[u].mem) /\ n \in Nat
        /\ RowChange(usr[u].hash)
    BY <1>7, SetLimitRow
  <2>2. LedgerOK'
    BY <1>7, <2>1, RowKept DEF SetUserConcurrency
  <2>3. Sound(mem) /\ base \in Nat
    BY <2>1, SyncKeeps, SlotsKeep DEF UserRow
  <2>4. op' = [at |-> "limited", user |-> u, mem |-> mem, eff |-> n, base |-> base] /\ usr' = usr
    BY <1>7 DEF SetUserConcurrency
  <2> HIDE DEF mem, base
  <2>5. OpOK'
    BY <2>1, <2>3, <2>4 DEF OpOK
  <2> QED BY <1>7, <2>2, <2>4, <2>5, SameUsers, SameTasks, SameRest DEF SetUserConcurrency, ghosts
<1>8. ASSUME NEW n \in Amount, UsersAddPoints(u, n) \/ UsersDeductPoints(u, n) PROVE Types'
  <2>1. usr' = SyncAll /\ RowChange(usr[u].hash)
    BY <1>8, PointsRow
  <2>2. UsersOK'
    BY <2>1, SyncAllRows
  <2>3. op = Idle /\ op' = op /\ minted' = minted
    BY <1>8 DEF UsersAddPoints, UsersDeductPoints, Ready
  <2> QED BY <1>8, <2>1, <2>2, <2>3, RowKept, SameOp, SameTasks, SameRest
          DEF UsersAddPoints, UsersDeductPoints, AddUserPoints, DeductUserPoints, AdjustUserVideoQuota
<1>9. CASE SetUserEnabled(u) \/ \E n \in Amount : SetModelDiscounts(u, n)
  <2>1. usr[u].there /\ UserChange(u, usr[u].hash, usr[u].eff, usr[u].mem)
    BY <1>9, SwitchRow
  <2>2. UsersOK'
    BY <2>1, UserChangeKeeps DEF UsersOK
  <2>3. op = Idle /\ op' = op
    BY <1>9 DEF SetUserEnabled, SetModelDiscounts, Ready
  <2> QED BY <1>9, <2>2, <2>3, SameLedger, SameOp, SameTasks, SameRest
          DEF SetUserEnabled, SetModelDiscounts, ghosts
<1>10. ASSUME NEW f \in {"video", "points"}, SetTempBillingPriority(u, f) PROVE Types'
  <2>1. RowChange(usr[u].hash)
    BY <1>10, PriorityRow
  <2>2. op = Idle /\ op' = op /\ minted' = minted
    BY <1>10 DEF SetTempBillingPriority, Ready
  <2> QED BY <1>10, <2>1, <2>2, RowKept, SameUsers, SameOp, SameTasks, SameRest
          DEF SetTempBillingPriority, ghosts
<1>11. ASSUME NEW c \in Card, RedeemCard(u, c) PROVE Types'
  <2>1. /\ op' = [at |-> "redeem", user |-> u, hash |-> usr[u].hash, card |-> c]
        /\ IsThere(usr[u].hash) /\ tok' = tok
    BY <1>11 DEF RedeemCard, SignedIn, HasRow, ledger
  <2>2. OpOK'
    BY <2>1 DEF OpOK, IsThere
  <2>3. RestOK'
    BY <1>11 DEF RestOK, RedeemCard, ghosts
  <2> QED BY <1>11, <2>2, <2>3, SameLedger, SameUsers, SameTasks DEF RedeemCard
<1>12. CASE RotateUserToken(u) \/ ChangeUserPassword(u) \/ ResetUserPassword(u)
  BY <1>5, <1>12 DEF RotateUserToken, ChangeUserPassword, ResetUserPassword
<1> QED BY <1>1, <1>2, <1>3, <1>4, <1>6, <1>7, <1>8, <1>9, <1>10, <1>11, <1>12 DEF Account

\* The commits that an operation has still to make.
LEMMA ContinueTypes == ASSUME Types, Continue PROVE Types'
<1> USE DEF Types
<1>1. CASE RegisterUser
  <2>1. /\ op.user \in User
        /\ UserChange(op.user, op.hash, 1, [p \in Package |-> NoMembership])
    BY <1>1, RegisterUserRow
  <2>2. UsersOK'
    BY <2>1, NoMemberships, UserChangeKeeps
  <2>3. Zero \in [Package -> Nat]
    BY DEF Zero
  <2>4. RestOK'
    BY <1>1, <2>1, <2>3 DEF RestOK, RegisterUser
  <2> QED BY <1>1, <2>2, <2>4, SameLedger, SameTasks, IdleOp DEF RegisterUser
<1>2. CASE DeleteUserToken
  <2>1. op.hash \in Hash /\ minted' = minted /\ tok' = [tok EXCEPT ![op.hash] = NoEntry]
    BY <1>2 DEF DeleteUserToken, OpOK
  <2>2. LedgerOK'
    BY <2>1, RowDrop, LedgerGrows, HashFacts DEF LedgerOK
  <2> QED BY <1>2, <2>2, SameUsers, SameTasks, SameRest, IdleOp DEF DeleteUserToken
<1>3. CASE RotateUser
  <2>1. op.user \in User /\ UserChange(op.user, op.hash, usr[op.user].eff, usr[op.user].mem)
    BY <1>3, RotateUserRow
  <2>2. Sound(usr[op.user].mem)
    BY <1>3, OpUser DEF RotateUser
  <2>3. UsersOK'
    BY <2>1, <2>2, UserChangeKeeps
  <2>4. op \in [at : {"rotated", "list"}, user : User, old : Hash, hash : Hash]
    BY <1>3 DEF RotateUser, OpOK
  <2>5. op' \in [at : {"rotated", "list"}, user : User, old : Hash, hash : Hash] /\ op'.at = "list"
    BY <1>3, <2>4 DEF RotateUser
  <2>6. OpOK'
    BY <2>5 DEF OpOK
  <2> QED BY <1>3, <2>3, <2>6, SameLedger, SameTasks, SameRest DEF RotateUser, ghosts
<1>4. CASE ListOwnedTasks
  <2> DEFINE owned == {t \in Task : Exists(t) /\ task[t].owner = op.old}
  <2>1. op.hash \in Hash
    BY <1>4 DEF ListOwnedTasks, OpOK
  <2>2. op' \in {Idle, [at |-> "migrate", hash |-> op.hash, todo |-> owned]} /\ owned \in SUBSET Task
    BY <1>4 DEF ListOwnedTasks
  <2> HIDE DEF owned
  <2>3. OpOK'
    BY <2>1, <2>2, IdleOp DEF OpOK
  <2> QED BY <1>4, <2>3, SameLedger, SameUsers, SameTasks, SameRest DEF ListOwnedTasks, ghosts
<1>5. ASSUME NEW t \in Task, MigrateTaskOwner(t) PROVE Types'
  <2>1. op \in [at : {"migrate"}, hash : Hash, todo : SUBSET Task]
    BY <1>5 DEF MigrateTaskOwner, OpOK
  <2>2. op' \in {Idle, [op EXCEPT !.todo = op.todo \ {t}]}
    BY <1>5, <2>1 DEF MigrateTaskOwner
  <2>3. [op EXCEPT !.todo = op.todo \ {t}] \in [at : {"migrate"}, hash : Hash, todo : SUBSET Task]
    <3> DEFINE rest == op.todo \ {t}
    <3>1. rest \in SUBSET Task
      BY <2>1
    <3> HIDE DEF rest
    <3>2. [op EXCEPT !.todo = rest] \in [at : {"migrate"}, hash : Hash, todo : SUBSET Task]
      BY <2>1, <3>1
    <3> QED BY <3>2 DEF rest
  <2>4. OpOK'
    BY <2>2, <2>3, IdleOp DEF OpOK
  <2>5. TasksOK'
    <3>1. CASE task' = task
      BY <1>5, <3>1 DEF MigrateTaskOwner, TasksOK
    <3>2. CASE task' = [task EXCEPT ![t].owner = op.hash]
      BY <1>5, <2>1, <3>2 DEF MigrateTaskOwner, TasksOK, TaskRow
    <3> QED BY <1>5, <3>1, <3>2 DEF MigrateTaskOwner
  <2> QED BY <1>5, <2>4, <2>5, SameLedger, SameUsers, SameRest DEF MigrateTaskOwner, ghosts
<1>6. CASE LimitPurchased
  <2> DEFINE eff == EffectiveConcurrency(op.mem, usr[op.user].base)
  <2>1. eff \in Nat /\ usr[op.user].base \in Nat /\ RowChange(op.hash)
    BY <1>6, LimitPurchasedRow
  <2>2. LedgerOK'
    BY <1>6, <2>1, RowKept DEF LimitPurchased
  <2>3. /\ op' = [at |-> "limited", user |-> op.user, mem |-> op.mem, eff |-> eff,
                  base |-> usr[op.user].base]
        /\ usr' = usr
    BY <1>6 DEF LimitPurchased
  <2>4. op.user \in User /\ usr[op.user].there /\ Sound(op.mem)
    BY <1>6 DEF LimitPurchased, OpOK
  <2> HIDE DEF eff
  <2>5. OpOK'
    BY <2>1, <2>3, <2>4 DEF OpOK
  <2> QED BY <1>6, <2>2, <2>5, SameUsers, SameTasks, SameRest DEF LimitPurchased, ghosts
<1>7. CASE WriteUser
  <2>1. /\ op.user \in User /\ Sound(op.mem)
        /\ UserChange(op.user, usr[op.user].hash, op.eff, op.mem)
    BY <1>7, WriteUserRow
  <2>2. UsersOK'
    BY <2>1, UserChangeKeeps
  <2> QED BY <1>7, <2>2, SameLedger, SameTasks, SameRest, IdleOp DEF WriteUser
<1>8. CASE SyncToken
  <2>1. RowChange(op.hash)
    BY <1>8, SyncTokenRow
  <2> QED BY <1>8, <2>1, RowKept, SameUsers, SameTasks, SameRest, IdleOp DEF SyncToken
<1>9. CASE CreditCard
  <2>1. RowChange(op.hash) /\ op.card \in Card
    BY <1>9, CreditRow DEF CreditCard, OpOK
  <2>2. OpOK'
    BY <1>9, <2>1 DEF CreditCard, OpOK
  <2>3. RestOK'
    BY <1>9, <2>1 DEF CreditCard, RestOK
  <2> QED BY <1>9, <2>1, <2>2, <2>3, RowKept, SameUsers, SameTasks DEF CreditCard
<1>10. CASE CreditFails \/ CloseCard
  <2>1. op.card \in Card
    BY <1>10 DEF CreditFails, CloseCard, OpOK
  <2>2. RestOK'
    BY <1>10, <2>1 DEF CreditFails, CloseCard, RestOK, ghosts
  <2> QED BY <1>10, <2>2, SameLedger, SameUsers, SameTasks, IdleOp DEF CreditFails, CloseCard
<1> QED BY <1>1, <1>2, <1>3, <1>4, <1>5, <1>6, <1>7, <1>8, <1>9, <1>10 DEF Continue

\* A step of a task leaves these alone.
LEMMA ChargeFrame ==
  ASSUME NEW t \in Task, Charge(t)
  PROVE  UNCHANGED <<minted, usr, card, op, up, book, paid, spent, credited>>
<1>1. CASE \/ \E u \in User : CreateTask(t, u) \/ ResumeTask(t, u) \/ CreateChatTask(t, u)
           \/ \E old \in Task : RetryTask(t, old)
           \/ CreateRetry(t) \/ DropOriginal(t)
  BY <1>1 DEF CreateTask, ResumeTask, CreateChatTask, RetryTask, CreateRetry, DropOriginal, ledger, ghosts
<1>2. CASE \/ ReadPrice(t) \/ ReserveQuota(t) \/ QuotaExceeded(t) \/ FinalizeTask(t)
           \/ CreationFails(t) \/ RefundCreation(t) \/ DeleteCreation(t) \/ CleanUpFails(t)
  BY <1>2 DEF ReadPrice, ReserveQuota, QuotaExceeded, FinalizeTask, CreationFails, RefundCreation,
              DeleteCreation, CleanUpFails, ledger, ghosts
<1>3. CASE \/ ReadOwner(t) \/ RefundEnded(t) \/ RefundLost(t) \/ CleanUpTask(t)
           \/ \E st \in {"failed", "success"} : EndTask(t, st)
  BY <1>3 DEF ReadOwner, RefundEnded, RefundLost, CleanUpTask, EndTask, ledger, ghosts
<1> QED BY <1>1, <1>2, <1>3 DEF Charge

\* What a step of a task does to the token rows.
LEMMA ChargeLedger ==
  ASSUME Types, NEW t \in Task, Charge(t)
  PROVE  \/ tok' = tok
         \/ \E h \in Hash : RowChange(h) /\ SameConc(h)
<1>1. CASE ReserveQuota(t)
  BY <1>1, ReserveRow DEF RowChange
<1>2. ASSUME NEW u \in User, CreateChatTask(t, u)
      PROVE  \E h \in Hash : RowChange(h) /\ SameConc(h)
  BY <1>2, ChatRow DEF RowChange
<1>3. CASE RefundCreation(t) \/ RefundEnded(t)
  BY <1>3, RefundRow DEF RefundCreation, RefundEnded, RowChange
<1>4. CASE \/ \E u \in User : CreateTask(t, u) \/ ResumeTask(t, u)
           \/ \E old \in Task : RetryTask(t, old)
           \/ CreateRetry(t) \/ DropOriginal(t)
           \/ ReadPrice(t) \/ QuotaExceeded(t) \/ FinalizeTask(t)
           \/ CreationFails(t) \/ DeleteCreation(t) \/ CleanUpFails(t)
  BY <1>4 DEF CreateTask, ResumeTask, RetryTask, CreateRetry, DropOriginal, ReadPrice, QuotaExceeded,
              FinalizeTask, CreationFails, DeleteCreation, CleanUpFails, ledger
<1>5. CASE \/ ReadOwner(t) \/ RefundLost(t) \/ CleanUpTask(t)
           \/ \E st \in {"failed", "success"} : EndTask(t, st)
  BY <1>5 DEF ReadOwner, RefundLost, CleanUpTask, EndTask, ledger
<1> QED BY <1>1, <1>2, <1>3, <1>4, <1>5 DEF Charge

LEMMA TaskWrite ==
  ASSUME TasksOK, NEW t \in Task, NEW v \in TaskRow,
         task' = task \/ task' = [task EXCEPT ![t] = v],
         NEW r \in {IdleReq} \cup ReqRow,
         req' = req \/ req' = [req EXCEPT ![t] = r],
         NEW h \in Hash \cup {NoHash},
         seen' = seen \/ seen' = [seen EXCEPT ![t] = h]
  PROVE  TasksOK'
BY DEF TasksOK

\* A request that goes on to its next step.
LEMMA ReqStep ==
  ASSUME TasksOK, NEW t \in Task, req[t].at # "idle",
         NEW at \in {"price", "reserve", "files", "drop", "refund", "delete"}, NEW cost \in Nat
  PROVE  /\ [req[t] EXCEPT !.at = at] \in ReqRow
         /\ [req EXCEPT ![t].at = at] = [req EXCEPT ![t] = [req[t] EXCEPT !.at = at]]
         /\ [req[t] EXCEPT !.at = at, !.cost = cost] \in ReqRow
         /\ [req EXCEPT ![t].at = at, ![t].cost = cost] =
              [req EXCEPT ![t] = [req[t] EXCEPT !.at = at, !.cost = cost]]
<1>1. req[t] \in ReqRow
  BY ReqActive
<1>2. DOMAIN req = Task
  BY DEF TasksOK
<1> QED BY <1>1, <1>2 DEF ReqRow, TasksOK

LEMMA NewReqType ==
  ASSUME NEW h \in Hash, NEW old \in SUBSET Task, NEW step \in {"price", "retry"}
  PROVE  NewReq(step, h, old) \in ReqRow
BY DEF NewReq, ReqRow

\* The steps of a task keep the types of its record and its request.
LEMMA ChargeTasks == ASSUME Types, NEW t \in Task, Charge(t) PROVE TasksOK'
<1> USE DEF Types
<1>0. /\ task[t] \in TaskRow /\ req[t] \in {IdleReq} \cup ReqRow /\ seen[t] \in Hash \cup {NoHash}
      /\ IdleReq.at = "idle"
      /\ \A h \in Hash : /\ [st |-> "initializing", owner |-> h, born |-> h] \in TaskRow
                         /\ [st |-> "live", owner |-> h, born |-> h] \in TaskRow
  BY DEF TasksOK, TaskRow, IdleReq
<1>1. \A st \in {"none", "live", "success", "failed", "settled", "deleted"} :
        /\ [task[t] EXCEPT !.st = st] \in TaskRow
        /\ [task EXCEPT ![t].st = st] = [task EXCEPT ![t] = [task[t] EXCEPT !.st = st]]
  BY <1>0 DEF TasksOK, TaskRow
<1>2. \A u \in User : HasRow(u) => usr[u].hash \in Hash
  BY SignedInRows
<1>3. ASSUME NEW u \in User, CreateTask(t, u) \/ ResumeTask(t, u) \/ CreateChatTask(t, u)
      PROVE  TasksOK'
  <2>1. usr[u].hash \in Hash
    BY <1>2, <1>3 DEF CreateTask, ResumeTask, CreateChatTask, SignedIn
  <2>2. NewReq("price", usr[u].hash, {}) \in ReqRow
    BY <2>1, NewReqType
  <2>3. CASE CreateTask(t, u)
    BY <2>1, <2>2, <2>3, <1>0, TaskWrite DEF CreateTask
  <2>4. CASE ResumeTask(t, u)
    BY <2>1, <2>2, <2>4, <1>0, TaskWrite DEF ResumeTask
  <2>5. CASE CreateChatTask(t, u)
    BY <2>1, <2>5, <1>0, TaskWrite DEF CreateChatTask
  <2> QED BY <1>3, <2>3, <2>4, <2>5
<1>4. ASSUME NEW old \in Task, RetryTask(t, old) PROVE TasksOK'
  <2>1. task[old].owner \in Hash
    BY <1>4 DEF RetryTask, IsThere
  <2>2. (IF task[old].st = "success" THEN {} ELSE {old}) \in SUBSET Task
    OBVIOUS
  <2>3. NewReq("retry", task[old].owner, IF task[old].st = "success" THEN {} ELSE {old}) \in ReqRow
    BY <2>1, <2>2, NewReqType
  <2> QED BY <1>0, <1>4, <2>3, TaskWrite DEF RetryTask
<1>5. CASE CreateRetry(t)
  <2>1. req[t] \in ReqRow /\ req[t].hash \in Hash
    BY <1>5, ReqActive DEF CreateRetry, ReqRow
  <2> QED BY <1>0, <1>5, <2>1, ReqStep, TaskWrite DEF CreateRetry
<1>6. CASE DropOriginal(t)
  <2>1. task' \in [Task -> TaskRow]
    BY <1>6 DEF DropOriginal, TasksOK, TaskRow
  <2> QED BY <1>6, <2>1 DEF DropOriginal, TasksOK
<1>7. CASE ReadPrice(t)
  <2>1. Cost(req[t].hash) \in Nat
    BY CostType
  <2> QED BY <1>0, <1>7, <2>1, ReqStep, TaskWrite DEF ReadPrice
<1>8. CASE ReserveQuota(t) \/ QuotaExceeded(t) \/ CreationFails(t) \/ RefundCreation(t)
  BY <1>0, <1>8, ReqStep, TaskWrite DEF ReserveQuota, QuotaExceeded, CreationFails, RefundCreation
<1>9. CASE FinalizeTask(t)
  <2>1. \/ req' = [req EXCEPT ![t] = IdleReq]
        \/ req' = [req EXCEPT ![t] = [req[t] EXCEPT !.at = "drop"]]
    BY <1>9 DEF FinalizeTask, TasksOK
  <2>2. [req[t] EXCEPT !.at = "drop"] \in ReqRow
    BY <1>9, ReqStep DEF FinalizeTask
  <2>3. task' = [task EXCEPT ![t] = [task[t] EXCEPT !.st = "live"]] /\ seen' = seen
    BY <1>1, <1>9 DEF FinalizeTask
  <2> QED BY <1>0, <1>1, <2>1, <2>2, <2>3, TaskWrite
<1>10. CASE DeleteCreation(t)
  <2> DEFINE v == [task[t] EXCEPT !.st = "none", !.owner = NoHash]
  <2>1. task' = [task EXCEPT ![t] = v]
    BY <1>0, <1>10 DEF DeleteCreation, TasksOK, TaskRow
  <2>2. v \in TaskRow
    BY <1>0 DEF TaskRow
  <2> QED BY <1>0, <1>10, <2>1, <2>2, TaskWrite DEF DeleteCreation
<1>11. CASE CleanUpFails(t)
  BY <1>0, <1>11, TaskWrite DEF CleanUpFails
<1>12. CASE ReadOwner(t)
  <2>1. task[t].owner \in Hash \cup {NoHash}
    BY <1>0 DEF TaskRow
  <2> QED BY <1>0, <1>12, <2>1, TaskWrite DEF ReadOwner
<1>13. ASSUME NEW st \in {"failed", "success"}, EndTask(t, st) PROVE TasksOK'
  BY <1>0, <1>1, <1>13, TaskWrite DEF EndTask
<1>14. CASE RefundEnded(t)
  <2>1. /\ task' = task \/ task' = [task EXCEPT ![t] = [task[t] EXCEPT !.st = "settled"]]
        /\ req' = req /\ seen' = [seen EXCEPT ![t] = NoHash]
    <3>1. CASE task[t].st = "failed"
      BY <1>0, <1>14, <3>1 DEF RefundEnded, TasksOK, TaskRow
    <3>2. CASE task[t].st # "failed"
      BY <1>0, <1>14, <3>2 DEF RefundEnded, TasksOK, TaskRow
    <3> QED BY <3>1, <3>2
  <2> QED BY <1>0, <1>1, <2>1, TaskWrite
<1>15. CASE RefundLost(t)
  BY <1>0, <1>15, TaskWrite DEF RefundLost
<1>16. CASE CleanUpTask(t)
  BY <1>0, <1>1, <1>16, TaskWrite DEF CleanUpTask
<1> QED BY <1>3, <1>4, <1>5, <1>6, <1>7, <1>8, <1>9, <1>10, <1>11, <1>12, <1>13, <1>14, <1>15, <1>16
        DEF Charge

LEMMA ChargeTypes == ASSUME Types, NEW t \in Task, Charge(t) PROVE Types'
<1> USE DEF Types
<1>1. UNCHANGED <<minted, usr, card, op, up, paid, spent, credited>>
  BY ChargeFrame
<1>2. LedgerOK'
  BY <1>1, ChargeLedger, SameLedger, RowKept DEF ledger
<1>3. \A g : IsThere(g)' <=> IsThere(g)
  BY ChargeLedger DEF RowChange, IsThere
<1> QED BY <1>1, <1>2, <1>3, ChargeTasks, SameUsers, SameRest, SameOp

LEMMA OtherTypes ==
  ASSUME Types,
         \/ \E h \in Hash : DeleteTempToken(h)
         \/ \E c \in Card : GenerateCards(c) \/ DeleteCards(c)
         \/ ListUsers \/ Crash \/ StartUp
         \/ \E u \in User : RepairUserToken(u)
  PROVE  Types'
<1> USE DEF Types
<1>1. ASSUME NEW h \in Hash, DeleteTempToken(h) PROVE Types'
  <2>1. minted' = minted /\ op = Idle /\ op' = op /\ tok' = [tok EXCEPT ![h] = NoEntry]
    BY <1>1 DEF DeleteTempToken, Ready
  <2>2. LedgerOK'
    BY <2>1, RowDrop, LedgerGrows, HashFacts DEF LedgerOK
  <2> QED BY <1>1, <2>1, <2>2, SameUsers, SameTasks, SameRest, SameOp DEF DeleteTempToken
<1>2. ASSUME NEW c \in Card, GenerateCards(c) \/ DeleteCards(c) PROVE Types'
  <2>1. RestOK' /\ op = Idle /\ op' = op
    BY <1>2 DEF GenerateCards, DeleteCards, RestOK, Ready, ghosts
  <2> QED BY <1>2, <2>1, SameLedger, SameUsers, SameTasks, SameOp DEF GenerateCards, DeleteCards
<1>3. CASE ListUsers
  <2>1. UsersOK' /\ op = Idle /\ op' = op
    BY <1>3, SyncAllRows DEF ListUsers, Ready
  <2> QED BY <1>3, <2>1, SameLedger, SameTasks, SameRest, SameOp DEF ListUsers, ghosts
<1>4. CASE Crash
  <2>1. RestOK'
    BY <1>4 DEF Crash, RestOK
  <2>2. TasksOK'
    BY <1>4 DEF Crash, TasksOK
  <2> QED BY <1>4, <2>1, <2>2, SameLedger, SameUsers, IdleOp DEF Crash
<1>5. CASE StartUp
  <2>1. RestOK'
    <3>1. up' = TRUE /\ UNCHANGED <<card, credited, paid, spent>>
      BY <1>5 DEF StartUp, ghosts
    <3> QED BY <3>1 DEF RestOK
  <2>2. TasksOK'
    <3>1. task' \in [Task -> TaskRow] /\ seen' \in [Task -> Hash \cup {NoHash}] /\ req' = req
      BY <1>5 DEF StartUp, TasksOK, TaskRow
    <3> QED BY <3>1 DEF TasksOK
  <2> QED BY <1>5, <2>1, <2>2, SameLedger, SameUsers, SameOp DEF StartUp, ledger, IsThere
<1>6. ASSUME NEW u \in User, RepairUserToken(u) PROVE Types'
  <2>1. NewRow /\ usr[u].there /\ UserChange(u, minted + 1, usr[u].eff, usr[u].mem)
    BY <1>6, RepairRow
  <2>2. UNCHANGED <<taskVars, card, credited, paid, spent, up, op>>
    BY <1>6 DEF RepairUserToken
  <2>3. UsersOK'
    BY <2>1, UserChangeKeeps DEF UsersOK
  <2>4. LedgerOK'
    BY <2>1, LedgerGrows, HashFacts DEF NewRow, LedgerOK
  <2>5. OpOK'
    BY <2>1, <2>2, SameOp DEF NewRow, UserChange
  <2> QED BY <2>2, <2>3, <2>4, <2>5, SameTasks, SameRest
<1> QED BY <1>1, <1>2, <1>3, <1>4, <1>5, <1>6

LEMMA TypesInit == Init => Types
<1> SUFFICES ASSUME Init PROVE Types
  OBVIOUS
<1>1. LedgerOK
  BY HashFacts DEF Init, LedgerOK, Rows, IsThere
<1>2. UsersOK
  BY DEF Init, UsersOK, Users, NoUser
<1>3. TasksOK
  BY DEF Init, TasksOK, TaskRow, NoTask
<1>4. RestOK
  BY DEF Init, RestOK, Zero
<1>5. OpOK
  BY DEF Init, OpOK, Idle
<1> QED BY <1>1, <1>2, <1>3, <1>4, <1>5 DEF Types

LEMMA TypesStep == ASSUME Types, [Next]_vars PROVE Types'
<1>1. CASE UNCHANGED vars
  BY <1>1, SameLedger, SameUsers, SameTasks, SameRest, SameOp DEF Types, vars, ledger, taskVars, IsThere
<1> QED BY <1>1, AccountTypes, ContinueTypes, ChargeTypes, OtherTypes DEF Next

\* Every reachable state is well typed; no balance is overdrawn (Entry).
THEOREM WalletTypes == Spec => []Types
<1> QED BY TypesInit, TypesStep, PTL DEF Spec

-----------------------------------------------------------------------------
(* Cards.                                                                    *)

\* Between the two commits of a redemption the card is redeeming; whether it was
\* credited already is told by the step the operation is at.
CardInv ==
  /\ CardOnce
  /\ op.at = "redeem" => card[op.card] = "redeeming" /\ credited[op.card] = 0
  /\ op.at = "credited" => card[op.card] = "redeeming" /\ credited[op.card] = 1

\* Steps that touch no card and leave no redemption under way.
LEMMA CardFrame ==
  ASSUME CardInv, card' = card, credited' = credited,
         op' = op \/ op'.at \notin {"redeem", "credited"}
  PROVE  CardInv'
BY DEF CardInv, CardOnce

LEMMA AccountCards == ASSUME Types, CardInv, NEW u \in User, Account(u) PROVE CardInv'
<1>1. ASSUME NEW c \in Card, RedeemCard(u, c) PROVE CardInv'
  <2>1. /\ card \in [Card -> {"none", "unused", "redeeming", "redeemed", "deleted"}]
        /\ card[c] = "unused" /\ credited' = credited
    BY <1>1 DEF Types, RestOK, RedeemCard, CardUnused, ghosts
  <2>2. card' = [card EXCEPT ![c] = "redeeming"] /\ op'.at = "redeem" /\ op'.card = c
    BY <1>1 DEF RedeemCard
  <2> QED BY <2>1, <2>2 DEF CardInv, CardOnce
<1>2. ASSUME ~\E c \in Card : RedeemCard(u, c)
      PROVE  /\ card' = card /\ credited' = credited
             /\ op' = op \/ op'.at \notin {"redeem", "credited"}
  BY <1>2, SMTT(30) DEF Account, RegisterToken, DeleteUser, SyncUserMembership, Tick, RotateUserToken,
              ChangeUserPassword, ResetUserPassword, RotateTempToken, PurchaseMembership,
              SetUserConcurrency, UsersAddPoints, UsersDeductPoints, AddUserPoints,
              DeductUserPoints, AdjustUserVideoQuota, SetModelDiscounts, SetUserEnabled,
              SetTempBillingPriority, ghosts, Idle
<1> QED BY <1>1, <1>2, CardFrame

LEMMA ContinueCards == ASSUME Types, CardInv, Continue PROVE CardInv'
<1> DEFINE c == op.card
<1>0. /\ card \in [Card -> {"none", "unused", "redeeming", "redeemed", "deleted"}]
      /\ credited \in [Card -> Nat]
      /\ op.at \in {"redeem", "credited"} => c \in Card
  BY DEF Types, RestOK, OpOK
<1>1. CASE CreditCard
  <2>1. /\ card' = card /\ credited' = [credited EXCEPT ![c] = credited[c] + 1]
        /\ op.at = "redeem" /\ op' = [at |-> "credited", card |-> c]
    BY <1>1 DEF CreditCard
  <2> QED BY <1>0, <2>1 DEF CardInv, CardOnce
<1>2. CASE CreditFails
  <2>1. /\ card' = [card EXCEPT ![c] = "unused"] /\ credited' = credited
        /\ op.at = "redeem" /\ op'.at = "idle"
    BY <1>2 DEF CreditFails, ghosts, Idle
  <2> QED BY <1>0, <2>1 DEF CardInv, CardOnce
<1>3. CASE CloseCard
  <2>1. /\ card' = [card EXCEPT ![c] = "redeemed"] /\ credited' = credited
        /\ op.at = "credited" /\ op'.at = "idle"
    BY <1>3 DEF CloseCard, ghosts, Idle
  <2> QED BY <1>0, <2>1 DEF CardInv, CardOnce
<1>4. ASSUME NEW t \in Task, MigrateTaskOwner(t)
      PROVE  card' = card /\ credited' = credited /\ op'.at \notin {"redeem", "credited"}
  <2>1. op'.at \in {"idle", "migrate"}
    BY <1>4 DEF MigrateTaskOwner, Idle, Types, OpOK
  <2> QED BY <1>4, <2>1 DEF MigrateTaskOwner, ghosts
<1>5. ASSUME RegisterUser \/ DeleteUserToken \/ RotateUser \/ ListOwnedTasks \/ LimitPurchased
               \/ WriteUser \/ SyncToken
      PROVE  card' = card /\ credited' = credited /\ op'.at \notin {"redeem", "credited"}
  <2>1. CASE RotateUser
    <3>1. op \in [at : {"rotated", "list"}, user : User, old : Hash, hash : Hash]
      BY <2>1 DEF RotateUser, Types, OpOK
    <3>2. op'.at = "list"
      BY <2>1, <3>1 DEF RotateUser
    <3> QED BY <2>1, <3>2 DEF RotateUser, ghosts
  <2> QED BY <1>5, <2>1 DEF RegisterUser, DeleteUserToken, ListOwnedTasks, LimitPurchased,
                            WriteUser, SyncToken, ghosts, Idle
<1> QED BY <1>1, <1>2, <1>3, <1>4, <1>5, CardFrame DEF Continue

LEMMA OtherCards ==
  ASSUME Types, CardInv,
         \/ \E h \in Hash : DeleteTempToken(h)
         \/ \E c \in Card : GenerateCards(c) \/ DeleteCards(c)
         \/ ListUsers \/ Crash \/ StartUp
         \/ \E u \in User : RepairUserToken(u)
  PROVE  CardInv'
<1>1. ASSUME NEW c \in Card, GenerateCards(c) \/ DeleteCards(c) PROVE CardInv'
  <2>1. /\ card \in [Card -> {"none", "unused", "redeeming", "redeemed", "deleted"}]
        /\ credited' = credited /\ op' = op /\ op.at = "idle"
    BY <1>1 DEF Types, RestOK, GenerateCards, DeleteCards, Ready, Idle, ghosts
  <2>2. \/ card[c] = "none" /\ card' = [card EXCEPT ![c] = "unused"]
        \/ card' = [card EXCEPT ![c] = "deleted"]
    BY <1>1 DEF GenerateCards, DeleteCards
  <2> QED BY <2>1, <2>2 DEF CardInv, CardOnce
<1>2. ASSUME NEW h \in Hash, DeleteTempToken(h) PROVE CardInv'
  BY <1>2, CardFrame DEF DeleteTempToken
<1>3. CASE ListUsers
  BY <1>3, CardFrame DEF ListUsers, ghosts
<1>4. CASE Crash
  BY <1>4, CardFrame DEF Crash, Idle
<1>5. CASE StartUp
  BY <1>5, CardFrame DEF StartUp, ghosts
<1>6. ASSUME NEW u \in User, RepairUserToken(u) PROVE CardInv'
  BY <1>6, CardFrame DEF RepairUserToken
<1> QED BY <1>1, <1>2, <1>3, <1>4, <1>5, <1>6

LEMMA CardStep == ASSUME Types, CardInv, [Next]_vars PROVE CardInv'
<1>1. ASSUME NEW t \in Task, Charge(t) PROVE CardInv'
  BY <1>1, ChargeFrame, CardFrame
<1>2. CASE UNCHANGED vars
  BY <1>2, CardFrame DEF vars
<1> QED BY <1>1, <1>2, AccountCards, ContinueCards, OtherCards DEF Next

\* A card is credited once at most, and never while it can still be redeemed,
\* whatever fails or crashes between the two commits of a redemption.
THEOREM CardsOnce == Spec => []CardOnce
<1>1. Init => CardInv
  BY DEF Init, CardInv, CardOnce, Idle
<1>2. Types /\ CardInv /\ [Next]_vars => CardInv'
  BY CardStep
<1>3. CardInv => CardOnce
  BY DEF CardInv
<1> QED BY <1>1, <1>2, <1>3, WalletTypes, PTL DEF Spec

-----------------------------------------------------------------------------
(* The time of memberships.                                                  *)

TimeOf(ms, u) == \A p \in Package : Remaining(ms[p]) + spent[u][p] = paid[u][p]

NewTime(ms, u) == \A p \in Package : Remaining(ms[p]) + spent'[u][p] = paid'[u][p]

\* An operation is about to write this user's memberships.
Due(u) == op.at \in {"bought", "limited"} /\ op.user = u

\* Between the first commit of a purchase and the last the user row lags: what was
\* paid for is in the memberships that the operation is about to write.
TimeInv ==
  /\ \A u \in User : usr[u].there /\ <<u, "member">> \notin cut /\ ~Due(u) => TimeOf(usr[u].mem, u)
  /\ op.at \in {"bought", "limited"} /\ <<op.user, "member">> \notin cut => TimeOf(op.mem, op.user)

\* The memberships that a crash cut off stay marked.
CutStays == \A u \in User : <<u, "member">> \in cut => <<u, "member">> \in cut'

LEMMA TimeFrame ==
  ASSUME Types, TimeInv, UNCHANGED <<paid, spent>>, CutStays,
         op.at \notin {"bought", "limited"}, op'.at \notin {"bought", "limited"},
         \A u \in User : usr'[u].there =>
           /\ usr[u].there
           /\ \A p \in Package : Remaining(usr'[u].mem[p]) = Remaining(usr[u].mem[p])
  PROVE  TimeInv'
BY DEF TimeInv, TimeOf, Due, CutStays

\* Steps that touch neither the user rows nor the operation under way.
LEMMA TimeStill ==
  ASSUME Types, TimeInv, UNCHANGED <<paid, spent, usr, op>>, CutStays PROVE TimeInv'
<1>1. op.at \in {"bought", "limited"} => op.user \in User
  BY DEF Types, OpOK
<1> QED BY <1>1 DEF TimeInv, TimeOf, Due, CutStays

\* One user's row is written, and the time in it stays.
LEMMA TimeRow ==
  ASSUME Types, TimeInv, UNCHANGED <<paid, spent>>, CutStays,
         op.at \notin {"bought", "limited"}, op'.at \notin {"bought", "limited"},
         NEW u \in User, usr[u].there, NEW hash, NEW eff, NEW mem, UserChange(u, hash, eff, mem),
         \A p \in Package : Remaining(mem[p]) = Remaining(usr[u].mem[p])
  PROVE  TimeInv'
<1>1. \A v \in User : usr'[v].there =>
        /\ usr[v].there
        /\ \A p \in Package : Remaining(usr'[v].mem[p]) = Remaining(usr[v].mem[p])
  BY DEF UserChange
<1> QED BY <1>1, TimeFrame

LEMMA TimeList ==
  ASSUME Types, TimeInv, UNCHANGED <<paid, spent>>, CutStays, usr' = SyncAll,
         op.at \notin {"bought", "limited"}, op'.at \notin {"bought", "limited"}
  PROVE  TimeInv'
<1>1. ASSUME NEW u \in User, usr'[u].there
      PROVE  /\ usr[u].there
             /\ \A p \in Package : Remaining(usr'[u].mem[p]) = Remaining(usr[u].mem[p])
  <2>1. usr[u].there /\ usr'[u].mem = SyncMembershipState(usr[u].mem)
    BY <1>1, SyncAllRows
  <2>2. Sound(usr[u].mem)
    BY <2>1 DEF Types, UsersOK
  <2> QED BY <2>1, <2>2, SyncKeeps
<1> QED BY <1>1, TimeFrame

\* The clock takes from the membership what it adds to the time spent.
LEMMA TickTime == ASSUME Types, TimeInv, NEW u \in User, Tick(u) PROVE TimeInv'
<1>1. PICK p \in ActivePackages(usr[u].mem) :
        /\ usr[u].there /\ Sound(usr[u].mem)
        /\ usr[u].mem[p].run < usr[u].mem[p].left
        /\ UserChange(u, usr[u].hash, usr[u].eff, [usr[u].mem EXCEPT ![p].run = @ + 1])
        /\ spent' = [spent EXCEPT ![u][p] = @ + 1]
  BY TickRow
<1> DEFINE ms == usr[u].mem
           new == [ms EXCEPT ![p].run = @ + 1]
<1>2. /\ Remaining(new[p]) + 1 = Remaining(ms[p])
      /\ \A q \in Package \ {p} : new[q] = ms[q]
  BY <1>1, RunKeeps
<1>3. p \in Package /\ new \in Mems /\ \A q \in Package : Remaining(ms[q]) \in Nat
  BY <1>1, RunKeeps, RemainingType DEF ActivePackages, Sound, Mems
<1>4. Remaining(new[p]) \in Nat
  BY <1>3, RemainingType DEF Mems
<1>5. usr'[u].mem = new /\ \A v \in User \ {u} : usr'[v] = usr[v]
  BY <1>1 DEF UserChange
<1> HIDE DEF new
<1>6. /\ op' = op /\ op.at \notin {"bought", "limited"} /\ cut' = cut /\ paid' = paid
      /\ spent \in [User -> [Package -> Nat]] /\ paid \in [User -> [Package -> Nat]]
  BY DEF Tick, Types, RestOK
<1>7. ASSUME <<u, "member">> \notin cut PROVE NewTime(usr'[u].mem, u)
  <2>1. TimeOf(ms, u)
    BY <1>1, <1>6, <1>7 DEF TimeInv, Due
  <2>2. spent'[u][p] = spent[u][p] + 1 /\ \A q \in Package \ {p} : spent'[u][q] = spent[u][q]
    BY <1>1, <1>3, <1>6
  <2>3. Remaining(new[p]) + spent'[u][p] = paid'[u][p]
    <3>1. Remaining(ms[p]) + spent[u][p] = paid[u][p] /\ spent[u][p] \in Nat
      BY <1>3, <1>6, <2>1 DEF TimeOf
    <3> QED BY <1>2, <1>3, <1>4, <1>6, <2>2, <3>1
  <2>4. \A q \in Package \ {p} : Remaining(new[q]) + spent'[u][q] = paid'[u][q]
    BY <1>2, <1>6, <2>1, <2>2 DEF TimeOf
  <2> QED BY <1>5, <2>3, <2>4 DEF NewTime
<1>8. ASSUME NEW v \in User \ {u}, usr'[v].there, <<v, "member">> \notin cut PROVE NewTime(usr'[v].mem, v)
  <2>1. TimeOf(usr[v].mem, v) /\ usr'[v] = usr[v]
    BY <1>5, <1>6, <1>8 DEF TimeInv, Due
  <2>2. spent'[v] = spent[v]
    BY <1>1, <1>6
  <2> QED BY <1>6, <2>1, <2>2 DEF TimeOf, NewTime
<1> QED BY <1>6, <1>7, <1>8 DEF TimeInv, TimeOf, NewTime

LEMMA AccountTime == ASSUME Types, TimeInv, NEW u \in User, Account(u) PROVE TimeInv'
<1>0. op = Idle => op.at \notin {"bought", "limited"}
  BY DEF Idle
<1>1. CASE RegisterToken(u) \/ RotateTempToken(u)
            \/ (\E c \in Card : RedeemCard(u, c))
            \/ (\E f \in {"video", "points"} : SetTempBillingPriority(u, f))
  <2>1. /\ UNCHANGED <<paid, spent, cut, usr>> /\ op = Idle
        /\ op' = op \/ op'.at \in {"register", "rotated", "redeem"}
    BY <1>1 DEF RegisterToken, RotateTempToken, RedeemCard, SetTempBillingPriority, Ready, ghosts
  <2> QED BY <1>0, <2>1, TimeFrame DEF CutStays
<1>2. CASE DeleteUser(u)
  <2>1. UNCHANGED <<paid, spent, cut>> /\ op = Idle /\ op'.at = "unregister"
    BY <1>2 DEF DeleteUser, Ready, ghosts
  <2>2. \A v \in User : usr'[v].there => usr[v].there /\ usr'[v] = usr[v]
    BY <1>2, DeleteUserRow
  <2> QED BY <1>0, <2>1, <2>2, TimeFrame DEF CutStays
<1>3. CASE SyncUserMembership(u)
  <2> DEFINE ms == SyncMembershipState(usr[u].mem)
  <2>1. /\ op = Idle /\ op'.at \in {"idle", "synced"}
        /\ UNCHANGED <<paid, spent>> /\ cut' \in {cut, cut \ {<<u, "slots">>}} /\ HasRow(u)
    BY <1>3 DEF SyncUserMembership, SignedIn, Ready, Idle
  <2>2. UserChange(u, usr[u].hash, EffectiveConcurrency(ms, usr[u].base), ms)
    BY <1>3, SyncUserRowChange
  <2>3. usr[u].there /\ \A p \in Package : Remaining(ms[p]) = Remaining(usr[u].mem[p])
    BY <2>1, SignedInRows, SyncKeeps
  <2>4. CutStays
    BY <2>1 DEF CutStays
  <2> QED BY <1>0, <2>1, <2>2, <2>3, <2>4, TimeRow
<1>4. CASE Tick(u)
  BY <1>4, TickTime
<1>5. ASSUME NEW p \in Package, PurchaseMembership(u, p) PROVE TimeInv'
  <2> DEFINE ms == SyncMembershipState(usr[u].mem)
             new == SyncMembershipState(Bought(ms, p))
  <2>1. /\ op = Idle /\ cut' = cut /\ spent' = spent /\ usr' = usr
        /\ paid' = [paid EXCEPT ![u][p] = @ + Days[p]]
        /\ op'.at = "bought" /\ op'.user = u /\ op'.mem = new /\ MayPurchase(ms, p)
    BY <1>5 DEF PurchaseMembership, Ready
  <2>2. usr[u].there /\ Sound(usr[u].mem)
    BY <1>5, PurchaseRow
  <2>3. Sound(ms) /\ \A q \in Package : Remaining(ms[q]) = Remaining(usr[u].mem[q])
    BY <2>2, SyncKeeps
  <2>4. /\ \A q \in Package : Remaining(new[q]) = Remaining(Bought(ms, p)[q])
        /\ Remaining(Bought(ms, p)[p]) = Remaining(ms[p]) + Days[p]
        /\ \A q \in Package \ {p} : Remaining(Bought(ms, p)[q]) = Remaining(ms[q])
    BY <2>1, <2>3, SyncKeeps, BuyAdds
  <2>5. /\ Days[p] \in Nat /\ paid \in [User -> [Package -> Nat]] /\ spent \in [User -> [Package -> Nat]]
        /\ Remaining(ms[p]) \in Nat
    BY <2>3, MembershipConstants, RemainingType DEF Types, RestOK, Sound, Mems
  <2>6. /\ paid'[u][p] = paid[u][p] + Days[p]
        /\ \A q \in Package \ {p} : paid'[u][q] = paid[u][q]
        /\ \A v \in User \ {u} : paid'[v] = paid[v]
    BY <2>1, <2>5
  <2> HIDE DEF ms, new
  <2>7. ASSUME <<u, "member">> \notin cut PROVE NewTime(new, u)
    <3>1. TimeOf(usr[u].mem, u)
      BY <1>0, <2>1, <2>2, <2>7 DEF TimeInv, Due
    <3>2. Remaining(ms[p]) + spent[u][p] = paid[u][p] /\ spent[u][p] \in Nat
      BY <2>3, <2>5, <3>1 DEF TimeOf
    <3>3. Remaining(new[p]) + spent[u][p] = paid'[u][p]
      BY <2>4, <2>5, <2>6, <3>2
    <3>4. \A q \in Package \ {p} : Remaining(new[q]) + spent[u][q] = paid'[u][q]
      BY <2>3, <2>4, <2>6, <3>1 DEF TimeOf
    <3> QED BY <2>1, <3>3, <3>4 DEF NewTime
  <2>8. ASSUME NEW v \in User \ {u}, usr[v].there, <<v, "member">> \notin cut
        PROVE  NewTime(usr[v].mem, v)
    <3>1. TimeOf(usr[v].mem, v)
      BY <1>0, <2>1, <2>8 DEF TimeInv, Due
    <3> QED BY <2>1, <2>6, <3>1 DEF TimeOf, NewTime
  <2> QED BY <2>1, <2>7, <2>8 DEF TimeInv, Due, TimeOf, NewTime
<1>6. ASSUME NEW n \in Limits, SetUserConcurrency(u, n) PROVE TimeInv'
  <2> DEFINE ms == SyncMembershipState(usr[u].mem)
             new == SetSlots(ms, n)
  <2>1. /\ op = Idle /\ cut' = cut /\ spent' = spent /\ paid' = paid /\ usr' = usr
        /\ op'.at = "limited" /\ op'.user = u /\ op'.mem = new
    BY <1>6 DEF SetUserConcurrency, Ready, ghosts
  <2>2. usr[u].there /\ Sound(usr[u].mem) /\ n \in Nat
    BY <1>6, SetLimitRow
  <2>3. \A q \in Package : Remaining(new[q]) = Remaining(usr[u].mem[q])
    BY <2>2, SyncKeeps, SlotsKeep
  <2> HIDE DEF new
  <2> QED BY <1>0, <2>1, <2>2, <2>3 DEF TimeInv, TimeOf, Due
<1>7. ASSUME NEW n \in Amount, UsersAddPoints(u, n) \/ UsersDeductPoints(u, n) PROVE TimeInv'
  <2>1. UNCHANGED <<paid, spent, cut, op>> /\ op = Idle /\ usr' = SyncAll
    BY <1>7 DEF UsersAddPoints, UsersDeductPoints, AddUserPoints, DeductUserPoints,
                AdjustUserVideoQuota, Ready
  <2> QED BY <1>0, <2>1, TimeList DEF CutStays
<1>8. CASE SetUserEnabled(u) \/ \E n \in Amount : SetModelDiscounts(u, n)
  <2>1. UNCHANGED <<paid, spent, cut, op>> /\ op = Idle
    BY <1>8 DEF SetUserEnabled, SetModelDiscounts, Ready, ghosts
  <2>2. usr[u].there /\ UserChange(u, usr[u].hash, usr[u].eff, usr[u].mem)
    BY <1>8, SwitchRow
  <2> QED BY <1>0, <2>1, <2>2, TimeRow DEF CutStays
<1>9. CASE RotateUserToken(u) \/ ChangeUserPassword(u) \/ ResetUserPassword(u)
  BY <1>1, <1>9 DEF RotateUserToken, ChangeUserPassword, ResetUserPassword
<1> QED BY <1>1, <1>2, <1>3, <1>4, <1>5, <1>6, <1>7, <1>8, <1>9 DEF Account

LEMMA ContinueTime == ASSUME Types, TimeInv, Continue PROVE TimeInv'
<1>1. CASE RegisterUser
  <2> DEFINE u == op.user
             none == [p \in Package |-> NoMembership]
  <2>1. /\ op.at = "register" /\ op'.at = "idle"
        /\ paid' = [paid EXCEPT ![u] = Zero] /\ spent' = [spent EXCEPT ![u] = Zero]
        /\ cut' = cut \ ({u} \X {"wallet", "member", "slots"})
    BY <1>1 DEF RegisterUser, Idle
  <2>2. u \in User /\ UserChange(u, op.hash, 1, none)
    BY <1>1, RegisterUserRow
  <2>3. paid'[u] = Zero /\ spent'[u] = Zero
        /\ \A v \in User \ {u} : paid'[v] = paid[v] /\ spent'[v] = spent[v]
    BY <2>1, <2>2 DEF Types, RestOK
  <2>4. \A p \in Package : Remaining(none[p]) + Zero[p] = Zero[p]
    BY DEF Remaining, NoMembership, Zero
  <2>5. NewTime(usr'[u].mem, u)
    BY <2>2, <2>3, <2>4 DEF NewTime, UserChange
  <2>6. ASSUME NEW v \in User \ {u}, usr'[v].there, <<v, "member">> \notin cut'
        PROVE  NewTime(usr'[v].mem, v)
    <3>1. usr'[v] = usr[v] /\ <<v, "member">> \notin cut
      BY <2>1, <2>2, <2>6 DEF UserChange
    <3>2. TimeOf(usr[v].mem, v)
      BY <2>1, <2>6, <3>1 DEF TimeInv, Due
    <3> QED BY <2>3, <3>1, <3>2 DEF TimeOf, NewTime
  <2> QED BY <2>1, <2>5, <2>6 DEF TimeInv, TimeOf, NewTime
<1>2. CASE DeleteUserToken \/ ListOwnedTasks \/ CreditCard \/ CreditFails \/ CloseCard \/ SyncToken
  <2>1. /\ UNCHANGED <<paid, spent, usr>>
        /\ op.at \notin {"bought", "limited"} /\ op'.at \notin {"bought", "limited"}
    BY <1>2 DEF DeleteUserToken, ListOwnedTasks, CreditCard, CreditFails, CloseCard, SyncToken, ghosts, Idle
  <2>2. CutStays
    BY <1>2 DEF DeleteUserToken, ListOwnedTasks, CreditCard, CreditFails, CloseCard, SyncToken, ghosts, CutStays
  <2> QED BY <2>1, <2>2, TimeFrame
<1>3. CASE RotateUser
  <2>1. UNCHANGED <<paid, spent, cut>> /\ op.at = "rotated"
    BY <1>3 DEF RotateUser, ghosts
  <2>2. op \in [at : {"rotated", "list"}, user : User, old : Hash, hash : Hash]
    BY <2>1 DEF Types, OpOK
  <2>3. op'.at = "list"
    BY <1>3, <2>2 DEF RotateUser
  <2>4. op.user \in User /\ UserChange(op.user, op.hash, usr[op.user].eff, usr[op.user].mem)
    BY <1>3, RotateUserRow
  <2>5. usr[op.user].there
    BY <2>1 DEF Types, OpOK
  <2> QED BY <2>1, <2>3, <2>4, <2>5, TimeRow DEF CutStays
<1>4. ASSUME NEW t \in Task, MigrateTaskOwner(t) PROVE TimeInv'
  <2>1. UNCHANGED <<paid, spent, cut, usr>> /\ op.at = "migrate"
    BY <1>4 DEF MigrateTaskOwner, ghosts
  <2>2. op'.at \in {"idle", "migrate"}
    BY <1>4 DEF MigrateTaskOwner, Idle, Types, OpOK
  <2> QED BY <2>1, <2>2, TimeFrame DEF CutStays
<1>5. CASE LimitPurchased
  <2>1. /\ UNCHANGED <<paid, spent, cut, usr>> /\ op.at = "bought"
        /\ op'.at = "limited" /\ op'.user = op.user /\ op'.mem = op.mem
    BY <1>5 DEF LimitPurchased, ghosts
  <2> QED BY <2>1 DEF TimeInv, TimeOf, Due
<1>6. CASE WriteUser
  <2>1. /\ UNCHANGED <<paid, spent>> /\ cut' = cut \ {<<op.user, "slots">>}
        /\ op.at = "limited" /\ op'.at = "idle"
    BY <1>6 DEF WriteUser, Idle
  <2>2. op.user \in User /\ UserChange(op.user, usr[op.user].hash, op.eff, op.mem)
    BY <1>6, WriteUserRow
  <2>3. \A v \in User : <<v, "member">> \in cut => <<v, "member">> \in cut'
    BY <2>1
  <2> QED BY <2>1, <2>2, <2>3 DEF TimeInv, TimeOf, Due, UserChange
<1> QED BY <1>1, <1>2, <1>3, <1>4, <1>5, <1>6 DEF Continue

LEMMA OtherTime ==
  ASSUME Types, TimeInv,
         \/ \E h \in Hash : DeleteTempToken(h)
         \/ \E c \in Card : GenerateCards(c) \/ DeleteCards(c)
         \/ ListUsers \/ Crash \/ StartUp
         \/ \E u \in User : RepairUserToken(u)
  PROVE  TimeInv'
<1>0. op = Idle => op.at \notin {"bought", "limited"}
  BY DEF Idle
<1>1. ASSUME NEW h \in Hash, DeleteTempToken(h) PROVE TimeInv'
  BY <1>1, TimeStill DEF DeleteTempToken, CutStays
<1>2. ASSUME NEW c \in Card, GenerateCards(c) \/ DeleteCards(c) PROVE TimeInv'
  BY <1>2, TimeStill DEF GenerateCards, DeleteCards, ghosts, CutStays
<1>3. CASE ListUsers
  BY <1>0, <1>3, TimeList DEF ListUsers, Ready, ghosts, CutStays
<1>4. CASE Crash
  <2>1. UNCHANGED <<paid, spent, usr>> /\ op'.at = "idle" /\ cut' = cut \cup CutOff
    BY <1>4 DEF Crash, Idle
  <2>2. op.at \in {"bought", "limited"} => <<op.user, "member">> \in cut'
    BY <2>1 DEF CutOff
  <2> QED BY <2>1, <2>2 DEF TimeInv, TimeOf, Due
<1>5. CASE StartUp
  BY <1>5, TimeStill DEF StartUp, ghosts, CutStays
<1>6. ASSUME NEW u \in User, RepairUserToken(u) PROVE TimeInv'
  <2>1. UNCHANGED <<paid, spent, op>>
    BY <1>6 DEF RepairUserToken
  <2>2. /\ usr[u].there /\ UserChange(u, minted + 1, usr[u].eff, usr[u].mem)
        /\ cut' = (cut \ {<<u, "wallet">>}) \cup {<<u, "slots">>}
    BY <1>6, RepairRow
  <2>3. CutStays
    BY <2>2 DEF CutStays
  <2>4. \A v \in User : usr'[v].there => usr[v].there /\ usr'[v].mem = usr[v].mem
    BY <2>2 DEF UserChange
  <2>5. op.at \in {"bought", "limited"} => op.user \in User
    BY DEF Types, OpOK
  <2> QED BY <2>1, <2>3, <2>4, <2>5 DEF TimeInv, TimeOf, Due, CutStays
<1> QED BY <1>1, <1>2, <1>3, <1>4, <1>5, <1>6

\* A step of a task adds to what was cut off only.
LEMMA ChargeCut == ASSUME NEW t \in Task, Charge(t) PROVE cut \subseteq cut'
<1>1. CASE RefundCreation(t)
  BY <1>1 DEF RefundCreation
<1>2. CASE ~RefundCreation(t)
  <2>1. cut' = cut
    BY <1>2 DEF Charge, CreateTask, ResumeTask, CreateChatTask, RetryTask, CreateRetry, DropOriginal,
                ReadPrice, ReserveQuota, QuotaExceeded, FinalizeTask, CreationFails, DeleteCreation,
                CleanUpFails, ReadOwner, RefundEnded, RefundLost, CleanUpTask, EndTask, ghosts
  <2> QED BY <2>1
<1> QED BY <1>1, <1>2

LEMMA TimeStep == ASSUME Types, TimeInv, [Next]_vars PROVE TimeInv'
<1>1. ASSUME NEW t \in Task, Charge(t) PROVE TimeInv'
  BY <1>1, ChargeFrame, ChargeCut, TimeStill DEF CutStays
<1>2. CASE UNCHANGED vars
  BY <1>2, TimeStill DEF vars, CutStays
<1> QED BY <1>1, <1>2, AccountTime, ContinueTime, OtherTime DEF Next

\* The membership that is active is the only one.
LEMMA OneActive ==
  ASSUME NEW ms, Single(ms) PROVE Cardinality(ActivePackages(ms)) <= 1
<1>1. CASE ActivePackages(ms) = {}
  BY <1>1, FS_EmptySet
<1>2. ASSUME NEW p \in ActivePackages(ms) PROVE Cardinality(ActivePackages(ms)) <= 1
  <2>1. ActivePackages(ms) = {p}
    BY <1>2 DEF ActivePackages, Single
  <2> QED BY <2>1, FS_Singleton
<1> QED BY <1>1, <1>2

\* The time of a membership that was paid for ran off or is still there, and one
\* membership at most is active, unless a crash lost the purchase.
THEOREM PaidTimeKept == Spec => []TimeKept
<1>1. Init => TimeInv
  BY DEF Init, TimeInv, NoUser, Idle
<1>2. Types /\ TimeInv /\ [Next]_vars => TimeInv'
  BY TimeStep
<1>3. Types /\ TimeInv => TimeKept
  <2> SUFFICES ASSUME Types, TimeInv, NEW u \in User, usr[u].there
               PROVE  /\ Cardinality(ActivePackages(usr[u].mem)) <= 1
                      /\ <<u, "member">> \notin cut /\ op.at \notin {"bought", "limited"} =>
                           TimeOf(usr[u].mem, u)
    BY DEF TimeKept, TimeOf
  <2>1. Single(usr[u].mem)
    BY DEF Types, UsersOK, Sound
  <2> QED BY <2>1, OneActive DEF TimeInv, Due
<1> QED BY <1>1, <1>2, <1>3, WalletTypes, PTL DEF Spec

-----------------------------------------------------------------------------
(* Who owns a token row.                                                     *)

\* No two users have one token row, nor has a user the one that an operation under
\* way is about to give to somebody.
HashInv ==
  /\ \A u, v \in User : usr[u].there /\ usr[v].there /\ u # v => usr[u].hash # usr[v].hash
  /\ \A u \in User : usr[u].there => usr[u].hash <= minted
  /\ op.at \in {"register", "rotated"} =>
       op.hash <= minted /\ \A u \in User : usr[u].there => usr[u].hash # op.hash
  /\ op.at \in {"bought", "synced"} => op.hash = usr[op.user].hash

\* The user rows that are left have the hashes they had.
SameHashes == \A u \in User : usr'[u].there => usr[u].there /\ usr'[u].hash = usr[u].hash

SameEffs == \A u \in User : usr'[u].there => usr'[u].eff = usr[u].eff

LEMMA SameHash ==
  ASSUME NEW u \in User, usr[u].there, NEW eff, NEW mem, UserChange(u, usr[u].hash, eff, mem)
  PROVE  SameHashes /\ usr'[u].there /\ usr'[u].eff = eff
         /\ \A v \in User \ {u} : usr'[v] = usr[v]
BY DEF UserChange, SameHashes

LEMMA MintedGrows == ASSUME Types, minted' \in {minted, minted + 1} PROVE minted' \in Nat /\ minted <= minted'
BY HashFacts DEF Types, LedgerOK

LEMMA HashesInNat == ASSUME Types PROVE \A u \in User : usr[u].there => usr[u].hash \in Nat
<1> SUFFICES ASSUME NEW u \in User, usr[u].there PROVE usr[u].hash \in Nat
  OBVIOUS
<1>1. usr[u].hash \in Hash
  BY UserThere DEF Types, UsersOK, UserRow
<1> QED BY <1>1, HashFacts

LEMMA HashFrame ==
  ASSUME Types, HashInv, SameHashes, minted' \in {minted, minted + 1},
         op'.at \notin {"register", "rotated", "bought", "synced"}
  PROVE  HashInv'
<1>1. \A u \in User : usr[u].there /\ usr[u].hash <= minted => usr[u].hash <= minted'
  BY HashesInNat, MintedGrows DEF Types, LedgerOK
<1> QED BY <1>1 DEF HashInv, SameHashes

\* Steps beside an operation under way.
LEMMA HashStill ==
  ASSUME Types, HashInv, SameHashes, \A u \in User : usr[u].there => usr'[u].there,
         UNCHANGED <<minted, op>>
  PROVE  HashInv'
<1>1. op.at \in {"bought", "synced"} => op.user \in User /\ usr[op.user].there
  BY DEF Types, OpOK
<1> QED BY <1>1 DEF HashInv, SameHashes

\* The acts that begin no operation on a token row leave the user rows' hashes.
LEMMA QuietRows ==
  ASSUME Types, NEW u \in User,
         \/ Tick(u) \/ SetUserEnabled(u) \/ \E n \in Amount : SetModelDiscounts(u, n)
         \/ \E n \in Amount : UsersAddPoints(u, n) \/ UsersDeductPoints(u, n)
         \/ \E f \in {"video", "points"} : SetTempBillingPriority(u, f)
  PROVE  /\ SameHashes /\ SameEffs /\ \A v \in User : usr[v].there => usr'[v].there
         /\ UNCHANGED <<minted, op>>
<1>1. CASE Tick(u)
  <2>1. PICK p \in ActivePackages(usr[u].mem) :
          /\ usr[u].there
          /\ UserChange(u, usr[u].hash, usr[u].eff, [usr[u].mem EXCEPT ![p].run = @ + 1])
    BY <1>1, TickRow
  <2> QED BY <1>1, <2>1, SameHash DEF Tick, ledger, SameEffs
<1>2. CASE SetUserEnabled(u) \/ \E n \in Amount : SetModelDiscounts(u, n)
  <2>1. usr[u].there /\ UserChange(u, usr[u].hash, usr[u].eff, usr[u].mem)
    BY <1>2, SwitchRow
  <2> QED BY <1>2, <2>1, SameHash DEF SetUserEnabled, SetModelDiscounts, ledger, SameEffs
<1>3. ASSUME NEW n \in Amount, UsersAddPoints(u, n) \/ UsersDeductPoints(u, n)
      PROVE  /\ SameHashes /\ SameEffs /\ \A v \in User : usr[v].there => usr'[v].there
             /\ UNCHANGED <<minted, op>>
  <2>1. usr' = SyncAll
    BY <1>3, PointsRow
  <2> QED BY <1>3, <2>1, SyncAllRows DEF UsersAddPoints, UsersDeductPoints, SameHashes, SameEffs
<1>4. ASSUME NEW f \in {"video", "points"}, SetTempBillingPriority(u, f)
      PROVE  UNCHANGED <<usr, minted, op>>
  BY <1>4 DEF SetTempBillingPriority
<1> QED BY <1>1, <1>2, <1>3, <1>4 DEF SameHashes, SameEffs

LEMMA AccountHashes == ASSUME Types, HashInv, NEW u \in User, Account(u) PROVE HashInv'
<1>1. CASE RegisterToken(u)
  <2>1. /\ UNCHANGED usr /\ op' = [at |-> "register", user |-> u, hash |-> minted + 1]
        /\ minted' = minted + 1 /\ minted \in Nat
    BY <1>1, HashFacts DEF RegisterToken, Types, LedgerOK
  <2>2. \A v \in User : usr[v].there => usr[v].hash < minted + 1
    BY <2>1, HashesInNat DEF HashInv
  <2>3. \A v \in User : usr[v].there => usr[v].hash <= minted + 1 /\ usr[v].hash # minted + 1
    BY <2>1, <2>2, HashesInNat
  <2> QED BY <2>1, <2>3 DEF HashInv
<1>2. CASE RotateTempToken(u)
  <2>1. /\ UNCHANGED usr /\ minted' = minted + 1 /\ minted \in Nat
        /\ op' = [at |-> "rotated", user |-> u, old |-> usr[u].hash, hash |-> minted + 1]
    BY <1>2, HashFacts DEF RotateTempToken, Types, LedgerOK
  <2>2. \A v \in User : usr[v].there => usr[v].hash <= minted + 1 /\ usr[v].hash # minted + 1
    BY <2>1, HashesInNat DEF HashInv
  <2> QED BY <2>1, <2>2 DEF HashInv
<1>3. CASE DeleteUser(u)
  <2>1. SameHashes
    BY <1>3, DeleteUserRow DEF SameHashes
  <2> QED BY <1>3, <2>1, HashFrame DEF DeleteUser, ledger
<1>4. CASE SyncUserMembership(u)
  <2>1. usr[u].there
    BY <1>4 DEF SyncUserMembership, SignedIn, HasRow
  <2>2. SameHashes /\ usr'[u].there
    BY <1>4, <2>1, SyncUserRowChange, SameHash
  <2>3. /\ minted' = minted /\ op' \in {Idle, [at |-> "synced", user |-> u, hash |-> usr[u].hash]}
        /\ usr'[u].hash = usr[u].hash
    BY <1>4, <2>2 DEF SyncUserMembership, ledger, SameHashes
  <2>4. CASE op' = Idle
    BY <2>2, <2>3, <2>4, HashFrame DEF Idle
  <2>5. CASE op' = [at |-> "synced", user |-> u, hash |-> usr[u].hash]
    BY <2>2, <2>3, <2>5 DEF HashInv, SameHashes
  <2> QED BY <2>3, <2>4, <2>5
<1>5. ASSUME NEW p \in Package, PurchaseMembership(u, p) PROVE HashInv'
  BY <1>5 DEF PurchaseMembership, HashInv
<1>6. ASSUME NEW n \in Limits, SetUserConcurrency(u, n) PROVE HashInv'
  BY <1>6 DEF SetUserConcurrency, HashInv
<1>7. ASSUME NEW c \in Card, RedeemCard(u, c) PROVE HashInv'
  BY <1>7 DEF RedeemCard, HashInv, ledger
<1>8. CASE RotateUserToken(u) \/ ChangeUserPassword(u) \/ ResetUserPassword(u)
  BY <1>2, <1>8 DEF RotateUserToken, ChangeUserPassword, ResetUserPassword
<1> QED BY <1>1, <1>3, <1>4, <1>5, <1>6, <1>7, <1>8, QuietRows, HashStill DEF Account

LEMMA ContinueHashes == ASSUME Types, HashInv, Continue PROVE HashInv'
<1>1. CASE RegisterUser
  <2>1. op.at = "register" /\ op' = Idle /\ minted' = minted
    BY <1>1 DEF RegisterUser, ledger
  <2>2. op.user \in User /\ UserChange(op.user, op.hash, 1, [p \in Package |-> NoMembership])
    BY <1>1, RegisterUserRow
  <2> QED BY <2>1, <2>2 DEF HashInv, UserChange, Idle
<1>2. CASE RotateUser
  <2>1. op.at = "rotated" /\ minted' = minted
    BY <1>2 DEF RotateUser, ledger
  <2>2. op \in [at : {"rotated", "list"}, user : User, old : Hash, hash : Hash]
    BY <2>1 DEF Types, OpOK
  <2>3. op'.at = "list"
    BY <1>2, <2>2 DEF RotateUser
  <2>4. op.user \in User /\ UserChange(op.user, op.hash, usr[op.user].eff, usr[op.user].mem)
    BY <1>2, RotateUserRow
  <2> QED BY <2>1, <2>3, <2>4 DEF HashInv, UserChange
<1>3. CASE WriteUser
  <2>1. op' = Idle /\ minted' = minted /\ usr[op.user].there
    BY <1>3 DEF WriteUser, ledger, Types, OpOK
  <2>2. SameHashes
    BY <1>3, <2>1, WriteUserRow, SameHash
  <2> QED BY <2>1, <2>2, HashFrame DEF Idle
<1>4. CASE DeleteUserToken \/ ListOwnedTasks \/ LimitPurchased \/ SyncToken \/ CreditCard
           \/ CreditFails \/ CloseCard
  <2>1. UNCHANGED <<minted, usr>> /\ op'.at \in {"idle", "migrate", "limited", "credited"}
    BY <1>4 DEF DeleteUserToken, ListOwnedTasks, LimitPurchased, SyncToken, CreditCard, CreditFails,
                CloseCard, ledger, Idle
  <2> QED BY <2>1, HashFrame DEF SameHashes
<1>5. ASSUME NEW t \in Task, MigrateTaskOwner(t) PROVE HashInv'
  <2>1. UNCHANGED <<minted, usr>> /\ op'.at \in {"idle", "migrate"}
    BY <1>5 DEF MigrateTaskOwner, ledger, Idle, Types, OpOK
  <2> QED BY <2>1, HashFrame DEF SameHashes
<1> QED BY <1>1, <1>2, <1>3, <1>4, <1>5 DEF Continue

LEMMA OtherHashes ==
  ASSUME Types, HashInv,
         \/ \E h \in Hash : DeleteTempToken(h)
         \/ \E c \in Card : GenerateCards(c) \/ DeleteCards(c)
         \/ ListUsers \/ Crash \/ StartUp
         \/ \E u \in User : RepairUserToken(u)
  PROVE  HashInv'
<1>1. ASSUME NEW h \in Hash, DeleteTempToken(h) PROVE HashInv'
  BY <1>1, HashStill DEF DeleteTempToken, SameHashes
<1>2. ASSUME NEW c \in Card, GenerateCards(c) \/ DeleteCards(c) PROVE HashInv'
  BY <1>2, HashStill DEF GenerateCards, DeleteCards, SameHashes, ledger
<1>3. CASE ListUsers
  BY <1>3, SyncAllRows, HashStill DEF ListUsers, SameHashes, ledger
<1>4. CASE Crash
  BY <1>4, HashFrame DEF Crash, Idle, SameHashes, ledger
<1>5. CASE StartUp
  BY <1>5, HashStill DEF StartUp, SameHashes, ledger
<1>6. ASSUME NEW u \in User, RepairUserToken(u) PROVE HashInv'
  <2>1. op' = op /\ NewRow /\ ~HasRow(u) /\ UserChange(u, minted + 1, usr[u].eff, usr[u].mem)
    BY <1>6, RepairRow DEF RepairUserToken
  <2>2. minted' = minted + 1 /\ minted \in Nat /\ minted + 1 <= minted'
    BY <2>1, HashFacts DEF NewRow, Types, LedgerOK
  <2>3. \A v \in User : usr[v].there => usr[v].hash <= minted + 1 /\ usr[v].hash # minted + 1
    BY <2>2, HashesInNat DEF HashInv
  <2>4. op.at \in {"register", "rotated"} => op.hash <= minted + 1 /\ op.hash # minted + 1
    <3>1. op.at \in {"register", "rotated"} => op.hash \in Hash
      BY DEF Types, OpOK, IsThere
    <3> QED BY <2>2, <3>1, HashFacts DEF HashInv
  <2>5. op.at \in {"bought", "synced"} => op.user \in User \ {u}
    BY <2>1 DEF HashInv, Types, OpOK, HasRow
  <2> QED BY <2>1, <2>2, <2>3, <2>4, <2>5 DEF HashInv, UserChange
<1> QED BY <1>1, <1>2, <1>3, <1>4, <1>5, <1>6

LEMMA HashStep == ASSUME Types, HashInv, [Next]_vars PROVE HashInv'
<1>1. ASSUME NEW t \in Task, Charge(t) PROVE HashInv'
  BY <1>1, ChargeFrame, HashStill DEF SameHashes
<1>2. CASE UNCHANGED vars
  BY <1>2, HashStill DEF vars, SameHashes
<1> QED BY <1>1, <1>2, AccountHashes, ContinueHashes, OtherHashes DEF Next

-----------------------------------------------------------------------------
(* The limit in the token row and the one in the user row.                   *)

\* A crash ends the operation under way.
DownIdle == ~up => op = Idle

\* The user's limits may differ: a crash came between the two commits, or the row
\* of the token is not the one the user was given.
Lag(u) == <<u, "slots">> \in cut \/ <<u, "wallet">> \in cut

\* An operation under way has still to write one of the two.
Pending(u) == op.at \in {"bought", "limited", "synced"} /\ op.user = u

Agrees(u) == IsThere(usr[u].hash) => tok[usr[u].hash].conc = usr[u].eff

SlotInv ==
  /\ \A u \in User : usr[u].there /\ ~Lag(u) /\ ~Pending(u) => Agrees(u)
  /\ op.at = "register" => (IsThere(op.hash) => tok[op.hash].conc = 1)
  /\ op.at = "rotated" /\ ~Lag(op.user) => tok[op.hash].conc = usr[op.user].eff
  /\ op.at = "limited" => (IsThere(usr[op.user].hash) => tok[usr[op.user].hash].conc = op.eff)

\* The token rows that are left have the limits they had.
SameConcs == \A g : IsThere(g)' => IsThere(g) /\ tok'[g].conc = tok[g].conc
RowsStay == \A g : IsThere(g) => IsThere(g)'

LagStays == \A u \in User : Lag(u) => Lag(u)'

LEMMA DownStep == ASSUME Types, DownIdle, [Next]_vars PROVE DownIdle'
<1>1. ASSUME NEW t \in Task, Charge(t) PROVE DownIdle'
  BY <1>1, ChargeFrame DEF DownIdle
<1>2. ASSUME NEW u \in User, Account(u) PROVE DownIdle'
  <2>1. UNCHANGED <<op, up>> \/ (up' = up /\ up)
    BY <1>2 DEF Account, RegisterToken, DeleteUser, SyncUserMembership, Tick, RotateUserToken,
                ChangeUserPassword, ResetUserPassword, RotateTempToken, PurchaseMembership,
                SetUserConcurrency, UsersAddPoints, UsersDeductPoints, SetModelDiscounts,
                SetUserEnabled, SetTempBillingPriority, RedeemCard, Ready
  <2> QED BY <2>1 DEF DownIdle
<1>3. CASE Continue
  <2>1. up' = up /\ op # Idle
    BY <1>3 DEF Continue, RegisterUser, DeleteUserToken, RotateUser, ListOwnedTasks, MigrateTaskOwner,
                LimitPurchased, WriteUser, SyncToken, CreditCard, CreditFails, CloseCard, Idle
  <2> QED BY <2>1 DEF DownIdle
<1>4. CASE \/ \E h \in Hash : DeleteTempToken(h)
           \/ \E c \in Card : GenerateCards(c) \/ DeleteCards(c)
           \/ ListUsers \/ Crash \/ StartUp
           \/ \E u \in User : RepairUserToken(u)
  BY <1>4 DEF DeleteTempToken, GenerateCards, DeleteCards, ListUsers, Crash, StartUp,
              RepairUserToken, DownIdle
<1>5. CASE UNCHANGED vars
  BY <1>5 DEF vars, DownIdle
<1> QED BY <1>1, <1>2, <1>3, <1>4, <1>5 DEF Next

LEMMA ConcKept == ASSUME NEW h, RowChange(h), SameConc(h) PROVE SameConcs /\ RowsStay
<1>1. \A g : IsThere(g)' => g \in Hash
  BY DEF IsThere
<1> QED BY <1>1 DEF RowChange, SameConc, SameConcs, RowsStay

\* One user's token row is written, which is nobody else's.
LEMMA OtherRows ==
  ASSUME HashInv, NEW u \in User, usr[u].there, RowChange(usr[u].hash)
  PROVE  \A v \in User \ {u} : usr[v].there =>
           /\ usr[v].hash # usr[u].hash
           /\ IsThere(usr[v].hash) => tok'[usr[v].hash] = tok[usr[v].hash]
           /\ \A g : g = usr[v].hash => (IsThere(g)' <=> IsThere(g))
<1> SUFFICES ASSUME NEW v \in User \ {u}, usr[v].there
             PROVE  /\ usr[v].hash # usr[u].hash
                    /\ IsThere(usr[v].hash) => tok'[usr[v].hash] = tok[usr[v].hash]
                    /\ \A g : g = usr[v].hash => (IsThere(g)' <=> IsThere(g))
  OBVIOUS
<1>1. usr[v].hash # usr[u].hash
  BY DEF HashInv
<1> QED BY <1>1 DEF RowChange, IsThere

LEMMA SlotFrame ==
  ASSUME Types, SlotInv, SameHashes, SameEffs, SameConcs, LagStays,
         op.at \notin {"bought", "limited", "synced"}, op'.at \notin {"register", "rotated", "limited"}
  PROVE  SlotInv'
<1>1. ASSUME NEW u \in User, usr'[u].there, ~Lag(u)', ~Pending(u)' PROVE Agrees(u)'
  <2>1. usr[u].there /\ ~Lag(u) /\ ~Pending(u) /\ usr'[u].hash = usr[u].hash /\ usr'[u].eff = usr[u].eff
    BY <1>1 DEF SameHashes, SameEffs, LagStays, Pending
  <2>2. Agrees(u)
    BY <2>1 DEF SlotInv
  <2> QED BY <2>1, <2>2 DEF Agrees, SameConcs, IsThere
<1> QED BY <1>1 DEF SlotInv

LEMMA SlotStill ==
  ASSUME Types, SlotInv, SameHashes, SameEffs, \A u \in User : usr[u].there => usr'[u].there,
         SameConcs, RowsStay, LagStays, op' = op
  PROVE  SlotInv'
<1>1. ASSUME NEW u \in User, usr'[u].there, ~Lag(u)', ~Pending(u)' PROVE Agrees(u)'
  <2>1. usr[u].there /\ ~Lag(u) /\ ~Pending(u) /\ usr'[u].hash = usr[u].hash /\ usr'[u].eff = usr[u].eff
    BY <1>1 DEF SameHashes, SameEffs, LagStays, Pending
  <2>2. Agrees(u)
    BY <2>1 DEF SlotInv
  <2> QED BY <2>1, <2>2 DEF Agrees, SameConcs, IsThere
<1>2. op.at = "register" => \A g : g = op.hash /\ IsThere(g)' => tok'[g].conc = 1
  BY DEF SlotInv, SameConcs
<1>3. op.at \in {"rotated", "limited"} => op.user \in User /\ usr[op.user].there
  BY DEF Types, OpOK
<1>4. op.at \in {"rotated", "limited"} => usr'[op.user].eff = usr[op.user].eff /\ usr'[op.user].hash = usr[op.user].hash
  BY <1>3 DEF SameHashes, SameEffs
<1>5. op.at = "rotated" => IsThere(op.hash) /\ IsThere(op.hash)'
  BY DEF Types, OpOK, RowsStay
<1>6. op.at = "rotated" => \A u \in User : u = op.user /\ ~Lag(u)' => tok'[op.hash].conc = usr'[u].eff
  BY <1>3, <1>4, <1>5 DEF SlotInv, SameConcs, LagStays
<1>7. op.at = "limited" => \A g : g = usr[op.user].hash /\ IsThere(g)' => tok'[g].conc = op.eff
  BY DEF SlotInv, SameConcs
<1>8. (op.at = "limited" => (IsThere(usr[op.user].hash) => tok[usr[op.user].hash].conc = op.eff))'
  BY <1>4, <1>7 DEF IsThere
<1>9. (op.at = "rotated" /\ ~Lag(op.user) => tok[op.hash].conc = usr[op.user].eff)'
  BY <1>3, <1>6 DEF Lag
<1>10. (op.at = "register" => (IsThere(op.hash) => tok[op.hash].conc = 1))'
  BY <1>2 DEF IsThere
<1>11. (\A u \in User : usr[u].there /\ ~Lag(u) /\ ~Pending(u) => Agrees(u))'
  BY <1>1
<1> QED BY <1>8, <1>9, <1>10, <1>11 DEF SlotInv

LEMMA AccountSlots == ASSUME Types, HashInv, SlotInv, NEW u \in User, Account(u) PROVE SlotInv'
<1>0. op = Idle => op.at = "idle"
  BY DEF Idle
<1>1. CASE RegisterToken(u)
  <2>1. NewRow
    BY <1>1, RegisterTokenRow
  <2>2. /\ UNCHANGED <<usr, cut>> /\ op = Idle /\ minted \in Nat
        /\ op' = [at |-> "register", user |-> u, hash |-> minted + 1]
    BY <1>1, HashFacts DEF RegisterToken, Ready, ghosts, Types, LedgerOK
  <2>3. \A v \in User : usr[v].there => usr[v].hash # minted + 1
    BY <2>2, HashesInNat DEF HashInv
  <2>4. ASSUME NEW v \in User, usr[v].there, ~Lag(v) PROVE Agrees(v)'
    <3>1. Agrees(v)
      BY <1>0, <2>2, <2>4 DEF SlotInv, Pending
    <3> QED BY <2>1, <2>2, <2>3, <2>4, <3>1 DEF Agrees, NewRow, IsThere
  <2>5. (op.at = "register" => (IsThere(op.hash) => tok[op.hash].conc = 1))'
    BY <2>1, <2>2 DEF NewRow
  <2>6. op'.at = "register"
    BY <2>2
  <2> QED BY <2>2, <2>4, <2>5, <2>6 DEF SlotInv, Lag
<1>2. CASE RotateTempToken(u)
  <2> DEFINE old == usr[u].hash
             new == minted + 1
  <2>1. /\ usr[u].there /\ new \in Hash /\ new # old /\ IsThere(old)
        /\ tok'[new] = tok[old]
        /\ \A g \in Hash \ {old, new} : tok'[g] = tok[g]
        /\ \A g : IsThere(g)' <=> (IsThere(g) /\ g # old) \/ g = new
    BY <1>2, RotateRow
  <2>2. /\ UNCHANGED <<usr, cut>> /\ op = Idle /\ minted \in Nat
        /\ op' = [at |-> "rotated", user |-> u, old |-> old, hash |-> new]
    BY <1>2, HashFacts DEF RotateTempToken, Ready, ghosts, Types, LedgerOK
  <2>3. \A v \in User : usr[v].there => usr[v].hash # new
    BY <2>2, HashesInNat DEF HashInv
  <2> HIDE DEF old, new
  <2>4. ASSUME NEW v \in User, usr[v].there, ~Lag(v) PROVE Agrees(v)'
    <3>1. Agrees(v)
      BY <1>0, <2>2, <2>4 DEF SlotInv, Pending
    <3>2. \A g : g = usr[v].hash /\ IsThere(g)' => IsThere(g) /\ tok'[g] = tok[g]
      BY <2>1, <2>3, <2>4 DEF IsThere
    <3>3. (IsThere(usr[v].hash) => tok[usr[v].hash].conc = usr[v].eff)'
      BY <2>2, <3>1, <3>2 DEF Agrees, IsThere
    <3> QED BY <3>3 DEF Agrees
  <2>5. (op.at = "rotated" /\ ~Lag(op.user) => tok[op.hash].conc = usr[op.user].eff)'
    <3>1. ~Lag(u) => tok[old].conc = usr[u].eff
      BY <1>0, <2>1, <2>2 DEF SlotInv, Pending, Agrees, old
    <3> QED BY <2>1, <2>2, <3>1 DEF Lag
  <2> QED BY <2>2, <2>4, <2>5 DEF SlotInv, Lag
<1>3. CASE DeleteUser(u)
  <2>1. SameHashes /\ SameEffs
    BY <1>3, DeleteUserRow DEF SameHashes, SameEffs
  <2>2. SameConcs /\ LagStays /\ op = Idle /\ op'.at = "unregister"
    BY <1>3 DEF DeleteUser, Ready, ledger, ghosts, SameConcs, LagStays, Lag, IsThere
  <2> QED BY <1>0, <2>1, <2>2, SlotFrame
<1>4. CASE SyncUserMembership(u)
  <2> DEFINE ms == SyncMembershipState(usr[u].mem)
             eff == EffectiveConcurrency(ms, usr[u].base)
  <2>1. UserChange(u, usr[u].hash, eff, ms)
    BY <1>4, SyncUserRowChange
  <2>2. /\ tok' = tok /\ op = Idle
        /\ cut' = cut \/ cut' = cut \ {<<u, "slots">>}
        /\ \/ op' = Idle /\ tok[usr[u].hash].conc = eff
           \/ op'.at = "synced" /\ op'.user = u
    BY <1>4 DEF SyncUserMembership, Ready, ledger
  <2>3. op'.at \in {"idle", "synced"}
    BY <1>0, <2>2
  <2> HIDE DEF ms, eff
  <2>4. ASSUME ~Pending(u)' PROVE Agrees(u)'
    BY <1>0, <2>1, <2>2, <2>4 DEF Pending, Agrees, UserChange, Idle
  <2>5. ASSUME NEW v \in User \ {u}, usr'[v].there, ~Lag(v)' PROVE Agrees(v)'
    <3>1. usr'[v] = usr[v] /\ ~Lag(v)
      BY <2>1, <2>2, <2>5 DEF UserChange, Lag
    <3>2. Agrees(v)
      BY <1>0, <2>2, <2>5, <3>1 DEF SlotInv, Pending
    <3> QED BY <2>2, <3>1, <3>2 DEF Agrees, IsThere
  <2> QED BY <2>3, <2>4, <2>5 DEF SlotInv
<1>5. ASSUME NEW p \in Package, PurchaseMembership(u, p) PROVE SlotInv'
  <2>1. usr[u].there /\ RowChange(usr[u].hash)
    BY <1>5, PurchaseRow
  <2>2. UNCHANGED <<usr, cut>> /\ op = Idle /\ op'.at = "bought" /\ op'.user = u
    BY <1>5 DEF PurchaseMembership, Ready
  <2>3. ASSUME NEW v \in User \ {u}, usr[v].there, ~Lag(v) PROVE Agrees(v)'
    <3>1. Agrees(v)
      BY <1>0, <2>2, <2>3 DEF SlotInv, Pending
    <3>2. (IsThere(usr[v].hash) => tok[usr[v].hash].conc = usr[v].eff)'
      BY <2>1, <2>2, <2>3, <3>1, OtherRows DEF Agrees, IsThere
    <3> QED BY <3>2 DEF Agrees
  <2> QED BY <2>2, <2>3 DEF SlotInv, Lag, Pending
<1>6. ASSUME NEW n \in Limits, SetUserConcurrency(u, n) PROVE SlotInv'
  <2>1. usr[u].there /\ RowChange(usr[u].hash) /\ tok'[usr[u].hash].conc = n
    BY <1>6, SetLimitRow
  <2>2. UNCHANGED <<usr, cut>> /\ op = Idle /\ op'.at = "limited" /\ op'.user = u /\ op'.eff = n
    BY <1>6 DEF SetUserConcurrency, Ready, ghosts
  <2>3. ASSUME NEW v \in User \ {u}, usr[v].there, ~Lag(v) PROVE Agrees(v)'
    <3>1. Agrees(v)
      BY <1>0, <2>2, <2>3 DEF SlotInv, Pending
    <3>2. (IsThere(usr[v].hash) => tok[usr[v].hash].conc = usr[v].eff)'
      BY <2>1, <2>2, <2>3, <3>1, OtherRows DEF Agrees, IsThere
    <3> QED BY <3>2 DEF Agrees
  <2> QED BY <2>1, <2>2, <2>3 DEF SlotInv, Lag, Pending
<1>7. ASSUME NEW c \in Card, RedeemCard(u, c) PROVE SlotInv'
  <2>1. /\ SameHashes /\ SameEffs /\ SameConcs /\ LagStays
        /\ op = Idle /\ op'.at = "redeem"
    BY <1>7 DEF RedeemCard, Ready, ledger, ghosts, SameHashes, SameEffs, SameConcs, LagStays, Lag, IsThere
  <2> QED BY <1>0, <2>1, SlotFrame
<1>8. CASE \/ \E n \in Amount : UsersAddPoints(u, n) \/ UsersDeductPoints(u, n)
           \/ \E f \in {"video", "points"} : SetTempBillingPriority(u, f)
  <2>1. /\ SameHashes /\ SameEffs /\ UNCHANGED op /\ \A v \in User : usr[v].there => usr'[v].there
    BY <1>8, QuietRows
  <2>2. SameConcs /\ RowsStay
    BY <1>8, PointsRow, PriorityRow, ConcKept
  <2>3. LagStays
    BY <1>8 DEF UsersAddPoints, UsersDeductPoints, AddUserPoints, DeductUserPoints,
                AdjustUserVideoQuota, SetTempBillingPriority, ghosts, LagStays, Lag
  <2> QED BY <2>1, <2>2, <2>3, SlotStill
<1>9. CASE Tick(u) \/ SetUserEnabled(u) \/ \E n \in Amount : SetModelDiscounts(u, n)
  <2>1. /\ SameHashes /\ SameEffs /\ UNCHANGED op /\ \A v \in User : usr[v].there => usr'[v].there
    BY <1>9, QuietRows
  <2>2. tok' = tok /\ cut' = cut
    BY <1>9 DEF Tick, SetUserEnabled, SetModelDiscounts, ledger, ghosts
  <2>3. SameConcs /\ RowsStay /\ LagStays
    BY <2>2 DEF SameConcs, RowsStay, LagStays, Lag, IsThere
  <2> QED BY <2>1, <2>3, SlotStill
<1>10. CASE RotateUserToken(u) \/ ChangeUserPassword(u) \/ ResetUserPassword(u)
  BY <1>2, <1>10 DEF RotateUserToken, ChangeUserPassword, ResetUserPassword
<1> QED BY <1>1, <1>3, <1>4, <1>5, <1>6, <1>7, <1>8, <1>9, <1>10 DEF Account

LEMMA ContinueSlots == ASSUME Types, HashInv, SlotInv, Continue PROVE SlotInv'
<1>1. CASE RegisterUser
  <2>0. PICK u \in User : u = op.user
    BY <1>1 DEF RegisterUser, Types, OpOK
  <2>1. /\ op.at = "register" /\ op' = Idle /\ tok' = tok
        /\ cut' = cut \ ({u} \X {"wallet", "member", "slots"})
    BY <2>0, <1>1 DEF RegisterUser, ledger
  <2>2. u \in User /\ UserChange(u, op.hash, 1, [p \in Package |-> NoMembership])
    BY <2>0, <1>1, RegisterUserRow
  <2>3. Agrees(u)'
    BY <2>0, <2>1, <2>2 DEF SlotInv, Agrees, UserChange, IsThere
  <2>4. ASSUME NEW v \in User \ {u}, usr'[v].there, ~Lag(v)' PROVE Agrees(v)'
    <3>1. usr'[v] = usr[v] /\ ~Lag(v)
      BY <2>0, <2>1, <2>2, <2>4 DEF UserChange, Lag
    <3>2. Agrees(v)
      BY <2>0, <2>1, <2>4, <3>1 DEF SlotInv, Pending
    <3> QED BY <2>0, <2>1, <3>1, <3>2 DEF Agrees, IsThere
  <2> QED BY <2>0, <2>1, <2>3, <2>4 DEF SlotInv, Idle
<1>2. CASE DeleteUserToken
  <2>1. /\ UNCHANGED usr /\ op.at = "unregister" /\ op'.at = "idle" /\ cut \subseteq cut'
        /\ tok' = [tok EXCEPT ![op.hash] = NoEntry] /\ op.hash \in Hash /\ tok \in Rows
    BY <1>2 DEF DeleteUserToken, Idle, Types, OpOK, LedgerOK
  <2>2. SameConcs
    BY <2>1, RowDrop DEF SameConcs, IsThere
  <2> QED BY <2>1, <2>2, SlotFrame DEF SameHashes, SameEffs, LagStays, Lag
<1>3. CASE RotateUser
  <2>0. PICK u \in User : u = op.user
    BY <1>3 DEF RotateUser, Types, OpOK
  <2>1. op.at = "rotated" /\ UNCHANGED <<tok, cut>>
    BY <2>0, <1>3 DEF RotateUser, ledger, ghosts
  <2>2. op \in [at : {"rotated", "list"}, user : User, old : Hash, hash : Hash]
    BY <2>0, <2>1 DEF Types, OpOK
  <2>3. op'.at = "list"
    BY <2>0, <1>3, <2>2 DEF RotateUser
  <2>4. u \in User /\ UserChange(u, op.hash, usr[u].eff, usr[u].mem)
    BY <2>0, <1>3, RotateUserRow
  <2>5. ~Lag(u) => Agrees(u)'
    BY <2>0, <2>1, <2>4 DEF SlotInv, Agrees, UserChange, IsThere
  <2>6. ASSUME NEW v \in User \ {u}, usr'[v].there, ~Lag(v)' PROVE Agrees(v)'
    <3>1. usr'[v] = usr[v] /\ ~Lag(v)
      BY <2>0, <2>1, <2>4, <2>6 DEF UserChange, Lag
    <3>2. Agrees(v)
      BY <2>0, <2>1, <2>6, <3>1 DEF SlotInv, Pending
    <3> QED BY <2>0, <2>1, <3>1, <3>2 DEF Agrees, IsThere
  <2>7. \A v \in User : Lag(v)' <=> Lag(v)
    BY <2>0, <2>1 DEF Lag
  <2> QED BY <2>0, <2>3, <2>5, <2>6, <2>7 DEF SlotInv
<1>4. CASE ListOwnedTasks \/ CreditFails \/ CloseCard
  <2>1. /\ UNCHANGED <<usr, tok, cut>>
        /\ op.at \in {"list", "redeem", "credited"} /\ op'.at \in {"idle", "migrate"}
    BY <1>4 DEF ListOwnedTasks, CreditFails, CloseCard, ledger, ghosts, Idle
  <2> QED BY <2>1, SlotFrame DEF SameHashes, SameEffs, SameConcs, LagStays, Lag, IsThere
<1>5. ASSUME NEW t \in Task, MigrateTaskOwner(t) PROVE SlotInv'
  <2>1. UNCHANGED <<usr, tok, cut>> /\ op.at = "migrate"
    BY <1>5 DEF MigrateTaskOwner, ledger, ghosts
  <2>2. op'.at \in {"idle", "migrate"}
    BY <1>5 DEF MigrateTaskOwner, Idle, Types, OpOK
  <2> QED BY <2>1, <2>2, SlotFrame DEF SameHashes, SameEffs, SameConcs, LagStays, Lag, IsThere
<1>6. CASE LimitPurchased
  <2> DEFINE u == op.user
             eff == EffectiveConcurrency(op.mem, usr[u].base)
  <2>1. /\ UNCHANGED <<usr, cut>> /\ op.at = "bought"
        /\ op'.at = "limited" /\ op'.user = u /\ op'.eff = eff
    BY <1>6 DEF LimitPurchased, ghosts
  <2>2. /\ u \in User /\ usr[u].there /\ op.hash = usr[u].hash
        /\ RowChange(usr[u].hash) /\ tok'[usr[u].hash].conc = eff
    BY <1>6, <2>1, LimitPurchasedRow DEF Types, OpOK, HashInv
  <2> HIDE DEF u, eff
  <2>3. ASSUME NEW v \in User \ {u}, usr[v].there, ~Lag(v) PROVE Agrees(v)'
    <3>1. Agrees(v)
      BY <2>1, <2>3 DEF SlotInv, Pending, u
    <3>2. (IsThere(usr[v].hash) => tok[usr[v].hash].conc = usr[v].eff)'
      BY <2>1, <2>2, <2>3, <3>1, OtherRows DEF Agrees, IsThere
    <3> QED BY <3>2 DEF Agrees
  <2> QED BY <2>1, <2>2, <2>3 DEF SlotInv, Lag, Pending
<1>7. CASE WriteUser
  <2>0. PICK u \in User : u = op.user
    BY <1>7 DEF WriteUser, Types, OpOK
  <2>1. /\ op.at = "limited" /\ op' = Idle /\ tok' = tok
        /\ cut' = cut \ {<<u, "slots">>}
    BY <2>0, <1>7 DEF WriteUser, ledger
  <2>2. u \in User /\ UserChange(u, usr[u].hash, op.eff, op.mem)
    BY <2>0, <1>7, WriteUserRow
  <2>3. Agrees(u)'
    BY <2>0, <2>1, <2>2 DEF SlotInv, Agrees, UserChange, IsThere
  <2>4. ASSUME NEW v \in User \ {u}, usr'[v].there, ~Lag(v)' PROVE Agrees(v)'
    <3>1. usr'[v] = usr[v] /\ ~Lag(v)
      BY <2>0, <2>1, <2>2, <2>4 DEF UserChange, Lag
    <3>2. Agrees(v)
      BY <2>0, <2>1, <2>4, <3>1 DEF SlotInv, Pending
    <3> QED BY <2>0, <2>1, <3>1, <3>2 DEF Agrees, IsThere
  <2> QED BY <2>0, <2>1, <2>3, <2>4 DEF SlotInv, Idle
<1>8. CASE SyncToken
  <2>0. PICK u \in User : u = op.user
    BY <1>8 DEF SyncToken, Types, OpOK
  <2>1. /\ UNCHANGED usr /\ op.at = "synced" /\ op' = Idle
        /\ cut' = cut \ {<<u, "slots">>}
    BY <2>0, <1>8 DEF SyncToken
  <2>2. /\ u \in User /\ usr[u].there /\ op.hash = usr[u].hash
        /\ RowChange(usr[u].hash) /\ tok'[usr[u].hash].conc = usr[u].eff
    BY <2>0, <1>8, <2>1, SyncTokenRow DEF Types, OpOK, HashInv
  <2>3. ASSUME NEW v \in User \ {u}, usr[v].there, ~Lag(v)' PROVE Agrees(v)'
    <3>1. ~Lag(v)
      BY <2>0, <2>1, <2>3 DEF Lag
    <3>2. Agrees(v)
      BY <2>0, <2>1, <2>3, <3>1 DEF SlotInv, Pending
    <3>3. (IsThere(usr[v].hash) => tok[usr[v].hash].conc = usr[v].eff)'
      BY <2>0, <2>1, <2>2, <2>3, <3>2, OtherRows DEF Agrees, IsThere
    <3> QED BY <2>0, <3>3 DEF Agrees
  <2>4. Agrees(u)'
    BY <2>0, <2>1, <2>2 DEF Agrees
  <2> QED BY <2>0, <2>1, <2>3, <2>4 DEF SlotInv, Idle
<1>9. CASE CreditCard
  <2>1. UNCHANGED <<usr, cut>> /\ op.at = "redeem" /\ op'.at = "credited"
    BY <1>9 DEF CreditCard
  <2>2. SameConcs
    BY <1>9, CreditRow, ConcKept
  <2> QED BY <2>1, <2>2, SlotFrame DEF SameHashes, SameEffs, LagStays, Lag
<1> QED BY <1>1, <1>2, <1>3, <1>4, <1>5, <1>6, <1>7, <1>8, <1>9 DEF Continue

LEMMA OtherSlots ==
  ASSUME Types, HashInv, DownIdle, SlotInv,
         \/ \E h \in Hash : DeleteTempToken(h)
         \/ \E c \in Card : GenerateCards(c) \/ DeleteCards(c)
         \/ ListUsers \/ Crash \/ StartUp
         \/ \E u \in User : RepairUserToken(u)
  PROVE  SlotInv'
<1>0. op = Idle => op.at = "idle"
  BY DEF Idle
<1>1. ASSUME NEW h \in Hash, DeleteTempToken(h) PROVE SlotInv'
  <2>1. /\ UNCHANGED <<usr, op>> /\ op = Idle /\ cut \subseteq cut' /\ tok \in Rows
        /\ tok' = [tok EXCEPT ![h] = NoEntry]
    BY <1>1 DEF DeleteTempToken, Ready, Types, LedgerOK
  <2>2. SameConcs
    BY <2>1, RowDrop DEF SameConcs, IsThere
  <2> QED BY <1>0, <2>1, <2>2, SlotFrame DEF SameHashes, SameEffs, LagStays, Lag
<1>2. ASSUME NEW c \in Card, GenerateCards(c) \/ DeleteCards(c) PROVE SlotInv'
  <2>1. UNCHANGED <<usr, op, tok, cut>>
    BY <1>2 DEF GenerateCards, DeleteCards, ledger, ghosts
  <2> QED BY <2>1, SlotStill DEF SameHashes, SameEffs, SameConcs, RowsStay, LagStays, Lag, IsThere
<1>3. CASE ListUsers
  <2>1. UNCHANGED <<op, tok, cut>>
    BY <1>3 DEF ListUsers, ledger, ghosts
  <2>2. SameHashes /\ SameEffs /\ \A u \in User : usr[u].there => usr'[u].there
    BY <1>3, SyncAllRows DEF ListUsers, SameHashes, SameEffs
  <2> QED BY <2>1, <2>2, SlotStill DEF SameConcs, RowsStay, LagStays, Lag, IsThere
<1>4. CASE Crash
  <2>1. UNCHANGED <<usr, tok>> /\ op'.at = "idle" /\ cut' = cut \cup CutOff
    BY <1>4 DEF Crash, ledger, Idle
  <2>2. \A u \in User : Lag(u) \/ Pending(u) => Lag(u)'
    BY <2>1 DEF Lag, Pending, CutOff
  <2>3. ASSUME NEW u \in User, usr[u].there, ~Lag(u)' PROVE Agrees(u)'
    <3>1. Agrees(u)
      BY <2>2, <2>3 DEF SlotInv
    <3> QED BY <2>1, <3>1 DEF Agrees, IsThere
  <2> QED BY <2>1, <2>3 DEF SlotInv
<1>5. CASE StartUp
  BY <1>5, SlotStill DEF StartUp, ledger, ghosts, SameHashes, SameEffs, SameConcs, RowsStay,
                         LagStays, Lag, IsThere
<1>6. ASSUME NEW u \in User, RepairUserToken(u) PROVE SlotInv'
  <2>1. op' = op /\ op = Idle
    BY <1>6 DEF RepairUserToken, DownIdle
  <2>2. /\ NewRow /\ usr[u].there
        /\ UserChange(u, minted + 1, usr[u].eff, usr[u].mem)
        /\ cut' = (cut \ {<<u, "wallet">>}) \cup {<<u, "slots">>}
    BY <1>6, RepairRow
  <2>3. \A v \in User : usr[v].there => usr[v].hash # minted + 1
    <3>1. minted \in Nat
      BY HashFacts DEF Types, LedgerOK
    <3> QED BY <3>1, HashesInNat DEF HashInv
  <2>4. ASSUME NEW v \in User, usr'[v].there, ~Lag(v)' PROVE Agrees(v)'
    <3>1. v # u /\ ~Lag(v)
      BY <2>2, <2>4 DEF Lag
    <3>2. usr'[v] = usr[v] /\ Agrees(v)
      BY <1>0, <2>1, <2>2, <2>4, <3>1 DEF SlotInv, Pending, UserChange
    <3> QED BY <2>2, <2>3, <2>4, <3>2 DEF Agrees, NewRow, IsThere
  <2> QED BY <1>0, <2>1, <2>4 DEF SlotInv
<1> QED BY <1>1, <1>2, <1>3, <1>4, <1>5, <1>6

LEMMA SlotStep == ASSUME Types, HashInv, DownIdle, SlotInv, [Next]_vars PROVE SlotInv'
<1>1. ASSUME NEW t \in Task, Charge(t) PROVE SlotInv'
  <2>1. UNCHANGED <<usr, op>> /\ LagStays
    BY <1>1, ChargeFrame, ChargeCut DEF LagStays, Lag
  <2>2. SameConcs /\ RowsStay
    BY <1>1, ChargeLedger, ConcKept DEF SameConcs, RowsStay, IsThere
  <2> QED BY <2>1, <2>2, SlotStill DEF SameHashes, SameEffs
<1>2. CASE UNCHANGED vars
  BY <1>2, SlotStill DEF vars, SameHashes, SameEffs, SameConcs, RowsStay, LagStays, Lag, IsThere
<1> QED BY <1>1, <1>2, AccountSlots, ContinueSlots, OtherSlots DEF Next

\* Between two operations the limit the workers read is the user's, unless a crash
\* came between its two commits.
THEOREM LimitsAgree == Spec => []SlotsAgree
<1>1. Init => HashInv /\ DownIdle /\ SlotInv
  BY DEF Init, HashInv, DownIdle, SlotInv, NoUser, Idle
<1>2. Types /\ HashInv /\ [Next]_vars => HashInv'
  BY HashStep
<1>3. Types /\ DownIdle /\ [Next]_vars => DownIdle'
  BY DownStep
<1>4. Types /\ HashInv /\ DownIdle /\ SlotInv /\ [Next]_vars => SlotInv'
  BY SlotStep
<1>5. SlotInv => SlotsAgree
  BY DEF SlotInv, SlotsAgree, Lag, Pending, Agrees, Idle
<1> QED BY <1>1, <1>2, <1>3, <1>4, <1>5, WalletTypes, PTL DEF Spec

-----------------------------------------------------------------------------
(* The charge of a task.                                                     *)

Charged(t) == {h \in Hash : tok[h] # NoEntry /\ tok[h].res[t].status = "reserved"}

\* The row the task was charged in first is gone; its hash never returns.
BornGone(t) == ~IsThere(task[t].born)

\* The rows that hold the charge.
ChargePlace(t) ==
  /\ \A g, h \in Charged(t) : g = h
  /\ \A h \in Charged(t) : h = task[t].born \/ BornGone(t)
  /\ task[t] = NoTask => Charged(t) = {}

\* The hashes that the task's record and its worker have of the owner.
OwnerKnown(t) ==
  /\ task[t].born <= minted
  /\ task[t].born = NoHash => task[t] = NoTask /\ seen[t] = NoHash
  /\ Exists(t) => task[t].owner = task[t].born \/ BornGone(t)
  /\ seen[t] # NoHash => seen[t] = task[t].born \/ BornGone(t)

\* A task that was created, and whose creation is over.
Created(t) == task[t].born # NoHash /\ task[t].st # "initializing"

\* What a request that creates or retries the task has done so far.
Creation(t) ==
  /\ task[t] = NoTask => req[t].at \in {"idle", "retry"}
  /\ req[t].at = "retry" => task[t] = NoTask
  /\ req[t].at # "idle" => req[t].hash <= minted /\ \A s \in req[t].drop : Created(s)
  /\ req[t].at \in {"price", "reserve", "files"} =>
       task[t].st = "initializing" /\ req[t].hash = task[t].born

\* The task runs, or is about to, or has a result.
Owed(t) == task[t].st \in {"live", "success"} \/ req[t].at = "files"

Paid(t) ==
  /\ Owed(t) /\ <<t, "charge">> \notin cut => Charged(t) # {}
  /\ task[t].st = "settled" => task[t].born \notin Charged(t)

TaskInv == \A t \in Task : ChargePlace(t) /\ OwnerKnown(t) /\ Creation(t) /\ Paid(t)

\* A crash ends the requests.
DownQuiet == ~up => \A t \in Task : req[t] = IdleReq

\* A rotation leaves no row at the old hash, so the tasks it migrates are charged
\* in the new one, if at all.
OldGone ==
  /\ op.at \in {"rotated", "list"} => op.old <= minted /\ ~IsThere(op.old)
  /\ op.at = "migrate" => \A t \in op.todo : task[t].born # NoHash /\ BornGone(t)

\* Hashes of rows that are gone do not return.
NoReturn == \A g : IsThere(g)' => IsThere(g) \/ g = minted + 1
MintedUp == minted' \in {minted, minted + 1}

ChargesCut == \A t \in Task :
  /\ <<t, "charge">> \in cut => <<t, "charge">> \in cut'
  /\ Charged(t)' = {} => Charged(t) = {} \/ <<t, "charge">> \in cut'

\* The charge of a task that is owed stays, unless it is cut off.
ChargeKept(t) ==
  Owed(t)' /\ <<t, "charge">> \notin cut' =>
    <<t, "charge">> \notin cut /\ (Charged(t)' = {} => Charged(t) = {})

LEMMA MintedFacts ==
  ASSUME Types
  PROVE  /\ minted \in Nat
         /\ \A n : n = minted + 1 => ~IsThere(n)
         /\ \A t \in Task : /\ task[t] \in TaskRow /\ task[t].born \in Nat
                            /\ req[t] \in {IdleReq} \cup ReqRow
                            /\ req[t].at = "idle" <=> req[t] = IdleReq
<1>1. minted \in Nat
  BY HashFacts DEF Types, LedgerOK
<1>2. \A n : n = minted + 1 => ~IsThere(n)
  BY <1>1 DEF Types, LedgerOK, IsThere
<1>3. \A h \in Hash \cup {NoHash} : h \in Nat
  BY HashFacts DEF NoHash
<1> QED BY <1>1, <1>2, <1>3 DEF Types, TasksOK, TaskRow, ReqRow, IdleReq

LEMMA StaysGone ==
  ASSUME Types, NoReturn, NEW g \in Nat, g <= minted, ~IsThere(g)
  PROVE  ~IsThere(g)'
BY MintedFacts DEF NoReturn

LEMMA BornStaysGone ==
  ASSUME Types, TaskInv, NoReturn, NEW t \in Task, BornGone(t), task'[t].born = task[t].born
  PROVE  BornGone(t)'
<1>1. task[t].born \in Nat /\ task[t].born <= minted
  BY MintedFacts DEF TaskInv, OwnerKnown
<1>2. \A g : g = task[t].born => ~IsThere(g)'
  BY <1>1, StaysGone DEF BornGone
<1> QED BY <1>2 DEF BornGone, IsThere

\* The creations that were over stay so.
CreatedStays == \A s \in Task : Created(s) => Created(s)'

LEMMA SameCreation ==
  ASSUME Types, TaskInv, CreatedStays, MintedUp, NEW t \in Task,
         req'[t] = req[t], task'[t].st = task[t].st, task'[t].born = task[t].born,
         task'[t] = NoTask <=> task[t] = NoTask
  PROVE  Creation(t)'
<1>1. Creation(t) /\ minted \in Nat /\ minted <= minted'
  BY MintedFacts DEF TaskInv, MintedUp
<1>2. req[t].at # "idle" => req[t].hash \in Nat /\ req[t].drop \subseteq Task
  BY MintedFacts, HashFacts DEF ReqRow
<1>3. req[t].at # "idle" => req[t].hash <= minted' /\ \A s \in req[t].drop : Created(s)'
  BY <1>1, <1>2 DEF Creation, CreatedStays, MintedUp
<1> QED BY <1>1, <1>3 DEF Creation

\* A step that does not move the task's charge.
LEMMA TaskMoves ==
  ASSUME Types, TaskInv, NEW t \in Task, NoReturn, MintedUp, ChargeKept(t), Charged(t)' \subseteq Charged(t),
         task'[t].born = task[t].born, task'[t] = NoTask => task[t] = NoTask,
         task[t].born = NoHash => task'[t] = NoTask,
         Exists(t)' => Exists(t) /\ (task'[t].owner = task[t].owner \/ BornGone(t)),
         \/ seen'[t] = seen[t] \/ seen'[t] = NoHash
         \/ Exists(t) /\ seen'[t] = task[t].owner,
         Creation(t)', Owed(t)' => Owed(t),
         task'[t].st = "settled" => task[t].st = "settled" \/ task[t].born \notin Charged(t)'
  PROVE  ChargePlace(t)' /\ OwnerKnown(t)' /\ Creation(t)' /\ Paid(t)'
<1>1. ChargePlace(t) /\ OwnerKnown(t) /\ Paid(t)
  BY DEF TaskInv
<1>2. BornGone(t) => BornGone(t)'
  BY BornStaysGone
<1>3. ChargePlace(t)'
  BY <1>1, <1>2 DEF ChargePlace
<1>4. task[t].born <= minted'
  BY <1>1, MintedFacts DEF OwnerKnown, MintedUp
<1>5. OwnerKnown(t)'
  <2>1. task[t].born = NoHash => ~Exists(t) /\ seen[t] = NoHash
    BY <1>1 DEF OwnerKnown, NoTask, Exists
  <2> QED BY <1>1, <1>2, <1>4, <2>1 DEF OwnerKnown
<1>6. Paid(t)'
  BY <1>1 DEF Paid, ChargeKept
<1> QED BY <1>3, <1>5, <1>6

\* Steps of the token rows that move no charge.
LEMMA LedgerCharges ==
  ASSUME Types, TaskInv, UNCHANGED taskVars, NoReturn, MintedUp, ChargesCut,
         \A t \in Task : Charged(t)' \subseteq Charged(t)
  PROVE  TaskInv'
<1> SUFFICES ASSUME NEW t \in Task PROVE ChargePlace(t)' /\ OwnerKnown(t)' /\ Creation(t)' /\ Paid(t)'
  BY DEF TaskInv
<1>1. task' = task /\ req' = req /\ seen' = seen
  BY DEF taskVars
<1>2. Creation(t)'
  BY <1>1, SameCreation DEF CreatedStays, Created
<1>3. OwnerKnown(t) /\ Paid(t) /\ Charged(t)' \subseteq Charged(t)
  BY DEF TaskInv
<1> QED BY <1>1, <1>2, <1>3, TaskMoves DEF OwnerKnown, Owed, Paid, ChargesCut, ChargeKept, Exists

\* Steps that leave the token rows.
LEMMA SameCharges ==
  ASSUME tok' = tok
  PROVE  /\ \A t : Charged(t)' = Charged(t)
         /\ \A g : IsThere(g)' <=> IsThere(g)
         /\ NoReturn
BY DEF Charged, IsThere, NoReturn

LEMMA RowCharges ==
  ASSUME NEW h, RowChange(h), SameRes(h)
  PROVE  /\ \A t : Charged(t)' = Charged(t)
         /\ \A g : IsThere(g)' <=> IsThere(g)
         /\ NoReturn
<1>1. \A g \in Hash : (tok'[g] # NoEntry <=> tok[g] # NoEntry) /\ (tok'[g] = tok[g] \/ tok'[g].res = tok[g].res)
  BY DEF RowChange, SameRes, IsThere
<1> QED BY <1>1 DEF Charged, RowChange, NoReturn

LEMMA NewRowCharges ==
  ASSUME Types, NewRow
  PROVE  NoReturn /\ MintedUp /\ \A t \in Task : Charged(t)' = Charged(t)
<1>1. NoReturn /\ MintedUp
  BY DEF NewRow, NoReturn, MintedUp
<1>2. tok[minted + 1] = NoEntry
  BY MintedFacts DEF NewRow, IsThere
<1>3. ASSUME NEW t \in Task PROVE Charged(t)' = Charged(t)
  BY <1>2, EntryIsThere DEF Charged, NewRow
<1> QED BY <1>1, <1>3

\* A row that is deleted takes its charges with it.
LEMMA DropCharges ==
  ASSUME Types, NEW h \in Hash, tok' = [tok EXCEPT ![h] = NoEntry],
         cut \cup DeletedCharges(h) \subseteq cut'
  PROVE  NoReturn /\ ChargesCut /\ \A t \in Task : Charged(t)' \subseteq Charged(t)
<1>0. tok \in Rows
  BY DEF Types, LedgerOK
<1>1. NoReturn
  BY <1>0, RowDrop DEF NoReturn
<1>2. ASSUME NEW t \in Task PROVE Charged(t)' = Charged(t) \ {h}
  BY <1>0, RowDrop DEF Charged
<1>3. ASSUME NEW t \in Task, h \in Charged(t) PROVE <<t, "charge">> \in cut'
  BY <1>3 DEF DeletedCharges, Charged, IsThere
<1>4. ChargesCut
  BY <1>2, <1>3 DEF ChargesCut
<1> QED BY <1>1, <1>2, <1>4

ChargeCutStays == \A t \in Task : <<t, "charge">> \in cut => <<t, "charge">> \in cut'

LEMMA TokSame ==
  ASSUME Types, TaskInv, UNCHANGED taskVars, tok' = tok, MintedUp, ChargeCutStays
  PROVE  TaskInv' /\ NoReturn
<1>1. ChargesCut
  BY SameCharges DEF ChargesCut, ChargeCutStays
<1> QED BY <1>1, SameCharges, LedgerCharges

LEMMA RowSame ==
  ASSUME Types, TaskInv, UNCHANGED taskVars, minted' = minted, ChargeCutStays,
         NEW h, RowChange(h), SameRes(h)
  PROVE  TaskInv' /\ NoReturn
<1>1. (\A t : Charged(t)' = Charged(t)) /\ NoReturn
  BY RowCharges
<1>2. ChargesCut
  BY <1>1 DEF ChargesCut, ChargeCutStays
<1> QED BY <1>1, <1>2, LedgerCharges DEF MintedUp

\* The charges move with the row.
LEMMA RotateCharges ==
  ASSUME Types, TaskInv, NEW u \in User, RotateTempToken(u)
  PROVE  TaskInv' /\ NoReturn
<1> DEFINE old == usr[u].hash
           new == minted + 1
<1>1. /\ minted' = new /\ new \in Hash /\ new # old /\ IsThere(old) /\ tok[old] \in Entry
      /\ tok'[new] = tok[old] /\ tok'[old] = NoEntry
      /\ \A g \in Hash \ {old, new} : tok'[g] = tok[g]
      /\ \A g : IsThere(g)' <=> (IsThere(g) /\ g # old) \/ g = new
  BY RotateRow
<1>2. task' = task /\ req' = req /\ seen' = seen /\ cut' = cut
  BY DEF RotateTempToken, taskVars, ghosts
<1>3. ~IsThere(new) /\ minted \in Nat /\ old \in Hash
  BY <1>1, MintedFacts DEF IsThere
<1>4. NoReturn /\ MintedUp
  BY <1>1 DEF NoReturn, MintedUp
<1> HIDE DEF old, new
<1>5. ASSUME NEW t \in Task
      PROVE  Charged(t)' = (Charged(t) \ {old}) \cup {h \in {new} : old \in Charged(t)}
  BY <1>1, <1>3, EntryIsThere DEF Charged, IsThere
<1>6. ASSUME NEW t \in Task PROVE ChargePlace(t)' /\ OwnerKnown(t)' /\ Creation(t)' /\ Paid(t)'
  <2>1. ChargePlace(t) /\ OwnerKnown(t) /\ Paid(t)
    BY DEF TaskInv
  <2>2. BornGone(t) => BornGone(t)'
    BY <1>2, <1>4, BornStaysGone
  <2>3. old = task[t].born => BornGone(t)'
    BY <1>1, <1>2 DEF BornGone, IsThere
  <2>4. task[t].born # new /\ task[t].born <= minted'
    BY <1>1, <1>3, <2>1, MintedFacts DEF OwnerKnown, new
  <2>5. ChargePlace(t)'
    BY <1>2, <1>5, <2>1, <2>2, <2>3 DEF ChargePlace
  <2>6. OwnerKnown(t)'
    BY <1>2, <2>1, <2>2, <2>4 DEF OwnerKnown, Exists
  <2>7. Creation(t)'
    BY <1>2, <1>4, SameCreation DEF CreatedStays, Created
  <2>8. Charged(t) # {} => Charged(t)' # {}
    BY <1>5
  <2>9. Paid(t)'
    BY <1>2, <1>5, <2>1, <2>4, <2>8 DEF Paid, Owed
  <2> QED BY <2>5, <2>6, <2>7, <2>9
<1> QED BY <1>4, <1>6 DEF TaskInv

LEMMA AccountCharges == ASSUME Types, TaskInv, NEW u \in User, Account(u) PROVE TaskInv' /\ NoReturn
<1>1. CASE RegisterToken(u)
  <2>1. UNCHANGED <<taskVars, cut>>
    BY <1>1 DEF RegisterToken, ghosts
  <2>2. NoReturn /\ MintedUp /\ \A t \in Task : Charged(t)' = Charged(t)
    BY <1>1, RegisterTokenRow, NewRowCharges
  <2>3. ChargesCut
    BY <2>1, <2>2 DEF ChargesCut
  <2> QED BY <2>1, <2>2, <2>3, LedgerCharges
<1>2. CASE DeleteUser(u) \/ SyncUserMembership(u) \/ Tick(u) \/ SetUserEnabled(u)
           \/ (\E n \in Amount : SetModelDiscounts(u, n)) \/ \E c \in Card : RedeemCard(u, c)
  <2>1. UNCHANGED taskVars /\ tok' = tok /\ MintedUp
    BY <1>2 DEF DeleteUser, SyncUserMembership, Tick, SetUserEnabled, SetModelDiscounts, RedeemCard,
                ledger, MintedUp
  <2>2. ChargeCutStays
    BY <1>2 DEF DeleteUser, SyncUserMembership, Tick, SetUserEnabled, SetModelDiscounts, RedeemCard,
                ghosts, ChargeCutStays
  <2> QED BY <2>1, <2>2, TokSame
<1>3. ASSUME NEW p \in Package, PurchaseMembership(u, p) PROVE TaskInv' /\ NoReturn
  BY <1>3, PurchaseRow, RowSame DEF PurchaseMembership, ChargeCutStays
<1>4. ASSUME NEW n \in Limits, SetUserConcurrency(u, n) PROVE TaskInv' /\ NoReturn
  BY <1>4, SetLimitRow, RowSame DEF SetUserConcurrency, ghosts, ChargeCutStays
<1>5. ASSUME NEW n \in Amount, UsersAddPoints(u, n) \/ UsersDeductPoints(u, n) PROVE TaskInv' /\ NoReturn
  <2>1. UNCHANGED taskVars /\ minted' = minted /\ cut' = cut
    BY <1>5 DEF UsersAddPoints, UsersDeductPoints
  <2> QED BY <1>5, <2>1, PointsRow, RowSame DEF ChargeCutStays
<1>6. ASSUME NEW f \in {"video", "points"}, SetTempBillingPriority(u, f) PROVE TaskInv' /\ NoReturn
  BY <1>6, PriorityRow, RowSame DEF SetTempBillingPriority, ghosts, ChargeCutStays
<1>7. CASE RotateUserToken(u) \/ ChangeUserPassword(u) \/ ResetUserPassword(u)
  BY <1>7, RotateCharges DEF RotateUserToken, ChangeUserPassword, ResetUserPassword
<1> QED BY <1>1, <1>2, <1>3, <1>4, <1>5, <1>6, <1>7 DEF Account

\* A task follows a rotation to the new hash.
LEMMA MigrateCharges ==
  ASSUME Types, TaskInv, OldGone, NEW t \in Task, MigrateTaskOwner(t) PROVE TaskInv'
<1>1. /\ op.at = "migrate" /\ t \in op.todo /\ tok' = tok /\ minted' = minted /\ req' = req /\ seen' = seen
      /\ cut' = cut
      /\ task' = task \/ (Exists(t) /\ task' = [task EXCEPT ![t].owner = op.hash])
  <2>1. /\ op.at = "migrate" /\ t \in op.todo /\ UNCHANGED <<ledger, req, seen, ghosts>>
    BY DEF MigrateTaskOwner
  <2>2. task' = task \/ (Exists(t) /\ task' = [task EXCEPT ![t].owner = op.hash])
    BY Zenon DEF MigrateTaskOwner
  <2> QED BY <2>1, <2>2 DEF ledger, ghosts
<1>2. BornGone(t) /\ task[t].born # NoHash
  BY <1>1 DEF OldGone
<1>3. ASSUME NEW s \in Task
      PROVE  /\ task'[s].born = task[s].born /\ task'[s].st = task[s].st
             /\ task'[s].owner = task[s].owner \/ BornGone(s)
             /\ task'[s] = NoTask <=> task[s] = NoTask
  <2>1. CASE task' = task
    BY <2>1
  <2>2. CASE Exists(t) /\ task' = [task EXCEPT ![t].owner = op.hash]
    <3>1. task[t].st # "none" /\ task[t] \in TaskRow
      BY <2>2, MintedFacts DEF Exists
    <3> QED BY <1>2, <2>2, <3>1 DEF TaskRow, NoTask, Types, TasksOK
  <2> QED BY <1>1, <2>1, <2>2
<1>4. CreatedStays
  BY <1>3 DEF CreatedStays, Created
<1>5. NoReturn /\ MintedUp /\ ChargesCut /\ \A s \in Task : Charged(s)' = Charged(s)
  BY <1>1, SameCharges DEF MintedUp, ChargesCut
<1>6. ASSUME NEW s \in Task PROVE ChargePlace(s)' /\ OwnerKnown(s)' /\ Creation(s)' /\ Paid(s)'
  <2>1. Creation(s)'
    BY <1>1, <1>3, <1>4, <1>5, SameCreation
  <2>2. OwnerKnown(s) /\ Paid(s)
    BY DEF TaskInv
  <2> QED BY <1>1, <1>3, <1>5, <2>1, <2>2, TaskMoves DEF OwnerKnown, Owed, ChargesCut, ChargeKept, Exists
<1> QED BY <1>6 DEF TaskInv

LEMMA ContinueCharges == ASSUME Types, TaskInv, OldGone, Continue PROVE TaskInv' /\ NoReturn
<1>1. CASE RegisterUser \/ RotateUser \/ ListOwnedTasks \/ WriteUser \/ CreditFails \/ CloseCard
  <2>1. UNCHANGED taskVars /\ tok' = tok /\ MintedUp
    BY <1>1 DEF RegisterUser, RotateUser, ListOwnedTasks, WriteUser, CreditFails, CloseCard, ledger, MintedUp
  <2>2. ChargeCutStays
    BY <1>1 DEF RegisterUser, RotateUser, ListOwnedTasks, WriteUser, CreditFails, CloseCard, ghosts,
                ChargeCutStays
  <2> QED BY <2>1, <2>2, TokSame
<1>2. CASE DeleteUserToken
  <2>1. /\ UNCHANGED taskVars /\ minted' = minted /\ op.hash \in Hash
        /\ tok' = [tok EXCEPT ![op.hash] = NoEntry] /\ cut \cup DeletedCharges(op.hash) \subseteq cut'
    BY <1>2 DEF DeleteUserToken, Types, OpOK
  <2> QED BY <2>1, DropCharges, LedgerCharges DEF MintedUp
<1>3. CASE LimitPurchased
  BY <1>3, LimitPurchasedRow, RowSame DEF LimitPurchased, ghosts, ChargeCutStays
<1>4. CASE SyncToken
  BY <1>4, SyncTokenRow, RowSame DEF SyncToken, ChargeCutStays
<1>5. CASE CreditCard
  BY <1>5, CreditRow, RowSame DEF CreditCard, ChargeCutStays
<1>6. ASSUME NEW t \in Task, MigrateTaskOwner(t) PROVE TaskInv' /\ NoReturn
  BY <1>6, MigrateCharges, SameCharges DEF MigrateTaskOwner, ledger
<1> QED BY <1>1, <1>2, <1>3, <1>4, <1>5, <1>6 DEF Continue

LEMMA CrashCharges == ASSUME Types, TaskInv, Crash PROVE TaskInv'
<1>1. /\ task' = task /\ seen' = seen /\ tok' = tok /\ minted' = minted /\ cut \subseteq cut'
      /\ \A t \in Task : req'[t] = IdleReq
  BY DEF Crash, ledger
<1>2. NoReturn /\ MintedUp /\ ChargesCut /\ \A t \in Task : Charged(t)' = Charged(t)
  BY <1>1, SameCharges DEF MintedUp, ChargesCut
<1>3. ASSUME NEW t \in Task PROVE ChargePlace(t)' /\ OwnerKnown(t)' /\ Creation(t)' /\ Paid(t)'
  <2>1. Creation(t)' /\ (Owed(t)' => Owed(t))
    BY <1>1 DEF Creation, Owed, IdleReq
  <2>2. OwnerKnown(t) /\ Paid(t)
    BY DEF TaskInv
  <2> QED BY <1>1, <1>2, <2>1, <2>2, TaskMoves DEF OwnerKnown, ChargesCut, ChargeKept, Exists
<1> QED BY <1>3 DEF TaskInv

\* The creations that a crash cut short fail, and are refunded later.
LEMMA StartUpCharges == ASSUME Types, TaskInv, DownQuiet, StartUp PROVE TaskInv' /\ NoReturn
<1>1. /\ req' = req /\ (\A t \in Task : req[t] = IdleReq) /\ UNCHANGED <<ledger, cut>>
      /\ \A t \in Task : IF task[t].st = "initializing"
           THEN task'[t] = [task[t] EXCEPT !.st = "failed"] /\ seen'[t] = task[t].owner
           ELSE task'[t] = task[t] /\ seen'[t] = seen[t]
  BY DEF StartUp, DownQuiet, ghosts
<1>2. NoReturn /\ MintedUp /\ ChargesCut /\ \A t \in Task : Charged(t)' = Charged(t)
  BY <1>1, SameCharges DEF MintedUp, ChargesCut, ledger
<1>3. ASSUME NEW t \in Task PROVE ChargePlace(t)' /\ OwnerKnown(t)' /\ Creation(t)' /\ Paid(t)'
  <2>1. OwnerKnown(t) /\ Paid(t) /\ task[t] \in TaskRow
    BY MintedFacts DEF TaskInv
  <2>2. /\ task'[t].born = task[t].born /\ task'[t].owner = task[t].owner
        /\ task'[t].st = IF task[t].st = "initializing" THEN "failed" ELSE task[t].st
    BY <1>1, <2>1 DEF TaskRow
  <2>3. task'[t] = NoTask <=> task[t] = NoTask
    <3>1. NoTask.st = "none"
      BY DEF NoTask
    <3>2. CASE task[t].st = "initializing"
      BY <2>2, <3>1, <3>2
    <3>3. CASE task[t].st # "initializing"
      BY <1>1, <3>3
    <3> QED BY <3>2, <3>3
  <2>4. Creation(t)' /\ (Owed(t)' => Owed(t))
    BY <1>1, <2>2 DEF Creation, Owed, IdleReq
  <2> QED BY <1>1, <1>2, <2>1, <2>2, <2>3, <2>4, TaskMoves DEF OwnerKnown, ChargesCut, ChargeKept, Exists
<1> QED BY <1>2, <1>3 DEF TaskInv

LEMMA OtherCharges ==
  ASSUME Types, TaskInv, DownQuiet,
         \/ \E h \in Hash : DeleteTempToken(h)
         \/ \E c \in Card : GenerateCards(c) \/ DeleteCards(c)
         \/ ListUsers \/ Crash \/ StartUp
         \/ \E u \in User : RepairUserToken(u)
  PROVE  TaskInv' /\ NoReturn
<1>1. ASSUME NEW h \in Hash, DeleteTempToken(h) PROVE TaskInv' /\ NoReturn
  <2>1. /\ UNCHANGED taskVars /\ minted' = minted
        /\ tok' = [tok EXCEPT ![h] = NoEntry] /\ cut \cup DeletedCharges(h) \subseteq cut'
    BY <1>1 DEF DeleteTempToken
  <2> QED BY <2>1, DropCharges, LedgerCharges DEF MintedUp
<1>2. ASSUME NEW c \in Card, GenerateCards(c) \/ DeleteCards(c) PROVE TaskInv' /\ NoReturn
  BY <1>2, TokSame DEF GenerateCards, DeleteCards, ledger, ghosts, MintedUp, ChargeCutStays
<1>3. CASE ListUsers
  BY <1>3, TokSame DEF ListUsers, ledger, ghosts, MintedUp, ChargeCutStays
<1>4. CASE Crash
  BY <1>4, CrashCharges, SameCharges DEF Crash, ledger
<1>5. CASE StartUp
  BY <1>5, StartUpCharges
<1>6. ASSUME NEW u \in User, RepairUserToken(u) PROVE TaskInv' /\ NoReturn
  <2>1. NewRow /\ cut' = (cut \ {<<u, "wallet">>}) \cup {<<u, "slots">>}
    BY <1>6, RepairRow
  <2>2. NoReturn /\ MintedUp /\ ChargesCut /\ \A t \in Task : Charged(t)' = Charged(t)
    BY <2>1, NewRowCharges DEF ChargesCut
  <2> QED BY <1>6, <2>2, LedgerCharges DEF RepairUserToken
<1> QED BY <1>1, <1>2, <1>3, <1>4, <1>5, <1>6

-----------------------------------------------------------------------------
(* The row a rotation left.                                                  *)

BornStays == \A t \in Task : task[t].born # NoHash => task'[t].born = task[t].born

LEMMA OldStill ==
  ASSUME Types, TaskInv, OldGone, NoReturn, BornStays, MintedUp, op' = op PROVE OldGone'
<1>1. CASE op.at \in {"rotated", "list"}
  <2>1. op \in [at : {"rotated", "list"}, user : User, old : Hash, hash : Hash] /\ minted \in Nat
    BY <1>1, MintedFacts DEF Types, OpOK
  <2>2. op.old \in Nat /\ op.old <= minted /\ ~IsThere(op.old)
    BY <1>1, <2>1, HashFacts DEF OldGone
  <2>3. \A g : g = op.old => ~IsThere(g)'
    BY <2>2, StaysGone
  <2>4. op.old <= minted' /\ ~IsThere(op.old)'
    BY <2>1, <2>2, <2>3 DEF MintedUp, IsThere
  <2> QED BY <1>1, <2>4 DEF OldGone
<1>2. CASE op.at = "migrate"
  <2>1. op.todo \subseteq Task
    BY <1>2 DEF Types, OpOK
  <2>2. ASSUME NEW t \in op.todo PROVE task'[t].born # NoHash /\ BornGone(t)'
    BY <1>2, <2>1, <2>2, BornStaysGone DEF OldGone, BornStays
  <2> QED BY <1>2, <2>2 DEF OldGone
<1>3. CASE op.at \notin {"rotated", "list", "migrate"}
  BY <1>3 DEF OldGone
<1> QED BY <1>1, <1>2, <1>3

LEMMA AccountOld ==
  ASSUME Types, HashInv, TaskInv, OldGone, NoReturn, NEW u \in User, Account(u) PROVE OldGone'
<1>1. CASE RotateTempToken(u)
  <2> DEFINE old == usr[u].hash
  <2>1. old \in Hash /\ minted' = minted + 1 /\ \A g : IsThere(g)' <=> (IsThere(g) /\ g # old) \/ g = minted + 1
    BY <1>1, RotateRow DEF IsThere
  <2>2. /\ op' = [at |-> "rotated", user |-> u, old |-> old, hash |-> minted + 1]
        /\ usr[u].there /\ minted \in Nat /\ old \in Nat
    BY <1>1, <2>1, RotateRow, MintedFacts, HashFacts DEF RotateTempToken
  <2>3. old <= minted
    BY <2>2 DEF HashInv
  <2> HIDE DEF old
  <2>4. op'.old <= minted' /\ op'.at = "rotated" /\ op'.old = old /\ old # minted + 1
    BY <2>1, <2>2, <2>3
  <2>5. (~IsThere(op.old))'
    BY <2>1, <2>4 DEF IsThere
  <2> QED BY <2>4, <2>5 DEF OldGone
<1>2. CASE ~RotateTempToken(u)
  <2>1. op' = op \/ op'.at \notin {"rotated", "list", "migrate"}
    BY <1>2, SMTT(30) DEF Account, RegisterToken, DeleteUser, SyncUserMembership, Tick, RotateUserToken,
                ChangeUserPassword, ResetUserPassword, PurchaseMembership, SetUserConcurrency,
                UsersAddPoints, UsersDeductPoints, SetModelDiscounts, SetUserEnabled,
                SetTempBillingPriority, RedeemCard, Idle
  <2>2. task' = task /\ MintedUp
    BY <1>2 DEF Account, RegisterToken, DeleteUser, SyncUserMembership, Tick, RotateUserToken,
                ChangeUserPassword, ResetUserPassword, PurchaseMembership, SetUserConcurrency,
                UsersAddPoints, UsersDeductPoints, AddUserPoints, DeductUserPoints,
                AdjustUserVideoQuota, SetModelDiscounts, SetUserEnabled,
                SetTempBillingPriority, RedeemCard, taskVars, ledger, MintedUp
  <2>3. CASE op' = op
    BY <2>2, <2>3, OldStill DEF BornStays
  <2>4. CASE op'.at \notin {"rotated", "list", "migrate"}
    BY <2>4 DEF OldGone
  <2> QED BY <2>1, <2>3, <2>4
<1> QED BY <1>1, <1>2

LEMMA ContinueOld == ASSUME Types, TaskInv, OldGone, NoReturn, Continue PROVE OldGone'
<1>1. CASE RotateUser
  <2>1. op.at = "rotated" /\ tok' = tok /\ minted' = minted
    BY <1>1 DEF RotateUser, ledger
  <2>2. op \in [at : {"rotated", "list"}, user : User, old : Hash, hash : Hash]
    BY <2>1 DEF Types, OpOK
  <2>3. op'.at = "list" /\ op'.old = op.old
    BY <1>1, <2>2 DEF RotateUser
  <2>4. (op.old <= minted /\ ~IsThere(op.old))'
    BY <2>1, <2>3 DEF OldGone, IsThere
  <2> QED BY <2>3, <2>4 DEF OldGone
<1>2. CASE ListOwnedTasks
  <2> DEFINE owned == {t \in Task : Exists(t) /\ task[t].owner = op.old}
  <2>1. /\ op.at = "list" /\ tok' = tok /\ task' = task
        /\ op' = Idle \/ (op'.at = "migrate" /\ op'.todo = owned)
    BY <1>2 DEF ListOwnedTasks, ledger, taskVars
  <2>2. ASSUME NEW t \in owned PROVE task[t].born # NoHash /\ BornGone(t)
    <3>1. t \in Task /\ task[t].st # "none" /\ task[t].owner = op.old /\ OwnerKnown(t)
      BY DEF Exists, TaskInv
    <3>2. ~IsThere(op.old)
      BY <2>1 DEF OldGone
    <3>3. task[t].born # NoHash
      BY <3>1 DEF OwnerKnown, NoTask
    <3> QED BY <3>1, <3>2, <3>3 DEF OwnerKnown, BornGone
  <2>3. ASSUME NEW t \in owned PROVE (task[t].born # NoHash /\ BornGone(t))'
    BY <2>1, <2>2 DEF BornGone, IsThere
  <2> HIDE DEF owned
  <2>4. CASE op' = Idle
    BY <2>4 DEF OldGone, Idle
  <2>5. CASE op'.at = "migrate" /\ op'.todo = owned
    BY <2>3, <2>5 DEF OldGone
  <2> QED BY <2>1, <2>4, <2>5
<1>3. ASSUME NEW t \in Task, MigrateTaskOwner(t) PROVE OldGone'
  <2>1. /\ op.at = "migrate" /\ tok' = tok
        /\ op \in [at : {"migrate"}, hash : Hash, todo : SUBSET Task]
    BY <1>3 DEF MigrateTaskOwner, ledger, Types, OpOK
  <2>2. op' = Idle \/ (op'.at = "migrate" /\ op'.todo \subseteq op.todo)
    BY <1>3, <2>1 DEF MigrateTaskOwner
  <2>3. \A s \in Task : task'[s].born = task[s].born
    <3>1. CASE task' = task
      BY <3>1
    <3>2. CASE task' = [task EXCEPT ![t].owner = op.hash]
      BY <3>2, MintedFacts DEF Types, TasksOK, TaskRow
    <3>3. task' = task \/ task' = [task EXCEPT ![t].owner = op.hash]
      BY <1>3, Zenon DEF MigrateTaskOwner
    <3> QED BY <3>1, <3>2, <3>3
  <2>4. ASSUME NEW s \in op.todo PROVE (task[s].born # NoHash /\ BornGone(s))'
    BY <2>1, <2>3 DEF OldGone, BornGone, IsThere
  <2>5. CASE op' = Idle
    BY <2>5 DEF OldGone, Idle
  <2>6. CASE op'.at = "migrate" /\ op'.todo \subseteq op.todo
    BY <2>4, <2>6 DEF OldGone
  <2> QED BY <2>2, <2>5, <2>6
<1>4. CASE RegisterUser \/ DeleteUserToken \/ LimitPurchased \/ WriteUser \/ SyncToken
           \/ CreditCard \/ CreditFails \/ CloseCard
  <2>1. op'.at \in {"idle", "limited", "credited"}
    BY <1>4 DEF RegisterUser, DeleteUserToken, LimitPurchased, WriteUser, SyncToken, CreditCard,
                CreditFails, CloseCard, Idle
  <2> QED BY <2>1 DEF OldGone
<1> QED BY <1>1, <1>2, <1>3, <1>4 DEF Continue

LEMMA OtherOld ==
  ASSUME Types, TaskInv, OldGone, NoReturn,
         \/ \E h \in Hash : DeleteTempToken(h)
         \/ \E c \in Card : GenerateCards(c) \/ DeleteCards(c)
         \/ ListUsers \/ Crash \/ StartUp
         \/ \E u \in User : RepairUserToken(u)
  PROVE  OldGone'
<1>1. CASE \/ \E h \in Hash : DeleteTempToken(h)
           \/ \E c \in Card : GenerateCards(c) \/ DeleteCards(c)
           \/ ListUsers
  <2>1. op' = op /\ MintedUp /\ task' = task
    BY <1>1 DEF DeleteTempToken, GenerateCards, DeleteCards, ListUsers, ledger, taskVars, MintedUp
  <2> QED BY <2>1, OldStill DEF BornStays
<1>2. CASE Crash
  BY <1>2 DEF Crash, Idle, OldGone
<1>3. CASE StartUp
  <2>1. op' = op /\ MintedUp
    BY <1>3 DEF StartUp, MintedUp, ledger
  <2>2. BornStays
    <3>1. \A t \in Task : task'[t] \in {task[t], [task[t] EXCEPT !.st = "failed"]} /\ task[t] \in TaskRow
      BY <1>3, MintedFacts DEF StartUp
    <3> QED BY <3>1 DEF BornStays, TaskRow
  <2> QED BY <2>1, <2>2, OldStill
<1>4. ASSUME NEW u \in User, RepairUserToken(u) PROVE OldGone'
  <2>1. op' = op /\ MintedUp /\ task' = task
    BY <1>4, RepairRow DEF RepairUserToken, NewRow, MintedUp, taskVars
  <2> QED BY <2>1, OldStill DEF BornStays
<1> QED BY <1>1, <1>2, <1>3, <1>4

-----------------------------------------------------------------------------
(* The steps of the creation and of the end of a task.                       *)

OthersSame(t) ==
  \A s \in Task \ {t} : task'[s] = task[s] /\ req'[s] = req[s] /\ seen'[s] = seen[s]

LEMMA OneTask ==
  ASSUME Types, TaskInv, NEW t \in Task, NoReturn, MintedUp, CreatedStays, OthersSame(t), cut \subseteq cut',
         \A s \in Task \ {t} : Charged(s)' = Charged(s),
         ChargePlace(t)' /\ OwnerKnown(t)' /\ Creation(t)' /\ Paid(t)'
  PROVE  TaskInv'
<1> SUFFICES ASSUME NEW s \in Task \ {t}
             PROVE  ChargePlace(s)' /\ OwnerKnown(s)' /\ Creation(s)' /\ Paid(s)'
  BY DEF TaskInv
<1>1. task'[s] = task[s] /\ req'[s] = req[s] /\ seen'[s] = seen[s] /\ Charged(s)' = Charged(s)
  BY DEF OthersSame
<1>2. Creation(s)'
  BY <1>1, SameCreation
<1>3. ChargeKept(s) /\ (Owed(s)' => Owed(s))
  BY <1>1 DEF ChargeKept, Owed
<1>4. OwnerKnown(s) /\ Paid(s)
  BY DEF TaskInv
<1> QED BY <1>1, <1>2, <1>3, <1>4, TaskMoves DEF OwnerKnown, Paid, Exists

\* A step that leaves the token rows.
LEMMA QuietStep ==
  ASSUME Types, TaskInv, NEW t \in Task, UNCHANGED <<tok, minted, cut>>, OthersSame(t), CreatedStays,
         task'[t].born = task[t].born, task'[t] = NoTask => task[t] = NoTask,
         task[t].born = NoHash => task'[t] = NoTask,
         Exists(t)' => Exists(t) /\ task'[t].owner = task[t].owner,
         \/ seen'[t] = seen[t] \/ seen'[t] = NoHash
         \/ Exists(t) /\ seen'[t] = task[t].owner,
         Creation(t)', Owed(t)' => Owed(t), task'[t].st = "settled" => task[t].st = "settled"
  PROVE  TaskInv'
<1>1. NoReturn /\ MintedUp /\ \A s \in Task : Charged(s)' = Charged(s)
  BY SameCharges DEF MintedUp
<1>2. ChargeKept(t)
  BY <1>1 DEF ChargeKept
<1>3. ChargePlace(t)' /\ OwnerKnown(t)' /\ Creation(t)' /\ Paid(t)'
  BY <1>1, <1>2, TaskMoves
<1> QED BY <1>1, <1>3, OneTask

\* A step of the request alone.
LEMMA RequestStep ==
  ASSUME Types, TaskInv, NEW t \in Task, NEW r, UNCHANGED <<ledger, task, seen, ghosts>>,
         req' = [req EXCEPT ![t] = r], Creation(t)', r.at # "files"
  PROVE  TaskInv'
<1>1. /\ tok' = tok /\ minted' = minted /\ cut' = cut /\ task' = task /\ seen' = seen
      /\ OthersSame(t) /\ req'[t] = r
  BY DEF ledger, ghosts, OthersSame, Types, TasksOK
<1>2. CreatedStays /\ (Owed(t)' => Owed(t))
  BY <1>1 DEF CreatedStays, Created, Owed
<1>3. OwnerKnown(t)
  BY DEF TaskInv
<1> QED BY <1>1, <1>2, <1>3, QuietStep DEF OwnerKnown, Exists

LEMMA UserHash ==
  ASSUME Types, HashInv, NEW u \in User, SignedIn(u)
  PROVE  usr[u].hash \in Hash /\ usr[u].hash <= minted /\ usr[u].hash # NoHash
BY HashFacts DEF SignedIn, HasRow, IsThere, HashInv

LEMMA ResumeCharges ==
  ASSUME Types, HashInv, TaskInv, NEW t \in Task, NEW u \in User, ResumeTask(t, u) PROVE TaskInv'
<1> DEFINE r == NewReq("price", usr[u].hash, {})
<1>1. req' = [req EXCEPT ![t] = r] /\ UNCHANGED <<ledger, task, seen, ghosts>> /\ SignedIn(u)
      /\ task[t].st = "initializing" /\ task[t].born = usr[u].hash
  BY DEF ResumeTask
<1>2. r.at = "price" /\ r.hash = usr[u].hash /\ r.drop = {}
  BY DEF NewReq
<1> HIDE DEF r
<1>3. req'[t] = r /\ task' = task /\ minted' = minted
  BY <1>1 DEF Types, TasksOK, ledger
<1>4. Creation(t)'
  BY <1>1, <1>2, <1>3, UserHash DEF Creation, NoTask
<1> QED BY <1>1, <1>2, <1>4, RequestStep

LEMMA RetryCharges ==
  ASSUME Types, TaskInv, NEW t \in Task, NEW old \in Task, RetryTask(t, old) PROVE TaskInv'
<1> DEFINE drop == IF task[old].st = "success" THEN {} ELSE {old}
           r == NewReq("retry", task[old].owner, drop)
<1>1. /\ req' = [req EXCEPT ![t] = r] /\ UNCHANGED <<ledger, task, seen, ghosts>> /\ task[t] = NoTask
      /\ task[old].st \in Ended /\ IsThere(task[old].owner)
  BY DEF RetryTask
<1>2. r.at = "retry" /\ r.hash = task[old].owner /\ r.drop = drop
  BY DEF NewReq
<1>3. Created(old) /\ task[old].owner <= minted
  <2>1. OwnerKnown(old) /\ NoTask.st = "none"
    BY DEF TaskInv, NoTask
  <2>2. task[old].owner <= minted
    BY <1>1 DEF Types, LedgerOK, IsThere
  <2> QED BY <1>1, <2>1, <2>2 DEF OwnerKnown, Created, Ended
<1>4. \A s \in drop : s = old
  OBVIOUS
<1> HIDE DEF r, drop
<1>5. req'[t] = r /\ task' = task /\ minted' = minted
  BY <1>1 DEF Types, TasksOK, ledger
<1>6. Creation(t)'
  BY <1>1, <1>2, <1>3, <1>4, <1>5 DEF Creation, Created
<1> QED BY <1>1, <1>2, <1>6, RequestStep

\* The request goes on, or gives up, without a look at the task.
LEMMA RequestMoves ==
  ASSUME Types, TaskInv, NEW t \in Task,
         ReadPrice(t) \/ QuotaExceeded(t) \/ CreationFails(t) \/ CleanUpFails(t)
  PROVE  TaskInv'
<1>1. UNCHANGED <<ledger, task, seen, ghosts>> /\ minted' = minted
  BY DEF ReadPrice, QuotaExceeded, CreationFails, CleanUpFails, ledger
<1>2. Creation(t) /\ task' = task /\ (req[t].at # "idle" => req[t] \in ReqRow)
  BY <1>1, MintedFacts DEF TaskInv
<1>3. CASE ReadPrice(t)
  <2> DEFINE r == [req[t] EXCEPT !.at = "reserve", !.cost = Cost(req[t].hash)]
  <2>1. req[t].at = "price" /\ req' = [req EXCEPT ![t] = r]
    BY <1>3 DEF ReadPrice
  <2>2. r.at = "reserve" /\ r.hash = req[t].hash /\ r.drop = req[t].drop
    BY <1>2, <2>1 DEF ReqRow
  <2> HIDE DEF r
  <2>3. req'[t] = r
    BY <2>1 DEF Types, TasksOK
  <2>4. Creation(t)'
    BY <1>1, <1>2, <2>1, <2>2, <2>3 DEF Creation, Created
  <2> QED BY <1>1, <2>1, <2>2, <2>4, RequestStep
<1>4. ASSUME NEW at \in {"delete", "refund"}, req[t].at \notin {"idle", "retry"},
             req' = [req EXCEPT ![t].at = at]
      PROVE  TaskInv'
  <2> DEFINE r == [req[t] EXCEPT !.at = at]
  <2>1. req' = [req EXCEPT ![t] = r]
    BY <1>4
  <2>2. r.at = at /\ r.hash = req[t].hash /\ r.drop = req[t].drop
    BY <1>2, <1>4 DEF ReqRow
  <2> HIDE DEF r
  <2>3. req'[t] = r
    BY <2>1 DEF Types, TasksOK
  <2>4. Creation(t)'
    BY <1>1, <1>2, <1>4, <2>2, <2>3 DEF Creation, Created
  <2> QED BY <1>1, <1>4, <2>1, <2>2, <2>4, RequestStep
<1>5. CASE CleanUpFails(t)
  <2>1. req[t].at \in {"refund", "delete"} /\ req' = [req EXCEPT ![t] = IdleReq]
    BY <1>5 DEF CleanUpFails
  <2>2. req'[t] = IdleReq /\ IdleReq.at = "idle"
    BY <2>1 DEF Types, TasksOK, IdleReq
  <2>3. Creation(t)'
    BY <1>2, <2>1, <2>2 DEF Creation
  <2> QED BY <1>1, <2>1, <2>2, <2>3, RequestStep
<1>6. CASE QuotaExceeded(t)
  BY <1>4, <1>6 DEF QuotaExceeded
<1>7. CASE CreationFails(t)
  BY <1>4, <1>7 DEF CreationFails
<1> QED BY <1>3, <1>5, <1>6, <1>7

LEMMA TaskSame ==
  ASSUME Types, TaskInv, NEW t \in Task, task[t].st # "none"
  PROVE  task[t].born # NoHash /\ task[t] # NoTask
BY DEF TaskInv, OwnerKnown, NoTask

LEMMA FinalizeCharges == ASSUME Types, TaskInv, NEW t \in Task, FinalizeTask(t) PROVE TaskInv'
<1> DEFINE r == IF req[t].drop = {} THEN IdleReq ELSE [req[t] EXCEPT !.at = "drop"]
<1>1. /\ req[t].at = "files" /\ task' = [task EXCEPT ![t].st = "live"] /\ req' = [req EXCEPT ![t] = r]
      /\ UNCHANGED <<ledger, seen, ghosts>>
  BY DEF FinalizeTask
<1>2. /\ task[t] \in TaskRow /\ req[t] \in ReqRow /\ Creation(t) /\ task[t].st = "initializing"
  BY <1>1, MintedFacts DEF TaskInv, Creation, IdleReq
<1>3. r.at = "idle" \/ (r.at = "drop" /\ r.hash = req[t].hash /\ r.drop = req[t].drop)
  BY <1>2 DEF ReqRow, IdleReq
<1> HIDE DEF r
<1>4. /\ req'[t] = r /\ task'[t].st = "live" /\ task'[t].born = task[t].born
      /\ task'[t].owner = task[t].owner
  BY <1>1, <1>2 DEF Types, TasksOK, TaskRow
<1>5. task[t].born # NoHash /\ task'[t] # NoTask
  BY <1>2, <1>4, TaskSame DEF NoTask
<1>6. UNCHANGED <<tok, minted, cut>> /\ seen' = seen /\ OthersSame(t)
  BY <1>1 DEF ledger, ghosts, OthersSame, Types, TasksOK
<1>7. CreatedStays
  BY <1>2, <1>4, <1>5, <1>6 DEF CreatedStays, Created, OthersSame
<1>8. \A s \in req[t].drop : s \in Task
  BY <1>2 DEF ReqRow
<1>9. Creation(t)'
  BY <1>1, <1>2, <1>3, <1>4, <1>5, <1>6, <1>7, <1>8 DEF Creation, CreatedStays
<1>10. Owed(t)
  BY <1>1 DEF Owed
<1> QED BY <1>2, <1>4, <1>5, <1>6, <1>7, <1>9, <1>10, QuietStep DEF Exists

LEMMA DeleteCharges == ASSUME Types, TaskInv, NEW t \in Task, DeleteCreation(t) PROVE TaskInv'
<1>1. /\ req[t].at = "delete" /\ task' = [task EXCEPT ![t].st = "none", ![t].owner = NoHash]
      /\ req' = [req EXCEPT ![t] = IdleReq] /\ UNCHANGED <<ledger, seen, ghosts>>
  BY DEF DeleteCreation
<1>2. task[t] \in TaskRow /\ Creation(t) /\ OwnerKnown(t)
  BY MintedFacts DEF TaskInv
<1>3. /\ req'[t] = IdleReq /\ task'[t].st = "none" /\ task'[t].born = task[t].born
  BY <1>1, <1>2 DEF Types, TasksOK, TaskRow
<1>4. task[t] # NoTask /\ task[t].born # NoHash /\ task'[t] # NoTask
  <2>1. task[t] # NoTask
    BY <1>1, <1>2 DEF Creation
  <2>2. task[t].born # NoHash
    BY <1>2, <2>1 DEF OwnerKnown
  <2>3. NoTask.born = NoHash
    BY DEF NoTask
  <2> QED BY <1>3, <2>1, <2>2, <2>3
<1>5. UNCHANGED <<tok, minted, cut>> /\ seen' = seen /\ OthersSame(t)
  BY <1>1 DEF ledger, ghosts, OthersSame, Types, TasksOK
<1>6. CreatedStays
  BY <1>3, <1>4, <1>5 DEF CreatedStays, Created, OthersSame
<1>7. Creation(t)' /\ ~Owed(t)'
  BY <1>3, <1>4 DEF Creation, Owed, IdleReq
<1> QED BY <1>3, <1>4, <1>5, <1>6, <1>7, QuietStep DEF Exists

\* The task's status moves on, and nothing else.
LEMMA StatusCharges ==
  ASSUME Types, TaskInv, NEW t \in Task, CleanUpTask(t) \/ \E st \in {"failed", "success"} : EndTask(t, st)
  PROVE  TaskInv'
<1>1. PICK st \in {"failed", "success", "deleted"} :
        /\ task' = [task EXCEPT ![t].st = st] /\ UNCHANGED <<ledger, req, seen, ghosts>>
        /\ task[t].st \in {"live", "success", "failed", "settled"}
        /\ st = "success" => task[t].st = "live"
  BY DEF CleanUpTask, EndTask, Ended
<1>2. task[t] \in TaskRow /\ Creation(t)
  BY MintedFacts DEF TaskInv
<1>3. /\ task'[t].st = st /\ task'[t].born = task[t].born /\ task'[t].owner = task[t].owner
  BY <1>1, <1>2 DEF Types, TasksOK, TaskRow
<1>4. task[t].born # NoHash /\ task'[t] # NoTask /\ task[t] # NoTask
  BY <1>1, <1>3, TaskSame DEF NoTask
<1>5. UNCHANGED <<tok, minted, cut>> /\ seen' = seen /\ req' = req /\ OthersSame(t)
  BY <1>1 DEF ledger, ghosts, OthersSame, Types, TasksOK
<1>6. CreatedStays
  BY <1>1, <1>3, <1>4, <1>5 DEF CreatedStays, Created, OthersSame
<1>7. req[t].at # "idle" => req[t].drop \subseteq Task
  BY MintedFacts DEF ReqRow
<1>8. Creation(t)'
  BY <1>1, <1>2, <1>3, <1>4, <1>5, <1>6, <1>7 DEF Creation, CreatedStays
<1>9. Owed(t)' => Owed(t)
  BY <1>1, <1>2, <1>3, <1>5 DEF Owed, Creation
<1> QED BY <1>1, <1>3, <1>4, <1>5, <1>6, <1>8, <1>9, QuietStep DEF Exists

LEMMA SeenCharges ==
  ASSUME Types, TaskInv, NEW t \in Task, ReadOwner(t) \/ RefundLost(t) PROVE TaskInv'
<1>1. /\ UNCHANGED <<ledger, task, req, ghosts>> /\ task[t].st # "none"
      /\ \/ Exists(t) /\ seen' = [seen EXCEPT ![t] = task[t].owner]
         \/ seen' = [seen EXCEPT ![t] = NoHash]
  BY DEF ReadOwner, RefundLost, Exists
<1>2. /\ UNCHANGED <<tok, minted, cut>> /\ task' = task /\ req' = req /\ OthersSame(t)
      /\ (Exists(t) /\ seen'[t] = task[t].owner) \/ seen'[t] = NoHash
  BY <1>1 DEF ledger, ghosts, OthersSame, Types, TasksOK
<1>3. CreatedStays /\ (Owed(t)' => Owed(t)) /\ MintedUp
  BY <1>2 DEF CreatedStays, Created, Owed, MintedUp
<1>4. Creation(t)'
  BY <1>2, <1>3, SameCreation
<1>5. task[t].born # NoHash
  BY <1>1, TaskSame
<1> QED BY <1>1, <1>2, <1>3, <1>4, <1>5, QuietStep DEF Exists

LEMMA DropOld == ASSUME Types, TaskInv, NEW t \in Task, DropOriginal(t) PROVE TaskInv'
<1>1. /\ req[t].at = "drop" /\ req' = [req EXCEPT ![t] = IdleReq] /\ UNCHANGED <<ledger, seen, ghosts>>
      /\ \A s \in Task : IF s \in req[t].drop THEN task'[s] = [task[s] EXCEPT !.st = "deleted"]
                         ELSE task'[s] = task[s]
  BY DEF DropOriginal
<1>2. /\ tok' = tok /\ minted' = minted /\ cut' = cut /\ seen' = seen /\ req'[t] = IdleReq
      /\ \A s \in Task \ {t} : req'[s] = req[s]
  BY <1>1 DEF ledger, ghosts, Types, TasksOK
<1>3. \A s \in req[t].drop : Created(s)
  BY <1>1 DEF TaskInv, Creation
<1>4. ASSUME NEW s \in Task
      PROVE  /\ task'[s].born = task[s].born /\ task'[s].owner = task[s].owner
             /\ \/ task'[s] = task[s]
                \/ Created(s) /\ task'[s].st = "deleted" /\ task'[s] # NoTask
  <2>1. CASE s \in req[t].drop
    <3>1. task[s] \in TaskRow /\ NoTask.st = "none"
      BY MintedFacts DEF NoTask
    <3> QED BY <1>1, <1>3, <2>1, <3>1 DEF TaskRow
  <2>2. CASE s \notin req[t].drop
    BY <1>1, <2>2
  <2> QED BY <2>1, <2>2
<1>5. CreatedStays /\ NoReturn /\ MintedUp /\ \A s \in Task : Charged(s)' = Charged(s)
  BY <1>2, <1>4, SameCharges DEF CreatedStays, Created, MintedUp
<1>6. ASSUME NEW s \in Task PROVE ChargePlace(s)' /\ OwnerKnown(s)' /\ Creation(s)' /\ Paid(s)'
  <2>1. OwnerKnown(s) /\ Creation(s) /\ ChargeKept(s)
    BY <1>2, <1>5 DEF TaskInv, ChargeKept
  <2>2. req'[s] = req[s] \/ req'[s] = IdleReq
    BY <1>2
  <2>3. CASE task'[s] = task[s]
    <3>1. Creation(s)'
      <4>1. CASE s = t
        BY <1>2, <2>3, <4>1 DEF Creation, IdleReq
      <4>2. CASE s # t
        BY <1>2, <1>5, <2>3, <4>2, SameCreation
      <4> QED BY <4>1, <4>2
    <3>2. Owed(s)' => Owed(s)
      BY <2>2, <2>3 DEF Owed, IdleReq
    <3> QED BY <1>2, <1>5, <2>1, <2>3, <3>1, <3>2, TaskMoves DEF OwnerKnown, Exists
  <2>4. CASE Created(s) /\ task'[s].st = "deleted" /\ task'[s] # NoTask
    <3>1. req[s].at # "idle" => req[s].drop \subseteq Task
      BY MintedFacts DEF ReqRow
    <3>2. Creation(s)'
      BY <1>2, <1>5, <2>1, <2>2, <2>4, <3>1 DEF Creation, Created, CreatedStays, NoTask, IdleReq
    <3>3. ~Owed(s)'
      BY <2>1, <2>2, <2>4 DEF Owed, Creation, Created, IdleReq
    <3> QED BY <1>2, <1>4, <1>5, <2>1, <2>4, <3>2, <3>3, TaskMoves DEF Created, Exists
  <2> QED BY <1>4, <2>3, <2>4
<1> QED BY <1>6 DEF TaskInv

\* The record of a task that has never been charged.
LEMMA NewTask ==
  ASSUME Types, TaskInv, NEW t \in Task, task[t] = NoTask
  PROVE  /\ Charged(t) = {} /\ seen[t] = NoHash /\ req[t].at \in {"idle", "retry"}
         /\ req[t].at # "idle" => req[t].hash <= minted /\ \A s \in req[t].drop : Created(s)
         /\ task[t].born = NoHash /\ task[t].st = "none"
BY DEF TaskInv, ChargePlace, OwnerKnown, Creation, NoTask

LEMMA CreateCharges ==
  ASSUME Types, HashInv, TaskInv, NEW t \in Task,
         CreateRetry(t) \/ \E u \in User : CreateTask(t, u)
  PROVE  TaskInv'
<1>1. PICK h \in Hash, r \in ReqRow :
        /\ h <= minted /\ h # NoHash /\ task[t] = NoTask
        /\ task' = [task EXCEPT ![t] = [st |-> "initializing", owner |-> h, born |-> h]]
        /\ req' = [req EXCEPT ![t] = r] /\ r.at = "price" /\ r.hash = h
        /\ \A s \in r.drop : Created(s)
        /\ UNCHANGED <<ledger, seen, ghosts>>
  <2>1. ASSUME NEW u \in User, CreateTask(t, u)
        PROVE  \E h \in Hash, r \in ReqRow :
        /\ h <= minted /\ h # NoHash /\ task[t] = NoTask
        /\ task' = [task EXCEPT ![t] = [st |-> "initializing", owner |-> h, born |-> h]]
        /\ req' = [req EXCEPT ![t] = r] /\ r.at = "price" /\ r.hash = h
        /\ \A s \in r.drop : Created(s)
        /\ UNCHANGED <<ledger, seen, ghosts>>
    <3> DEFINE h == usr[u].hash
               r == NewReq("price", h, {})
    <3>1. h \in Hash /\ h <= minted /\ h # NoHash
      BY <2>1, UserHash DEF CreateTask
    <3>2. r.at = "price" /\ r.hash = h /\ r.drop = {} /\ r \in ReqRow
      BY <3>1 DEF NewReq, ReqRow
    <3>3. /\ task[t] = NoTask /\ UNCHANGED <<ledger, seen, ghosts>>
          /\ task' = [task EXCEPT ![t] = [st |-> "initializing", owner |-> h, born |-> h]]
          /\ req' = [req EXCEPT ![t] = r]
      BY <2>1 DEF CreateTask
    <3> HIDE DEF h, r
    <3> QED BY <3>1, <3>2, <3>3
  <2>2. CASE CreateRetry(t)
    <3> DEFINE h == req[t].hash
               r == [req[t] EXCEPT !.at = "price"]
    <3>1. /\ req[t].at = "retry" /\ UNCHANGED <<ledger, seen, ghosts>>
          /\ task' = [task EXCEPT ![t] = [st |-> "initializing", owner |-> h, born |-> h]]
          /\ req' = [req EXCEPT ![t] = r]
      BY <2>2 DEF CreateRetry
    <3>2. req[t] \in ReqRow /\ Creation(t)
      BY <3>1, MintedFacts DEF TaskInv, IdleReq
    <3>3. h \in Hash /\ h # NoHash /\ h <= minted /\ task[t] = NoTask /\ \A s \in req[t].drop : Created(s)
      BY <3>1, <3>2, HashFacts DEF ReqRow, Creation
    <3>4. r \in ReqRow /\ r.at = "price" /\ r.hash = h /\ r.drop = req[t].drop
      BY <3>2 DEF ReqRow
    <3> HIDE DEF h, r
    <3> QED BY <3>1, <3>3, <3>4
  <2> QED BY <2>1, <2>2
<1>2. /\ task'[t] = [st |-> "initializing", owner |-> h, born |-> h] /\ req'[t] = r
      /\ tok' = tok /\ minted' = minted /\ cut' = cut /\ seen' = seen /\ OthersSame(t)
  BY <1>1 DEF ledger, ghosts, OthersSame, Types, TasksOK
<1>3. NoReturn /\ MintedUp /\ \A s \in Task : Charged(s)' = Charged(s)
  BY <1>2, SameCharges DEF MintedUp
<1>4. CreatedStays
  BY <1>1, <1>2, NewTask DEF CreatedStays, Created, OthersSame
<1>5. task'[t] # NoTask /\ Charged(t)' = {} /\ seen'[t] = NoHash
  BY <1>1, <1>2, <1>3, NewTask DEF NoTask
<1>6. ChargePlace(t)' /\ OwnerKnown(t)'
  BY <1>1, <1>2, <1>5 DEF ChargePlace, OwnerKnown
<1>7. r.drop \subseteq Task
  BY DEF ReqRow
<1>8. Creation(t)'
  BY <1>1, <1>2, <1>4, <1>5, <1>7 DEF Creation, CreatedStays
<1>9. Paid(t)'
  BY <1>1, <1>2 DEF Paid, Owed
<1> QED BY <1>2, <1>3, <1>4, <1>6, <1>8, <1>9, OneTask

\* What a reservation and a refund do to the charges of all tasks.
LEMMA ReserveCharged ==
  ASSUME NEW h, NEW t \in Task, RowChange(h), Reserves(h, t)
  PROVE  /\ Charged(t)' = Charged(t) \cup {h} /\ NoReturn
         /\ \A s \in Task \ {t} : Charged(s)' = Charged(s)
<1>1. h \in Hash /\ \A g \in Hash : tok'[g] # NoEntry <=> tok[g] # NoEntry
  BY DEF RowChange, IsThere
<1>2. tok[h] # NoEntry /\ \A g \in Hash \ {h} : tok'[g] = tok[g]
  BY DEF RowChange, IsThere
<1>3. NoReturn
  BY DEF RowChange, NoReturn
<1> QED BY <1>1, <1>2, <1>3 DEF Charged, Reserves

LEMMA RefundCharged ==
  ASSUME Types, NEW h, NEW t \in Task, tok' = RefundAt(h, t)
  PROVE  /\ Charged(t)' \subseteq Charged(t) \ {h} /\ NoReturn
         /\ Charged(t)' = {} => Charged(t) \subseteq {h}
         /\ \A s \in Task \ {t} : Charged(s)' = Charged(s)
<1>1. CASE ~IsThere(h) /\ tok' = tok
  <2>1. h \notin Charged(t)
    BY <1>1 DEF Charged, IsThere
  <2> QED BY <1>1, <2>1, SameCharges
<1>2. CASE RowChange(h) /\ Refunds(h, t)
  <2>1. /\ h \in Hash /\ \A g \in Hash : tok'[g] # NoEntry <=> tok[g] # NoEntry
        /\ \A g \in Hash \ {h} : tok'[g] = tok[g]
    BY <1>2 DEF RowChange, IsThere
  <2>2. NoReturn
    BY <1>2 DEF RowChange, NoReturn
  <2> QED BY <1>2, <2>1, <2>2 DEF Charged, Refunds
<1> QED BY <1>1, <1>2, RefundRow

LEMMA ReserveCharges == ASSUME Types, TaskInv, NEW t \in Task, ReserveQuota(t) PROVE TaskInv'
<1> DEFINE h == req[t].hash
           r == [req[t] EXCEPT !.at = "files"]
<1>1. /\ req[t].at = "reserve" /\ IsThere(h) /\ req' = [req EXCEPT ![t] = r]
      /\ minted' = minted /\ task' = task /\ seen' = seen /\ cut' = cut
  BY DEF ReserveQuota, ghosts
<1>2. RowChange(h) /\ Reserves(h, t)
  BY ReserveRow
<1>3. /\ req[t] \in ReqRow /\ Creation(t) /\ ChargePlace(t) /\ OwnerKnown(t)
  BY <1>1, MintedFacts DEF TaskInv, IdleReq
<1>4. r.at = "files" /\ r.hash = h /\ r.drop = req[t].drop
  BY <1>3 DEF ReqRow
<1> HIDE DEF h, r
<1>5. req'[t] = r /\ OthersSame(t)
  BY <1>1 DEF Types, TasksOK, OthersSame
<1>6. task[t].st = "initializing" /\ h = task[t].born
  BY <1>1, <1>3 DEF Creation, h
<1>7. /\ Charged(t)' = Charged(t) \cup {h} /\ NoReturn
      /\ \A s \in Task \ {t} : Charged(s)' = Charged(s)
  BY <1>2, ReserveCharged
<1>8. Charged(t)' = {h}
  BY <1>1, <1>3, <1>6, <1>7 DEF ChargePlace, BornGone
<1>9. task[t] # NoTask
  BY <1>6 DEF NoTask
<1>10. ChargePlace(t)'
  BY <1>1, <1>6, <1>8, <1>9 DEF ChargePlace
<1>11. OwnerKnown(t)'
  <2>1. BornGone(t) => BornGone(t)'
    BY <1>1, <1>6 DEF BornGone
  <2> QED BY <1>1, <1>3, <2>1 DEF OwnerKnown, Exists
<1>12. CreatedStays
  BY <1>1 DEF CreatedStays, Created
<1>13. Creation(t)'
  BY <1>1, <1>3, <1>4, <1>5, <1>6, <1>9 DEF Creation, Created, h
<1>14. Paid(t)'
  BY <1>1, <1>6, <1>8 DEF Paid
<1> QED BY <1>1, <1>5, <1>7, <1>10, <1>11, <1>12, <1>13, <1>14, OneTask DEF MintedUp

LEMMA ChatCharges ==
  ASSUME Types, HashInv, TaskInv, NEW t \in Task, NEW u \in User, CreateChatTask(t, u) PROVE TaskInv'
<1> DEFINE h == usr[u].hash
<1>1. /\ SignedIn(u) /\ task[t] = NoTask /\ req[t] = IdleReq
      /\ task' = [task EXCEPT ![t] = [st |-> "live", owner |-> h, born |-> h]]
      /\ minted' = minted /\ req' = req /\ seen' = seen /\ cut' = cut
  BY DEF CreateChatTask, ghosts
<1>2. RowChange(h) /\ Reserves(h, t)
  BY ChatRow
<1>3. h \in Hash /\ h <= minted /\ h # NoHash
  BY <1>1, UserHash
<1> HIDE DEF h
<1>4. task'[t] = [st |-> "live", owner |-> h, born |-> h] /\ OthersSame(t)
  BY <1>1 DEF Types, TasksOK, OthersSame
<1>5. Charged(t) = {} /\ seen[t] = NoHash /\ ~Created(t)
  BY <1>1, NewTask DEF Created
<1>6. /\ Charged(t)' = {h} /\ NoReturn
      /\ \A s \in Task \ {t} : Charged(s)' = Charged(s)
  BY <1>2, <1>5, ReserveCharged
<1>7. task'[t] # NoTask
  BY <1>4 DEF NoTask
<1>8. ChargePlace(t)'
  BY <1>4, <1>6, <1>7 DEF ChargePlace
<1>9. OwnerKnown(t)'
  BY <1>1, <1>3, <1>4, <1>5, <1>7 DEF OwnerKnown
<1>10. CreatedStays
  BY <1>4, <1>5 DEF CreatedStays, Created, OthersSame
<1>11. Creation(t)'
  BY <1>1, <1>7 DEF Creation, IdleReq
<1>12. Paid(t)'
  BY <1>4, <1>6 DEF Paid
<1> QED BY <1>1, <1>4, <1>6, <1>8, <1>9, <1>10, <1>11, <1>12, OneTask DEF MintedUp

LEMMA RefundCreationCharges ==
  ASSUME Types, TaskInv, NEW t \in Task, RefundCreation(t) PROVE TaskInv'
<1> DEFINE r == [req[t] EXCEPT !.at = "delete"]
<1>1. /\ req[t].at = "refund" /\ req' = [req EXCEPT ![t] = r] /\ tok' = RefundAt(req[t].hash, t)
      /\ minted' = minted /\ task' = task /\ seen' = seen
      /\ cut' = IF task[t].st = "initializing" THEN cut ELSE cut \cup {<<t, "charge">>}
  BY DEF RefundCreation
<1>2. req[t] \in ReqRow /\ Creation(t) /\ OwnerKnown(t) /\ Paid(t)
  BY <1>1, MintedFacts DEF TaskInv, IdleReq
<1>3. r.at = "delete" /\ r.hash = req[t].hash /\ r.drop = req[t].drop
  BY <1>2 DEF ReqRow
<1> HIDE DEF r
<1>4. req'[t] = r /\ OthersSame(t)
  BY <1>1 DEF Types, TasksOK, OthersSame
<1>5. Charged(t)' \subseteq Charged(t) /\ NoReturn /\ \A s \in Task \ {t} : Charged(s)' = Charged(s)
  BY <1>1, RefundCharged
<1>6. CreatedStays /\ MintedUp
  BY <1>1 DEF CreatedStays, Created, MintedUp
<1>7. Creation(t)'
  BY <1>1, <1>2, <1>3, <1>4 DEF Creation, Created
<1>8. Owed(t)' => task[t].st \in {"live", "success"}
  BY <1>1, <1>3, <1>4 DEF Owed
<1>9. ChargeKept(t) /\ (Owed(t)' => Owed(t))
  BY <1>1, <1>8 DEF ChargeKept, Owed
<1>10. ChargePlace(t)' /\ OwnerKnown(t)' /\ Creation(t)' /\ Paid(t)'
  BY <1>1, <1>2, <1>5, <1>6, <1>7, <1>9, TaskMoves DEF OwnerKnown, Exists
<1> QED BY <1>1, <1>4, <1>5, <1>6, <1>10, OneTask

\* The refund of an ended task finds the charge, unless the row it is in is another
\* than the one the task was created in.
LEMMA RefundEndedCharges ==
  ASSUME Types, TaskInv, NEW t \in Task, RefundEnded(t) PROVE TaskInv'
<1> DEFINE st == IF task[t].st = "failed" THEN "settled" ELSE task[t].st
<1>1. /\ task[t].st \in {"failed", "deleted"} /\ seen[t] # NoHash /\ tok' = RefundAt(seen[t], t)
      /\ task' = [task EXCEPT ![t].st = st] /\ seen' = [seen EXCEPT ![t] = NoHash]
      /\ minted' = minted /\ req' = req /\ cut' = cut
  BY DEF RefundEnded, ghosts
<1>2. task[t] \in TaskRow /\ Creation(t) /\ ChargePlace(t) /\ OwnerKnown(t) /\ Paid(t)
  BY MintedFacts DEF TaskInv
<1>3. st \in {"settled", "deleted"} /\ (st = "deleted" <=> task[t].st = "deleted")
  BY <1>1
<1> HIDE DEF st
<1>4. /\ task'[t].st = st /\ task'[t].born = task[t].born /\ task'[t].owner = task[t].owner
      /\ seen'[t] = NoHash /\ OthersSame(t)
  BY <1>1, <1>2 DEF Types, TasksOK, TaskRow, OthersSame
<1>5. /\ Charged(t)' \subseteq Charged(t) \ {seen[t]} /\ NoReturn
      /\ \A s \in Task \ {t} : Charged(s)' = Charged(s)
  BY <1>1, RefundCharged
<1>6. task[t].born \notin Charged(t)'
  <2>1. CASE seen[t] = task[t].born
    BY <1>5, <2>1
  <2>2. CASE BornGone(t)
    BY <1>5, <2>2 DEF BornGone, Charged, IsThere
  <2> QED BY <1>1, <1>2, <2>1, <2>2 DEF OwnerKnown
<1>7. task[t].born # NoHash /\ task'[t] # NoTask /\ task[t] # NoTask
  BY <1>1, <1>3, <1>4, TaskSame DEF NoTask
<1>8. CreatedStays /\ MintedUp
  BY <1>1, <1>3, <1>4, <1>7 DEF CreatedStays, Created, OthersSame, MintedUp
<1>9. req[t].at # "idle" => req[t].drop \subseteq Task
  BY MintedFacts DEF ReqRow
<1>10. Creation(t)'
  BY <1>1, <1>2, <1>3, <1>4, <1>7, <1>8, <1>9 DEF Creation, CreatedStays
<1>11. ~Owed(t)'
  BY <1>1, <1>2, <1>3, <1>4 DEF Owed, Creation
<1>12. ChargePlace(t)' /\ OwnerKnown(t)' /\ Creation(t)' /\ Paid(t)'
  <2>1. Exists(t)' => Exists(t)
    BY <1>1, <1>3, <1>4 DEF Exists
  <2> QED BY <1>4, <1>5, <1>6, <1>7, <1>8, <1>10, <1>11, <2>1, TaskMoves DEF ChargeKept
<1> QED BY <1>1, <1>4, <1>5, <1>8, <1>12, OneTask

LEMMA ChargeCharges ==
  ASSUME Types, HashInv, TaskInv, NEW t \in Task, Charge(t) PROVE TaskInv'
BY ResumeCharges, RetryCharges, RequestMoves, FinalizeCharges, DeleteCharges, StatusCharges, SeenCharges,
   DropOld, CreateCharges, ReserveCharges, ChatCharges, RefundCreationCharges, RefundEndedCharges
   DEF Charge

\* A task keeps the hash it was created for.
LEMMA ChargeBorn == ASSUME Types, TaskInv, NEW t \in Task, Charge(t) PROVE BornStays
<1> SUFFICES ASSUME NEW s \in Task, task[s].born # NoHash PROVE task'[s].born = task[s].born
  BY DEF BornStays
<1>0. task[s] \in TaskRow /\ task \in [Task -> TaskRow]
  BY DEF Types, TasksOK
<1>1. CASE CreateRetry(t) \/ \E u \in User : CreateTask(t, u) \/ CreateChatTask(t, u)
  <2>1. task[t] = NoTask
    BY <1>1 DEF CreateRetry, CreateTask, CreateChatTask, TaskInv, Creation
  <2>2. s # t
    BY <2>1 DEF NoTask
  <2> QED BY <1>0, <1>1, <2>2 DEF CreateRetry, CreateTask, CreateChatTask
<1>2. CASE DropOriginal(t)
  BY <1>0, <1>2 DEF DropOriginal, TaskRow
<1>3. CASE \/ FinalizeTask(t) \/ DeleteCreation(t) \/ RefundEnded(t) \/ CleanUpTask(t)
           \/ \E st \in {"failed", "success"} : EndTask(t, st)
  <2>1. \/ \E st : task' = [task EXCEPT ![t].st = st]
        \/ task' = [task EXCEPT ![t].st = "none", ![t].owner = NoHash]
    BY <1>3 DEF FinalizeTask, DeleteCreation, RefundEnded, CleanUpTask, EndTask
  <2> QED BY <1>0, <2>1 DEF TaskRow
<1>4. CASE \/ \E u \in User : ResumeTask(t, u)
           \/ \E old \in Task : RetryTask(t, old)
           \/ ReadPrice(t) \/ ReserveQuota(t) \/ QuotaExceeded(t) \/ CreationFails(t)
           \/ RefundCreation(t) \/ CleanUpFails(t) \/ ReadOwner(t) \/ RefundLost(t)
  BY <1>4 DEF ResumeTask, RetryTask, ReadPrice, ReserveQuota, QuotaExceeded, CreationFails,
              RefundCreation, CleanUpFails, ReadOwner, RefundLost
<1> QED BY <1>1, <1>2, <1>3, <1>4 DEF Charge

LEMMA ChargeOld ==
  ASSUME Types, TaskInv, OldGone, NEW t \in Task, Charge(t) PROVE OldGone'
<1>1. op' = op /\ MintedUp
  BY ChargeFrame DEF MintedUp
<1>2. NoReturn
  <2>1. CASE tok' = tok
    BY <2>1, SameCharges
  <2>2. ASSUME NEW h \in Hash, RowChange(h) PROVE NoReturn
    BY <2>2 DEF RowChange, NoReturn
  <2> QED BY <2>1, <2>2, ChargeLedger
<1> QED BY <1>1, <1>2, ChargeBorn, OldStill

\* While the API is down no request starts or goes on.
LEMMA QuietDown == ASSUME Types, DownQuiet, [Next]_vars PROVE DownQuiet'
<1>1. ASSUME NEW t \in Task, Charge(t) PROVE DownQuiet'
  <2>1. up' = up
    BY <1>1, ChargeFrame
  <2>2. CASE req' = req
    BY <2>1, <2>2 DEF DownQuiet
  <2>3. CASE up
    BY <2>1, <2>3 DEF DownQuiet
  <2>4. CASE ~up /\ req' # req
    <3>1. req[t].at = "idle"
      BY <2>4 DEF DownQuiet, IdleReq
    <3> QED BY <1>1, <2>4, <3>1
          DEF Charge, CreateTask, ResumeTask, CreateChatTask, RetryTask, CreateRetry, DropOriginal,
              ReadPrice, ReserveQuota, QuotaExceeded, FinalizeTask, CreationFails, RefundCreation,
              DeleteCreation, CleanUpFails, ReadOwner, RefundEnded, RefundLost, CleanUpTask, EndTask, Ready
  <2> QED BY <2>2, <2>3, <2>4
<1>2. ASSUME NEW u \in User, Account(u) PROVE UNCHANGED <<up, req>>
  BY <1>2 DEF Account, RegisterToken, DeleteUser, SyncUserMembership, Tick, RotateUserToken,
              ChangeUserPassword, ResetUserPassword, RotateTempToken, PurchaseMembership,
              SetUserConcurrency, UsersAddPoints, UsersDeductPoints, SetModelDiscounts,
              SetUserEnabled, SetTempBillingPriority, RedeemCard, taskVars
<1>3. CASE Continue
  <2>1. UNCHANGED <<up, req>>
    BY <1>3 DEF Continue, RegisterUser, DeleteUserToken, RotateUser, ListOwnedTasks, MigrateTaskOwner,
                LimitPurchased, WriteUser, SyncToken, CreditCard, CreditFails, CloseCard, taskVars
  <2> QED BY <2>1 DEF DownQuiet
<1>4. CASE \/ \E h \in Hash : DeleteTempToken(h)
           \/ \E c \in Card : GenerateCards(c) \/ DeleteCards(c)
           \/ ListUsers
  BY <1>4 DEF DeleteTempToken, GenerateCards, DeleteCards, ListUsers, taskVars, DownQuiet
<1>5. CASE Crash
  BY <1>5 DEF Crash, DownQuiet
<1>6. CASE StartUp
  BY <1>6 DEF StartUp, DownQuiet
<1>7. CASE UNCHANGED vars
  BY <1>7 DEF vars, DownQuiet
<1>8. ASSUME NEW u \in User, RepairUserToken(u) PROVE DownQuiet'
  BY <1>8 DEF RepairUserToken, taskVars, DownQuiet
<1> QED BY <1>1, <1>2, <1>3, <1>4, <1>5, <1>6, <1>7, <1>8 DEF Next, DownQuiet

LEMMA TaskStep ==
  ASSUME Types, HashInv, DownQuiet, TaskInv, OldGone, [Next]_vars PROVE TaskInv' /\ OldGone'
<1>1. ASSUME NEW t \in Task, Charge(t) PROVE TaskInv' /\ OldGone'
  BY <1>1, ChargeCharges, ChargeOld
<1>2. ASSUME NEW u \in User, Account(u) PROVE TaskInv' /\ OldGone'
  BY <1>2, AccountCharges, AccountOld
<1>3. CASE Continue
  BY <1>3, ContinueCharges, ContinueOld
<1>4. CASE \/ \E h \in Hash : DeleteTempToken(h)
           \/ \E c \in Card : GenerateCards(c) \/ DeleteCards(c)
           \/ ListUsers \/ Crash \/ StartUp
           \/ \E u \in User : RepairUserToken(u)
  BY <1>4, OtherCharges, OtherOld
<1>5. CASE UNCHANGED vars
  <2>1. TaskInv' /\ NoReturn
    BY <1>5, TokSame DEF vars, taskVars, MintedUp, ChargeCutStays
  <2> QED BY <1>5, <2>1, OldStill DEF vars, BornStays, MintedUp
<1> QED BY <1>1, <1>2, <1>3, <1>4, <1>5 DEF Next

\* No rotation, migration, refund, retry or crash charges a task twice, leaves one
\* that runs or succeeded without its charge, or a refunded one with it, but for the
\* cases that the ghost cut names.
THEOREM TasksCharged == Spec => []ChargesMatch
<1>1. Init => HashInv /\ DownQuiet /\ TaskInv /\ OldGone
  <2> SUFFICES ASSUME Init PROVE HashInv /\ DownQuiet /\ TaskInv /\ OldGone
    OBVIOUS
  <2>1. HashInv /\ DownQuiet /\ OldGone
    BY DEF Init, HashInv, DownQuiet, OldGone, NoUser, Idle
  <2>2. ASSUME NEW t \in Task PROVE ChargePlace(t) /\ OwnerKnown(t) /\ Creation(t) /\ Paid(t)
    <3>1. Charged(t) = {} /\ task[t] = NoTask /\ req[t] = IdleReq /\ seen[t] = NoHash /\ minted = 0
      BY DEF Init, Charged
    <3>2. NoTask.st = "none" /\ NoTask.born = 0 /\ NoHash = 0 /\ IdleReq.at = "idle"
      BY DEF NoTask, NoHash, IdleReq
    <3> QED BY <3>1, <3>2 DEF ChargePlace, OwnerKnown, Creation, Paid, Owed, Exists
  <2> QED BY <2>1, <2>2 DEF TaskInv
<1>2. Types /\ HashInv /\ [Next]_vars => HashInv'
  BY HashStep
<1>3. Types /\ DownQuiet /\ [Next]_vars => DownQuiet'
  BY QuietDown
<1>4. Types /\ HashInv /\ DownQuiet /\ TaskInv /\ OldGone /\ [Next]_vars => TaskInv' /\ OldGone'
  BY TaskStep
<1>5. TaskInv => ChargesMatch
  BY DEF TaskInv, ChargePlace, Paid, Owed, Charged, ChargesMatch
<1> QED BY <1>1, <1>2, <1>3, <1>4, <1>5, WalletTypes, PTL DEF Spec
-----------------------------------------------------------------------------
(* What a row holds.                                                         *)

\* The balances of a row with the charges that stand in it make up b.
Sums(e, b) ==
  /\ \A free \in BOOLEAN : IsFiniteSet(OpenUnits(e, free))
  /\ e.video + Outstanding(e, TRUE) = b.video
  /\ e.credit + Outstanding(e, FALSE) = b.credit

LEMMA UnitCount ==
  ASSUME NEW t, NEW n \in Nat
  PROVE  IsFiniteSet({t} \X (1 .. n)) /\ Cardinality({t} \X (1 .. n)) = n
<1>1. IsFiniteSet({t}) /\ Cardinality({t}) = 1
  BY FS_Singleton
<1>2. IsFiniteSet(1 .. n) /\ Cardinality(1 .. n) = n
  BY FS_Interval
<1> DEFINE S == {t}
           T == 1 .. n
<1>3. IsFiniteSet(S) /\ IsFiniteSet(T) /\ Cardinality(S) = 1 /\ Cardinality(T) = n
  BY <1>1, <1>2
<1> HIDE DEF S, T
<1>4. IsFiniteSet(S \X T) /\ Cardinality(S \X T) = Cardinality(S) * Cardinality(T)
  BY <1>3, FS_Product
<1>5. Cardinality(S \X T) = 1 * n
  BY <1>3, <1>4
<1> QED BY <1>4, <1>5 DEF S, T

\* A charge adds its units to those that stand, and a refund takes them away.
LEMMA UnitsAdd ==
  ASSUME NEW S, IsFiniteSet(S), NEW t, NEW n \in Nat, \A p \in S : p[1] # t
  PROVE  /\ IsFiniteSet(S \cup ({t} \X (1 .. n)))
         /\ Cardinality(S \cup ({t} \X (1 .. n))) = Cardinality(S) + n
         /\ Cardinality(S) \in Nat
<1> DEFINE U == {t} \X (1 .. n)
<1>1. IsFiniteSet(U) /\ Cardinality(U) = n
  BY UnitCount
<1>2. S \cap U = {}
  OBVIOUS
<1> HIDE DEF U
<1>3. Cardinality(S \cup U) = Cardinality(S) + Cardinality(U) - Cardinality(S \cap U)
      /\ IsFiniteSet(S \cup U)
  BY <1>1, FS_Union
<1>4. Cardinality(S \cap U) = 0 /\ Cardinality(S) \in Nat
  BY <1>2, FS_EmptySet, FS_CardinalityType
<1> QED BY <1>1, <1>3, <1>4 DEF U

\* Only the charge of t differs: the units of the others.
Others(e, t, free) == {p \in OpenUnits(e, free) : p[1] # t}

LEMMA UnitsOf ==
  ASSUME NEW e \in Entry, NEW t \in Task, NEW free \in BOOLEAN
  PROVE  OpenUnits(e, free) =
           IF e.res[t].status = "reserved" /\ e.res[t].free = free
             THEN Others(e, t, free) \cup ({t} \X (1 .. e.res[t].units))
             ELSE Others(e, t, free)
<1>1. \A p : p \in OpenUnits(e, free) <=>
        \E s \in Task : /\ e.res[s].status = "reserved" /\ e.res[s].free = free
                        /\ p \in {s} \X (1 .. e.res[s].units)
  BY DEF OpenUnits, Open
<1>2. \A p : p \in OpenUnits(e, free) /\ p[1] = t <=>
        /\ e.res[t].status = "reserved" /\ e.res[t].free = free
        /\ p \in {t} \X (1 .. e.res[t].units)
  BY <1>1
<1> QED BY <1>2 DEF Others

LEMMA OthersSameUnits ==
  ASSUME NEW e \in Entry, NEW f \in Entry, NEW t \in Task, NEW free \in BOOLEAN,
         \A s \in Task \ {t} : f.res[s] = e.res[s]
  PROVE  Others(f, t, free) = Others(e, t, free)
<1>1. \A g \in Entry : \A p : p \in Others(g, t, free) <=>
        \E s \in Task \ {t} : /\ g.res[s].status = "reserved" /\ g.res[s].free = free
                              /\ p \in {s} \X (1 .. g.res[s].units)
  BY DEF Others, OpenUnits, Open
<1> QED BY <1>1

\* What counts is the balances and the charges.
LEMMA SumsMove ==
  ASSUME NEW e \in Entry, NEW f \in Entry, NEW b, NEW c, f.res = e.res, Sums(e, b),
         b.video \in Int, b.credit \in Int,
         f.video - e.video = c.video - b.video, f.credit - e.credit = c.credit - b.credit,
         c.video \in Int, c.credit \in Int
  PROVE  Sums(f, c)
<1>1. \A free \in BOOLEAN : OpenUnits(f, free) = OpenUnits(e, free)
  BY DEF OpenUnits, Open
<1>2. /\ IsFiniteSet(OpenUnits(e, TRUE)) /\ IsFiniteSet(OpenUnits(e, FALSE))
      /\ e.video + Outstanding(e, TRUE) = b.video
      /\ e.credit + Outstanding(e, FALSE) = b.credit
  BY DEF Sums
<1>3. Outstanding(e, TRUE) \in Nat /\ Outstanding(e, FALSE) \in Nat
  BY <1>2, FS_CardinalityType DEF Outstanding
<1>4. Outstanding(f, TRUE) = Outstanding(e, TRUE) /\ Outstanding(f, FALSE) = Outstanding(e, FALSE)
  BY <1>1 DEF Outstanding
<1>5. e.video \in Int /\ e.credit \in Int /\ f.video \in Int /\ f.credit \in Int
  BY DEF Entry
<1>6. f.video + Outstanding(f, TRUE) = c.video /\ f.credit + Outstanding(f, FALSE) = c.credit
  <2> DEFINE x == Outstanding(e, TRUE)
             y == Outstanding(e, FALSE)
  <2>1. x \in Nat /\ y \in Nat /\ e.video + x = b.video /\ e.credit + y = b.credit
    BY <1>2, <1>3
  <2> HIDE DEF x, y
  <2>2. f.video + x = c.video /\ f.credit + y = c.credit
    BY <1>5, <2>1
  <2> QED BY <1>4, <2>2 DEF x, y
<1>7. \A free \in BOOLEAN : IsFiniteSet(OpenUnits(f, free))
  BY <1>1, <1>2
<1> QED BY <1>6, <1>7 DEF Sums

\* A new row holds what it was made with.
LEMMA SumsNew ==
  ASSUME NEW n \in Nat
  PROVE  Sums(CreateTempToken(n), [video |-> n, credit |-> 0])
<1> DEFINE e == CreateTempToken(n)
<1>1. e.video = n /\ e.credit = 0 /\ \A t \in Task : e.res[t].status = "none"
  BY DEF CreateTempToken, NoReservation
<1>2. \A free \in BOOLEAN : OpenUnits(e, free) = {}
  BY <1>1 DEF OpenUnits, Open
<1> HIDE DEF e
<1>3. /\ \A free \in BOOLEAN : IsFiniteSet(OpenUnits(e, free))
      /\ Outstanding(e, TRUE) = 0 /\ Outstanding(e, FALSE) = 0
  BY <1>2, FS_EmptySet DEF Outstanding
<1> DEFINE b == [video |-> n, credit |-> 0]
<1>4. b.video = n /\ b.credit = 0 /\ n + 0 = n
  OBVIOUS
<1> HIDE DEF b
<1>5. e.video + Outstanding(e, TRUE) = b.video /\ e.credit + Outstanding(e, FALSE) = b.credit
  <2>1. n + 0 = n /\ 0 + 0 = 0
    OBVIOUS
  <2> QED BY <1>1, <1>3, <1>4, <2>1, Zenon
<1>6. Sums(e, b)
  BY <1>3, <1>5, Zenon DEF Sums
<1> QED BY <1>6 DEF e, b


\* e has no charge of t that stands; f has one of n units, free or not.
Charges(e, f, t, free, n) ==
  /\ e.res[t].status # "reserved"
  /\ f.res[t].status = "reserved" /\ f.res[t].free = free /\ f.res[t].units = n
  /\ \A s \in Task \ {t} : f.res[s] = e.res[s]

LEMMA UnitsMove ==
  ASSUME NEW e \in Entry, NEW f \in Entry, NEW t \in Task, NEW free \in BOOLEAN, NEW n \in Nat,
         Charges(e, f, t, free, n), NEW other \in BOOLEAN, other # free
  PROVE  /\ OpenUnits(f, other) = OpenUnits(e, other)
         /\ IsFiniteSet(OpenUnits(e, free)) <=> IsFiniteSet(OpenUnits(f, free))
         /\ IsFiniteSet(OpenUnits(e, free)) =>
              Outstanding(f, free) = Outstanding(e, free) + n
<1> DEFINE A == OpenUnits(e, free)
           B == OpenUnits(f, free)
<1>1. /\ OpenUnits(e, free) = Others(e, t, free)
      /\ OpenUnits(f, free) = Others(f, t, free) \cup ({t} \X (1 .. n))
      /\ Others(f, t, free) = Others(e, t, free)
  BY UnitsOf, OthersSameUnits DEF Charges
<1>2. OpenUnits(f, other) = OpenUnits(e, other)
  <2>1. f.res[t].free # other
    BY DEF Charges
  <2>2. OpenUnits(e, other) = Others(e, t, other) /\ OpenUnits(f, other) = Others(f, t, other)
    BY <2>1, UnitsOf DEF Charges
  <2>3. Others(f, t, other) = Others(e, t, other)
    BY OthersSameUnits DEF Charges
  <2> QED BY <2>2, <2>3
<1>3. B = A \cup ({t} \X (1 .. n)) /\ \A p \in A : p[1] # t
  BY <1>1 DEF Others
<1>4. Outstanding(f, free) = Cardinality(B) /\ Outstanding(e, free) = Cardinality(A)
  BY DEF Outstanding
<1> HIDE DEF A, B
<1>5. IsFiniteSet(A) => IsFiniteSet(B) /\ Cardinality(B) = Cardinality(A) + n
  BY <1>3, UnitsAdd
<1>6. IsFiniteSet(B) => IsFiniteSet(A)
  BY <1>3, FS_Subset
<1> QED BY <1>2, <1>4, <1>5, <1>6 DEF A, B

\* A charge that is paid from the balance leaves the sum as it is, and so does its refund.
LEMMA SumsPaid ==
  ASSUME NEW e \in Entry, NEW f \in Entry, NEW t \in Task, NEW free \in BOOLEAN, NEW n \in Nat,
         Charges(e, f, t, free, n), NEW b,
         e.video = IF free THEN f.video + n ELSE f.video,
         e.credit = IF free THEN f.credit ELSE f.credit + n
  PROVE  Sums(e, b) <=> Sums(f, b)
<1> DEFINE ev == Outstanding(e, TRUE)
           ec == Outstanding(e, FALSE)
           fv == Outstanding(f, TRUE)
           fc == Outstanding(f, FALSE)
           Fin(g) == IsFiniteSet(OpenUnits(g, TRUE)) /\ IsFiniteSet(OpenUnits(g, FALSE))
<1>1. \A g : Sums(g, b) <=> /\ Fin(g)
                            /\ g.video + Outstanding(g, TRUE) = b.video
                            /\ g.credit + Outstanding(g, FALSE) = b.credit
  BY Zenon DEF Sums
<1>2. CASE free = TRUE
  <2>1. TRUE \in BOOLEAN /\ FALSE \in BOOLEAN /\ FALSE # TRUE
    OBVIOUS
  <2>2. /\ OpenUnits(f, FALSE) = OpenUnits(e, FALSE)
        /\ IsFiniteSet(OpenUnits(e, TRUE)) <=> IsFiniteSet(OpenUnits(f, TRUE))
        /\ IsFiniteSet(OpenUnits(e, TRUE)) => Outstanding(f, TRUE) = Outstanding(e, TRUE) + n
    BY <1>2, <2>1, UnitsMove, ZenonT(40)
  <2>3. (Fin(e) <=> Fin(f)) /\ (Fin(e) => fv = ev + n /\ fc = ec)
    BY <2>2 DEF Outstanding
  <2>4. Fin(e) => ev \in Nat /\ ec \in Nat
    BY FS_CardinalityType DEF Outstanding
  <2>5. e.video = f.video + n /\ e.credit = f.credit
    BY <1>2
  <2> HIDE DEF ev, ec, fv, fc, Fin
  <2>6. Fin(e) => e.video + ev = f.video + fv /\ e.credit + ec = f.credit + fc
    BY <2>3, <2>4, <2>5 DEF Entry
  <2>7. (Sums(e, b) <=> Fin(e) /\ e.video + ev = b.video /\ e.credit + ec = b.credit)
        /\ (Sums(f, b) <=> Fin(f) /\ f.video + fv = b.video /\ f.credit + fc = b.credit)
    BY <1>1 DEF ev, ec, fv, fc
  <2> QED BY <2>3, <2>6, <2>7
<1>3. CASE free = FALSE
  <2>1. TRUE \in BOOLEAN /\ FALSE \in BOOLEAN /\ TRUE # FALSE
    OBVIOUS
  <2>2. /\ OpenUnits(f, TRUE) = OpenUnits(e, TRUE)
        /\ IsFiniteSet(OpenUnits(e, FALSE)) <=> IsFiniteSet(OpenUnits(f, FALSE))
        /\ IsFiniteSet(OpenUnits(e, FALSE)) => Outstanding(f, FALSE) = Outstanding(e, FALSE) + n
    BY <1>3, <2>1, UnitsMove
  <2>3. (Fin(e) <=> Fin(f)) /\ (Fin(e) => fv = ev /\ fc = ec + n)
    BY <2>2 DEF Outstanding
  <2>4. Fin(e) => ev \in Nat /\ ec \in Nat
    BY FS_CardinalityType DEF Outstanding
  <2>5. e.video = f.video /\ e.credit = f.credit + n
    BY <1>3
  <2> HIDE DEF ev, ec, fv, fc, Fin
  <2>6. Fin(e) => e.video + ev = f.video + fv /\ e.credit + ec = f.credit + fc
    BY <2>3, <2>4, <2>5 DEF Entry
  <2>7. (Sums(e, b) <=> Fin(e) /\ e.video + ev = b.video /\ e.credit + ec = b.credit)
        /\ (Sums(f, b) <=> Fin(f) /\ f.video + fv = b.video /\ f.credit + fc = b.credit)
    BY <1>1 DEF ev, ec, fv, fc
  <2> QED BY <2>3, <2>6, <2>7
<1> QED BY <1>2, <1>3

LEMMA SumsReserve ==
  ASSUME NEW e \in Entry, NEW t \in Task, NEW cost \in Nat, NEW video \in Nat,
         CanReserve(e, t, cost, video), NEW b, Sums(e, b)
  PROVE  Sums(ReserveTempQuota(e, t, cost, video), b)
<1> DEFINE f == ReserveTempQuota(e, t, cost, video)
<1>0. f \in Entry /\ (\A s \in Task \ {t} : f.res[s] = e.res[s])
  BY ReserveOps
<1>1. CASE e.res[t].status = "reserved"
  BY <1>1 DEF ReserveTempQuota
<1>2. CASE e.res[t].status # "reserved" /\ FreeUsed(e, cost, video)
  <2>1. /\ f.video = e.video - video /\ f.credit = e.credit
        /\ f.res[t] = [status |-> "reserved", free |-> TRUE, units |-> video]
    BY <1>2 DEF ReserveTempQuota, Entry
  <2>2. Charges(e, f, t, TRUE, video)
    BY <1>0, <1>2, <2>1 DEF Charges
  <2>3. e.video = f.video + video /\ e.credit = f.credit
    BY <2>1 DEF Entry
  <2> HIDE DEF f
  <2>4. Sums(e, b) <=> Sums(f, b)
    BY <1>0, <2>2, <2>3, SumsPaid
  <2> QED BY <2>4 DEF f
<1>3. CASE e.res[t].status # "reserved" /\ ~FreeUsed(e, cost, video)
  <2>1. /\ f.credit = e.credit - cost /\ f.video = e.video
        /\ f.res[t] = [status |-> "reserved", free |-> FALSE, units |-> cost]
    BY <1>3 DEF ReserveTempQuota, Entry
  <2>2. Charges(e, f, t, FALSE, cost)
    BY <1>0, <1>3, <2>1 DEF Charges
  <2>3. e.credit = f.credit + cost /\ e.video = f.video
    BY <2>1 DEF Entry
  <2> HIDE DEF f
  <2>4. Sums(e, b) <=> Sums(f, b)
    BY <1>0, <2>2, <2>3, SumsPaid
  <2> QED BY <2>4 DEF f
<1> QED BY <1>1, <1>2, <1>3

LEMMA SumsRefund ==
  ASSUME NEW e \in Entry, NEW t \in Task, NEW b, Sums(e, b)
  PROVE  Sums(RefundTempQuota(e, t), b)
<1> DEFINE f == RefundTempQuota(e, t)
           r == e.res[t]
<1>0. f \in Entry /\ f.res[t].status # "reserved" /\ (\A s \in Task \ {t} : e.res[s] = f.res[s])
  BY RefundOps
<1>1. CASE r.status # "reserved"
  BY <1>1 DEF RefundTempQuota
<1>2. CASE r.status = "reserved"
  <2>1. r.free \in BOOLEAN /\ r.units \in Nat
    BY DEF Entry, Reservation
  <2>2. /\ f.video = IF r.free THEN e.video + r.units ELSE e.video
        /\ f.credit = IF r.free THEN e.credit ELSE e.credit + r.units
    BY <1>2 DEF RefundTempQuota, Entry
  <2>3. Charges(f, e, t, r.free, r.units)
    BY <1>0, <1>2 DEF Charges
  <2> HIDE DEF f
  <2>4. Sums(f, b) <=> Sums(e, b)
    BY <1>0, <2>1, <2>2, <2>3, SumsPaid
  <2> QED BY <2>4 DEF f
<1> QED BY <1>1, <1>2


-----------------------------------------------------------------------------
(* The balance of a user.                                                    *)

NewBook == [video |-> FreeLimit, credit |-> 0]

BookOK == book \in [User -> [video : Int, credit : Int]]

\* The row made for a new user holds what the user will be given, the row about to
\* be deleted is nobody's, and a card is credited to the row of its user.
OpRows ==
  /\ op.at = "register" => IsThere(op.hash) /\ Sums(tok[op.hash], NewBook)
  /\ op.at = "unregister" => \A u \in User : usr[u].there => usr[u].hash # op.hash
  /\ op.at = "redeem" => usr[op.user].there /\ usr[op.user].hash = op.hash

Owns(u) == usr[u].there /\ <<u, "wallet">> \notin cut

SumInv == \A u \in User : Owns(u) => IsThere(Purse(u)) /\ Sums(tok[Purse(u)], book[u])

PurseInv == BookOK /\ OpRows /\ SumInv

\* The rows stay, and whatever one added up to it adds up to.
Keeps == \A h : IsThere(h) => IsThere(h)' /\ \A b : Sums(tok[h], b) => Sums(tok'[h], b)

QuietOp == op'.at \notin {"register", "unregister", "redeem"}

LEMMA KeepsTok == ASSUME tok' = tok PROVE Keeps
BY DEF Keeps, IsThere

LEMMA SumsSame ==
  ASSUME NEW e, NEW f, NEW b, Sums(e, b), f.res = e.res, f.video = e.video, f.credit = e.credit
  PROVE  Sums(f, b)
<1>1. \A free : OpenUnits(f, free) = OpenUnits(e, free)
  BY DEF OpenUnits, Open
<1> QED BY <1>1 DEF Sums, Outstanding

LEMMA KeepsRow ==
  ASSUME NEW h, RowChange(h), SameRes(h), tok'[h].video = tok[h].video, tok'[h].credit = tok[h].credit
  PROVE  Keeps
<1>1. ASSUME NEW g, IsThere(g) PROVE IsThere(g)' /\ \A b : Sums(tok[g], b) => Sums(tok'[g], b)
  <2>1. IsThere(g)' /\ g \in Hash
    BY <1>1 DEF RowChange, IsThere
  <2>2. CASE g = h
    BY <2>1, <2>2, SumsSame DEF SameRes
  <2>3. CASE g # h
    BY <2>1, <2>3 DEF RowChange
  <2> QED BY <2>2, <2>3
<1> QED BY <1>1 DEF Keeps

LEMMA KeepsLimit ==
  ASSUME Types, NEW h, IsThere(h), NEW n \in Nat,
         tok' = [tok EXCEPT ![h] = UpdateConcurrency(@, n)]
  PROVE  Keeps
<1>1. RowChange(h) /\ SameRes(h)
  BY LimitRow
<1>2. h \in Hash /\ tok[h] \in Entry /\ tok'[h] = UpdateConcurrency(tok[h], n)
  BY RowThere DEF Types, LedgerOK, Rows
<1>3. tok'[h].video = tok[h].video /\ tok'[h].credit = tok[h].credit
  BY <1>2 DEF UpdateConcurrency, Entry
<1> QED BY <1>1, <1>3, KeepsRow

LEMMA KeepsPriority ==
  ASSUME Types, NEW u \in User, NEW f \in {"video", "points"}, SetTempBillingPriority(u, f)
  PROVE  Keeps
<1> DEFINE h == usr[u].hash
<1>1. RowChange(h) /\ SameRes(h) /\ tok' = [tok EXCEPT ![h] = SetBillingPriority(@, f)]
  BY PriorityRow DEF SetTempBillingPriority
<1>2. h \in Hash /\ tok[h] \in Entry /\ tok'[h] = SetBillingPriority(tok[h], f)
  BY <1>1, RowThere DEF Types, LedgerOK, Rows, RowChange
<1>3. tok'[h].video = tok[h].video /\ tok'[h].credit = tok[h].credit
  BY <1>2 DEF SetBillingPriority, Entry
<1> QED BY <1>1, <1>3, KeepsRow

\* A new row beside the others.
LEMMA KeepsNew == ASSUME Types, NewRow PROVE Keeps
<1>1. ASSUME NEW g, IsThere(g) PROVE IsThere(g)' /\ tok'[g] = tok[g]
  <2>1. g \in Hash /\ g <= minted /\ g \in Nat /\ minted \in Nat
    BY <1>1, HashFacts DEF Types, LedgerOK, IsThere
  <2>2. g # minted + 1
    BY <2>1
  <2> QED BY <1>1, <2>1, <2>2 DEF NewRow
<1> QED BY <1>1 DEF Keeps

LEMMA ReserveKeeps ==
  ASSUME Types, NEW h, NEW t \in Task, NEW cost \in Nat, IsThere(h),
         CanReserve(tok[h], t, cost, VideoCost),
         tok' = [tok EXCEPT ![h] = ReserveTempQuota(@, t, cost, VideoCost)]
  PROVE  Keeps
<1>1. RowChange(h)
  BY ChargeRow
<1>2. h \in Hash /\ tok[h] \in Entry /\ VideoCost \in Nat
      /\ tok'[h] = ReserveTempQuota(tok[h], t, cost, VideoCost)
  BY RowThere, WalletConstants DEF Types, LedgerOK, Rows
<1>3. \A b : Sums(tok[h], b) => Sums(tok'[h], b)
  BY <1>2, SumsReserve
<1>4. ASSUME NEW g, IsThere(g) PROVE IsThere(g)' /\ \A b : Sums(tok[g], b) => Sums(tok'[g], b)
  <2>1. IsThere(g)' /\ g \in Hash
    BY <1>1, <1>4 DEF RowChange, IsThere
  <2>2. CASE g = h
    BY <1>3, <2>1, <2>2
  <2>3. CASE g # h
    BY <1>1, <2>1, <2>3 DEF RowChange
  <2> QED BY <2>2, <2>3
<1> QED BY <1>4 DEF Keeps

LEMMA RefundKeeps ==
  ASSUME Types, NEW h, NEW t \in Task, tok' = RefundAt(h, t)
  PROVE  Keeps
<1>1. CASE ~IsThere(h)
  BY <1>1, KeepsTok DEF RefundAt
<1>2. CASE IsThere(h)
  <2>1. RowChange(h)
    BY <1>2, RefundRow
  <2>2. h \in Hash /\ tok[h] \in Entry /\ tok'[h] = RefundTempQuota(tok[h], t)
    BY <1>2, RowThere DEF RefundAt, Types, LedgerOK, Rows
  <2>3. \A b : Sums(tok[h], b) => Sums(tok'[h], b)
    BY <2>2, SumsRefund
  <2>4. ASSUME NEW g, IsThere(g) PROVE IsThere(g)' /\ \A b : Sums(tok[g], b) => Sums(tok'[g], b)
    <3>1. IsThere(g)' /\ g \in Hash
      BY <2>1, <2>4 DEF RowChange, IsThere
    <3>2. CASE g = h
      BY <2>3, <3>1, <3>2
    <3>3. CASE g # h
      BY <2>1, <3>1, <3>3 DEF RowChange
    <3> QED BY <3>2, <3>3
  <2> QED BY <2>4 DEF Keeps
<1> QED BY <1>1, <1>2

\* Whatever a request, a worker or a clean-up does to the charge of its task.
LEMMA ChargeKeeps == ASSUME Types, NEW t \in Task, Charge(t) PROVE Keeps
<1>1. CASE ReserveQuota(t)
  <2>1. req[t].cost \in Nat
    BY <1>1, ReqActive DEF Types, ReserveQuota, ReqRow
  <2> QED BY <1>1, <2>1, ReserveKeeps DEF ReserveQuota
<1>2. ASSUME NEW u \in User, CreateChatTask(t, u) PROVE Keeps
  BY <1>2, CostType, ReserveKeeps DEF CreateChatTask, SignedIn, HasRow
<1>3. CASE RefundCreation(t) \/ RefundEnded(t)
  BY <1>3, RefundKeeps DEF RefundCreation, RefundEnded
<1>4. CASE \/ \E u \in User : CreateTask(t, u) \/ ResumeTask(t, u)
           \/ \E old \in Task : RetryTask(t, old)
           \/ CreateRetry(t) \/ DropOriginal(t)
           \/ ReadPrice(t) \/ QuotaExceeded(t) \/ FinalizeTask(t)
           \/ CreationFails(t) \/ DeleteCreation(t) \/ CleanUpFails(t)
  BY <1>4, KeepsTok DEF CreateTask, ResumeTask, RetryTask, CreateRetry, DropOriginal, ReadPrice,
              QuotaExceeded, FinalizeTask, CreationFails, DeleteCreation, CleanUpFails, ledger
<1>5. CASE \/ ReadOwner(t) \/ RefundLost(t) \/ CleanUpTask(t)
           \/ \E st \in {"failed", "success"} : EndTask(t, st)
  BY <1>5, KeepsTok DEF ReadOwner, RefundLost, CleanUpTask, EndTask, ledger
<1> QED BY <1>1, <1>2, <1>3, <1>4, <1>5 DEF Charge


WalletCut == \A u \in User : <<u, "wallet">> \in cut => <<u, "wallet">> \in cut'

\* Steps that move no balance.
LEMMA PurseFrame ==
  ASSUME PurseInv, Keeps, SameHashes, WalletCut, book' = book,
         op.at # "rotated", op'.at # "rotated", QuietOp
  PROVE  PurseInv'
<1>1. ASSUME NEW u \in User, Owns(u)'
      PROVE  Owns(u) /\ Purse(u)' = Purse(u)
  BY <1>1 DEF Owns, Purse, SameHashes, WalletCut
<1>2. ASSUME NEW u \in User, Owns(u)'
      PROVE  IsThere(Purse(u))' /\ Sums(tok[Purse(u)], book[u])'
  <2>1. IsThere(Purse(u)) /\ Sums(tok[Purse(u)], book[u])
    BY <1>1, <1>2 DEF PurseInv, SumInv
  <2> QED BY <1>1, <1>2, <2>1 DEF Keeps, IsThere
<1> QED BY <1>2 DEF PurseInv, BookOK, OpRows, QuietOp, SumInv

\* Steps beside an operation under way.
LEMMA PurseStill ==
  ASSUME Types, PurseInv, Keeps, SameHashes, \A u \in User : usr[u].there => usr'[u].there,
         WalletCut, UNCHANGED <<book, op>>
  PROVE  PurseInv'
<1>1. ASSUME NEW u \in User, Owns(u)'
      PROVE  Owns(u) /\ Purse(u)' = Purse(u)
  BY <1>1 DEF Owns, Purse, SameHashes, WalletCut
<1>2. ASSUME NEW u \in User, Owns(u)'
      PROVE  IsThere(Purse(u))' /\ Sums(tok[Purse(u)], book[u])'
  <2>1. IsThere(Purse(u)) /\ Sums(tok[Purse(u)], book[u])
    BY <1>1, <1>2 DEF PurseInv, SumInv
  <2> QED BY <1>1, <1>2, <2>1 DEF Keeps, IsThere
<1>3. op.at = "register" => IsThere(op.hash)' /\ Sums(tok'[op.hash], NewBook)
  BY DEF PurseInv, OpRows, Keeps
<1>4. op.at = "redeem" => op.user \in User
  BY DEF Types, OpOK
<1>5. OpRows'
  BY <1>3, <1>4 DEF PurseInv, OpRows, SameHashes, NewBook, IsThere
<1> QED BY <1>2, <1>5 DEF PurseInv, BookOK, SumInv

\* Steps that give a user something, or take it.
LEMMA PurseMoves ==
  ASSUME Types, HashInv, PurseInv, NEW u \in User, usr[u].there, SameHashes, WalletCut,
         RowChange(usr[u].hash), SameRes(usr[u].hash),
         op.at # "rotated", op'.at # "rotated", QuietOp,
         NEW r \in [video : Int, credit : Int], book' = [book EXCEPT ![u] = r],
         tok'[usr[u].hash].video - tok[usr[u].hash].video = r.video - book[u].video,
         tok'[usr[u].hash].credit - tok[usr[u].hash].credit = r.credit - book[u].credit
  PROVE  PurseInv'
<1>1. BookOK' /\ book'[u] = r /\ \A v \in User \ {u} : book'[v] = book[v]
  BY DEF PurseInv, BookOK
<1>2. ASSUME NEW v \in User, Owns(v)'
      PROVE  IsThere(Purse(v))' /\ Sums(tok[Purse(v)], book[v])'
  <2>1. Owns(v) /\ Purse(v)' = usr[v].hash /\ Purse(v) = usr[v].hash
    BY <1>2 DEF Owns, Purse, SameHashes, WalletCut
  <2>2. IsThere(usr[v].hash) /\ Sums(tok[usr[v].hash], book[v])
    BY <2>1 DEF PurseInv, SumInv
  <2>3. IsThere(usr[v].hash)' => IsThere(Purse(v))'
    BY <1>2, <2>1 DEF IsThere, Owns, SameHashes
  <2>4. usr'[v].hash = usr[v].hash
    BY <1>2 DEF Owns, SameHashes
  <2>5. CASE v = u
    <3> DEFINE e == tok[usr[u].hash]
               f == tok'[usr[u].hash]
               b == book[u]
    <3>1. e \in Entry /\ f \in Entry /\ f.res = e.res
      BY <2>2, <2>5, RowThere DEF RowChange, SameRes, Types, LedgerOK
    <3>2. b.video \in Int /\ b.credit \in Int /\ r.video \in Int /\ r.credit \in Int
      BY DEF PurseInv, BookOK
    <3>3. f.video - e.video = r.video - b.video /\ f.credit - e.credit = r.credit - b.credit
      OBVIOUS
    <3>4. Sums(e, b)
      BY <2>2, <2>5
    <3> HIDE DEF e, f, b
    <3>5. Sums(f, r)
      BY <3>1, <3>2, <3>3, <3>4, SumsMove
    <3>6. Sums(tok'[usr'[v].hash], book'[v]) /\ IsThere(usr[v].hash)'
      BY <1>1, <2>2, <2>4, <2>5, <3>5 DEF f, RowChange, IsThere
    <3> QED BY <2>1, <2>4, <3>6 DEF IsThere
  <2>6. CASE v # u
    <3>1. usr[v].hash # usr[u].hash
      BY <2>1, <2>6 DEF HashInv, Owns
    <3>2. IsThere(usr[v].hash)' /\ tok'[usr[v].hash] = tok[usr[v].hash]
      BY <2>2, <2>4, <3>1 DEF RowChange, IsThere
    <3>3. Sums(tok'[usr[v].hash], book'[v])
      BY <1>1, <2>2, <2>6, <3>2
    <3> QED BY <2>1, <2>4, <3>2, <3>3 DEF IsThere
  <2> QED BY <2>5, <2>6
<1> QED BY <1>1, <1>2 DEF PurseInv, OpRows, QuietOp, SumInv


\* One of the two accounts of a user is written.
LEMMA BookWrite ==
  ASSUME BookOK, NEW u \in User, NEW k \in Int
  PROVE  /\ [book EXCEPT ![u].video = @ + k] =
              [book EXCEPT ![u] = [video |-> book[u].video + k, credit |-> book[u].credit]]
         /\ [book EXCEPT ![u].credit = @ + k] =
              [book EXCEPT ![u] = [video |-> book[u].video, credit |-> book[u].credit + k]]
         /\ [video |-> book[u].video + k, credit |-> book[u].credit] \in [video : Int, credit : Int]
         /\ [video |-> book[u].video, credit |-> book[u].credit + k] \in [video : Int, credit : Int]
<1> DEFINE b == book[u]
<1>1. b \in [video : Int, credit : Int] /\ DOMAIN book = User
  BY DEF BookOK
<1>2. /\ [book EXCEPT ![u].video = @ + k] = [book EXCEPT ![u] = [b EXCEPT !.video = b.video + k]]
      /\ [book EXCEPT ![u].credit = @ + k] = [book EXCEPT ![u] = [b EXCEPT !.credit = b.credit + k]]
  BY <1>1
<1> HIDE DEF b
<1>3. b.video + k \in Int /\ b.credit + k \in Int
  BY <1>1
<1>4. /\ [b EXCEPT !.video = b.video + k] = [video |-> b.video + k, credit |-> b.credit]
      /\ [b EXCEPT !.credit = b.credit + k] = [video |-> b.video, credit |-> b.credit + k]
  BY <1>1
<1> QED BY <1>1, <1>2, <1>3, <1>4 DEF b

\* A purchase.
LEMMA PurchasePurse ==
  ASSUME Types, HashInv, PurseInv, NEW u \in User, NEW p \in Package, PurchaseMembership(u, p)
  PROVE  PurseInv'
<1> DEFINE h == usr[u].hash
           r == [video |-> book[u].video + Bonus[p], credit |-> book[u].credit - Price[p]]
<1>1. /\ usr[u].there /\ RowChange(h) /\ SameRes(h)
      /\ tok' = [tok EXCEPT ![h] = PurchaseTempMembership(@, Price[p], Bonus[p], Slots[p])]
  BY PurchaseRow DEF PurchaseMembership
<1>2. /\ h \in Hash /\ tok[h] \in Entry
      /\ tok'[h] = PurchaseTempMembership(tok[h], Price[p], Bonus[p], Slots[p])
  BY <1>1, RowThere DEF RowChange, Types, LedgerOK, Rows
<1>3. Price[p] \in Nat /\ Bonus[p] \in Nat /\ book[u].video \in Int /\ book[u].credit \in Int
  BY MembershipConstants DEF PurseInv, BookOK
<1>4. r \in [video : Int, credit : Int] /\ book' = [book EXCEPT ![u] = r]
  BY <1>3 DEF PurchaseMembership, PurseInv, BookOK
<1>5. tok'[h].video = tok[h].video + Bonus[p] /\ tok'[h].credit = tok[h].credit - Price[p]
      /\ tok[h].video \in Int /\ tok[h].credit \in Int
  BY <1>2 DEF PurchaseTempMembership, Entry
<1>6. r.video = book[u].video + Bonus[p] /\ r.credit = book[u].credit - Price[p]
  OBVIOUS
<1> HIDE DEF r
<1>7. /\ tok'[h].video - tok[h].video = r.video - book[u].video
      /\ tok'[h].credit - tok[h].credit = r.credit - book[u].credit
  BY <1>3, <1>5, <1>6
<1>8. SameHashes /\ WalletCut /\ op.at = "idle" /\ op'.at = "bought"
  BY DEF PurchaseMembership, SameHashes, WalletCut, Ready, Idle
<1>9. op.at # "rotated" /\ op'.at # "rotated" /\ QuietOp
  BY <1>8 DEF QuietOp
<1> HIDE DEF h
<1> QED BY <1>1, <1>4, <1>7, <1>8, <1>9, PurseMoves DEF h

\* The administrator gives points or video quota, or takes them.
LEMMA PointsPurse ==
  ASSUME Types, HashInv, PurseInv, NEW u \in User, NEW n \in Amount,
         UsersAddPoints(u, n) \/ UsersDeductPoints(u, n)
  PROVE  PurseInv'
<1> DEFINE h == usr[u].hash
<1>1. HasRow(u) /\ RowChange(h) /\ SameRes(h)
  BY PointsRow DEF UsersAddPoints, UsersDeductPoints
<1>2. h \in Hash /\ tok[h] \in Entry /\ tok \in Rows /\ usr[u].there
  BY <1>1, SignedInRows DEF Types, LedgerOK
<1>3. tok[h].video \in Int /\ tok[h].credit \in Int /\ n \in Int /\ -n \in Int
  BY <1>2, WalletConstants DEF Entry
<1>4. SameHashes /\ WalletCut /\ op.at = "idle" /\ op'.at = "idle"
  BY PointsRow, SyncAllRows DEF UsersAddPoints, UsersDeductPoints, SameHashes, WalletCut, Ready, Idle
<1>5. op.at # "rotated" /\ op'.at # "rotated" /\ QuietOp
  BY <1>4 DEF QuietOp
<1>6. book \in [User -> [video : Int, credit : Int]]
  BY DEF PurseInv, BookOK
<1>7. ASSUME NEW k \in Int,
             tok' = [tok EXCEPT ![h] = AdjustTempVideoQuota(@, k)],
             book' = [book EXCEPT ![u].video = @ + k]
      PROVE  PurseInv'
  <2> DEFINE r == [video |-> book[u].video + k, credit |-> book[u].credit]
  <2>1. r \in [video : Int, credit : Int] /\ book' = [book EXCEPT ![u] = r]
    BY <1>6, <1>7, BookWrite DEF BookOK
  <2>2. tok'[h] = AdjustTempVideoQuota(tok[h], k)
    BY <1>2, <1>7 DEF Rows
  <2>3. tok'[h].video = tok[h].video + k /\ tok'[h].credit = tok[h].credit
    BY <1>2, <2>2 DEF AdjustTempVideoQuota, Entry
  <2>4. /\ r.video = book[u].video + k /\ r.credit = book[u].credit
        /\ book[u].video \in Int /\ book[u].credit \in Int
    BY <1>6
  <2> HIDE DEF r
  <2>5. /\ tok'[h].video - tok[h].video = r.video - book[u].video
        /\ tok'[h].credit - tok[h].credit = r.credit - book[u].credit
    BY <1>3, <2>3, <2>4
  <2> HIDE DEF h
  <2> QED BY <1>1, <1>2, <1>4, <1>5, <2>1, <2>5, PurseMoves DEF h
<1>8. ASSUME NEW k \in Int, NEW e,
             e.video = tok[h].video, e.credit = tok[h].credit + k,
             tok' = [tok EXCEPT ![h] = e],
             book' = [book EXCEPT ![u].credit = @ + k]
      PROVE  PurseInv'
  <2> DEFINE r == [video |-> book[u].video, credit |-> book[u].credit + k]
  <2>1. r \in [video : Int, credit : Int] /\ book' = [book EXCEPT ![u] = r]
    BY <1>6, <1>8, BookWrite DEF BookOK
  <2>2. tok'[h] = e
    BY <1>2, <1>8 DEF Rows
  <2>3. tok'[h].video = tok[h].video /\ tok'[h].credit = tok[h].credit + k
    BY <1>8, <2>2
  <2>4. /\ r.video = book[u].video /\ r.credit = book[u].credit + k
        /\ book[u].video \in Int /\ book[u].credit \in Int
    BY <1>6
  <2> HIDE DEF r
  <2>5. /\ tok'[h].video - tok[h].video = r.video - book[u].video
        /\ tok'[h].credit - tok[h].credit = r.credit - book[u].credit
    BY <1>3, <2>3, <2>4
  <2> HIDE DEF h
  <2> QED BY <1>1, <1>2, <1>4, <1>5, <2>1, <2>5, PurseMoves DEF h
<1>9. CASE AddUserPoints(u, n)
  <2> DEFINE e == AddTempCredit(tok[h], n)
  <2>1. tok' = [tok EXCEPT ![h] = e] /\ book' = [book EXCEPT ![u].credit = @ + n]
    BY <1>9 DEF AddUserPoints
  <2>2. e.video = tok[h].video /\ e.credit = tok[h].credit + n
    BY <1>2 DEF AddTempCredit, Entry
  <2> HIDE DEF e, h
  <2> QED BY <1>3, <1>8, <2>1, <2>2
<1>10. CASE DeductUserPoints(u, n)
  <2> DEFINE e == DeductTempPoints(tok[h], n)
  <2>1. tok' = [tok EXCEPT ![h] = e] /\ book' = [book EXCEPT ![u].credit = @ - n]
    BY <1>10 DEF DeductUserPoints
  <2>2. e.video = tok[h].video /\ e.credit = tok[h].credit + (-n)
    BY <1>2, <1>3 DEF DeductTempPoints, Entry
  <2>3. book' = [book EXCEPT ![u].credit = @ + (-n)]
    BY <1>3, <1>6, <2>1
  <2> HIDE DEF e, h
  <2> QED BY <1>3, <1>8, <2>1, <2>2, <2>3
<1>11. CASE AdjustUserVideoQuota(u, n) \/ AdjustUserVideoQuota(u, -n)
  BY <1>3, <1>7, <1>11 DEF AdjustUserVideoQuota
<1> QED BY <1>9, <1>10, <1>11 DEF UsersAddPoints, UsersDeductPoints

\* The points of a card.
LEMMA CreditPurse == ASSUME Types, HashInv, PurseInv, CreditCard PROVE PurseInv'
<1> DEFINE u == op.user
           h == op.hash
           r == [video |-> book[u].video, credit |-> book[u].credit + CardUnits]
<1>1. u \in User /\ usr[u].there /\ usr[u].hash = h /\ RowChange(h) /\ SameRes(h)
  BY CreditRow DEF CreditCard, Types, OpOK, PurseInv, OpRows
<1>2. h \in Hash /\ tok[h] \in Entry /\ tok'[h] = AddTempCredit(tok[h], CardUnits)
  BY <1>1, RowThere DEF RowChange, Types, LedgerOK, Rows, CreditCard
<1>3. CardUnits \in Nat /\ book[u].video \in Int /\ book[u].credit \in Int
  BY <1>1, WalletConstants DEF PurseInv, BookOK
<1>4. r \in [video : Int, credit : Int] /\ book' = [book EXCEPT ![u] = r]
  <2>1. book' = [book EXCEPT ![u].credit = @ + CardUnits]
    BY DEF CreditCard
  <2>2. CardUnits \in Int /\ BookOK
    BY <1>3 DEF PurseInv
  <2> HIDE DEF u
  <2> QED BY <1>1, <2>1, <2>2, BookWrite
<1>5. tok'[h].video = tok[h].video /\ tok'[h].credit = tok[h].credit + CardUnits
      /\ tok[h].video \in Int /\ tok[h].credit \in Int
  BY <1>2 DEF AddTempCredit, Entry
<1>6. r.video = book[u].video /\ r.credit = book[u].credit + CardUnits
  OBVIOUS
<1> HIDE DEF r
<1>7. /\ tok'[h].video - tok[h].video = r.video - book[u].video
      /\ tok'[h].credit - tok[h].credit = r.credit - book[u].credit
  BY <1>3, <1>5, <1>6
<1>8. SameHashes /\ WalletCut /\ op.at = "redeem" /\ op'.at = "credited"
  BY DEF CreditCard, SameHashes, WalletCut
<1>9. op.at # "rotated" /\ op'.at # "rotated" /\ QuietOp
  BY <1>8 DEF QuietOp
<1> HIDE DEF u, h
<1> QED BY <1>1, <1>4, <1>7, <1>8, <1>9, PurseMoves


\* The row moves to another hash, and the user with it.
LEMMA RotatePurse ==
  ASSUME Types, HashInv, PurseInv, NEW u \in User, RotateTempToken(u)
  PROVE  PurseInv'
<1> DEFINE old == usr[u].hash
           new == minted + 1
<1>1. /\ usr' = usr /\ book' = book /\ cut' = cut /\ op.at = "idle"
      /\ op' = [at |-> "rotated", user |-> u, old |-> old, hash |-> new]
  BY DEF RotateTempToken, ghosts, Ready, Idle
<1>2. /\ usr[u].there /\ IsThere(old) /\ tok'[new] = tok[old]
      /\ \A g \in Hash \ {old, new} : tok'[g] = tok[g]
      /\ \A g : IsThere(g)' <=> (IsThere(g) /\ g # old) \/ g = new
  BY RotateRow
<1>3. \A v \in User : usr[v].there => usr[v].hash \in Hash /\ usr[v].hash # new
  <2>1. minted \in Nat
    BY HashFacts DEF Types, LedgerOK
  <2>2. \A v \in User : usr[v].there => usr[v].hash \in Hash
    BY UserThere DEF Types, UsersOK, UserRow
  <2> QED BY <2>1, <2>2, HashesInNat DEF HashInv
<1>4. ASSUME NEW v \in User, Owns(v)'
      PROVE  IsThere(Purse(v))' /\ Sums(tok[Purse(v)], book[v])'
  <2>1. Owns(v) /\ Purse(v) = usr[v].hash
    BY <1>1, <1>4 DEF Owns, Purse
  <2>2. IsThere(usr[v].hash) /\ Sums(tok[usr[v].hash], book[v])
    BY <2>1 DEF PurseInv, SumInv
  <2>3. CASE v = u
    <3>1. Purse(v)' = new
      BY <1>1, <2>3 DEF Purse
    <3>2. tok'[new] # NoEntry /\ new \in Hash
      BY <1>2, RotateRow, EntryIsThere
    <3> QED BY <1>1, <1>2, <2>2, <2>3, <3>1, <3>2 DEF IsThere
  <2>4. CASE v # u
    <3>1. Purse(v)' = usr[v].hash
      BY <1>1, <2>4 DEF Purse
    <3>2. usr[v].hash \in Hash \ {old, new}
      BY <1>2, <1>3, <2>1, <2>4 DEF HashInv, Owns
    <3>3. tok'[usr[v].hash] = tok[usr[v].hash]
      BY <1>2, <3>2
    <3> QED BY <1>1, <2>2, <3>1, <3>3 DEF IsThere
  <2> QED BY <2>3, <2>4
<1>5. OpRows'
  BY <1>1 DEF OpRows
<1>6. BookOK'
  BY <1>1 DEF PurseInv, BookOK
<1> QED BY <1>4, <1>5, <1>6 DEF PurseInv, SumInv

LEMMA AccountPurse == ASSUME Types, HashInv, PurseInv, NEW u \in User, Account(u) PROVE PurseInv'
<1>1. CASE RegisterToken(u)
  <2>1. /\ usr' = usr /\ book' = book /\ cut' = cut /\ op.at = "idle" /\ NewRow
        /\ op' = [at |-> "register", user |-> u, hash |-> minted + 1]
        /\ tok' = [tok EXCEPT ![minted + 1] = CreateTempToken(FreeLimit)]
    BY <1>1, RegisterTokenRow DEF RegisterToken, ghosts, Ready, Idle
  <2>2. /\ tok'[minted + 1] = CreateTempToken(FreeLimit) /\ minted + 1 \in Hash
        /\ tok'[minted + 1] # NoEntry
    BY <2>1, EntryIsThere DEF NewRow, Types, LedgerOK, Rows
  <2>3. Sums(CreateTempToken(FreeLimit), NewBook)
    BY WalletConstants, SumsNew DEF NewBook
  <2>4. Keeps
    BY <2>1, KeepsNew
  <2>6. OpRows'
    BY <2>1, <2>2, <2>3 DEF OpRows, NewBook, IsThere
  <2>7. ASSUME NEW v \in User, Owns(v)'
        PROVE  IsThere(Purse(v))' /\ Sums(tok[Purse(v)], book[v])'
    <3>1. Owns(v) /\ Purse(v)' = Purse(v)
      BY <2>1, <2>7 DEF Owns, Purse
    <3>2. IsThere(Purse(v)) /\ Sums(tok[Purse(v)], book[v])
      BY <3>1 DEF PurseInv, SumInv
    <3> QED BY <2>1, <2>4, <3>1, <3>2 DEF Keeps, IsThere
  <2> QED BY <2>1, <2>6, <2>7 DEF PurseInv, BookOK, SumInv
<1>2. CASE DeleteUser(u)
  <2>1. /\ usr[u].there /\ ~usr'[u].there /\ \A v \in User \ {u} : usr'[v] = usr[v]
        /\ UNCHANGED <<tok, book, cut>> /\ op.at = "idle"
        /\ op' = [at |-> "unregister", hash |-> usr[u].hash]
    BY <1>2, DeleteUserRow DEF DeleteUser, ledger, ghosts, Ready, Idle
  <2>2. \A v \in User : usr'[v].there => v # u /\ usr[v].hash # usr[u].hash
    BY <2>1 DEF HashInv
  <2>3. OpRows'
    BY <2>1, <2>2 DEF OpRows
  <2>4. ASSUME NEW v \in User, Owns(v)'
        PROVE  IsThere(Purse(v))' /\ Sums(tok[Purse(v)], book[v])'
    <3>1. Owns(v) /\ Purse(v)' = Purse(v)
      BY <2>1, <2>4 DEF Owns, Purse
    <3>2. IsThere(Purse(v)) /\ Sums(tok[Purse(v)], book[v])
      BY <3>1 DEF PurseInv, SumInv
    <3> QED BY <2>1, <3>1, <3>2 DEF IsThere
  <2> QED BY <2>1, <2>3, <2>4 DEF PurseInv, BookOK, SumInv
<1>3. CASE SyncUserMembership(u)
  <2>1. usr[u].there
    BY <1>3 DEF SyncUserMembership, SignedIn, HasRow
  <2>2. SameHashes
    BY <1>3, <2>1, SyncUserRowChange, SameHash
  <2>3. /\ UNCHANGED <<tok, book>> /\ WalletCut /\ op.at = "idle"
        /\ op' \in {Idle, [at |-> "synced", user |-> u, hash |-> usr[u].hash]}
    BY <1>3 DEF SyncUserMembership, ledger, WalletCut, Ready, Idle
  <2>4. op'.at \in {"idle", "synced"}
    BY <2>3 DEF Idle
  <2> QED BY <2>2, <2>3, <2>4, KeepsTok, PurseFrame DEF QuietOp
<1>4. ASSUME NEW n \in Limits, SetUserConcurrency(u, n) PROVE PurseInv'
  <2>1. HasRow(u) /\ n \in Nat /\ tok' = [tok EXCEPT ![usr[u].hash] = UpdateConcurrency(@, n)]
    BY <1>4, WalletConstants DEF SetUserConcurrency
  <2>2. Keeps
    BY <2>1, KeepsLimit DEF HasRow
  <2>3. UNCHANGED <<usr, book, cut>> /\ op.at = "idle" /\ op'.at = "limited"
    BY <1>4 DEF SetUserConcurrency, ghosts, Ready, Idle
  <2> QED BY <2>2, <2>3, PurseFrame DEF QuietOp, SameHashes, WalletCut
<1>5. ASSUME NEW c \in Card, RedeemCard(u, c) PROVE PurseInv'
  <2>1. /\ UNCHANGED <<tok, usr, book, cut>> /\ op.at = "idle" /\ usr[u].there
        /\ op' = [at |-> "redeem", user |-> u, hash |-> usr[u].hash, card |-> c]
    BY <1>5 DEF RedeemCard, ledger, ghosts, Ready, Idle, SignedIn, HasRow
  <2>2. OpRows'
    BY <2>1 DEF OpRows
  <2>3. ASSUME NEW v \in User, Owns(v)'
        PROVE  IsThere(Purse(v))' /\ Sums(tok[Purse(v)], book[v])'
    <3>1. Owns(v) /\ Purse(v)' = Purse(v)
      BY <2>1, <2>3 DEF Owns, Purse
    <3>2. IsThere(Purse(v)) /\ Sums(tok[Purse(v)], book[v])
      BY <3>1 DEF PurseInv, SumInv
    <3> QED BY <2>1, <3>1, <3>2 DEF IsThere
  <2> QED BY <2>1, <2>2, <2>3 DEF PurseInv, BookOK, SumInv
<1>6. CASE Tick(u) \/ SetUserEnabled(u) \/ \E n \in Amount : SetModelDiscounts(u, n)
  <2>1. UNCHANGED <<tok, book, cut>>
    BY <1>6 DEF Tick, SetUserEnabled, SetModelDiscounts, ledger, ghosts
  <2>2. SameHashes /\ (\A v \in User : usr[v].there => usr'[v].there) /\ op' = op
    BY <1>6, QuietRows
  <2> QED BY <2>1, <2>2, KeepsTok, PurseStill DEF WalletCut
<1>7. ASSUME NEW f \in {"video", "points"}, SetTempBillingPriority(u, f) PROVE PurseInv'
  <2>1. UNCHANGED <<usr, book, cut, op>>
    BY <1>7 DEF SetTempBillingPriority, ghosts
  <2> QED BY <1>7, <2>1, KeepsPriority, PurseStill DEF WalletCut, SameHashes
<1>8. CASE RotateUserToken(u) \/ ChangeUserPassword(u) \/ ResetUserPassword(u)
  BY <1>8, RotatePurse DEF RotateUserToken, ChangeUserPassword, ResetUserPassword
<1> QED BY <1>1, <1>2, <1>3, <1>4, <1>5, <1>6, <1>7, <1>8, PurchasePurse, PointsPurse DEF Account


\* A row nobody owns goes.
LEMMA DropPurse ==
  ASSUME Types, PurseInv, NEW h \in Hash, tok' = [tok EXCEPT ![h] = NoEntry], UNCHANGED <<usr, book>>,
         op.at # "rotated", op'.at # "rotated", QuietOp, WalletCut,
         \A u \in User : Owns(u)' => usr[u].hash # h
  PROVE  PurseInv'
<1>1. \A g \in Hash \ {h} : tok'[g] = tok[g]
  BY RowDrop DEF Types, LedgerOK
<1>2. ASSUME NEW v \in User, Owns(v)'
      PROVE  IsThere(Purse(v))' /\ Sums(tok[Purse(v)], book[v])'
  <2>1. Owns(v) /\ Purse(v)' = usr[v].hash /\ Purse(v) = usr[v].hash /\ usr[v].hash # h
    BY <1>2 DEF Owns, Purse, WalletCut
  <2>2. IsThere(usr[v].hash) /\ Sums(tok[usr[v].hash], book[v])
    BY <2>1 DEF PurseInv, SumInv
  <2>3. usr[v].hash \in Hash /\ tok'[usr[v].hash] = tok[usr[v].hash]
    BY <1>1, <2>1, <2>2 DEF IsThere
  <2> QED BY <2>1, <2>2, <2>3 DEF IsThere
<1> QED BY <1>2 DEF PurseInv, BookOK, OpRows, QuietOp, SumInv

\* A new user, with the row made for it.
LEMMA RegisterPurse == ASSUME Types, HashInv, PurseInv, RegisterUser PROVE PurseInv'
<1> DEFINE u == op.user
<1>1. u \in User /\ UserChange(u, op.hash, 1, [p \in Package |-> NoMembership])
  BY RegisterUserRow
<1>2. /\ op.at = "register" /\ op' = Idle /\ tok' = tok
      /\ book' = [book EXCEPT ![u] = NewBook] /\ cut' = cut \ ({u} \X {"wallet", "member", "slots"})
  BY DEF RegisterUser, ledger, NewBook
<1>3. IsThere(op.hash) /\ Sums(tok[op.hash], NewBook)
  BY <1>2 DEF PurseInv, OpRows
<1>4. NewBook \in [video : Int, credit : Int]
  BY WalletConstants DEF NewBook
<1>5. BookOK' /\ book'[u] = NewBook /\ \A v \in User \ {u} : book'[v] = book[v]
  BY <1>1, <1>2, <1>4 DEF PurseInv, BookOK
<1>6. ASSUME NEW v \in User, Owns(v)'
      PROVE  IsThere(Purse(v))' /\ Sums(tok[Purse(v)], book[v])'
  <2>1. CASE v = u
    <3>1. Purse(v)' = op.hash
      BY <1>1, <1>2, <2>1 DEF Purse, UserChange, Idle
    <3> QED BY <1>2, <1>3, <1>5, <2>1, <3>1 DEF IsThere
  <2>2. CASE v # u
    <3>1. <<v, "wallet">> \notin {u} \X {"wallet", "member", "slots"}
      BY <2>2
    <3>2. Owns(v) /\ Purse(v)' = Purse(v)
      BY <1>1, <1>2, <1>6, <2>2, <3>1 DEF Owns, Purse, UserChange, Idle
    <3>3. IsThere(Purse(v)) /\ Sums(tok[Purse(v)], book[v])
      BY <3>2 DEF PurseInv, SumInv
    <3> QED BY <1>2, <1>5, <2>2, <3>2, <3>3 DEF IsThere
  <2> QED BY <2>1, <2>2
<1>7. OpRows'
  BY <1>2 DEF OpRows, Idle
<1> QED BY <1>5, <1>6, <1>7 DEF PurseInv, SumInv

LEMMA ContinuePurse == ASSUME Types, HashInv, PurseInv, Continue PROVE PurseInv'
<1>1. CASE DeleteUserToken
  <2>1. /\ op.at = "unregister" /\ op' = Idle /\ UNCHANGED <<usr, book>> /\ cut \subseteq cut'
        /\ tok' = [tok EXCEPT ![op.hash] = NoEntry] /\ op.hash \in Hash
    BY <1>1 DEF DeleteUserToken, Types, OpOK
  <2>2. \A u \in User : Owns(u)' => usr[u].hash # op.hash
    BY <2>1 DEF Owns, PurseInv, OpRows
  <2> QED BY <2>1, <2>2, DropPurse DEF QuietOp, Idle, WalletCut
<1>2. CASE RotateUser
  <2>1. op.at = "rotated" /\ UNCHANGED <<tok, book, cut>>
    BY <1>2 DEF RotateUser, ledger, ghosts
  <2>2. op \in [at : {"rotated", "list"}, user : User, old : Hash, hash : Hash]
    BY <2>1 DEF Types, OpOK
  <2>3. op'.at = "list"
    BY <1>2, <2>2 DEF RotateUser
  <2>4. op.user \in User /\ UserChange(op.user, op.hash, usr[op.user].eff, usr[op.user].mem)
    BY <1>2, RotateUserRow
  <2>5. usr[op.user].there
    BY <2>1 DEF Types, OpOK
  <2>6. ASSUME NEW v \in User, Owns(v)'
        PROVE  IsThere(Purse(v))' /\ Sums(tok[Purse(v)], book[v])'
    <3>1. Owns(v) /\ Purse(v)' = Purse(v)
      BY <2>1, <2>3, <2>4, <2>5, <2>6 DEF Owns, Purse, UserChange
    <3>2. IsThere(Purse(v)) /\ Sums(tok[Purse(v)], book[v])
      BY <3>1 DEF PurseInv, SumInv
    <3> QED BY <2>1, <3>1, <3>2 DEF IsThere
  <2> QED BY <2>1, <2>3, <2>6 DEF PurseInv, BookOK, OpRows, SumInv
<1>3. CASE LimitPurchased
  <2>1. /\ IsThere(op.hash) /\ op.at = "bought" /\ op'.at = "limited" /\ UNCHANGED <<usr, book, cut>>
        /\ tok' = [tok EXCEPT ![op.hash] =
                     UpdateConcurrency(@, EffectiveConcurrency(op.mem, usr[op.user].base))]
    BY <1>3 DEF LimitPurchased, ghosts, Types, OpOK
  <2>2. Keeps
    BY <1>3, <2>1, LimitPurchasedRow, KeepsLimit
  <2> QED BY <2>1, <2>2, PurseFrame DEF QuietOp, SameHashes, WalletCut
<1>4. CASE WriteUser
  <2>1. /\ op' = Idle /\ usr[op.user].there /\ op.at = "limited" /\ UNCHANGED <<tok, book>> /\ WalletCut
    BY <1>4 DEF WriteUser, ledger, Types, OpOK, WalletCut
  <2>2. SameHashes
    BY <1>4, <2>1, WriteUserRow, SameHash
  <2> QED BY <2>1, <2>2, KeepsTok, PurseFrame DEF QuietOp, Idle
<1>5. CASE SyncToken
  <2>1. /\ op' = Idle /\ op.at = "synced" /\ UNCHANGED <<usr, book>> /\ WalletCut
        /\ IsThere(op.hash) /\ usr[op.user].eff \in Nat
        /\ tok' = [tok EXCEPT ![op.hash] = UpdateConcurrency(@, usr[op.user].eff)]
    BY <1>5, OpUser DEF SyncToken, Types, OpOK, UserRow, WalletCut
  <2>2. Keeps
    BY <2>1, KeepsLimit
  <2> QED BY <2>1, <2>2, PurseFrame DEF QuietOp, Idle, SameHashes
<1>6. CASE ListOwnedTasks \/ CreditFails \/ CloseCard
  <2>1. /\ UNCHANGED <<tok, usr, book, cut>> /\ op.at # "rotated"
        /\ op'.at \in {"idle", "migrate"}
    BY <1>6 DEF ListOwnedTasks, CreditFails, CloseCard, ledger, ghosts, Idle
  <2> QED BY <2>1, KeepsTok, PurseFrame DEF QuietOp, SameHashes, WalletCut
<1>7. ASSUME NEW t \in Task, MigrateTaskOwner(t) PROVE PurseInv'
  <2>1. /\ UNCHANGED <<tok, usr, book, cut>> /\ op.at = "migrate"
        /\ op'.at \in {"idle", "migrate"}
    BY <1>7 DEF MigrateTaskOwner, ledger, ghosts, Idle, Types, OpOK
  <2> QED BY <2>1, KeepsTok, PurseFrame DEF QuietOp, SameHashes, WalletCut
<1> QED BY <1>1, <1>2, <1>3, <1>4, <1>5, <1>6, <1>7, RegisterPurse, CreditPurse DEF Continue

\* A user whose row is gone gets another one.
LEMMA RepairPurse ==
  ASSUME Types, HashInv, DownIdle, PurseInv, NEW u \in User, RepairUserToken(u)
  PROVE  PurseInv'
<1>1. /\ NewRow /\ UserChange(u, minted + 1, usr[u].eff, usr[u].mem)
      /\ cut' = (cut \ {<<u, "wallet">>}) \cup {<<u, "slots">>}
      /\ op' = op /\ op = Idle /\ book' = [book EXCEPT ![u] = NewBook]
      /\ tok' = [tok EXCEPT ![minted + 1] = CreateTempToken(FreeLimit)]
  BY RepairRow DEF RepairUserToken, DownIdle, NewBook
<1>2. /\ tok'[minted + 1] = CreateTempToken(FreeLimit) /\ minted + 1 \in Hash
      /\ tok'[minted + 1] # NoEntry
  BY <1>1, EntryIsThere DEF NewRow, Types, LedgerOK, Rows
<1>3. Sums(CreateTempToken(FreeLimit), NewBook) /\ NewBook \in [video : Int, credit : Int]
  BY WalletConstants, SumsNew DEF NewBook
<1>4. BookOK' /\ book'[u] = NewBook /\ \A v \in User \ {u} : book'[v] = book[v]
  BY <1>1, <1>3 DEF PurseInv, BookOK
<1>5. Keeps
  BY <1>1, KeepsNew
<1>6. ASSUME NEW v \in User, Owns(v)'
      PROVE  IsThere(Purse(v))' /\ Sums(tok[Purse(v)], book[v])'
  <2>1. CASE v = u
    <3>1. Purse(v)' = minted + 1
      BY <1>1, <2>1 DEF Purse, UserChange, Idle
    <3> QED BY <1>2, <1>3, <1>4, <2>1, <3>1 DEF IsThere
  <2>2. CASE v # u
    <3>1. Owns(v) /\ Purse(v)' = Purse(v)
      BY <1>1, <1>6, <2>2 DEF Owns, Purse, UserChange, Idle
    <3>2. IsThere(Purse(v)) /\ Sums(tok[Purse(v)], book[v])
      BY <3>1 DEF PurseInv, SumInv
    <3> QED BY <1>4, <1>5, <2>2, <3>1, <3>2 DEF Keeps, IsThere
  <2> QED BY <2>1, <2>2
<1>7. OpRows'
  BY <1>1 DEF OpRows, Idle
<1> QED BY <1>4, <1>6, <1>7 DEF PurseInv, SumInv

LEMMA OtherPurse ==
  ASSUME Types, HashInv, DownIdle, PurseInv,
         \/ \E h \in Hash : DeleteTempToken(h)
         \/ \E c \in Card : GenerateCards(c) \/ DeleteCards(c)
         \/ ListUsers \/ Crash \/ StartUp
         \/ \E u \in User : RepairUserToken(u)
  PROVE  PurseInv'
<1>1. ASSUME NEW h \in Hash, DeleteTempToken(h) PROVE PurseInv'
  <2>1. /\ op = Idle /\ op' = op /\ UNCHANGED <<usr, book>> /\ cut \subseteq cut'
        /\ tok' = [tok EXCEPT ![h] = NoEntry]
        /\ \A v \in User : usr[v].there /\ usr[v].hash = h => <<v, "wallet">> \in cut'
    BY <1>1 DEF DeleteTempToken, Ready
  <2>2. \A v \in User : Owns(v)' => usr[v].hash # h
    BY <2>1 DEF Owns
  <2> QED BY <2>1, <2>2, DropPurse DEF QuietOp, Idle, WalletCut
<1>2. CASE \/ \E c \in Card : GenerateCards(c) \/ DeleteCards(c)
           \/ ListUsers \/ StartUp
  <2>1. UNCHANGED <<tok, book, cut, op>> /\ usr' \in {usr, SyncAll}
    BY <1>2 DEF GenerateCards, DeleteCards, ListUsers, StartUp, ledger, ghosts
  <2>2. SameHashes /\ (\A v \in User : usr[v].there => usr'[v].there)
    BY <2>1, SyncAllRows DEF SameHashes
  <2> QED BY <2>1, <2>2, KeepsTok, PurseStill DEF WalletCut
<1>3. CASE Crash
  <2>1. UNCHANGED <<tok, usr, book>> /\ op' = Idle /\ cut' = cut \cup CutOff
    BY <1>3 DEF Crash, ledger
  <2>2. op.at = "rotated" => <<op.user, "wallet">> \in CutOff
    BY DEF CutOff
  <2>3. ASSUME NEW v \in User, Owns(v)'
        PROVE  IsThere(Purse(v))' /\ Sums(tok[Purse(v)], book[v])'
    <3>1. Owns(v) /\ Purse(v)' = Purse(v)
      BY <2>1, <2>2, <2>3 DEF Owns, Purse, Idle
    <3>2. IsThere(Purse(v)) /\ Sums(tok[Purse(v)], book[v])
      BY <3>1 DEF PurseInv, SumInv
    <3> QED BY <2>1, <3>1, <3>2 DEF IsThere
  <2> QED BY <2>1, <2>3 DEF PurseInv, BookOK, OpRows, SumInv, Idle
<1> QED BY <1>1, <1>2, <1>3, RepairPurse

LEMMA PurseStep == ASSUME Types, HashInv, DownIdle, PurseInv, [Next]_vars PROVE PurseInv'
<1>1. ASSUME NEW t \in Task, Charge(t) PROVE PurseInv'
  <2>1. UNCHANGED <<usr, op, book>> /\ cut \subseteq cut' /\ Keeps
    BY <1>1, ChargeFrame, ChargeCut, ChargeKeeps
  <2> QED BY <2>1, PurseStill DEF SameHashes, WalletCut
<1>2. CASE UNCHANGED vars
  BY <1>2, KeepsTok, PurseStill DEF vars, SameHashes, WalletCut
<1> QED BY <1>1, <1>2, AccountPurse, ContinuePurse, OtherPurse DEF Next

\* Whatever requests, refunds, rotations, purchases, redemptions, acts of the
\* administrator and crashes do in any order, a user whose row was not cut off has
\* one, and it holds what the user was given less what was taken and what the
\* charges that stand keep (temp_access.py, users.py, point_cards.py).
THEOREM NoUnitLost == Spec => []WalletKept
<1>1. Init => PurseInv /\ HashInv /\ DownIdle
  <2> SUFFICES ASSUME Init PROVE PurseInv /\ HashInv /\ DownIdle
    OBVIOUS
  <2>1. \A u \in User : ~usr[u].there
    BY DEF Init, NoUser
  <2>2. op.at = "idle" /\ up
    BY DEF Init, Idle
  <2>3. BookOK
    BY DEF Init, BookOK
  <2> QED BY <2>1, <2>2, <2>3 DEF PurseInv, HashInv, DownIdle, OpRows, SumInv, Owns
<1>2. Types /\ HashInv /\ DownIdle /\ PurseInv /\ [Next]_vars => PurseInv' /\ HashInv' /\ DownIdle'
  BY PurseStep, HashStep, DownStep
<1>3. Types /\ PurseInv => WalletKept
  <2> SUFFICES ASSUME Types, PurseInv, NEW u \in User, Owns(u)
               PROVE  /\ IsThere(Purse(u)) /\ tok[Purse(u)].video >= 0 /\ tok[Purse(u)].credit >= 0
                      /\ tok[Purse(u)].video + Outstanding(tok[Purse(u)], TRUE) = book[u].video
                      /\ tok[Purse(u)].credit + Outstanding(tok[Purse(u)], FALSE) = book[u].credit
    BY DEF WalletKept, Owns
  <2>1. IsThere(Purse(u)) /\ Sums(tok[Purse(u)], book[u])
    BY DEF PurseInv, SumInv
  <2>2. tok[Purse(u)] \in Entry
    BY <2>1, RowThere DEF Types, LedgerOK
  <2>3. tok[Purse(u)].video >= 0 /\ tok[Purse(u)].credit >= 0
    BY <2>2 DEF Entry
  <2> QED BY <2>1, <2>3 DEF Sums
<1> QED BY <1>1, <1>2, <1>3, WalletTypes, PTL DEF Spec
=============================================================================
