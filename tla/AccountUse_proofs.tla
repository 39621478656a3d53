-------------------------- MODULE AccountUse_proofs --------------------------
(* Proofs about accounts, the tasks that use them and the queries.              *)
(*  1. Every function of app/accounts.py keeps a ledger balanced and its        *)
(*     settled charges settled (Keeps), except for the ones that empty a        *)
(*     ledger, which still keep it balanced (Sound); a step of AccountUse       *)
(*     composes such functions: QuotaBalanced, SettledStaysSettled.             *)
(*  2. A charge is returned only with an attempt whose task ends, or waits for  *)
(*     another one: RefundsFollowTheEnd.                                        *)
(*  3. An account's lease names the one run, or the probe, that uses its        *)
(*     browser: OneUserPerAccount.                                              *)
(*  4. A charge counts from its reservation to the answer that settles it, and  *)
(*     a success is paid for by exactly one of them: SuccessesCounted.          *)
EXTENDS AccountUse, FiniteSetTheorems, TLAPS

-----------------------------------------------------------------------------
(* One ledger.                                                                *)

\* What is settled stays settled, and only charges of C are new.
StatusKept(l, k, C) ==
  \A c \in Charge : /\ l.st[c] = "settled" => k.st[c] = "settled"
                    /\ l.st[c] = "none" => k.st[c] = "none" \/ c \in C

LedgerSound(l, k) == k \in Ledger /\ (LedgerBalanced(l) => LedgerBalanced(k))

LedgerKeeps(l, k, C) == LedgerSound(l, k) /\ StatusKept(l, k, C)

\* Finitely many units count.
LEMMA ActiveUnitsNat ==
  ASSUME NEW l PROVE ActiveUnits(l) \in Nat
PROOF
<1> DEFINE All == Charge \X (1..MaxUnits)
           Active == {p \in All : l.st[p[1]] \in {"charged", "settled"} /\ p[2] <= l.units[p[1]]}
<1>1. IsFiniteSet(Charge) /\ IsFiniteSet(1..MaxUnits)
  BY LedgerConstants, FS_Interval
<1>2. IsFiniteSet(All)
  BY <1>1, FS_Product
<1>3. IsFiniteSet(Active)
  <2>1. Active \subseteq All
    OBVIOUS
  <2> QED BY <1>2, <2>1, FS_Subset
<1>4. Cardinality(Active) \in Nat
  BY <1>3, FS_CardinalityType
<1> QED BY <1>4 DEF ActiveUnits

\* The units that count depend on the list of charges alone.
LEMMA ActiveUnitsSame ==
  ASSUME NEW l, NEW k, l.st = k.st, l.units = k.units
  PROVE  ActiveUnits(l) = ActiveUnits(k)
PROOF
  BY DEF ActiveUnits

\* _reconciled_quota_used, stored, is what the balance asks for.
LEMMA RecomputeBalances ==
  ASSUME NEW l \in Ledger
  PROVE  /\ Recompute(l) \in Ledger
         /\ LedgerBalanced(Recompute(l))
         /\ Recompute(l).st = l.st /\ Recompute(l).units = l.units
         /\ Recompute(l).init = l.init /\ Recompute(l).base = l.base
         /\ Recompute(l).limit = l.limit
PROOF
<1> DEFINE k == Recompute(l)
<1>1. ActiveUnits(l) \in Nat
  BY ActiveUnitsNat
<1>2. /\ k \in Ledger /\ k.st = l.st /\ k.units = l.units /\ k.used = ReconciledUsed(l)
      /\ k.init = l.init /\ k.base = l.base /\ k.limit = l.limit
  BY <1>1 DEF Recompute, ReconciledUsed, Ledger
<1>3. ActiveUnits(k) = ActiveUnits(l)
  BY <1>2, ActiveUnitsSame
<1>4. LedgerBalanced(k)
  BY <1>2, <1>3 DEF LedgerBalanced, ReconciledUsed
<1> QED BY <1>2, <1>4

LEMMA RecomputeKeeps ==
  ASSUME NEW l, NEW k \in Ledger, NEW C, StatusKept(l, k, C)
  PROVE  LedgerKeeps(l, Recompute(k), C)
PROOF
  BY RecomputeBalances DEF LedgerKeeps, LedgerSound, StatusKept

LEMMA InitializeLedgerType ==
  ASSUME NEW l \in Ledger
  PROVE  /\ InitializeLedger(l) \in Ledger /\ InitializeLedger(l).init = TRUE
         /\ InitializeLedger(l).st = l.st /\ InitializeLedger(l).units = l.units
         /\ InitializeLedger(l).limit = l.limit
         /\ l.init => InitializeLedger(l) = l
PROOF
  BY DEF InitializeLedger, Ledger

LEMMA NewLedgerSound ==
  ASSUME NEW limit \in Nat, NEW init \in BOOLEAN
  PROVE  /\ NewLedger(limit, init) \in Ledger /\ LedgerBalanced(NewLedger(limit, init))
         /\ \A c \in Charge : NewLedger(limit, init).st[c] = "none"
PROOF
<1> DEFINE k == NewLedger(limit, init)
<1>1. k \in Ledger
  BY LedgerConstants DEF NewLedger, Ledger, ChargeStatus, Date
<1>2. {p \in Charge \X (1..MaxUnits) :
         k.st[p[1]] \in {"charged", "settled"} /\ p[2] <= k.units[p[1]]} = {}
  BY DEF NewLedger
<1>3. ActiveUnits(k) = 0
  BY <1>2, FS_EmptySet DEF ActiveUnits
<1>4. k.base = 0 /\ k.used = 0
  BY DEF NewLedger
<1>5. LedgerBalanced(k)
  BY <1>3, <1>4 DEF LedgerBalanced, ReconciledUsed
<1>6. \A c \in Charge : k.st[c] = "none"
  BY DEF NewLedger
<1> QED BY <1>1, <1>5, <1>6

LEMMA ReconcileLedgerKeeps ==
  ASSUME NEW l \in Ledger PROVE LedgerKeeps(l, ReconcileLedger(l), {})
PROOF
  BY RecomputeBalances DEF ReconcileLedger, LedgerKeeps, LedgerSound, StatusKept

LEMMA ChargeQuotaKeeps ==
  ASSUME NEW l \in Ledger, NEW c \in Charge, NEW cost \in 1..MaxUnits
  PROVE  /\ LedgerSound(l, ChargeQuota(l, c, cost))
         /\ l.st[c] = "none" => LedgerKeeps(l, ChargeQuota(l, c, cost), {c})
PROOF
<1> DEFINE i == InitializeLedger(l)
           k == [i EXCEPT !.st[c] = "charged", !.units[c] = cost]
<1>1. i \in Ledger /\ i.st = l.st
  BY InitializeLedgerType
<1> HIDE DEF i
<1>2. k \in Ledger
  BY <1>1 DEF Ledger, ChargeStatus
<1>3. l.st[c] = "none" => StatusKept(l, k, {c})
  BY <1>1 DEF Ledger, StatusKept
<1>4. ChargeQuota(l, c, cost) = Recompute(k)
  BY DEF ChargeQuota, i
<1> HIDE DEF k
<1> QED BY <1>2, <1>3, <1>4, RecomputeBalances DEF LedgerSound, LedgerKeeps, StatusKept

LEMMA RefundQuotaKeeps ==
  ASSUME NEW l \in Ledger, NEW c \in Charge PROVE LedgerKeeps(l, RefundQuota(l, c), {c})
PROOF
<1> DEFINE k == [l EXCEPT !.st[c] = "refunded"]
<1>1. k \in Ledger /\ (l.st[c] = "charged" => StatusKept(l, k, {c}))
  BY DEF Ledger, ChargeStatus, StatusKept
<1>2. CASE l.init /\ l.st[c] = "charged"
  <2>1. RefundQuota(l, c) = Recompute(k)
    BY <1>2 DEF RefundQuota
  <2> QED BY <1>1, <1>2, <2>1, RecomputeKeeps
<1>3. CASE ~(l.init /\ l.st[c] = "charged")
  BY <1>3 DEF RefundQuota, LedgerKeeps, LedgerSound, StatusKept
<1> QED BY <1>2, <1>3

LEMMA SettleQuotaKeeps ==
  ASSUME NEW l \in Ledger, NEW c \in Charge PROVE LedgerKeeps(l, SettleQuota(l, c), {c})
PROOF
<1> DEFINE k == [l EXCEPT !.st[c] = "settled"]
<1>1. k \in Ledger /\ StatusKept(l, k, {c})
  BY DEF Ledger, ChargeStatus, StatusKept
<1>2. SettleQuota(l, c) = IF l.st[c] = "charged" THEN Recompute(k) ELSE l
  BY DEF SettleQuota
<1>3. LedgerKeeps(l, l, {c})
  BY DEF LedgerKeeps, LedgerSound, StatusKept
<1> HIDE DEF k
<1>4. LedgerKeeps(l, Recompute(k), {c})
  BY <1>1, RecomputeKeeps
<1> QED BY <1>2, <1>3, <1>4

LEMMA ExhaustTimedOutKeeps ==
  ASSUME NEW l \in Ledger, NEW c \in Charge PROVE LedgerKeeps(l, ExhaustTimedOut(l, c), {c})
PROOF
<1> DEFINE i == InitializeLedger(l)
           n == IF i.st[c] = "none" THEN 1 ELSE i.units[c]
           k == [i EXCEPT !.st[c] = "settled", !.units[c] = n]
           r == Recompute(k)
           e == [r EXCEPT !.exhausted = "today"]
<1>1. i \in Ledger /\ i.st = l.st
  BY InitializeLedgerType
<1>2. n \in 1..MaxUnits
  BY <1>1, LedgerConstants DEF Ledger
<1> HIDE DEF i, n
<1>3. k \in Ledger
  BY <1>1, <1>2 DEF Ledger, ChargeStatus
<1>4. StatusKept(l, k, {c})
  BY <1>1 DEF Ledger, StatusKept
<1> HIDE DEF k
<1>5. r \in Ledger /\ LedgerBalanced(r) /\ r.st = k.st
  BY <1>3, RecomputeBalances
<1> HIDE DEF r
<1>6. /\ e \in Ledger /\ e.st = r.st /\ e.units = r.units /\ e.init = r.init
      /\ e.base = r.base /\ e.used = r.used
  BY <1>5 DEF Ledger, Date
<1> HIDE DEF e
<1>7. LedgerBalanced(e)
  BY <1>5, <1>6, ActiveUnitsSame DEF LedgerBalanced, ReconciledUsed
<1>8. LedgerKeeps(l, e, {c})
  BY <1>4, <1>5, <1>6, <1>7 DEF LedgerKeeps, LedgerSound, StatusKept
<1> QED BY <1>8 DEF ExhaustTimedOut, i, n, k, r, e

\* What exhaust_account_quota does to a ledger with a list: the base is raised
\* until quota_used reaches the limit.
RaiseBase(k, limit) ==
  [k EXCEPT !.base = IF ActiveUnits(k) < limit THEN limit - ActiveUnits(k) ELSE 0]
RaiseUsed(k, limit) == [k EXCEPT !.used = AtLeast(limit, ReconciledUsed(k))]

LEMMA RaisedToLimit ==
  ASSUME NEW k \in Ledger, NEW limit \in Nat
  PROVE  /\ RaiseUsed(RaiseBase(k, limit), limit) \in Ledger
         /\ RaiseUsed(RaiseBase(k, limit), limit).st = k.st
         /\ LedgerBalanced(RaiseUsed(RaiseBase(k, limit), limit))
PROOF
<1> DEFINE based == RaiseBase(k, limit)
           e == RaiseUsed(based, limit)
<1>1. ActiveUnits(k) \in Nat
  BY ActiveUnitsNat
<1>2. /\ based \in Ledger /\ based.st = k.st /\ based.units = k.units
      /\ based.base = IF ActiveUnits(k) < limit THEN limit - ActiveUnits(k) ELSE 0
  BY <1>1 DEF Ledger, RaiseBase
<1>3. ActiveUnits(based) = ActiveUnits(k)
  BY <1>2, ActiveUnitsSame
<1> HIDE DEF based
<1>4. /\ ReconciledUsed(based) \in Nat
      /\ AtLeast(limit, ReconciledUsed(based)) = ReconciledUsed(based)
  BY <1>1, <1>2, <1>3 DEF ReconciledUsed, AtLeast
<1>5. /\ e \in Ledger /\ e.st = k.st /\ e.units = based.units /\ e.base = based.base
      /\ e.used = ReconciledUsed(based)
  BY <1>2, <1>4 DEF Ledger, RaiseUsed
<1> HIDE DEF e
<1>6. ActiveUnits(e) = ActiveUnits(based)
  BY <1>2, <1>5, ActiveUnitsSame
<1>7. LedgerBalanced(e)
  BY <1>5, <1>6 DEF LedgerBalanced, ReconciledUsed
<1> QED BY <1>5, <1>7 DEF e, based

LEMMA ExhaustQuotaKeeps ==
  ASSUME NEW l \in Ledger, NEW c \in Charge PROVE LedgerKeeps(l, ExhaustQuota(l, c), {c})
PROOF
<1> DEFINE limit == AtLeast(l.limit, 1)
           k == [l EXCEPT !.st[c] = IF l.st[c] = "charged" THEN "refunded" ELSE l.st[c],
                          !.limit = limit, !.exhausted = "today"]
           e == RaiseUsed(RaiseBase(k, limit), limit)
           o == [l EXCEPT !.limit = limit, !.used = AtLeast(limit, l.used), !.exhausted = "today"]
<1>1. limit \in Nat
  BY DEF AtLeast, Ledger
<1>2. AtLeast(limit, l.used) \in Nat
  BY <1>1 DEF AtLeast, Ledger
<1>3. ExhaustQuota(l, c) = IF l.init THEN e ELSE o
  BY DEF ExhaustQuota, RaiseBase, RaiseUsed
<1> HIDE DEF limit
<1>4. k \in Ledger
  BY <1>1 DEF Ledger, ChargeStatus, Date
<1>5. StatusKept(l, k, {c})
  BY DEF Ledger, StatusKept
<1> HIDE DEF k
<1>6. e \in Ledger /\ e.st = k.st /\ LedgerBalanced(e)
  BY <1>1, <1>4, RaisedToLimit
<1> HIDE DEF e
<1>7. LedgerKeeps(l, e, {c})
  BY <1>5, <1>6 DEF LedgerKeeps, LedgerSound, StatusKept
<1>8. o \in Ledger /\ o.st = l.st /\ o.init = l.init
  BY <1>1, <1>2 DEF Ledger, Date
<1> HIDE DEF o
<1>9. ~l.init => LedgerKeeps(l, o, {c})
  BY <1>8 DEF LedgerKeeps, LedgerSound, StatusKept, LedgerBalanced
<1> QED BY <1>3, <1>7, <1>9

LEMMA ExhaustStudioQuotaKeeps ==
  ASSUME NEW l \in Ledger, NEW c \in Charge PROVE LedgerKeeps(l, ExhaustStudioQuota(l, c), {c})
PROOF
<1> DEFINE limit == AtLeast(l.limit, 1)
           i == InitializeLedger(l)
           k == [i EXCEPT !.st[c] = IF i.st[c] = "settled" THEN "settled" ELSE "refunded",
                          !.limit = limit, !.exhausted = "today"]
           e == RaiseUsed(RaiseBase(k, limit), limit)
<1>1. limit \in Nat
  BY DEF AtLeast, Ledger
<1>2. i \in Ledger /\ i.st = l.st
  BY InitializeLedgerType
<1>3. ExhaustStudioQuota(l, c) = e
  BY DEF ExhaustStudioQuota, RaiseBase, RaiseUsed
<1> HIDE DEF limit, i
<1>4. k \in Ledger
  BY <1>1, <1>2 DEF Ledger, ChargeStatus, Date
<1>5. StatusKept(l, k, {c})
  BY <1>2 DEF Ledger, StatusKept
<1> HIDE DEF k
<1>6. e \in Ledger /\ e.st = k.st /\ LedgerBalanced(e)
  BY <1>1, <1>4, RaisedToLimit
<1> HIDE DEF e
<1>7. LedgerKeeps(l, e, {c})
  BY <1>5, <1>6 DEF LedgerKeeps, LedgerSound, StatusKept
<1> QED BY <1>3, <1>7

LEMMA EmptyLedgerSound ==
  ASSUME NEW l \in Ledger
  PROVE  /\ LedgerSound(l, EmptyLedger(l))
         /\ \A c \in Charge : EmptyLedger(l).st[c] = "none"
PROOF
<1> DEFINE k == EmptyLedger(l)
<1>1. /\ [c \in Charge |-> "none"] \in [Charge -> ChargeStatus]
      /\ [c \in Charge |-> 1] \in [Charge -> 1..MaxUnits]
  BY LedgerConstants DEF ChargeStatus
<1>2. k \in Ledger
  BY <1>1 DEF EmptyLedger, Ledger, Date
<1>3. /\ k.base = 0 /\ k.used = 0 /\ k.st = [c \in Charge |-> "none"]
  BY DEF EmptyLedger, Ledger
<1> HIDE DEF k
<1>4. {p \in Charge \X (1..MaxUnits) :
         k.st[p[1]] \in {"charged", "settled"} /\ p[2] <= k.units[p[1]]} = {}
  BY <1>3
<1>5. ActiveUnits(k) = 0
  BY <1>4, FS_EmptySet DEF ActiveUnits
<1>6. LedgerSound(l, k)
  BY <1>2, <1>3, <1>5 DEF LedgerSound, LedgerBalanced, ReconciledUsed
<1> QED BY <1>3, <1>6 DEF k

LEMMA SetLimitKeeps ==
  ASSUME NEW l \in Ledger, NEW limit \in Nat PROVE LedgerKeeps(l, SetLimit(l, limit), {})
PROOF
<1> DEFINE k == SetLimit(l, limit)
<1>1. /\ k \in Ledger /\ k.st = l.st /\ k.units = l.units /\ k.init = l.init
      /\ k.base = l.base /\ k.used = l.used
  BY DEF SetLimit, Ledger
<1> HIDE DEF k
<1>2. LedgerKeeps(l, k, {})
  BY <1>1, ActiveUnitsSame
     DEF LedgerKeeps, LedgerSound, StatusKept, LedgerBalanced, ReconciledUsed
<1> QED BY <1>2 DEF k

LEMMA AddMissingChargesKeeps ==
  ASSUME NEW l \in Ledger, NEW C \in SUBSET Charge
  PROVE  LedgerKeeps(l, AddMissingCharges(l, C), C)
PROOF
<1> DEFINE missing == {c \in C : l.st[c] = "none"}
           n == Cardinality(missing)
           base == IF l.used > n THEN l.used - n ELSE 0
           k == IF l.init THEN l ELSE [l EXCEPT !.init = TRUE, !.base = base]
           st == [c \in Charge |-> IF c \in missing THEN "settled" ELSE k.st[c]]
           units == [c \in Charge |-> IF c \in missing THEN 1 ELSE k.units[c]]
           m == [k EXCEPT !.st = st, !.units = units]
<1>1. missing \in SUBSET Charge
  OBVIOUS
<1>2. n \in Nat
  BY <1>1, LedgerConstants, FS_Subset, FS_CardinalityType
<1>3. AddMissingCharges(l, C) = IF missing = {} THEN l ELSE Recompute(m)
  BY DEF AddMissingCharges
<1>4. base \in Nat
  BY <1>2 DEF Ledger
<1> HIDE DEF n, base
<1>5. k \in Ledger /\ k.st = l.st
  BY <1>4 DEF Ledger
<1> HIDE DEF k
<1>6. st \in [Charge -> ChargeStatus] /\ units \in [Charge -> 1..MaxUnits]
  BY <1>5, LedgerConstants DEF Ledger, ChargeStatus
<1>7. \A c \in Charge : st[c] = l.st[c] \/ (l.st[c] = "none" /\ c \in C)
  BY <1>5
<1> HIDE DEF st, units
<1>8. m \in Ledger /\ m.st = st
  BY <1>5, <1>6 DEF Ledger
<1>9. StatusKept(l, m, C)
  BY <1>8, <1>7 DEF StatusKept
<1> HIDE DEF m
<1>10. LedgerKeeps(l, Recompute(m), C)
  BY <1>8, <1>9, RecomputeKeeps
<1>11. LedgerKeeps(l, l, C)
  BY DEF LedgerKeeps, LedgerSound, StatusKept
<1> QED BY <1>3, <1>10, <1>11

LEMMA MergeLedgersKeeps ==
  ASSUME NEW l \in Ledger, NEW d \in Ledger, NEW C,
         \A c \in Charge : d.st[c] = "none" \/ c \in C
  PROVE  LedgerKeeps(l, MergeLedgers(l, d), C)
PROOF
<1> DEFINE st == [c \in Charge |-> IF l.st[c] = "none" THEN d.st[c] ELSE l.st[c]]
           units == [c \in Charge |-> IF l.st[c] = "none" THEN d.units[c] ELSE l.units[c]]
           k == [l EXCEPT !.init = TRUE, !.base = AtLeast(l.base, d.base), !.st = st,
                          !.units = units]
<1>1. st \in [Charge -> ChargeStatus] /\ units \in [Charge -> 1..MaxUnits]
  BY DEF Ledger
<1>2. AtLeast(l.base, d.base) \in Nat
  BY DEF Ledger, AtLeast
<1>3. MergeLedgers(l, d) = IF \A c \in Charge : st[c] = "none" THEN l ELSE Recompute(k)
  BY DEF MergeLedgers
<1>4. \A c \in Charge : st[c] = l.st[c] \/ (l.st[c] = "none" /\ (st[c] = "none" \/ c \in C))
  OBVIOUS
<1> HIDE DEF st, units
<1>5. k \in Ledger /\ k.st = st
  BY <1>1, <1>2 DEF Ledger
<1> HIDE DEF k
<1>6. LedgerKeeps(l, Recompute(k), C)
  BY <1>4, <1>5, RecomputeBalances DEF LedgerKeeps, LedgerSound, StatusKept
<1>7. LedgerKeeps(l, l, C)
  BY DEF LedgerKeeps, LedgerSound, StatusKept
<1> QED BY <1>3, <1>6, <1>7
-----------------------------------------------------------------------------
(* One account.                                                               *)

\* The charges of C that the ledger b takes: a charge of AI Studio can also be
\* entered in the first ledger (RepairCharges).
Of(b, C) == {c \in C : b = "default" \/ b = BucketOf(c[1])}

Keeps(a, k, C) ==
  /\ k \in Account /\ k.charge \in C \cup {a.charge, NoCharge}
  /\ \A b \in Bucket : LedgerKeeps(a.ledger[b], k.ledger[b], Of(b, C))

\* The ledgers are emptied, and stay balanced.
Empties(a, k) ==
  /\ k \in Account /\ k.charge \in {a.charge, NoCharge}
  /\ \A b \in Bucket : /\ LedgerBalanced(k.ledger[b])
                       /\ \A c \in Charge : k.ledger[b].st[c] = "none"

LEMMA BucketOfType == ASSUME NEW t PROVE BucketOf(t) \in Bucket
PROOF
  BY DEF BucketOf, Bucket

LEMMA LedgerKeepsItself == ASSUME NEW l \in Ledger, NEW C PROVE LedgerKeeps(l, l, C)
PROOF
  BY DEF LedgerKeeps, LedgerSound, StatusKept

\* A change that leaves the ledgers alone.
LEMMA KeepsLedgers ==
  ASSUME NEW a \in Account, NEW k \in Account, NEW C,
         k.ledger = a.ledger, k.charge \in {a.charge, NoCharge}
  PROVE  Keeps(a, k, C)
PROOF
<1>1. \A b \in Bucket : a.ledger[b] \in Ledger
  BY DEF Account
<1> QED BY <1>1, LedgerKeepsItself DEF Keeps

LEMMA KeepsItself == ASSUME NEW a \in Account, NEW C PROVE Keeps(a, a, C)
PROOF
  BY KeepsLedgers

LEMMA KeepsThen ==
  ASSUME NEW a, NEW k, NEW m, NEW C, Keeps(a, k, C), Keeps(k, m, C)
  PROVE  Keeps(a, m, C)
PROOF
<1>1. m \in Account /\ m.charge \in C \cup {a.charge, NoCharge}
  BY DEF Keeps
<1>2. ASSUME NEW b \in Bucket PROVE LedgerKeeps(a.ledger[b], m.ledger[b], Of(b, C))
  <2>1. LedgerKeeps(a.ledger[b], k.ledger[b], Of(b, C)) /\ LedgerKeeps(k.ledger[b], m.ledger[b], Of(b, C))
    BY DEF Keeps
  <2> QED BY <2>1 DEF LedgerKeeps, LedgerSound, StatusKept
<1> QED BY <1>1, <1>2 DEF Keeps

LEMMA LedgerKeepsMore ==
  ASSUME NEW l, NEW k, NEW C, NEW D, LedgerKeeps(l, k, C), C \subseteq D
  PROVE  LedgerKeeps(l, k, D)
PROOF
  BY DEF LedgerKeeps, StatusKept

LEMMA KeepsUpdate ==
  ASSUME NEW a \in Account, NEW C, NEW b \in Bucket, NEW l,
         LedgerKeeps(a.ledger[b], l, Of(b, C))
  PROVE  Keeps(a, [a EXCEPT !.ledger[b] = l], C)
PROOF
<1> DEFINE k == [a EXCEPT !.ledger[b] = l]
<1>1. l \in Ledger
  BY DEF LedgerKeeps, LedgerSound
<1>2. /\ k \in Account /\ k.charge = a.charge /\ k.ledger = [a.ledger EXCEPT ![b] = l]
  BY <1>1 DEF Account
<1> HIDE DEF k
<1>4. ASSUME NEW x \in Bucket PROVE LedgerKeeps(a.ledger[x], k.ledger[x], Of(x, C))
  <2>1. a.ledger \in [Bucket -> Ledger]
    BY DEF Account
  <2>2. CASE x = b
    BY <1>2, <2>1, <2>2
  <2>3. CASE x # b
    BY <1>2, <2>1, <2>3, LedgerKeepsItself
  <2> QED BY <2>2, <2>3
<1>5. Keeps(a, k, C)
  BY <1>2, <1>4 DEF Keeps
<1> QED BY <1>5 DEF k

\* The functions that move a charge.
LEMMA RefundKeeps ==
  ASSUME NEW a \in Account, NEW C \in SUBSET Charge, NEW c \in C \cup {NoCharge}
  PROVE  Keeps(a, Refund(a, c), C)
PROOF
<1>1. CASE c = NoCharge \/ ~Live(a)
  BY <1>1, KeepsItself DEF Refund, Pays, LedgerOf
<1>2. CASE ~(c = NoCharge \/ ~Live(a))
  <2> DEFINE b == BucketOf(c[1])
             l == RefundQuota(a.ledger[b], c)
  <2>1. c \in Charge /\ b \in Bucket /\ a.ledger[b] \in Ledger /\ {c} \subseteq Of(b, C)
    BY <1>2, BucketOfType DEF Account, Of
  <2>2. LedgerKeeps(a.ledger[b], l, {c})
    BY <2>1, RefundQuotaKeeps
  <2>3. Refund(a, c) = [a EXCEPT !.ledger[b] = l]
    BY <1>2 DEF Refund, Pays, LedgerOf
  <2> HIDE DEF b, l
  <2>4. LedgerKeeps(a.ledger[b], l, Of(b, C))
    BY <2>1, <2>2, LedgerKeepsMore
  <2>5. Keeps(a, [a EXCEPT !.ledger[b] = l], C)
    BY <2>1, <2>4, KeepsUpdate
  <2> QED BY <2>3, <2>5
<1> QED BY <1>1, <1>2

LEMMA SettleKeeps ==
  ASSUME NEW a \in Account, NEW C \in SUBSET Charge, NEW c \in C \cup {NoCharge}
  PROVE  Keeps(a, Settle(a, c), C)
PROOF
<1>1. CASE c = NoCharge \/ ~Live(a)
  BY <1>1, KeepsItself DEF Settle, Pays, LedgerOf
<1>2. CASE ~(c = NoCharge \/ ~Live(a))
  <2> DEFINE b == BucketOf(c[1])
             l == SettleQuota(a.ledger[b], c)
  <2>1. c \in Charge /\ b \in Bucket /\ a.ledger[b] \in Ledger /\ {c} \subseteq Of(b, C)
    BY <1>2, BucketOfType DEF Account, Of
  <2>2. LedgerKeeps(a.ledger[b], l, {c})
    BY <2>1, SettleQuotaKeeps
  <2>3. Settle(a, c) = [a EXCEPT !.ledger[b] = l]
    BY <1>2 DEF Settle, Pays, LedgerOf
  <2> HIDE DEF b, l
  <2>4. LedgerKeeps(a.ledger[b], l, Of(b, C))
    BY <2>1, <2>2, LedgerKeepsMore
  <2>5. Keeps(a, [a EXCEPT !.ledger[b] = l], C)
    BY <2>1, <2>4, KeepsUpdate
  <2> QED BY <2>3, <2>5
<1> QED BY <1>1, <1>2

LEMMA TimedOutKeeps ==
  ASSUME NEW a \in Account, NEW C \in SUBSET Charge, NEW c \in C \cup {NoCharge}
  PROVE  Keeps(a, TimedOut(a, c), C)
PROOF
<1>1. CASE c = NoCharge \/ ~Live(a)
  BY <1>1, KeepsItself DEF TimedOut, Pays, LedgerOf
<1>2. CASE ~(c = NoCharge \/ ~Live(a))
  <2> DEFINE b == BucketOf(c[1])
             l == ExhaustTimedOut(a.ledger[b], c)
  <2>1. c \in Charge /\ b \in Bucket /\ a.ledger[b] \in Ledger /\ {c} \subseteq Of(b, C)
    BY <1>2, BucketOfType DEF Account, Of
  <2>2. LedgerKeeps(a.ledger[b], l, {c})
    BY <2>1, ExhaustTimedOutKeeps
  <2>3. TimedOut(a, c) = [a EXCEPT !.ledger[b] = l]
    BY <1>2 DEF TimedOut, Pays, LedgerOf
  <2> HIDE DEF b, l
  <2>4. LedgerKeeps(a.ledger[b], l, Of(b, C))
    BY <2>1, <2>2, LedgerKeepsMore
  <2>5. Keeps(a, [a EXCEPT !.ledger[b] = l], C)
    BY <2>1, <2>4, KeepsUpdate
  <2> QED BY <2>3, <2>5
<1> QED BY <1>1, <1>2

LEMMA ExhaustKeeps ==
  ASSUME NEW a \in Account, NEW C \in SUBSET Charge, NEW c \in C \cup {NoCharge}
  PROVE  Keeps(a, Exhaust(a, c), C)
PROOF
<1>1. CASE c = NoCharge \/ ~Live(a)
  BY <1>1, KeepsItself DEF Exhaust, Pays, LedgerOf
<1>2. CASE ~(c = NoCharge \/ ~Live(a))
  <2> DEFINE b == BucketOf(c[1])
             l == IF b = "studio" THEN ExhaustStudioQuota(a.ledger[b], c)
                  ELSE ExhaustQuota(a.ledger[b], c)
  <2>1. c \in Charge /\ b \in Bucket /\ a.ledger[b] \in Ledger /\ {c} \subseteq Of(b, C)
    BY <1>2, BucketOfType DEF Account, Of
  <2>2. LedgerKeeps(a.ledger[b], l, {c})
    BY <2>1, ExhaustQuotaKeeps, ExhaustStudioQuotaKeeps
  <2>3. Exhaust(a, c) = [a EXCEPT !.ledger[b] = l]
    BY <1>2 DEF Exhaust, Pays, LedgerOf
  <2> HIDE DEF b, l
  <2>4. LedgerKeeps(a.ledger[b], l, Of(b, C))
    BY <2>1, <2>2, LedgerKeepsMore
  <2>5. Keeps(a, [a EXCEPT !.ledger[b] = l], C)
    BY <2>1, <2>4, KeepsUpdate
  <2> QED BY <2>3, <2>5
<1> QED BY <1>1, <1>2

LEMMA PaidKeeps ==
  ASSUME NEW a \in Account, NEW C \in SUBSET Charge, NEW c \in C \cup {NoCharge},
         NEW money \in {"refund", "settle", "consume", "exhaust", "timedOut"}
  PROVE  Keeps(a, Consume(a, c), C) /\ Keeps(a, Paid(a, c, money), C)
PROOF
<1>1. Keeps(a, Consume(a, c), C)
  BY RefundKeeps, SettleKeeps DEF Consume
<1> QED BY <1>1, RefundKeeps, SettleKeeps, ExhaustKeeps, TimedOutKeeps DEF Paid

\* The lease and the marks.
LEMMA LeaseKeeps ==
  ASSUME NEW a \in Account, NEW C
  PROVE  /\ \A t : Keeps(a, ClearCurrentTask(a, t), C)
         /\ \A t \in Task, c \in C \cup {NoCharge} :
              C \subseteq Charge => Keeps(a, RestoreCurrentTask(a, t, c), C)
         /\ Keeps(a, ClaimForMaintenance(a), C)
PROOF
<1>1. ASSUME NEW t PROVE Keeps(a, ClearCurrentTask(a, t), C)
  <2>1. /\ ClearCurrentTask(a, t) \in Account /\ ClearCurrentTask(a, t).ledger = a.ledger
        /\ ClearCurrentTask(a, t).charge \in {a.charge, NoCharge}
    BY DEF ClearCurrentTask, Account
  <2> QED BY <2>1, KeepsLedgers
<1>2. ASSUME NEW t \in Task, NEW c \in C \cup {NoCharge}, C \subseteq Charge
      PROVE  Keeps(a, RestoreCurrentTask(a, t, c), C)
  <2> DEFINE k == RestoreCurrentTask(a, t, c)
  <2> DEFINE e == IF c = NoCharge THEN a.charge ELSE c
             m == [a EXCEPT !.lease = t, !.charge = e]
  <2>1. e \in Charge \cup {NoCharge} /\ e \in C \cup {a.charge}
    BY <1>2 DEF Account
  <2>2. k = a \/ k = m
    BY DEF RestoreCurrentTask
  <2> HIDE DEF e, k
  <2>3. m \in Account /\ m.ledger = a.ledger /\ m.charge = e
    BY <2>1 DEF Account
  <2> HIDE DEF m
  <2>4. k \in Account /\ k.ledger = a.ledger /\ k.charge \in C \cup {a.charge, NoCharge}
    BY <2>1, <2>2, <2>3
  <2>5. \A b \in Bucket : a.ledger[b] \in Ledger
    BY DEF Account
  <2>6. Keeps(a, k, C)
    BY <2>4, <2>5, LedgerKeepsItself DEF Keeps
  <2> QED BY <2>6 DEF k
<1>3. Keeps(a, ClaimForMaintenance(a), C)
  <2>1. /\ ClaimForMaintenance(a) \in Account /\ ClaimForMaintenance(a).ledger = a.ledger
        /\ ClaimForMaintenance(a).charge = a.charge
    BY DEF ClaimForMaintenance, Account
  <2> QED BY <2>1, KeepsLedgers
<1> QED BY <1>1, <1>2, <1>3

LEMMA MarksKeep ==
  ASSUME NEW a \in Account, NEW C
  PROVE  /\ Keeps(a, DisableForLogin(a), C) /\ Keeps(a, MarkTextOnly(a), C)
         /\ Keeps(a, MarkRegionRestricted(a), C) /\ Keeps(a, MarkSliderVerification(a), C)
         /\ Keeps(a, MarkTenSecondLimit(a), C) /\ Keeps(a, SetCooldown(a), C)
         /\ Keeps(a, UpdateCookies(a), C) /\ Keeps(a, Reinstate(a), C)
         /\ Keeps(a, [a EXCEPT !.cooling = FALSE], C)
         /\ \A on \in BOOLEAN : Keeps(a, SetEnabled(a, on), C)
PROOF
<1>1. Keeps(a, DisableForLogin(a), C)
  <2>1. DisableForLogin(a) \in Account /\ DisableForLogin(a).ledger = a.ledger /\ DisableForLogin(a).charge = a.charge
    BY DEF DisableForLogin, Account, AccountStatus, Date
  <2> QED BY <2>1, KeepsLedgers
<1>2. Keeps(a, MarkTextOnly(a), C)
  <2>1. MarkTextOnly(a) \in Account /\ MarkTextOnly(a).ledger = a.ledger /\ MarkTextOnly(a).charge = a.charge
    BY DEF MarkTextOnly, Account, AccountStatus, Date
  <2> QED BY <2>1, KeepsLedgers
<1>3. Keeps(a, MarkRegionRestricted(a), C)
  <2>1. MarkRegionRestricted(a) \in Account /\ MarkRegionRestricted(a).ledger = a.ledger /\ MarkRegionRestricted(a).charge = a.charge
    BY DEF MarkRegionRestricted, Account, AccountStatus, Date
  <2> QED BY <2>1, KeepsLedgers
<1>4. Keeps(a, MarkSliderVerification(a), C)
  <2>1. MarkSliderVerification(a) \in Account /\ MarkSliderVerification(a).ledger = a.ledger /\ MarkSliderVerification(a).charge = a.charge
    BY DEF MarkSliderVerification, Account, AccountStatus, Date
  <2> QED BY <2>1, KeepsLedgers
<1>5. Keeps(a, MarkTenSecondLimit(a), C)
  <2>1. MarkTenSecondLimit(a) \in Account /\ MarkTenSecondLimit(a).ledger = a.ledger /\ MarkTenSecondLimit(a).charge = a.charge
    BY DEF MarkTenSecondLimit, Account, AccountStatus, Date
  <2> QED BY <2>1, KeepsLedgers
<1>6. Keeps(a, SetCooldown(a), C)
  <2>1. SetCooldown(a) \in Account /\ SetCooldown(a).ledger = a.ledger /\ SetCooldown(a).charge = a.charge
    BY DEF SetCooldown, Account, AccountStatus, Date
  <2> QED BY <2>1, KeepsLedgers
<1>7. Keeps(a, UpdateCookies(a), C)
  <2>1. UpdateCookies(a) \in Account /\ UpdateCookies(a).ledger = a.ledger /\ UpdateCookies(a).charge = a.charge
    BY DEF UpdateCookies, Account, AccountStatus, Date
  <2> QED BY <2>1, KeepsLedgers
<1>8. Keeps(a, Reinstate(a), C)
  <2>1. Reinstate(a) \in Account /\ Reinstate(a).ledger = a.ledger /\ Reinstate(a).charge = a.charge
    BY DEF Reinstate, Account, AccountStatus, Date
  <2> QED BY <2>1, KeepsLedgers
<1>9. Keeps(a, [a EXCEPT !.cooling = FALSE], C)
  BY KeepsLedgers DEF Account
<1>10. ASSUME NEW on \in BOOLEAN PROVE Keeps(a, SetEnabled(a, on), C)
  BY KeepsLedgers DEF Account, SetEnabled
<1> QED BY <1>1, <1>2, <1>3, <1>4, <1>5, <1>6, <1>7, <1>8, <1>9, <1>10

LEMMA MarkedKeeps ==
  ASSUME NEW a \in Account, NEW C, NEW mark \in {"", "login", "slider", "tenSecond"}
  PROVE  Keeps(a, Marked(a, mark), C)
PROOF
  BY MarksKeep, KeepsItself DEF Marked

FailureKind == {"login", "slider", "textOnly", "region", "quota", "infra", "cool", "plain"}

LEMMA ReleaseAfterFailureKeeps ==
  ASSUME NEW a \in Account, NEW C \in SUBSET Charge, NEW t, NEW c \in C \cup {NoCharge},
         NEW kind \in FailureKind
  PROVE  Keeps(a, ReleaseAfterFailure(a, t, c, kind), C)
PROOF
<1> DEFINE k == ClearCurrentTask(a, t)
<1>1. Keeps(a, k, C) /\ k \in Account
  BY LeaseKeeps DEF Keeps
<1>2. ReleaseAfterFailure(a, t, c, kind) =
        CASE kind = "login"    -> Refund(DisableForLogin(k), c)
          [] kind = "slider"   -> Refund(MarkSliderVerification(k), c)
          [] kind = "textOnly" -> Refund(MarkTextOnly(k), c)
          [] kind = "region"   -> Refund(MarkRegionRestricted(k), c)
          [] kind = "quota"    -> Exhaust(k, c)
          [] kind = "infra"    -> Refund(k, c)
          [] kind = "cool"     -> SetCooldown(k)
          [] kind = "plain"    -> k
  BY DEF ReleaseAfterFailure
<1> HIDE DEF k
<1>3. ASSUME NEW m, Keeps(k, m, C) PROVE Keeps(k, Refund(m, c), C)
  <2>1. m \in Account
    BY <1>3 DEF Keeps
  <2>2. Keeps(m, Refund(m, c), C)
    BY <2>1, RefundKeeps
  <2> QED BY <1>3, <2>2, KeepsThen
<1>4. /\ Keeps(k, k, C) /\ Keeps(k, DisableForLogin(k), C) /\ Keeps(k, MarkSliderVerification(k), C)
      /\ Keeps(k, MarkTextOnly(k), C) /\ Keeps(k, MarkRegionRestricted(k), C)
      /\ Keeps(k, SetCooldown(k), C) /\ Keeps(k, Exhaust(k, c), C)
  BY <1>1, MarksKeep, KeepsItself, ExhaustKeeps
<1>5. Keeps(k, ReleaseAfterFailure(a, t, c, kind), C)
  BY <1>2, <1>3, <1>4 DEF FailureKind
<1> QED BY <1>1, <1>5, KeepsThen

\* A new charge of the ledger that pays for the task.
LEMMA ClaimAccountKeeps ==
  ASSUME NEW a \in Account, NEW C \in SUBSET Charge, NEW t \in Task, NEW c \in C, c[1] = t,
         a.ledger[BucketOf(t)].st[c] = "none"
  PROVE  Keeps(a, ClaimAccount(a, t, BucketOf(t), c, 1), C)
PROOF
<1> DEFINE b == BucketOf(t)
           l == ChargeQuota(a.ledger[b], c, 1)
           k == [a EXCEPT !.ledger[b] = l]
           m == [a EXCEPT !.lease = t, !.charge = c, !.ledger[b] = l]
<1>1. b \in Bucket /\ a.ledger[b] \in Ledger /\ 1 \in 1..MaxUnits /\ {c} \subseteq Of(b, C)
  BY BucketOfType, LedgerConstants DEF Account, Of
<1>2. LedgerKeeps(a.ledger[b], l, {c})
  BY <1>1, ChargeQuotaKeeps
<1>3. m = ClaimAccount(a, t, b, c, 1)
  BY DEF ClaimAccount
<1> HIDE DEF b, l
<1>4. LedgerKeeps(a.ledger[b], l, Of(b, C))
  BY <1>1, <1>2, LedgerKeepsMore
<1>5. Keeps(a, k, C)
  BY <1>1, <1>4, KeepsUpdate
<1>6. m \in Account /\ m.ledger = k.ledger /\ m.charge = c
  BY <1>5 DEF Keeps, Account
<1> HIDE DEF k, m
<1>7. Keeps(a, m, C)
  BY <1>5, <1>6 DEF Keeps
<1> QED BY <1>3, <1>7 DEF b

LEMMA DefaultLimitKeeps ==
  ASSUME NEW a \in Account, NEW C, NEW limit \in Nat
  PROVE  Keeps(a, [a EXCEPT !.ledger["default"] = SetLimit(@, limit)], C)
PROOF
<1>1. a.ledger["default"] \in Ledger /\ "default" \in Bucket
  BY DEF Account, Bucket
<1>2. LedgerKeeps(a.ledger["default"], SetLimit(a.ledger["default"], limit), Of("default", C))
  BY <1>1, SetLimitKeeps, LedgerKeepsMore
<1>3. Keeps(a, [a EXCEPT !.ledger["default"] = SetLimit(a.ledger["default"], limit)], C)
  BY <1>1, <1>2, KeepsUpdate
<1>4. [a EXCEPT !.ledger["default"] = SetLimit(@, limit)] =
        [a EXCEPT !.ledger["default"] = SetLimit(a.ledger["default"], limit)]
  OBVIOUS
<1> QED BY <1>3, <1>4

LEMMA RepairKeeps ==
  ASSUME NEW a \in Account, NEW C \in SUBSET Charge, NEW D \in SUBSET C
  PROVE  Keeps(a, [a EXCEPT !.ledger["default"] = AddMissingCharges(@, D)], C)
PROOF
<1>1. a.ledger["default"] \in Ledger /\ "default" \in Bucket /\ D \subseteq Of("default", C)
  BY DEF Account, Bucket, Of
<1>2. LedgerKeeps(a.ledger["default"], AddMissingCharges(a.ledger["default"], D), Of("default", C))
  BY <1>1, AddMissingChargesKeeps, LedgerKeepsMore
<1>3. Keeps(a, [a EXCEPT !.ledger["default"] = AddMissingCharges(a.ledger["default"], D)], C)
  BY <1>1, <1>2, KeepsUpdate
<1>4. [a EXCEPT !.ledger["default"] = AddMissingCharges(@, D)] =
        [a EXCEPT !.ledger["default"] = AddMissingCharges(a.ledger["default"], D)]
  OBVIOUS
<1> QED BY <1>3, <1>4

LEMMA MergeAccountsKeeps ==
  ASSUME NEW a \in Account, NEW d \in Account, NEW C \in SUBSET Charge,
         \A c \in Charge : d.ledger["default"].st[c] = "none" \/ c \in C
  PROVE  Keeps(a, MergeAccounts(a, d), C)
PROOF
<1>1. /\ a.ledger["default"] \in Ledger /\ d.ledger["default"] \in Ledger
      /\ "default" \in Bucket /\ Of("default", C) = C
  BY DEF Account, Bucket, Of
<1>2. LedgerKeeps(a.ledger["default"], MergeLedgers(a.ledger["default"], d.ledger["default"]), C)
  BY <1>1, MergeLedgersKeeps
<1> QED BY <1>1, <1>2, KeepsUpdate DEF MergeAccounts

\* Midnight leaves the charges alone.
LEMMA NextDayKeeps ==
  ASSUME NEW a \in Account, NEW C PROVE Keeps(a, NextDay(a), C)
PROOF
<1> DEFINE ledger == [b \in Bucket |-> [a.ledger[b] EXCEPT !.exhausted = Past(a.ledger[b].exhausted)]]
           k == [a EXCEPT !.marked = Past(a.marked), !.reset = Past(a.reset),
                          !.synced = Past(a.synced), !.ledger = ledger]
<1>1. \A d \in Date : Past(d) \in Date
  BY DEF Past, Date
<1>2. ASSUME NEW b \in Bucket PROVE LedgerKeeps(a.ledger[b], ledger[b], Of(b, C))
  <2> DEFINE l == a.ledger[b]
             n == [l EXCEPT !.exhausted = Past(l.exhausted)]
  <2>1. l \in Ledger
    BY DEF Account
  <2>2. ledger[b] = n
    OBVIOUS
  <2> HIDE DEF l
  <2>3. /\ n \in Ledger /\ n.st = l.st /\ n.units = l.units /\ n.init = l.init
        /\ n.base = l.base /\ n.used = l.used
    BY <1>1, <2>1 DEF Ledger
  <2> HIDE DEF n
  <2>4. LedgerKeeps(l, n, Of(b, C))
    BY <2>3, ActiveUnitsSame DEF LedgerKeeps, LedgerSound, StatusKept, LedgerBalanced, ReconciledUsed
  <2> QED BY <2>2, <2>4 DEF l
<1>3. ledger \in [Bucket -> Ledger]
  BY <1>2 DEF LedgerKeeps, LedgerSound
<1>4. k = NextDay(a)
  BY DEF NextDay
<1> HIDE DEF ledger
<1>5. k \in Account /\ k.ledger = ledger /\ k.charge = a.charge
  BY <1>1, <1>3 DEF Account
<1> HIDE DEF k
<1>6. Keeps(a, k, C)
  BY <1>2, <1>5 DEF Keeps
<1> QED BY <1>4, <1>6

LEMMA ReconcileQuotasKeeps ==
  ASSUME NEW a \in Account, NEW C, NEW qianwen \in BOOLEAN
  PROVE  Keeps(a, ReconcileQuotas(a, qianwen), C)
PROOF
<1>1. /\ a.ledger["default"] \in Ledger /\ a.ledger["studio"] \in Ledger
      /\ "default" \in Bucket /\ "studio" \in Bucket
  BY DEF Account, Bucket
<1>2. \A b \in Bucket : LedgerKeeps(a.ledger[b], ReconcileLedger(a.ledger[b]), Of(b, C))
  <2> SUFFICES ASSUME NEW b \in Bucket
               PROVE  LedgerKeeps(a.ledger[b], ReconcileLedger(a.ledger[b]), Of(b, C))
    OBVIOUS
  <2>1. a.ledger[b] \in Ledger
    BY DEF Account
  <2>2. LedgerKeeps(a.ledger[b], ReconcileLedger(a.ledger[b]), {})
    BY <2>1, ReconcileLedgerKeeps
  <2> QED BY <2>2, LedgerKeepsMore
<1>3. \A b \in Bucket : Keeps(a, [a EXCEPT !.ledger[b] = ReconcileLedger(a.ledger[b])], C)
  BY <1>2, KeepsUpdate
<1> QED BY <1>1, <1>3, KeepsItself DEF ReconcileQuotas

\* The account is gone, or new: nothing is in its ledgers.
LEMMA NewAccountEmpties ==
  ASSUME NEW a, NEW qianwen \in BOOLEAN
  PROVE  /\ Empties(a, NewAccount(TRUE, Limit, Limit, qianwen))
         /\ Empties(a, DeleteAccount(a))
         /\ Empties(a, NoAccountYet)
PROOF
<1>1. Limit \in Nat /\ 0 \in Nat
  BY UseConstants
<1>2. NoAccountYet \in Account /\ NoAccountYet.charge = NoCharge
  BY NewLedgerSound DEF NoAccountYet, Account, AccountStatus, Date
<1>3. NoAccountYet.ledger = [b \in Bucket |-> NewLedger(0, FALSE)]
  BY DEF NoAccountYet
<1>4. Empties(a, NoAccountYet)
  BY <1>1, <1>2, <1>3, NewLedgerSound DEF Empties
<1>5. /\ DeleteAccount(a) \in Account /\ DeleteAccount(a).charge = NoCharge
      /\ DeleteAccount(a).ledger = NoAccountYet.ledger
  BY <1>2 DEF DeleteAccount, Account
<1>6. Empties(a, DeleteAccount(a))
  BY <1>4, <1>5 DEF Empties
<1> DEFINE ledger == [b \in Bucket |-> IF b = "default" THEN NewLedger(Limit, FALSE)
                                      ELSE NewLedger(Limit, qianwen)]
           n == NewAccount(TRUE, Limit, Limit, qianwen)
<1>7. \A b \in Bucket : /\ ledger[b] \in Ledger /\ LedgerBalanced(ledger[b])
                        /\ \A c \in Charge : ledger[b].st[c] = "none"
  BY <1>1, NewLedgerSound
<1>8. n = [NoAccountYet EXCEPT !.row = "there", !.enabled = TRUE, !.reset = "today", !.ledger = ledger]
  BY DEF NewAccount
<1>9. ledger \in [Bucket -> Ledger]
  BY <1>7
<1> HIDE DEF ledger, n
<1>10. n \in Account /\ n.charge = NoCharge /\ n.ledger = ledger
  BY <1>2, <1>8, <1>9 DEF Account, Date
<1>11. Empties(a, n)
  BY <1>7, <1>10 DEF Empties
<1> QED BY <1>4, <1>6, <1>11 DEF n

LEMMA CleanUpFlaggedKeeps ==
  ASSUME NEW a \in Account, NEW C, NEW doubao \in BOOLEAN, NEW evening \in BOOLEAN
  PROVE  LET k == CleanUpFlagged(a, doubao, evening) IN Keeps(a, k, C) \/ Empties(a, k)
PROOF
<1>1. CleanUpFlagged(a, doubao, evening) \in {a, Reinstate(a), DeleteAccount(a)}
  BY DEF CleanUpFlagged
<1> QED BY <1>1, KeepsItself, MarksKeep, NewAccountEmpties

LEMMA ResetMarkedTodayKeeps ==
  ASSUME NEW a \in Account, NEW C PROVE Keeps(a, ResetMarkedToday(a), C)
PROOF
  BY KeepsItself, MarksKeep DEF ResetMarkedToday

\* An account that is not of qianwen has nothing in the ledger of AI Studio.
NoStudio(a) == plat # "qianwen" => \A c \in Charge : a.ledger["studio"].st[c] = "none"

\* Both ledgers are emptied when the account is of qianwen; the other accounts have
\* nothing in the second one.
LEMMA ResetQuotaEmpties ==
  ASSUME NEW a \in Account, NoStudio(a), \A b \in Bucket : LedgerBalanced(a.ledger[b])
  PROVE  /\ Empties(a, ResetQuota(a, plat = "qianwen"))
         /\ a.reset # "today" => Empties(a, DailyReset(a, plat = "qianwen"))
PROOF
<1> DEFINE ledger == [b \in Bucket |-> IF b = "default" \/ plat = "qianwen"
                                      THEN EmptyLedger(a.ledger[b]) ELSE a.ledger[b]]
           k == [a EXCEPT !.ledger = ledger]
           m == [a EXCEPT !.reset = "today", !.ledger = ledger]
<1>1. ASSUME NEW b \in Bucket
      PROVE  /\ ledger[b] \in Ledger /\ LedgerBalanced(ledger[b])
             /\ \A c \in Charge : ledger[b].st[c] = "none"
  <2>1. a.ledger[b] \in Ledger
    BY DEF Account
  <2>2. CASE b = "default" \/ plat = "qianwen"
    <3>1. ledger[b] = EmptyLedger(a.ledger[b])
      BY <2>2
    <3> QED BY <2>1, <3>1, EmptyLedgerSound DEF LedgerSound
  <2>3. CASE ~(b = "default" \/ plat = "qianwen")
    BY <2>1, <2>3 DEF NoStudio, Bucket
  <2> QED BY <2>2, <2>3
<1>2. ledger \in [Bucket -> Ledger]
  BY <1>1
<1>3. ResetQuota(a, plat = "qianwen") = k
  BY DEF ResetQuota
<1>4. a.reset # "today" => DailyReset(a, plat = "qianwen") = m
  BY DEF DailyReset
<1> HIDE DEF ledger
<1>5. /\ k \in Account /\ k.ledger = ledger /\ k.charge = a.charge
      /\ m \in Account /\ m.ledger = ledger /\ m.charge = a.charge
  BY <1>2 DEF Account, Date
<1> HIDE DEF k, m
<1>6. Empties(a, k) /\ Empties(a, m)
  BY <1>1, <1>5 DEF Empties
<1> QED BY <1>3, <1>4, <1>6

LEMMA DailyResetKeeps ==
  ASSUME NEW a \in Account, NEW C, NoStudio(a), \A b \in Bucket : LedgerBalanced(a.ledger[b])
  PROVE  LET k == DailyReset(a, plat = "qianwen") IN Keeps(a, k, C) \/ Empties(a, k)
PROOF
<1>1. CASE a.reset = "today"
  <2>1. DailyReset(a, plat = "qianwen") = ReconcileQuotas(a, plat = "qianwen")
    BY <1>1 DEF DailyReset
  <2>2. (plat = "qianwen") \in BOOLEAN
    OBVIOUS
  <2> QED BY <2>1, <2>2, ReconcileQuotasKeeps
<1>2. CASE a.reset # "today"
  BY <1>2, ResetQuotaEmpties
<1> QED BY <1>1, <1>2

\* The ledger keeps its charges; what is used is counted anew.
LEMMA SyncCreditKeeps ==
  ASSUME NEW a \in Account, NEW C, NEW available \in Nat
  PROVE  Keeps(a, SyncCredit(a, available, NoCharge), C)
PROOF
<1> DEFINE s      == a.ledger["studio"]
           l      == InitializeLedger(s)
           used   == ReconciledUsed(l)
           before == IF used > 0 THEN used - 0 ELSE 0
           limit  == before + available
           exhausted == IF available >= 0 THEN "" ELSE l.exhausted
           n == [l EXCEPT !.limit = limit, !.used = used, !.exhausted = exhausted]
           k == [a EXCEPT !.ledger["studio"] = n]
           m == [a EXCEPT !.synced = "today", !.available = available, !.usedThen = before,
                          !.ledger["studio"] = n]
<1>1. m = SyncCredit(a, available, NoCharge)
  BY DEF SyncCredit
<1>2. s \in Ledger /\ "studio" \in Bucket
  BY DEF Account, Bucket
<1>3. l \in Ledger /\ l.st = s.st
  BY <1>2, InitializeLedgerType
<1>4. ActiveUnits(l) \in Nat
  BY ActiveUnitsNat
<1> HIDE DEF s, l
<1>5. used \in Nat /\ used = l.base + ActiveUnits(l)
  BY <1>3, <1>4 DEF ReconciledUsed, Ledger
<1> HIDE DEF used
<1>6. before \in Nat
  BY <1>5
<1>7. exhausted \in Date
  BY <1>3 DEF Ledger, Date
<1> HIDE DEF before, exhausted
<1>8. before \in Nat /\ limit \in Nat /\ exhausted \in Date
  BY <1>6, <1>7
<1> HIDE DEF limit
<1>9. /\ n \in Ledger /\ n.st = l.st /\ n.units = l.units /\ n.base = l.base /\ n.used = used
  BY <1>3, <1>5, <1>8 DEF Ledger
<1> HIDE DEF n
<1>10. ActiveUnits(n) = ActiveUnits(l)
  BY <1>9, ActiveUnitsSame
<1>11. LedgerKeeps(s, n, Of("studio", C))
  BY <1>3, <1>5, <1>9, <1>10 DEF LedgerKeeps, LedgerSound, StatusKept, LedgerBalanced, ReconciledUsed
<1>12. Keeps(a, k, C)
  BY <1>2, <1>11, KeepsUpdate DEF s
<1>13. m \in Account /\ m.ledger = k.ledger /\ m.charge = a.charge
  BY <1>8, <1>12 DEF Keeps, Account, Date
<1> HIDE DEF k, m
<1>14. Keeps(a, m, C)
  BY <1>12, <1>13 DEF Keeps
<1> QED BY <1>1, <1>14

\* A lease is given up before or after the charge is moved.
LEMMA ReleasedKeeps ==
  ASSUME NEW a \in Account, NEW C \in SUBSET Charge, NEW t, NEW c \in C \cup {NoCharge}
  PROVE  /\ Keeps(a, Refund(ClearCurrentTask(a, t), c), C)
         /\ Keeps(a, Consume(ClearCurrentTask(a, t), c), C)
         /\ Keeps(a, ClearCurrentTask(Settle(a, c), t), C)
         /\ Keeps(a, ClearCurrentTask(Refund(a, c), t), C)
         /\ Keeps(a, ClearCurrentTask(TimedOut(a, c), t), C)
PROOF
<1> DEFINE k == ClearCurrentTask(a, t)
<1>1. Keeps(a, k, C) /\ k \in Account
  BY LeaseKeeps DEF Keeps
<1> HIDE DEF k
<1>2. Keeps(k, Refund(k, c), C) /\ Keeps(k, Consume(k, c), C)
  BY <1>1, RefundKeeps, PaidKeeps
<1>3. Keeps(a, Refund(k, c), C) /\ Keeps(a, Consume(k, c), C)
  BY <1>1, <1>2, KeepsThen
<1>4. ASSUME NEW m, Keeps(a, m, C) PROVE Keeps(a, ClearCurrentTask(m, t), C)
  <2>1. m \in Account
    BY <1>4 DEF Keeps
  <2>2. Keeps(m, ClearCurrentTask(m, t), C)
    BY <2>1, LeaseKeeps
  <2> QED BY <1>4, <2>2, KeepsThen
<1>5. Keeps(a, Settle(a, c), C) /\ Keeps(a, Refund(a, c), C) /\ Keeps(a, TimedOut(a, c), C)
  BY SettleKeeps, RefundKeeps, TimedOutKeeps
<1>6. /\ Keeps(a, ClearCurrentTask(Settle(a, c), t), C) /\ Keeps(a, ClearCurrentTask(Refund(a, c), t), C)
      /\ Keeps(a, ClearCurrentTask(TimedOut(a, c), t), C)
  BY <1>4, <1>5
<1> QED BY <1>3, <1>6 DEF k

\* An answer: the account is marked, its charge moved, and its lease given up or not.
LEMMA AnsweredKeeps ==
  ASSUME NEW a \in Account, NEW C \in SUBSET Charge, NEW t, NEW c \in C \cup {NoCharge},
         NEW mark \in {"", "login", "slider", "tenSecond"},
         NEW money \in {"refund", "settle", "consume", "exhaust", "timedOut"}
  PROVE  /\ Keeps(a, Paid(Marked(a, mark), c, money), C)
         /\ Keeps(a, ClearCurrentTask(Paid(Marked(a, mark), c, money), t), C)
PROOF
<1> DEFINE m == Marked(a, mark)
           k == Paid(m, c, money)
<1>1. Keeps(a, m, C) /\ m \in Account
  BY MarkedKeeps DEF Keeps
<1> HIDE DEF m
<1>2. Keeps(m, k, C)
  BY <1>1, PaidKeeps
<1> HIDE DEF k
<1>3. Keeps(a, k, C) /\ k \in Account
  BY <1>1, <1>2, KeepsThen DEF Keeps
<1>4. Keeps(k, ClearCurrentTask(k, t), C)
  BY <1>3, LeaseKeeps
<1>5. Keeps(a, ClearCurrentTask(k, t), C)
  BY <1>3, <1>4, KeepsThen
<1> QED BY <1>3, <1>5 DEF k, m

-----------------------------------------------------------------------------
(* The inductive invariant.                                                   *)

\* The charges drawn so far.
Drawn(n) == {c \in Charge : c[2] <= n}
Known == Drawn(drawn) \cup {NoCharge}

\* What tasks, runs and queries remember of charges is drawn.
StoreInv ==
  /\ drawn \in Nat /\ once \in [Task -> BOOLEAN]
  /\ res \in [Task -> Res] /\ run \in [Task -> Run] /\ look \in [Reader -> Look]
  /\ \A t \in Task : res[t].charge \in Known /\ run[t].charge \in Known
  /\ \A r \in Reader : look[r].charge \in Known

\* The ledgers are balanced; a charge not yet drawn is in none of them, and only an
\* account of qianwen has charges in its second one.
AcctInv ==
  /\ acct \in [Acct -> Account]
  /\ Balanced
  /\ \A a \in Acct : acct[a].charge \in Known
  /\ \A a \in Acct, b \in Bucket : \A c \in Charge :
       acct[a].ledger[b].st[c] = "none" \/ c \in Drawn(drawn)
  /\ \A a \in Acct : NoStudio(acct[a])

IInv == StoreInv /\ AcctInv

\* What a step does to the accounts.
AcctStep ==
  /\ acct' \in [Acct -> Account]
  /\ \A a \in Acct : \/ Keeps(acct[a], acct'[a], Drawn(drawn'))
                     \/ Empties(acct[a], acct'[a]) /\ ChargesIn(acct[a]) \subseteq dropped'

\* The conjunct of SettledFinal for one step.
SettledStep ==
  \A a \in Acct, b \in Bucket, c \in Charge :
    acct[a].ledger[b].st[c] = "settled" =>
      acct'[a].ledger[b].st[c] = "settled" \/ c \in dropped'

LEMMA AcctStepInv ==
  ASSUME IInv, AcctStep, plat' = plat, drawn' \in Nat, drawn <= drawn'
  PROVE  AcctInv' /\ SettledStep
PROOF
<1> DEFINE C == Drawn(drawn')
<1>1. Drawn(drawn) \subseteq C /\ drawn \in Nat
  <2>1. \A c \in Charge : c[2] \in Nat
    BY UseConstants
  <2> QED BY <2>1 DEF Drawn, IInv, StoreInv
<1> SUFFICES ASSUME NEW a \in Acct
             PROVE  /\ \A b \in Bucket : LedgerBalanced(acct'[a].ledger[b])
                    /\ acct'[a].charge \in C \cup {NoCharge}
                    /\ \A b \in Bucket, c \in Charge :
                         acct'[a].ledger[b].st[c] = "none" \/ c \in C
                    /\ plat # "qianwen" =>
                         \A c \in Charge : acct'[a].ledger["studio"].st[c] = "none"
                    /\ \A b \in Bucket, c \in Charge :
                         acct[a].ledger[b].st[c] = "settled" =>
                           acct'[a].ledger[b].st[c] = "settled" \/ c \in dropped'
  BY DEF AcctInv, SettledStep, AcctStep, Balanced, Known, NoStudio
<1> HIDE DEF C
<1> DEFINE x == acct[a]
           y == acct'[a]
<1>2. /\ x \in Account /\ y \in Account
      /\ \A b \in Bucket : LedgerBalanced(x.ledger[b])
      /\ x.charge \in C \cup {NoCharge}
      /\ \A b \in Bucket : \A c \in Charge : x.ledger[b].st[c] = "none" \/ c \in C
      /\ plat # "qianwen" => \A c \in Charge : x.ledger["studio"].st[c] = "none"
  BY <1>1 DEF IInv, AcctInv, AcctStep, Balanced, Known, NoStudio
<1>3. \/ Keeps(x, y, C)
      \/ Empties(x, y) /\ ChargesIn(x) \subseteq dropped'
  BY DEF AcctStep, C
<1> HIDE DEF x, y
<1>4. CASE Keeps(x, y, C)
  <2>1. \A b \in Bucket : LedgerBalanced(y.ledger[b])
    BY <1>2, <1>4 DEF Keeps, LedgerKeeps, LedgerSound
  <2>2. y.charge \in C \cup {NoCharge}
    BY <1>2, <1>4 DEF Keeps
  <2>3. \A b \in Bucket : \A c \in Charge : y.ledger[b].st[c] = "none" \/ c \in C
    BY <1>2, <1>4 DEF Keeps, LedgerKeeps, StatusKept, Of
  <2>4. \A b \in Bucket : \A c \in Charge : x.ledger[b].st[c] = "settled" => y.ledger[b].st[c] = "settled"
    BY <1>4 DEF Keeps, LedgerKeeps, StatusKept
  <2>5. ASSUME plat # "qianwen" PROVE \A c \in Charge : y.ledger["studio"].st[c] = "none"
    BY <1>2, <1>4, <2>5 DEF Keeps, LedgerKeeps, StatusKept, Of, BucketOf, Bucket
  <2> QED BY <2>1, <2>2, <2>3, <2>4, <2>5 DEF x, y
<1>5. CASE Empties(x, y) /\ ChargesIn(x) \subseteq dropped'
  <2>1. \A b \in Bucket : LedgerBalanced(y.ledger[b])
    BY <1>5 DEF Empties
  <2>2. y.charge \in C \cup {NoCharge}
    BY <1>2, <1>5 DEF Empties
  <2>3. \A b \in Bucket : \A c \in Charge : y.ledger[b].st[c] = "none"
    BY <1>5 DEF Empties
  <2>4. \A b \in Bucket : \A c \in Charge : x.ledger[b].st[c] = "settled" => c \in dropped'
    BY <1>5 DEF ChargesIn
  <2> QED BY <2>1, <2>2, <2>3, <2>4 DEF x, y, Bucket
<1> QED BY <1>3, <1>4, <1>5


-----------------------------------------------------------------------------
(* The steps.                                                                 *)

\* Every account keeps its charges.
LEMMA AllKeep ==
  ASSUME acct' \in [Acct -> Account], \A a \in Acct : Keeps(acct[a], acct'[a], Drawn(drawn'))
  PROVE  AcctStep
PROOF
  BY DEF AcctStep

LEMMA NoAccountChanges ==
  ASSUME IInv, UNCHANGED acct PROVE AcctStep
PROOF
<1>1. \A a \in Acct : acct[a] \in Account
  BY DEF IInv, AcctInv
<1> QED BY <1>1, KeepsItself, AllKeep DEF IInv, AcctInv

LEMMA OneAccount ==
  ASSUME IInv, NEW a, NEW new, acct' = [acct EXCEPT ![a] = new],
         a \in Acct => Keeps(acct[a], new, Drawn(drawn'))
  PROVE  AcctStep
PROOF
<1>1. acct \in [Acct -> Account]
  BY DEF IInv, AcctInv
<1>2. a \in Acct => new \in Account
  BY DEF Keeps
<1>3. acct' \in [Acct -> Account]
  BY <1>1, <1>2
<1>4. ASSUME NEW x \in Acct PROVE Keeps(acct[x], acct'[x], Drawn(drawn'))
  <2>1. CASE x = a
    BY <1>1, <2>1
  <2>2. CASE x # a
    <3>1. acct'[x] = acct[x] /\ acct[x] \in Account
      BY <1>1, <2>2
    <3> QED BY <3>1, KeepsItself
  <2> QED BY <2>1, <2>2
<1> QED BY <1>3, <1>4, AllKeep

LEMMA TouchedAccount ==
  ASSUME IInv, NEW a, NEW new, Touch(a, new),
         a \in Acct => Keeps(acct[a], new, Drawn(drawn'))
  PROVE  AcctStep
PROOF
<1>1. CASE a = NoAcct
  BY <1>1, NoAccountChanges DEF Touch
<1>2. CASE a # NoAcct
  BY <1>2, OneAccount DEF Touch
<1> QED BY <1>1, <1>2

\* What the lemmas above need of a charge that is remembered and of an account.
LEMMA Remembered ==
  ASSUME IInv
  PROVE  /\ Drawn(drawn) \in SUBSET Charge
         /\ \A t \in Task : /\ run[t].charge \in Drawn(drawn) \cup {NoCharge}
                            /\ res[t].charge \in Drawn(drawn) \cup {NoCharge}
         /\ \A r \in Reader : look[r].charge \in Drawn(drawn) \cup {NoCharge}
         /\ \A a \in Acct : /\ acct[a] \in Account /\ Old(a) = acct[a]
                            /\ acct[a].charge \in Drawn(drawn) \cup {NoCharge}
         /\ Old(NoAcct).charge = NoCharge
PROOF
<1>1. \A a \in Acct : a # NoAcct
  BY UseConstants
<1> QED BY <1>1 DEF IInv, StoreInv, AcctInv, Known, Drawn, Old, NoAccountYet

\* The run of a task ends, and the result of the task may be cleared.
LEMMA RunEnds ==
  ASSUME IInv, NEW t \in Task,
         run' = run \/ run' = [run EXCEPT ![t] = NoRun],
         res' = res \/ res' = [res EXCEPT ![t] = NoRes],
         UNCHANGED <<look, once, drawn>>
  PROVE  StoreInv'
PROOF
<1>1. NoRun \in Run /\ NoRun.charge = NoCharge /\ NoRes \in Res /\ NoRes.charge = NoCharge
  BY DEF NoRun, Run, NoRes, Res
<1>2. /\ run' \in [Task -> Run]
      /\ \A u \in Task : run'[u].charge \in {run[u].charge, NoCharge}
  BY <1>1 DEF IInv, StoreInv
<1>3. /\ res' \in [Task -> Res]
      /\ \A u \in Task : res'[u].charge \in {res[u].charge, NoCharge}
  BY <1>1 DEF IInv, StoreInv
<1>4. /\ drawn' \in Nat /\ once' \in [Task -> BOOLEAN] /\ look' \in [Reader -> Look]
      /\ \A r \in Reader : look'[r].charge \in Known
      /\ \A u \in Task : run[u].charge \in Known /\ res[u].charge \in Known
      /\ Known' = Known /\ NoCharge \in Known
  BY DEF IInv, StoreInv, Known, Drawn
<1> QED BY <1>2, <1>3, <1>4 DEF StoreInv

LEMMA ClaimPendingStep ==
  ASSUME IInv, NEW t \in Task, ClaimPending(t) PROVE AcctStep /\ StoreInv' /\ drawn' = drawn
PROOF
<1>1. AcctStep
  BY NoAccountChanges DEF ClaimPending
<1>2. /\ run' \in [Task -> Run] /\ \A u \in Task : run'[u].charge = run[u].charge
      /\ UNCHANGED <<res, look, once, drawn>>
  BY DEF ClaimPending, IInv, StoreInv, Run
<1>3. StoreInv'
  BY <1>2 DEF IInv, StoreInv, Known, Drawn
<1> QED BY <1>1, <1>2, <1>3

LEMMA TakeAccountStep ==
  ASSUME IInv, NEW t \in Task, NEW a \in Acct, TakeAccount(t, a)
  PROVE  AcctStep /\ StoreInv' /\ drawn <= drawn'
PROOF
<1> DEFINE c == <<t, drawn + 1>>
<1>1. /\ acct' = [acct EXCEPT ![a] = ClaimAccount(acct[a], t, BucketOf(t), c, 1)]
      /\ drawn' = drawn + 1 /\ drawn < MaxClaims
      /\ run' = [run EXCEPT ![t] = [stage |-> "held", acc |-> a, charge |-> c]]
      /\ res' = [res EXCEPT ![t] = NoRes] /\ UNCHANGED <<look, once>>
  BY DEF TakeAccount
<1>2. drawn \in Nat /\ drawn' \in Nat /\ drawn <= drawn'
  BY <1>1 DEF IInv, StoreInv
<1>3. /\ c \in Charge /\ c[1] = t /\ c \notin Drawn(drawn) /\ c \in Drawn(drawn')
      /\ Drawn(drawn) \subseteq Drawn(drawn') /\ Drawn(drawn') \in SUBSET Charge
  <2>1. c \in Charge
    BY <1>1, <1>2, UseConstants
  <2>2. \A e \in Charge : e[2] \in Nat
    BY UseConstants
  <2> QED BY <1>1, <1>2, <2>1, <2>2 DEF Drawn
<1>4. /\ acct[a] \in Account /\ acct[a].ledger[BucketOf(t)].st[c] = "none"
  BY <1>3, BucketOfType DEF IInv, AcctInv
<1> HIDE DEF c
<1>5. Keeps(acct[a], ClaimAccount(acct[a], t, BucketOf(t), c, 1), Drawn(drawn'))
  BY <1>3, <1>4, ClaimAccountKeeps
<1>6. AcctStep
  BY <1>1, <1>5, OneAccount
<1>7. /\ run' \in [Task -> Run] /\ \A u \in Task : run'[u].charge \in {run[u].charge, c}
  BY <1>1, <1>3 DEF IInv, StoreInv, Run
<1>8. /\ res' \in [Task -> Res] /\ \A u \in Task : res'[u].charge \in {res[u].charge, NoCharge}
  BY <1>1 DEF IInv, StoreInv, Res, NoRes
<1>9. StoreInv'
  BY <1>1, <1>2, <1>3, <1>7, <1>8 DEF IInv, StoreInv, Known
<1> QED BY <1>2, <1>6, <1>9

LEMMA NoAccountFreeStep ==
  ASSUME IInv, NEW t \in Task, NoAccountFree(t) \/ DropPreference(t) PROVE AcctStep /\ StoreInv' /\ drawn' = drawn
PROOF
<1>1. UNCHANGED acct /\ UNCHANGED <<res, look, once, drawn>>
  BY DEF NoAccountFree, DropPreference
<1>2. run' = run \/ run' = [run EXCEPT ![t] = NoRun]
  BY DEF NoAccountFree, DropPreference
<1> QED BY <1>1, <1>2, NoAccountChanges, RunEnds

LEMMA TurnedAwayStep ==
  ASSUME IInv, NEW t \in Task, TurnedAway(t) PROVE AcctStep /\ StoreInv' /\ drawn' = drawn
PROOF
<1> DEFINE a == run[t].acc
           new == Refund(ClearCurrentTask(acct[a], t), run[t].charge)
<1>1. (UNCHANGED acct \/ Touch(a, new)) /\ UNCHANGED <<res, look, once, drawn>>
      /\ run' = [run EXCEPT ![t] = NoRun]
  BY DEF TurnedAway
<1>2. a \in Acct => Keeps(acct[a], new, Drawn(drawn'))
  BY <1>1, Remembered, ReleasedKeeps
<1> HIDE DEF a, new
<1>3. AcctStep
  BY <1>1, <1>2, NoAccountChanges, TouchedAccount
<1> QED BY <1>1, <1>3, RunEnds

LEMMA SubmitStep ==
  ASSUME IInv, NEW t \in Task, NEW conv \in BOOLEAN, Submit(t, conv) PROVE AcctStep /\ StoreInv' /\ drawn' = drawn
PROOF
<1>1. /\ UNCHANGED acct /\ UNCHANGED <<look, once, drawn>>
      /\ res' = [res EXCEPT ![t] = [acc |-> run[t].acc, charge |-> run[t].charge,
                                    conv |-> conv, url |-> FALSE]]
      /\ run' = [run EXCEPT ![t].stage = IF conv THEN "sent" ELSE "blind"]
  BY DEF Submit
<1>2. /\ res' \in [Task -> Res]
      /\ \A u \in Task : res'[u].charge \in {res[u].charge, run[u].charge}
  BY <1>1 DEF IInv, StoreInv, Res, Run
<1>3. /\ run' \in [Task -> Run] /\ \A u \in Task : run'[u].charge = run[u].charge
  BY <1>1 DEF IInv, StoreInv, Run
<1>4. StoreInv'
  BY <1>1, <1>2, <1>3 DEF IInv, StoreInv, Known, Drawn
<1> QED BY <1>1, <1>4, NoAccountChanges

LEMMA ReturnSubmittedStep ==
  ASSUME IInv, NEW t \in Task, ReturnSubmitted(t) PROVE AcctStep /\ StoreInv' /\ drawn' = drawn
PROOF
<1> DEFINE a == run[t].acc
           new == ClearCurrentTask(IF run[t].stage = "sent" THEN Settle(acct[a], run[t].charge)
                                   ELSE acct[a], t)
<1>1. (UNCHANGED acct \/ Touch(a, new)) /\ UNCHANGED <<res, look, once, drawn>>
      /\ run' = [run EXCEPT ![t] = NoRun]
  BY DEF ReturnSubmitted
<1>2. a \in Acct => Keeps(acct[a], new, Drawn(drawn'))
  BY <1>1, Remembered, ReleasedKeeps, LeaseKeeps
<1> HIDE DEF a, new
<1>3. AcctStep
  BY <1>1, <1>2, NoAccountChanges, TouchedAccount
<1> QED BY <1>1, <1>3, RunEnds

LEMMA OutcomeKinds == ASSUME NEW o \in Outcomes PROVE o.kind \in FailureKind
PROOF
  BY DEF Outcomes, Outcome, FailureKind

LEMMA ReturnRetryableStep ==
  ASSUME IInv, NEW t \in Task, NEW o \in Outcomes, ReturnRetryable(t, o)
  PROVE  AcctStep /\ StoreInv' /\ drawn' = drawn
PROOF
<1> DEFINE a == run[t].acc
           new == ReleaseAfterFailure(acct[a], t, run[t].charge, o.kind)
<1>1. acct' = [acct EXCEPT ![a] = new] /\ UNCHANGED <<res, look, once, drawn>>
      /\ run' = [run EXCEPT ![t] = NoRun]
  BY DEF ReturnRetryable
<1>2. a \in Acct => Keeps(acct[a], new, Drawn(drawn'))
  BY <1>1, Remembered, OutcomeKinds, ReleaseAfterFailureKeeps
<1> HIDE DEF a, new
<1>3. AcctStep
  BY <1>1, <1>2, OneAccount
<1> QED BY <1>1, <1>3, RunEnds

LEMMA ReturnTextOnlyStep ==
  ASSUME IInv, NEW t \in Task, ReturnTextOnly(t) PROVE AcctStep /\ StoreInv' /\ drawn' = drawn
PROOF
<1> DEFINE a == run[t].acc
           new == ReleaseAfterFailure(acct[a], t, run[t].charge, "plain")
<1>1. /\ acct' = [acct EXCEPT ![a] = new] /\ UNCHANGED <<res, look, drawn>>
      /\ run' = [run EXCEPT ![t] = NoRun] /\ once' = [once EXCEPT ![t] = ~@]
  BY DEF ReturnTextOnly
<1>2. a \in Acct => Keeps(acct[a], new, Drawn(drawn'))
  BY <1>1, Remembered, ReleaseAfterFailureKeeps DEF FailureKind
<1> HIDE DEF a, new
<1>3. AcctStep
  BY <1>1, <1>2, OneAccount
<1>4. once' \in [Task -> BOOLEAN]
  BY <1>1 DEF IInv, StoreInv
<1>5. NoRun \in Run /\ NoRun.charge = NoCharge
  BY DEF NoRun, Run
<1>6. run' \in [Task -> Run] /\ \A u \in Task : run'[u].charge \in {run[u].charge, NoCharge}
  BY <1>1, <1>5 DEF IInv, StoreInv
<1>7. StoreInv'
  BY <1>1, <1>4, <1>6 DEF IInv, StoreInv, Known, Drawn
<1> QED BY <1>1, <1>3, <1>7

LEMMA ReturnFatalStep ==
  ASSUME IInv, NEW t \in Task, ReturnFatal(t) PROVE AcctStep /\ StoreInv' /\ drawn' = drawn
PROOF
<1> DEFINE a == run[t].acc
           new == Consume(ClearCurrentTask(acct[a], t), run[t].charge)
<1>1. /\ acct' = [acct EXCEPT ![a] = new] /\ UNCHANGED <<res, look, once, drawn>>
      /\ run' = [run EXCEPT ![t] = NoRun]
  BY DEF ReturnFatal
<1>2. a \in Acct => Keeps(acct[a], new, Drawn(drawn'))
  BY <1>1, Remembered, ReleasedKeeps
<1> HIDE DEF a, new
<1>3. AcctStep
  BY <1>1, <1>2, OneAccount
<1> QED BY <1>1, <1>3, RunEnds

LEMMA CoroutineCanceledStep ==
  ASSUME IInv, NEW t \in Task, CoroutineCanceled(t) PROVE AcctStep /\ StoreInv' /\ drawn' = drawn
PROOF
<1> DEFINE a == run[t].acc
           new == Refund(ClearCurrentTask(acct[a], t), run[t].charge)
<1>1. /\ acct' = [acct EXCEPT ![a] = new] /\ UNCHANGED <<res, look, once, drawn>>
      /\ run' = [run EXCEPT ![t] = NoRun]
  BY DEF CoroutineCanceled
<1>2. a \in Acct => Keeps(acct[a], new, Drawn(drawn'))
  BY <1>1, Remembered, ReleasedKeeps
<1> HIDE DEF a, new
<1>3. AcctStep
  BY <1>1, <1>2, OneAccount
<1> QED BY <1>1, <1>3, RunEnds

LEMMA RaiseStep ==
  ASSUME IInv, NEW t \in Task, NEW infra \in BOOLEAN, NEW final \in BOOLEAN,
         Raise(t, infra, final)
  PROVE  AcctStep /\ StoreInv' /\ drawn' = drawn
PROOF
<1> DEFINE a == run[t].acc
           k == ClearCurrentTask(Old(a), t)
           consume == ~infra /\ (plat = "dola" \/ ~final)
           new == IF infra THEN Refund(k, run[t].charge)
                  ELSE IF consume THEN Consume(k, run[t].charge) ELSE k
<1>1. /\ Touch(a, new) /\ UNCHANGED <<res, look, once, drawn>>
      /\ run' = [run EXCEPT ![t] = NoRun]
  BY DEF Raise
<1>2. a \in Acct => Keeps(acct[a], new, Drawn(drawn'))
  BY <1>1, Remembered, ReleasedKeeps, LeaseKeeps
<1> HIDE DEF a, new
<1>3. AcctStep
  BY <1>1, <1>2, TouchedAccount
<1> QED BY <1>1, <1>3, RunEnds

LEMMA WorkStep ==
  ASSUME IInv, NEW t \in Task, Work(t) PROVE AcctStep /\ StoreInv' /\ drawn <= drawn'
PROOF
<1>1. drawn \in Nat
  BY DEF IInv, StoreInv
<1>2. CASE \E a \in Acct : TakeAccount(t, a)
  BY <1>2, TakeAccountStep
<1>3. CASE ClaimPending(t)
  BY <1>1, <1>3, ClaimPendingStep
<1>4. CASE DropPreference(t) \/ NoAccountFree(t)
  BY <1>1, <1>4, NoAccountFreeStep
<1>5. CASE TurnedAway(t)
  BY <1>1, <1>5, TurnedAwayStep
<1>6. CASE \E conv \in BOOLEAN : Submit(t, conv)
  BY <1>1, <1>6, SubmitStep
<1>7. CASE ReturnSubmitted(t)
  BY <1>1, <1>7, ReturnSubmittedStep
<1>8. CASE ReturnTextOnly(t)
  BY <1>1, <1>8, ReturnTextOnlyStep
<1>9. CASE ReturnFatal(t)
  BY <1>1, <1>9, ReturnFatalStep
<1>10. CASE CoroutineCanceled(t)
  BY <1>1, <1>10, CoroutineCanceledStep
<1>11. CASE \E o \in Outcomes : ReturnRetryable(t, o)
  BY <1>1, <1>11, ReturnRetryableStep
<1>12. CASE \E infra, final \in BOOLEAN : Raise(t, infra, final)
  BY <1>1, <1>12, RaiseStep
<1> QED BY <1>2, <1>3, <1>4, <1>5, <1>6, <1>7, <1>8, <1>9, <1>10, <1>11, <1>12 DEF Work


LEMMA RestartWorkerStep ==
  ASSUME IInv, NEW orderly \in BOOLEAN, NEW first \in [Acct -> Task],
         RestartWorker(orderly, first)
  PROVE  AcctStep /\ StoreInv' /\ drawn' = drawn
PROOF
<1> DEFINE C == Drawn(drawn)
<1>1. UNCHANGED <<res, once, drawn>> /\ run' = [t \in Task |-> NoRun]
      /\ look' = [look EXCEPT !["watch"] = NoLook]
  BY DEF RestartWorker
<1>2. acct \in [Acct -> Account] /\ C \in SUBSET Charge
  BY Remembered DEF IInv, AcctInv
<1>3. ASSUME NEW a \in Acct PROVE acct'[a] \in Account /\ Keeps(acct[a], acct'[a], C)
  <2> DEFINE freed == IF orderly /\ \E t \in Task : acct[a].lease = t /\ run[t].acc = a
                      THEN ClearCurrentTask(acct[a], acct[a].lease) ELSE acct[a]
             t == first[a]
             kept == RestoreCurrentTask(freed, t, res[t].charge)
  <2>1. acct'[a] = freed \/ acct'[a] = kept
    BY DEF RestartWorker
  <2>2. acct[a] \in Account
    BY <1>2
  <2>3. Keeps(acct[a], freed, C)
    BY <2>2, LeaseKeeps, KeepsItself
  <2> HIDE DEF freed
  <2>4. freed \in Account
    BY <2>3 DEF Keeps
  <2>5. t \in Task /\ res[t].charge \in C \cup {NoCharge}
    BY Remembered
  <2> HIDE DEF t, C
  <2>6. Keeps(freed, kept, C)
    BY <1>2, <2>4, <2>5, LeaseKeeps
  <2> HIDE DEF kept
  <2>7. Keeps(acct[a], kept, C)
    BY <2>3, <2>6, KeepsThen
  <2> QED BY <2>1, <2>3, <2>7 DEF Keeps
<1>4. acct' \in [Acct -> Account]
  <2>1. acct' = [a \in Acct |-> acct'[a]]
    BY DEF RestartWorker
  <2> QED BY <1>3, <2>1
<1>5. AcctStep
  BY <1>1, <1>3, <1>4, AllKeep
<1>6. NoRun \in Run /\ NoRun.charge = NoCharge
  BY DEF NoRun, Run
<1>7. NoLook \in Look /\ NoLook.charge = NoCharge
  BY DEF NoLook, Look
<1>8. look' \in [Reader -> Look] /\ \A r \in Reader : look'[r].charge \in {look[r].charge, NoCharge}
  BY <1>1, <1>7 DEF IInv, StoreInv
<1>9. StoreInv'
  BY <1>1, <1>6, <1>8 DEF IInv, StoreInv, Known, Drawn
<1> QED BY <1>1, <1>5, <1>9

LEMMA WatchStep ==
  ASSUME IInv, NEW t \in Task, Watch(t) PROVE AcctStep /\ StoreInv' /\ drawn' = drawn
PROOF
<1>1. CASE GiveUp(t)
  <2> DEFINE a == res[t].acc
             k == IF plat = "dola" THEN Settle(Old(a), res[t].charge)
                  ELSE Refund(Old(a), res[t].charge)
             new == ClearCurrentTask(k, t)
  <2>1. Touch(a, new) /\ UNCHANGED <<run, look, once, drawn>>
    BY <1>1 DEF GiveUp
  <2>2. res' = res \/ res' = [res EXCEPT ![t] = NoRes]
    BY <1>1 DEF GiveUp, RetryOrEnd
  <2>3. a \in Acct => Keeps(acct[a], new, Drawn(drawn'))
    BY <2>1, Remembered, ReleasedKeeps
  <2> HIDE DEF a, new
  <2>4. AcctStep
    BY <2>1, <2>3, TouchedAccount
  <2> QED BY <2>1, <2>2, <2>4, RunEnds
<1>2. CASE ReleaseSlowAccount(t)
  <2> DEFINE a == res[t].acc
             new == ClearCurrentTask(acct[a], t)
  <2>1. acct' = [acct EXCEPT ![a] = new] /\ UNCHANGED <<res, run, look, once, drawn>>
    BY <1>2 DEF ReleaseSlowAccount, storeVars
  <2>2. a \in Acct => Keeps(acct[a], new, Drawn(drawn'))
    BY <2>1, Remembered, LeaseKeeps
  <2> HIDE DEF a, new
  <2>3. AcctStep
    BY <2>1, <2>2, OneAccount
  <2> QED BY <2>1, <2>3, RunEnds
<1>3. CASE StopLateWatch(t)
  <2>1. UNCHANGED acct /\ UNCHANGED <<res, run, look, once, drawn>>
    BY <1>3 DEF StopLateWatch
  <2> QED BY <2>1, NoAccountChanges, RunEnds
<1> QED BY <1>1, <1>2, <1>3 DEF Watch

LEMMA ExpireStep ==
  ASSUME IInv, NEW t \in Task, Expire(t) PROVE AcctStep /\ StoreInv' /\ drawn' = drawn
PROOF
<1> DEFINE a == res[t].acc
           new == ClearCurrentTask(TimedOut(Old(a), res[t].charge), t)
<1>1. Touch(a, new) /\ UNCHANGED <<res, run, look, once, drawn>>
  BY DEF Expire
<1>2. a \in Acct => Keeps(acct[a], new, Drawn(drawn'))
  BY <1>1, Remembered, ReleasedKeeps
<1> HIDE DEF a, new
<1>3. AcctStep
  BY <1>1, <1>2, TouchedAccount
<1> QED BY <1>1, <1>3, RunEnds

LEMMA CancelStep ==
  ASSUME IInv, NEW t \in Task, NEW admin \in BOOLEAN, Cancel(t, admin)
  PROVE  AcctStep /\ StoreInv' /\ drawn' = drawn
PROOF
<1> DEFINE leased == {x \in Acct : acct[x].lease = t}
           a == IF res[t].acc # NoAcct THEN res[t].acc
                ELSE IF leased = {} THEN NoAcct ELSE CHOOSE x \in leased : TRUE
           c == IF res[t].charge # NoCharge THEN res[t].charge ELSE Old(a).charge
           new == Refund(ClearCurrentTask(Old(a), t), c)
<1>1. Touch(a, new) /\ UNCHANGED <<res, run, look, once, drawn>>
  BY DEF Cancel
<1> HIDE DEF leased, a
<1>2. a \in Acct => c \in Drawn(drawn) \cup {NoCharge} /\ acct[a] \in Account /\ Old(a) = acct[a]
  BY Remembered
<1> HIDE DEF c
<1>3. a \in Acct => Keeps(acct[a], new, Drawn(drawn'))
  BY <1>1, <1>2, Remembered, ReleasedKeeps
<1> HIDE DEF new
<1>4. AcctStep
  BY <1>1, <1>3, TouchedAccount
<1> QED BY <1>1, <1>4, RunEnds


\* The answers of the platforms.
VerdictOK(v) ==
  /\ v.mark \in {"", "login", "slider", "tenSecond"}
  /\ v.money \in {"refund", "settle", "consume", "exhaust", "timedOut"}
  /\ v.free \in BOOLEAN /\ v.then \in {"success", "fail", "retry", "proxy", "ambiguous"}
  /\ v.limit \in Nat /\ v.hard \in BOOLEAN /\ v.user \in BOOLEAN
  /\ v.then = "success" => v.mark = "" /\ v.money = "settle"

LEMMA VerdictsOK ==
  ASSUME NEW l \in Look, NEW v \in Verdicts(l) PROVE VerdictOK(v)
PROOF
<1>0. RetryLimit \in Nat
  BY StoreConstants
<1>1. VerdictOK(VideoReady)
  BY <1>0 DEF VerdictOK, VideoReady, Verdict
<1>2. CASE plat = "doubao"
  <2>1. /\ VerdictOK(DoubaoLoginExpired) /\ VerdictOK(DoubaoQuota)
        /\ \A m \in {"", "login", "slider"} : VerdictOK(DoubaoFailed(m))
    BY <1>0 DEF VerdictOK, Verdict, DoubaoLoginExpired, DoubaoQuota, DoubaoFailed
  <2>2. VerdictOK(DoubaoUnconfirmed(l.once))
    BY <1>0 DEF VerdictOK, Verdict, DoubaoUnconfirmed
  <2>3. v \in {VideoReady, DoubaoLoginExpired, DoubaoUnconfirmed(l.once), DoubaoQuota}
                \cup {DoubaoFailed(m) : m \in {"", "login", "slider"}}
    BY <1>2 DEF Verdicts
  <2> QED BY <1>1, <2>1, <2>2, <2>3
<1>3. CASE plat = "qianwen"
  <2>1. VerdictOK(QianwenQuota) /\ VerdictOK(QianwenRejected) /\ VerdictOK(QianwenTextOnly(l.once))
    BY <1>0 DEF VerdictOK, Verdict, QianwenQuota, QianwenRejected, QianwenTextOnly
  <2>2. v \in {VideoReady, QianwenTextOnly(l.once), QianwenQuota, QianwenRejected}
    BY <1>3 DEF Verdicts
  <2> QED BY <1>1, <2>1, <2>2
<1>4. CASE plat \notin {"doubao", "qianwen"}
  <2>1. /\ VerdictOK(DolaNewProxy) /\ VerdictOK(DolaAmbiguous) /\ VerdictOK(DolaTenSeconds)
        /\ VerdictOK(DolaNotRealPerson) /\ VerdictOK(DolaQuota)
    BY <1>0 DEF VerdictOK, Verdict, DolaNewProxy, DolaAmbiguous, DolaTenSeconds, DolaNotRealPerson,
           DolaQuota
  <2>2. VerdictOK(DolaPortrait(l.once))
    BY <1>0 DEF VerdictOK, Verdict, DolaPortrait
  <2>3. VerdictOK(DolaNoImage(TRUE)) /\ VerdictOK(DolaNoImage(FALSE))
    BY <1>0 DEF VerdictOK, Verdict, DolaNoImage
  <2>4. VerdictOK(DolaSameAccount) /\ VerdictOK(DolaPolicy)
    BY <1>0 DEF VerdictOK, Verdict, DolaSameAccount, DolaPolicy
  <2>5. VerdictOK(DolaLogin) /\ VerdictOK(DolaFailed)
    BY <1>0 DEF VerdictOK, Verdict, DolaLogin, DolaFailed
  <2>6. v \in {DolaNewProxy, DolaAmbiguous, VideoReady, DolaTenSeconds, DolaPortrait(l.once),
               DolaNotRealPerson, DolaNoImage(TRUE), DolaNoImage(FALSE), DolaQuota,
               DolaSameAccount, DolaPolicy, DolaLogin, DolaFailed}
    BY <1>4 DEF Verdicts
  <2> QED BY <1>1, <2>1, <2>2, <2>3, <2>4, <2>5, <2>6
<1> QED BY <1>2, <1>3, <1>4

\* Only the text of the result changes, or it is cleared; a query ends.
LEMMA QueryEnds ==
  ASSUME IInv, NEW r \in Reader, NEW t, look' = [look EXCEPT ![r] = NoLook],
         res' \in [Task -> Res],
         \A u \in Task : res'[u].charge \in {res[u].charge, NoCharge},
         once' \in [Task -> BOOLEAN], UNCHANGED <<run, drawn>>
  PROVE  StoreInv'
PROOF
<1>1. NoLook \in Look /\ NoLook.charge = NoCharge
  BY DEF NoLook, Look
<1>2. look' \in [Reader -> Look] /\ \A x \in Reader : look'[x].charge \in {look[x].charge, NoCharge}
  BY <1>1 DEF IInv, StoreInv
<1> QED BY <1>2 DEF IInv, StoreInv, Known, Drawn

LEMMA AnswerStep ==
  ASSUME IInv, NEW r \in Reader, NEW v \in Verdicts(look[r]), Answer(r, v)
  PROVE  AcctStep /\ StoreInv' /\ drawn' = drawn
PROOF
<1> DEFINE t == look[r].task
           a == look[r].acc
           k == Paid(Marked(acct[a], v.mark), look[r].charge, v.money)
           new == IF v.free THEN ClearCurrentTask(k, t) ELSE k
<1>1. /\ acct' = [acct EXCEPT ![a] = new] /\ UNCHANGED <<run, drawn>>
      /\ look' = [look EXCEPT ![r] = NoLook]
      /\ once' = [once EXCEPT ![t] = IF v.flag = "" THEN @ ELSE v.flag = "on"]
      /\ Apply(t, v, look[r].late)
  BY DEF Answer
<1>2. look[r] \in Look
  BY DEF IInv, StoreInv
<1>3. VerdictOK(v)
  BY <1>2, VerdictsOK
<1>4. a \in Acct => Keeps(acct[a], new, Drawn(drawn'))
  <2> DEFINE x == acct[a]
             c == look[r].charge
             C == Drawn(drawn)
             mark == v.mark
             money == v.money
             paid == Paid(Marked(x, mark), c, money)
  <2> SUFFICES ASSUME a \in Acct
               PROVE  Keeps(x, paid, C) /\ Keeps(x, ClearCurrentTask(paid, t), C)
    BY <1>1
  <2>1. x \in Account /\ c \in C \cup {NoCharge} /\ C \in SUBSET Charge
    BY Remembered
  <2>2. /\ mark \in {"", "login", "slider", "tenSecond"}
        /\ money \in {"refund", "settle", "consume", "exhaust", "timedOut"}
    BY <1>3 DEF VerdictOK
  <2> HIDE DEF x, c, C, mark, money, t
  <2> QED BY <2>1, <2>2, AnsweredKeeps
<1>5. once' \in [Task -> BOOLEAN]
  BY <1>1 DEF IInv, StoreInv
<1> HIDE DEF a, new
<1>6. AcctStep
  BY <1>1, <1>4, OneAccount
<1>7. NoRes \in Res /\ NoRes.charge = NoCharge
  BY DEF NoRes, Res
<1>8. \/ res' = res
      \/ res' = [res EXCEPT ![t] = NoRes]
      \/ res' = [res EXCEPT ![t].url = TRUE, ![t].conv = FALSE]
  BY <1>1, <1>3 DEF Apply, RetryOrEnd, VerdictOK
<1> HIDE DEF t
<1>9. /\ res' \in [Task -> Res]
      /\ \A u \in Task : res'[u].charge \in {res[u].charge, NoCharge}
  <2>1. res \in [Task -> Res]
    BY DEF IInv, StoreInv
  <2>2. CASE res' = res
    BY <2>1, <2>2
  <2>3. CASE res' = [res EXCEPT ![t] = NoRes]
    BY <1>7, <2>1, <2>3
  <2>4. CASE res' = [res EXCEPT ![t].url = TRUE, ![t].conv = FALSE]
    <3>1. \A u \in Task : res'[u] = res[u] \/ res'[u] = [res[u] EXCEPT !.url = TRUE, !.conv = FALSE]
      BY <2>1, <2>4
    <3>2. \A e \in Res : /\ [e EXCEPT !.url = TRUE, !.conv = FALSE] \in Res
                         /\ [e EXCEPT !.url = TRUE, !.conv = FALSE].charge = e.charge
      BY DEF Res
    <3>3. \A u \in Task : res'[u] \in Res /\ res'[u].charge = res[u].charge
      BY <2>1, <3>1, <3>2
    <3> QED BY <2>1, <2>4, <3>3
  <2> QED BY <1>8, <2>2, <2>3, <2>4
<1>10. StoreInv'
  BY <1>1, <1>5, <1>9, QueryEnds
<1> QED BY <1>1, <1>6, <1>10

LEMMA QueryStep ==
  ASSUME IInv, NEW r \in Reader, Query(r) PROVE AcctStep /\ StoreInv' /\ drawn' = drawn
PROOF
<1>1. ASSUME NEW t \in Task, ReadForQuery(r, t) PROVE AcctStep /\ StoreInv' /\ drawn' = drawn
  <2>1. /\ UNCHANGED acct /\ UNCHANGED <<res, run, once, drawn>>
        /\ look' = [look EXCEPT ![r] = [task |-> t, acc |-> res[t].acc, charge |-> res[t].charge,
                      late |-> meta[t].status = "failed", conv |-> res[t].conv, once |-> once[t]]]
    BY <1>1 DEF ReadForQuery, storeVars
  <2>2. res[t] \in Res /\ once[t] \in BOOLEAN /\ res[t].charge \in Known
    BY DEF IInv, StoreInv
  <2>3. [task |-> t, acc |-> res[t].acc, charge |-> res[t].charge,
         late |-> meta[t].status = "failed", conv |-> res[t].conv, once |-> once[t]] \in Look
    BY <2>2 DEF Res, Look
  <2>4. look' \in [Reader -> Look] /\ \A x \in Reader : look'[x].charge \in {look[x].charge, res[t].charge}
    BY <2>1, <2>3 DEF IInv, StoreInv
  <2>5. StoreInv'
    BY <2>1, <2>2, <2>4 DEF IInv, StoreInv, Known, Drawn
  <2> QED BY <2>1, <2>5, NoAccountChanges
<1>2. ASSUME NEW found \in BOOLEAN, AskAgain(r, found) PROVE AcctStep /\ StoreInv' /\ drawn' = drawn
  <2>1. /\ UNCHANGED acct /\ UNCHANGED <<run, once, drawn>>
        /\ look' = [look EXCEPT ![r] = NoLook]
        /\ \/ res' = res
           \/ res' = [res EXCEPT ![look[r].task].conv = TRUE]
    BY <1>2 DEF AskAgain
  <2>2. /\ res' \in [Task -> Res]
        /\ \A u \in Task : res'[u].charge = res[u].charge
    <3>1. res \in [Task -> Res]
      BY DEF IInv, StoreInv
    <3>2. CASE res' = res
      BY <3>1, <3>2
    <3>3. CASE res' = [res EXCEPT ![look[r].task].conv = TRUE]
      <4>1. \A u \in Task : res'[u] = res[u] \/ res'[u] = [res[u] EXCEPT !.conv = TRUE]
        BY <3>1, <3>3
      <4>2. \A e \in Res : [e EXCEPT !.conv = TRUE] \in Res /\ [e EXCEPT !.conv = TRUE].charge = e.charge
        BY DEF Res
      <4>3. \A u \in Task : res'[u] \in Res /\ res'[u].charge = res[u].charge
        BY <3>1, <4>1, <4>2
      <4> QED BY <3>1, <3>3, <4>3
    <3> QED BY <2>1, <3>2, <3>3
  <2>3. once' \in [Task -> BOOLEAN]
    BY <2>1 DEF IInv, StoreInv
  <2> QED BY <2>1, <2>2, <2>3, NoAccountChanges, QueryEnds
<1>3. CASE AnswerLost(r)
  <2>1. /\ UNCHANGED acct /\ UNCHANGED <<res, run, once, drawn>>
        /\ look' = [look EXCEPT ![r] = NoLook]
    BY <1>3 DEF AnswerLost, storeVars
  <2>2. res' \in [Task -> Res] /\ once' \in [Task -> BOOLEAN]
    BY <2>1 DEF IInv, StoreInv
  <2> QED BY <2>1, <2>2, NoAccountChanges, QueryEnds
<1> QED BY <1>1, <1>2, <1>3, AnswerStep DEF Query


\* Nothing but accounts and the history changes.
LEMMA StoreStands ==
  ASSUME IInv, UNCHANGED <<res, run, look, once, drawn>> PROVE StoreInv'
PROOF
  BY DEF IInv, StoreInv, Known, Drawn

LEMMA EmptiedHasNoCharges ==
  ASSUME NEW a, NEW k, Empties(a, k) PROVE ChargesIn(k) = {}
PROOF
  BY DEF Empties, ChargesIn

LEMMA AdministerStep ==
  ASSUME IInv, NEW a \in Acct, NEW new, Administer(a, new),
         Keeps(acct[a], new, Drawn(drawn)) \/ Empties(acct[a], new)
  PROVE  AcctStep /\ StoreInv' /\ drawn' = drawn
PROOF
<1>1. /\ acct' = [acct EXCEPT ![a] = new] /\ UNCHANGED <<res, run, look, once, drawn>>
      /\ dropped' = dropped \cup (ChargesIn(acct[a]) \ ChargesIn(new))
  BY DEF Administer, storeVars
<1>2. acct \in [Acct -> Account]
  BY DEF IInv, AcctInv
<1>3. CASE Keeps(acct[a], new, Drawn(drawn))
  BY <1>1, <1>3, OneAccount, StoreStands
<1>4. CASE Empties(acct[a], new)
  <2>1. new \in Account /\ ChargesIn(acct[a]) \subseteq dropped'
    BY <1>1, <1>4, EmptiedHasNoCharges DEF Empties
  <2>2. acct' \in [Acct -> Account] /\ acct'[a] = new
    BY <1>1, <1>2, <2>1
  <2>3. \A x \in Acct \ {a} : Keeps(acct[x], acct'[x], Drawn(drawn'))
    BY <1>1, <1>2, KeepsItself
  <2>4. AcctStep
    BY <1>4, <2>1, <2>2, <2>3 DEF AcctStep
  <2> QED BY <1>1, <2>4, StoreStands
<1> QED BY <1>3, <1>4

LEMMA MergeDuplicateStep ==
  ASSUME IInv, NEW a \in Acct, NEW d \in Acct, MergeDuplicate(a, d)
  PROVE  AcctStep /\ StoreInv' /\ drawn' = drawn
PROOF
<1> DEFINE k == MergeAccounts(acct[a], acct[d])
           n == DeleteAccount(acct[d])
<1>1. /\ acct' = [acct EXCEPT ![a] = k, ![d] = n] /\ UNCHANGED <<res, run, look, once, drawn>>
      /\ dropped' = dropped \cup ChargesIn(acct[d]) /\ a # d
  BY DEF MergeDuplicate, storeVars
<1>2. acct \in [Acct -> Account]
  BY DEF IInv, AcctInv
<1>3. /\ \A c \in Charge : acct[d].ledger["default"].st[c] = "none" \/ c \in Drawn(drawn)
      /\ Drawn(drawn) \in SUBSET Charge
  BY Remembered DEF IInv, AcctInv, Bucket
<1>4. Keeps(acct[a], k, Drawn(drawn))
  BY <1>2, <1>3, MergeAccountsKeeps
<1>5. Empties(acct[d], n)
  <2>1. TRUE \in BOOLEAN
    OBVIOUS
  <2> QED BY <2>1, NewAccountEmpties
<1>6. k \in Account /\ n \in Account
  BY <1>4, <1>5 DEF Keeps, Empties
<1> HIDE DEF k, n
<1>7. /\ acct' \in [Acct -> Account] /\ acct'[a] = k /\ acct'[d] = n
      /\ \A x \in Acct \ {a, d} : acct'[x] = acct[x]
  BY <1>1, <1>2, <1>6
<1>8. \A x \in Acct \ {a, d} : Keeps(acct[x], acct'[x], Drawn(drawn'))
  BY <1>2, <1>7, KeepsItself
<1>9. AcctStep
  BY <1>1, <1>4, <1>5, <1>7, <1>8 DEF AcctStep
<1> QED BY <1>1, <1>9, StoreStands

LEMMA AdminStep ==
  ASSUME IInv, NEW a \in Acct, Admin(a) PROVE AcctStep /\ StoreInv' /\ drawn' = drawn
PROOF
<1> DEFINE x == acct[a]
<1>1. x \in Account /\ Drawn(drawn) \in SUBSET Charge
  BY Remembered
<1>2. NoStudio(x) /\ \A b \in Bucket : LedgerBalanced(x.ledger[b])
  BY DEF IInv, AcctInv, Balanced
<1>3. (plat = "qianwen") \in BOOLEAN /\ (plat = "doubao") \in BOOLEAN
  OBVIOUS
<1>4. CASE AddAccount(a) \/ RemoveAccount(a)
  <2>1. /\ Empties(x, NewAccount(TRUE, Limit, Limit, plat = "qianwen"))
        /\ Empties(x, DeleteAccount(x))
    BY <1>3, NewAccountEmpties
  <2>2. \/ Administer(a, NewAccount(TRUE, Limit, Limit, plat = "qianwen"))
        \/ Administer(a, DeleteAccount(x))
    BY <1>4 DEF AddAccount, RemoveAccount
  <2> HIDE DEF x
  <2> QED BY <2>1, <2>2, AdministerStep DEF x
<1>5. CASE SignInAgain(a)
  <2>1. Keeps(x, UpdateCookies(x), Drawn(drawn)) /\ Administer(a, UpdateCookies(x))
    BY <1>1, <1>5, MarksKeep DEF SignInAgain
  <2> QED BY <2>1, AdministerStep
<1>6. CASE ClearQuota(a)
  <2>1. Empties(x, ResetQuota(x, plat = "qianwen")) /\ Administer(a, ResetQuota(x, plat = "qianwen"))
    BY <1>1, <1>2, <1>6, ResetQuotaEmpties DEF ClearQuota
  <2> QED BY <2>1, AdministerStep
<1>7. CASE UnmarkToday(a)
  <2>1. Keeps(x, ResetMarkedToday(x), Drawn(drawn)) /\ Administer(a, ResetMarkedToday(x))
    BY <1>1, <1>7, ResetMarkedTodayKeeps DEF UnmarkToday
  <2> QED BY <2>1, AdministerStep
<1>8. CASE CoolDownEnds(a)
  <2>1. Keeps(x, [x EXCEPT !.cooling = FALSE], Drawn(drawn)) /\ Administer(a, [x EXCEPT !.cooling = FALSE])
    BY <1>1, <1>8, MarksKeep DEF CoolDownEnds
  <2> QED BY <2>1, AdministerStep
<1>9. CASE RepairCharges(a)
  <2> DEFINE D == {c \in Charge : \E t \in Task : meta[t].status = "success" /\ res[t].acc = a
                                                   /\ res[t].charge = c}
             new == [x EXCEPT !.ledger["default"] = AddMissingCharges(@, D)]
  <2>1. D \subseteq Drawn(drawn)
    <3> SUFFICES ASSUME NEW c \in Charge, NEW t \in Task, res[t].charge = c
                 PROVE  c \in Drawn(drawn)
      OBVIOUS
    <3>1. c \in Drawn(drawn) \cup {NoCharge} /\ c # NoCharge
      BY Remembered, AccountConstants
    <3> QED BY <3>1
  <2>2. Administer(a, new)
    BY <1>9 DEF RepairCharges
  <2> HIDE DEF D
  <2>3. Keeps(x, new, Drawn(drawn))
    BY <1>1, <2>1, RepairKeeps
  <2> QED BY <2>2, <2>3, AdministerStep
<1>10. ASSUME NEW on \in BOOLEAN, SwitchAccount(a, on) PROVE AcctStep /\ StoreInv' /\ drawn' = drawn
  <2>1. Keeps(x, SetEnabled(x, on), Drawn(drawn)) /\ Administer(a, SetEnabled(x, on))
    BY <1>1, <1>10, MarksKeep DEF SwitchAccount
  <2> QED BY <2>1, AdministerStep
<1>11. ASSUME NEW on \in BOOLEAN, CleanUp(a, on) PROVE AcctStep /\ StoreInv' /\ drawn' = drawn
  <2> DEFINE new == CleanUpFlagged(x, plat = "doubao", on)
  <2>1. Administer(a, new)
    BY <1>11 DEF CleanUp
  <2>2. Keeps(x, new, Drawn(drawn)) \/ Empties(x, new)
    BY <1>1, <1>3, CleanUpFlaggedKeeps
  <2> QED BY <2>1, <2>2, AdministerStep
<1>12. ASSUME NEW limit \in {0, Limit}, ChangeLimit(a, limit)
       PROVE  AcctStep /\ StoreInv' /\ drawn' = drawn
  <2> DEFINE new == [x EXCEPT !.ledger["default"] = SetLimit(@, limit)]
  <2>1. Administer(a, new)
    BY <1>12 DEF ChangeLimit
  <2>2. limit \in Nat
    BY UseConstants
  <2>3. Keeps(x, new, Drawn(drawn))
    BY <1>1, <2>2, DefaultLimitKeeps
  <2> QED BY <2>1, <2>3, AdministerStep
<1>13. CASE StartProbe(a)
  <2>1. acct' = [acct EXCEPT ![a] = ClaimForMaintenance(x)] /\ UNCHANGED <<res, run, look, once, drawn>>
    BY <1>13 DEF StartProbe, storeVars
  <2>2. Keeps(x, ClaimForMaintenance(x), Drawn(drawn'))
    BY <1>1, <2>1, LeaseKeeps
  <2> QED BY <2>1, <2>2, OneAccount, StoreStands
<1> QED BY <1>4, <1>5, <1>6, <1>7, <1>8, <1>9, <1>10, <1>11, <1>12, <1>13, MergeDuplicateStep
        DEF Admin

LEMMA DayStep ==
  ASSUME IInv, Midnight \/ ResetDay \/ ListAccounts \/ ClearListed
  PROVE  AcctStep /\ StoreInv' /\ drawn' = drawn
PROOF
<1>1. UNCHANGED <<res, run, look, once, drawn>>
  BY DEF Midnight, ResetDay, ListAccounts, ClearListed, storeVars
<1>2. StoreInv'
  BY <1>1, StoreStands
<1>3. acct \in [Acct -> Account] /\ \A a \in Acct : acct[a] \in Account
  BY DEF IInv, AcctInv
<1>4. CASE Midnight
  <2>1. acct' = [a \in Acct |-> NextDay(acct[a])]
    BY <1>4 DEF Midnight
  <2>2. \A a \in Acct : Keeps(acct[a], acct'[a], Drawn(drawn'))
    BY <1>3, <2>1, NextDayKeeps
  <2>3. acct' \in [Acct -> Account]
    BY <2>1, <2>2 DEF Keeps
  <2> QED BY <1>1, <1>2, <2>2, <2>3, AllKeep
<1>5. CASE ResetDay
  <2>1. /\ acct' = [a \in Acct |-> IF Live(acct[a]) THEN DailyReset(acct[a], plat = "qianwen")
                                   ELSE acct[a]]
        /\ dropped' = dropped \cup UNION {ChargesIn(acct[a]) \ ChargesIn(acct'[a]) : a \in Acct}
    BY <1>5 DEF ResetDay
  <2>2. ASSUME NEW a \in Acct
        PROVE  Keeps(acct[a], acct'[a], Drawn(drawn')) \/ Empties(acct[a], acct'[a])
    <3>1. NoStudio(acct[a]) /\ \A b \in Bucket : LedgerBalanced(acct[a].ledger[b])
      BY DEF IInv, AcctInv, Balanced
    <3>2. acct'[a] = DailyReset(acct[a], plat = "qianwen") \/ acct'[a] = acct[a]
      BY <2>1
    <3> QED BY <1>3, <3>1, <3>2, DailyResetKeeps, KeepsItself
  <2>3. acct' \in [Acct -> Account]
    <3>1. \A a \in Acct : acct'[a] \in Account
      BY <2>2 DEF Keeps, Empties
    <3> QED BY <2>1, <3>1
  <2>4. ASSUME NEW a \in Acct, Empties(acct[a], acct'[a]) PROVE ChargesIn(acct[a]) \subseteq dropped'
    <3>1. ChargesIn(acct'[a]) = {}
      BY <2>4, EmptiedHasNoCharges
    <3> QED BY <2>1, <3>1
  <2>5. AcctStep
    BY <2>2, <2>3, <2>4 DEF AcctStep
  <2> QED BY <1>1, <1>2, <2>5
<1>6. CASE ListAccounts
  BY <1>1, <1>2, <1>6, NoAccountChanges DEF ListAccounts
<1>7. CASE ClearListed
  <2>1. acct' = [a \in Acct |-> IF listed[a] = NoTask \/ NeedsLease(listed[a]) THEN acct[a]
                                ELSE ClearCurrentTask(acct[a], listed[a])]
    BY <1>7 DEF ClearListed
  <2>2. ASSUME NEW a \in Acct PROVE Keeps(acct[a], acct'[a], Drawn(drawn'))
    <3>1. acct'[a] = acct[a] \/ acct'[a] = ClearCurrentTask(acct[a], listed[a])
      BY <2>1
    <3> QED BY <1>3, <3>1, KeepsItself, LeaseKeeps
  <2>3. acct' \in [Acct -> Account]
    <3>1. \A a \in Acct : acct'[a] \in Account
      BY <2>2 DEF Keeps
    <3> QED BY <2>1, <3>1
  <2> QED BY <1>1, <1>2, <2>2, <2>3, AllKeep
<1> QED BY <1>4, <1>5, <1>6, <1>7

LEMMA EndProbeStep ==
  ASSUME IInv, NEW found \in {"valid", "invalid", "credit"}, EndProbe(found)
  PROVE  AcctStep /\ StoreInv' /\ drawn' = drawn
PROOF
<1> DEFINE a == probing
           x == acct[a]
           k == CASE found = "invalid" -> IF plat = "qianwen" THEN DisableForLogin(x) ELSE x
                  [] found = "valid"   -> x
                  [] found = "credit"  -> IF plat = "qianwen" THEN SyncCredit(x, 1, NoCharge)
                                          ELSE UpdateCookies(x)
           new == IF Live(x) THEN ClearCurrentTask(k, Maintenance) ELSE x
<1>1. acct' = [acct EXCEPT ![a] = new] /\ UNCHANGED <<res, run, look, once, drawn>>
  BY DEF EndProbe, storeVars
<1>2. ASSUME a \in Acct PROVE Keeps(x, new, Drawn(drawn'))
  <2>1. x \in Account
    BY <1>2, Remembered
  <2> HIDE DEF x
  <2>2. Keeps(x, k, Drawn(drawn))
    BY <2>1, MarksKeep, KeepsItself, SyncCreditKeeps
  <2> HIDE DEF k
  <2>3. Keeps(k, ClearCurrentTask(k, Maintenance), Drawn(drawn))
    BY <2>2, LeaseKeeps DEF Keeps
  <2>4. Keeps(x, ClearCurrentTask(k, Maintenance), Drawn(drawn)) /\ Keeps(x, x, Drawn(drawn))
    BY <2>1, <2>2, <2>3, KeepsThen, KeepsItself
  <2> QED BY <1>1, <2>4
<1> HIDE DEF a, new
<1>3. AcctStep
  BY <1>1, <1>2, OneAccount DEF x
<1> QED BY <1>1, <1>3, StoreStands

-----------------------------------------------------------------------------
(* The theorems.                                                              *)

LEMMA InitIInv == Init => IInv
PROOF
<1> SUFFICES ASSUME Init PROVE IInv
  OBVIOUS
<1>1. NoRun \in Run /\ NoRun.charge = NoCharge /\ NoRes \in Res /\ NoRes.charge = NoCharge
  BY DEF NoRun, Run, NoRes, Res
<1>2. NoLook \in Look /\ NoLook.charge = NoCharge
  BY DEF NoLook, Look
<1>3. StoreInv
  BY <1>1, <1>2 DEF Init, StoreInv, Known
<1>4. \A qianwen \in BOOLEAN : /\ Empties(NoAccountYet, NewAccount(TRUE, Limit, Limit, qianwen))
                               /\ Empties(NoAccountYet, NoAccountYet)
  BY NewAccountEmpties
<1>5. ASSUME NEW a \in Acct PROVE Empties(NoAccountYet, acct[a])
  <2>1. (plat = "qianwen") \in BOOLEAN
    OBVIOUS
  <2>2. acct[a] \in {NewAccount(TRUE, Limit, Limit, plat = "qianwen"), NoAccountYet}
    BY DEF Init
  <2> QED BY <1>4, <2>1, <2>2
<1>6. NoAccountYet.charge = NoCharge
  BY DEF NoAccountYet
<1>7. acct \in [Acct -> Account]
  <2>1. \A a \in Acct : acct[a] \in Account
    BY <1>5 DEF Empties
  <2>2. acct = [a \in Acct |-> acct[a]]
    BY DEF Init
  <2> QED BY <2>1, <2>2
<1>8. AcctInv
  BY <1>5, <1>6, <1>7 DEF AcctInv, Empties, Balanced, Known, NoStudio, Bucket
<1> QED BY <1>3, <1>8 DEF IInv

\* No step changes the platform.
LEMMA SamePlatform == [Next]_vars => plat' = plat
PROOF
<1>1. ASSUME NEW t \in Task, Work(t) PROVE plat' = plat
  <2>1. CASE ClaimPending(t) \/ DropPreference(t) \/ NoAccountFree(t) \/ TurnedAway(t)
    BY <2>1 DEF ClaimPending, DropPreference, NoAccountFree, TurnedAway
  <2>2. CASE (\E a \in Acct : TakeAccount(t, a)) \/ (\E conv \in BOOLEAN : Submit(t, conv))
    BY <2>2 DEF TakeAccount, Submit
  <2>3. CASE ReturnSubmitted(t) \/ ReturnTextOnly(t) \/ ReturnFatal(t) \/ CoroutineCanceled(t)
    BY <2>3 DEF ReturnSubmitted, ReturnTextOnly, ReturnFatal, CoroutineCanceled
  <2>4. CASE \E o \in Outcomes : ReturnRetryable(t, o)
    BY <2>4 DEF ReturnRetryable
  <2>5. CASE \E infra, final \in BOOLEAN : Raise(t, infra, final)
    BY <2>5 DEF Raise
  <2> QED BY <1>1, <2>1, <2>2, <2>3, <2>4, <2>5 DEF Work
<1>2. ASSUME NEW t \in Task, Watch(t) \/ Expire(t) \/ \E admin \in BOOLEAN : Cancel(t, admin)
      PROVE  plat' = plat
  BY <1>2 DEF Watch, GiveUp, ReleaseSlowAccount, StopLateWatch, Expire, Cancel
<1>3. ASSUME NEW r \in Reader, Query(r) PROVE plat' = plat
  BY <1>3 DEF Query, ReadForQuery, AskAgain, Answer, AnswerLost
<1>4. ASSUME NEW a \in Acct, Admin(a) PROVE plat' = plat
  <2>1. ASSUME NEW new, Administer(a, new) PROVE plat' = plat
    BY <2>1 DEF Administer
  <2>2. CASE AddAccount(a) \/ RemoveAccount(a) \/ SignInAgain(a) \/ ClearQuota(a) \/ UnmarkToday(a)
    BY <2>1, <2>2 DEF AddAccount, RemoveAccount, SignInAgain, ClearQuota, UnmarkToday
  <2>3. CASE CoolDownEnds(a) \/ RepairCharges(a)
    BY <2>1, <2>3 DEF CoolDownEnds, RepairCharges
  <2>4. CASE \E on \in BOOLEAN : SwitchAccount(a, on) \/ CleanUp(a, on)
    BY <2>1, <2>4 DEF SwitchAccount, CleanUp
  <2>5. CASE \E limit \in {0, Limit} : ChangeLimit(a, limit)
    BY <2>1, <2>5 DEF ChangeLimit
  <2>6. CASE (\E d \in Acct : MergeDuplicate(a, d)) \/ StartProbe(a)
    BY <2>6 DEF MergeDuplicate, StartProbe
  <2> QED BY <1>4, <2>2, <2>3, <2>4, <2>5, <2>6 DEF Admin
<1>5. ASSUME NEW orderly \in BOOLEAN, NEW first \in [Acct -> Task], RestartWorker(orderly, first)
      PROVE  plat' = plat
  BY <1>5 DEF RestartWorker
<1>6. ASSUME Midnight \/ ResetDay \/ ListAccounts \/ ClearListed PROVE plat' = plat
  BY <1>6 DEF Midnight, ResetDay, ListAccounts, ClearListed
<1>7. ASSUME NEW found \in {"valid", "invalid", "credit"}, EndProbe(found) PROVE plat' = plat
  BY <1>7 DEF EndProbe
<1>8. ASSUME UNCHANGED vars PROVE plat' = plat
  BY <1>8 DEF vars
<1> QED BY <1>1, <1>2, <1>3, <1>4, <1>5, <1>6, <1>7, <1>8 DEF Next

LEMMA StepIInv == IInv /\ [Next]_vars => IInv' /\ SettledStep
PROOF
<1> SUFFICES ASSUME IInv, [Next]_vars PROVE IInv' /\ SettledStep
  OBVIOUS
<1>1. drawn \in Nat
  BY DEF IInv, StoreInv
<1>2. AcctStep /\ StoreInv' /\ drawn <= drawn'
  <2>1. ASSUME NEW t \in Task, Work(t) PROVE AcctStep /\ StoreInv' /\ drawn <= drawn'
    BY <2>1, WorkStep
  <2>2. ASSUME NEW t \in Task, Watch(t) \/ Expire(t) \/ \E admin \in BOOLEAN : Cancel(t, admin)
        PROVE  AcctStep /\ StoreInv' /\ drawn' = drawn
    BY <2>2, WatchStep, ExpireStep, CancelStep
  <2>3. ASSUME NEW r \in Reader, Query(r) PROVE AcctStep /\ StoreInv' /\ drawn' = drawn
    BY <2>3, QueryStep
  <2>4. ASSUME NEW a \in Acct, Admin(a) PROVE AcctStep /\ StoreInv' /\ drawn' = drawn
    BY <2>4, AdminStep
  <2>5. ASSUME NEW orderly \in BOOLEAN, NEW first \in [Acct -> Task], RestartWorker(orderly, first)
        PROVE  AcctStep /\ StoreInv' /\ drawn' = drawn
    BY <2>5, RestartWorkerStep
  <2>6. CASE Midnight \/ ResetDay \/ ListAccounts \/ ClearListed
    BY <2>6, DayStep, <1>1
  <2>7. ASSUME NEW found \in {"valid", "invalid", "credit"}, EndProbe(found)
        PROVE  AcctStep /\ StoreInv' /\ drawn' = drawn
    BY <2>7, EndProbeStep
  <2>8. CASE UNCHANGED vars
    <3>1. UNCHANGED acct /\ UNCHANGED <<res, run, look, once, drawn>>
      BY <2>8 DEF vars
    <3> QED BY <1>1, <3>1, NoAccountChanges, StoreStands
  <2>9. CASE Next
    BY <1>1, <2>1, <2>2, <2>3, <2>4, <2>5, <2>6, <2>7, <2>9 DEF Next
  <2> QED BY <2>8, <2>9
<1>3. plat' = plat
  BY SamePlatform
<1>4. drawn' \in Nat
  BY <1>2 DEF StoreInv
<1> QED BY <1>2, <1>3, <1>4, AcctStepInv DEF IInv

\* The invariant the others follow from.
THEOREM AccountInvariant == Spec => []IInv
PROOF
  BY InitIInv, StepIInv, PTL DEF Spec

\* quota_used of both ledgers of every account is its base plus the charges that
\* count, for every platform, every number of tasks, accounts, claims, queries and
\* interventions (_reconciled_quota_used).
THEOREM QuotaBalanced == Spec => []Balanced
PROOF
<1>1. IInv => Balanced
  BY DEF IInv, AcctInv
<1> QED BY <1>1, AccountInvariant, PTL

\* Whatever is refunded, exhausted, repaired, merged or answered late, a settled
\* charge stays settled until its ledger is emptied or its account goes
\* (refund_account_quota, exhaust_account_quota).
THEOREM SettledStaysSettled == Spec => SettledFinal
PROOF
<1>1. IInv /\ [Next]_vars => [SettledStep]_vars
  BY StepIInv
<1>2. Spec => [][SettledStep]_vars
  BY <1>1, AccountInvariant, PTL DEF Spec
<1> QED BY <1>2 DEF SettledFinal, SettledStep

-----------------------------------------------------------------------------
(* Tasks, runs and queries.                                                   *)

\* What one step does to a task record: it stays one, what has ended stays ended,
\* only a claim starts a run, and (Waits) only a retry of a query takes a submitted
\* task out of its wait.
Goes(m, k) ==
  /\ k \in Meta
  /\ m.status \in Terminal => k.status \in Terminal
  /\ k.status = "running" => m.status = "running"
Waits(m, k) == Goes(m, k) /\ (m.status = "submitted" => k.status \in {"submitted"} \cup Terminal)

LEMMA RecordsWait ==
  ASSUME NEW m \in Meta
  PROVE  /\ Waits(m, m) /\ Waits(m, DeferTask(m)) /\ Waits(m, MarkPending(m))
         /\ Waits(m, MarkFailed(m)) /\ Waits(m, MarkSubmitted(m))
         /\ Waits(m, MarkSuccess(m)) /\ Waits(m, MarkLateResultSuccess(m))
         /\ Waits(m, EndLateWatch(m)) /\ Waits(m, ResetRunningTask(m))
         /\ Waits(m, RequestTaskCancel(m))
         /\ Waits(m, RecordRetry(m)) /\ Waits(m, RecordInfrastructureRetry(m))
PROOF
<1>1. Waits(m, m)
  BY DEF Waits, Goes, Meta, Status, Terminal, Id
<1>2. Waits(m, DeferTask(m))
  BY DEF Waits, Goes, Meta, Status, Terminal, Id, DeferTask
<1>3. Waits(m, MarkPending(m))
  BY DEF Waits, Goes, Meta, Status, Terminal, Id, MarkPending
<1>4. Waits(m, MarkFailed(m))
  BY DEF Waits, Goes, Meta, Status, Terminal, Id, MarkFailed
<1>5. Waits(m, MarkSubmitted(m))
  BY DEF Waits, Goes, Meta, Status, Terminal, Id, MarkSubmitted
<1>6. Waits(m, MarkSuccess(m))
  BY DEF Waits, Goes, Meta, Status, Terminal, Id, MarkSuccess
<1>7. Waits(m, MarkLateResultSuccess(m))
  BY DEF Waits, Goes, Meta, Status, Terminal, Id, MarkLateResultSuccess
<1>8. Waits(m, EndLateWatch(m))
  BY DEF Waits, Goes, Meta, Status, Terminal, Id, EndLateWatch
<1>9. Waits(m, RequestTaskCancel(m))
  BY DEF Waits, Goes, Meta, Status, Terminal, Id, RequestTaskCancel
<1>10. Waits(m, ResetRunningTask(m))
  <2>1. CASE m.status = "running" /\ m.evidence
    <3> DEFINE k == [m EXCEPT !.status = "submitted", !.worker = NoWorker]
    <3>1. k = ResetRunningTask(m)
      BY <2>1 DEF ResetRunningTask
    <3>2. k \in Meta /\ k.status = "submitted"
      BY DEF Meta, Status, Id
    <3> HIDE DEF k
    <3> QED BY <2>1, <3>1, <3>2 DEF Waits, Goes, Terminal
  <2>2. CASE ~(m.status = "running" /\ m.evidence)
    BY <1>1, <1>3, <2>2 DEF ResetRunningTask
  <2> QED BY <2>1, <2>2
<1>11. m.retries \in Nat /\ m.infra \in Nat
  BY DEF Meta
<1>12. m.retries + 1 \in Nat /\ m.infra + 1 \in Nat
  BY <1>11
<1>13. Waits(m, RecordRetry(m))
  BY <1>12 DEF Waits, Goes, Meta, Status, Terminal, Id, RecordRetry
<1>14. Waits(m, RecordInfrastructureRetry(m))
  BY <1>12 DEF Waits, Goes, Meta, Status, Terminal, Id, RecordInfrastructureRetry
<1> QED BY <1>1, <1>2, <1>3, <1>4, <1>5, <1>6, <1>7, <1>8, <1>9, <1>10, <1>13, <1>14

LEMMA RecordsGo ==
  ASSUME NEW m \in Meta, NEW limit \in Nat
  PROVE  /\ Goes(m, RetrySubmittedTask(m, limit)) /\ Goes(m, RetryAmbiguousProxyTask(m))
         /\ Goes(m, RetryAmbiguousSubmittedTask(m))
         /\ \A sticky \in BOOLEAN : Waits(m, ClearTransientResult(m, sticky))
PROOF
<1>1. m.retries + 1 \in Nat /\ m.infra + 1 \in Nat
  <2>1. m.retries \in Nat /\ m.infra \in Nat
    BY DEF Meta
  <2> QED BY <2>1
<1>2. Goes(m, RetrySubmittedTask(m, limit))
  BY <1>1 DEF Goes, Meta, Status, Terminal, Id, RetrySubmittedTask
<1>3. Goes(m, RetryAmbiguousSubmittedTask(m))
  BY <1>1 DEF Goes, Meta, Status, Terminal, Id, RetryAmbiguousSubmittedTask
<1>4. Goes(m, RetryAmbiguousProxyTask(m))
  BY DEF Goes, Meta, Status, Terminal, Id, RetryAmbiguousProxyTask
<1>5. ASSUME NEW sticky \in BOOLEAN PROVE Waits(m, ClearTransientResult(m, sticky))
  BY DEF Waits, Goes, Meta, Status, Terminal, ClearTransientResult
<1> QED BY <1>2, <1>3, <1>4, <1>5

\* The retries of the worker end the task exactly when they are past their limit.
LEMMA RetryPastLimit ==
  ASSUME NEW m \in Meta, m.status \in {"running"} \cup Terminal
  PROVE  /\ RecordRetry(m).retries > RetryLimit => m.status \in Terminal \/ RecordRetry(m).status \in Terminal
         /\ RecordInfrastructureRetry(m).infra > MaxInfra =>
              m.status \in Terminal \/ RecordInfrastructureRetry(m).status \in Terminal
PROOF
<1>2. CASE m.status = "running"
  <2>1. RecordRetry(m).retries = m.retries + 1 /\ RecordInfrastructureRetry(m).infra = m.infra + 1
    BY <1>2 DEF Meta, RecordRetry, RecordInfrastructureRetry
  <2>2. m.retries + 1 > RetryLimit => RecordRetry(m).status = "failed"
    BY <1>2 DEF Meta, RecordRetry
  <2>3. m.infra + 1 > MaxInfra => RecordInfrastructureRetry(m).status = "failed"
    BY <1>2 DEF Meta, RecordInfrastructureRetry
  <2> QED BY <2>1, <2>2, <2>3 DEF Terminal
<1> QED BY <1>2

Ended(t) == meta[t].status \in Terminal

\* The conjunct of RefundedEnded.
OwnerFits(t) == returned[t] /\ t \notin torn => Ended(t)

\* A run that has not submitted belongs to a running task, or to one that has ended
\* meanwhile.  It has an account and a charge that no query knows, and the task has
\* no result.
RunFits(t) ==
  /\ run[t].stage \in {"claimed", "held"} => meta[t].status = "running" \/ Ended(t)
  /\ run[t].stage = "held" =>
       /\ run[t].acc # NoAcct /\ run[t].charge # NoCharge /\ res[t].acc = NoAcct
       /\ \A r \in Reader : look[r].task = t => look[r].charge # run[t].charge

\* An account of the result comes with a charge.
ResFits(t) == res[t].acc # NoAcct => res[t].charge # NoCharge

\* A query that knows the charge of the result asks about a task that is submitted,
\* or has ended meanwhile.
LooksFit(t) ==
  \A r \in Reader : look[r].task = t =>
    /\ look[r].charge # NoCharge /\ look[r].acc # NoAcct
    /\ look[r].charge = res[t].charge => meta[t].status = "submitted" \/ Ended(t)

UseFits(t) == OwnerFits(t) /\ RunFits(t) /\ ResFits(t) /\ LooksFit(t)

UseInv ==
  /\ meta \in [Task -> Meta] /\ returned \in [Task -> BOOLEAN]
  /\ \A t \in Task : UseFits(t)

\* No query is asked anew, and no task is put right.
LooksStay ==
  /\ \A r \in Reader : look'[r] = look[r] \/ look'[r] = NoLook
  /\ torn \subseteq torn'
Stays(u) == meta'[u] = meta[u] /\ res'[u] = res[u] /\ run'[u] = run[u] /\ returned'[u] = returned[u]

LEMMA StaysFits ==
  ASSUME NEW t \in Task, UseFits(t), LooksStay, Stays(t) PROVE UseFits(t)'
PROOF
<1>1. NoLook.task # t
  BY AccountConstants DEF NoLook
<1>2. ASSUME NEW r \in Reader, look'[r].task = t PROVE look'[r] = look[r]
  BY <1>1, <1>2 DEF LooksStay
<1>3. Ended(t)' <=> Ended(t)
  BY DEF Stays, Ended
<1>4. OwnerFits(t)'
  BY <1>3 DEF UseFits, OwnerFits, Stays, LooksStay
<1>5. RunFits(t)' /\ ResFits(t)'
  BY <1>2, <1>3 DEF UseFits, RunFits, ResFits, Stays
<1>6. LooksFit(t)'
  BY <1>2, <1>3 DEF UseFits, LooksFit, Stays
<1> QED BY <1>4, <1>5, <1>6 DEF UseFits

\* A step about one task.
LEMMA OneTask ==
  ASSUME UseInv, NEW t \in Task, LooksStay, UseFits(t)',
         NEW m \in Meta, NEW b \in BOOLEAN,
         meta' = [meta EXCEPT ![t] = m], returned' = [returned EXCEPT ![t] = b],
         \A u \in Task \ {t} : run'[u] = run[u] /\ res'[u] = res[u]
  PROVE  UseInv'
PROOF
<1>1. meta' \in [Task -> Meta] /\ returned' \in [Task -> BOOLEAN]
  BY DEF UseInv
<1>2. ASSUME NEW u \in Task \ {t} PROVE UseFits(u)'
  <2>1. Stays(u)
    BY DEF UseInv, Stays
  <2> QED BY <2>1, StaysFits DEF UseInv
<1> QED BY <1>1, <1>2 DEF UseInv

\* The run of the task ends, or it is left alone; the result is kept or cleared.
LEMMA RunEndsFits ==
  ASSUME NEW t \in Task, UseFits(t), LooksStay, Goes(meta[t], meta'[t]),
         \/ run'[t] = NoRun
         \/ run'[t] = run[t] /\ (meta[t].status = "running" => meta'[t].status \in {"running"} \cup Terminal),
         \/ res'[t].acc = res[t].acc /\ res'[t].charge = res[t].charge /\ Waits(meta[t], meta'[t])
         \/ res'[t] = NoRes,
         returned'[t] /\ t \notin torn' => returned[t] \/ Ended(t)'
  PROVE  UseFits(t)'
PROOF
<1>1. NoLook.task # t /\ NoRun.stage = "none" /\ NoRes.acc = NoAcct /\ NoRes.charge = NoCharge
  BY AccountConstants DEF NoLook, NoRun, NoRes
<1>2. ASSUME NEW r \in Reader, look'[r].task = t PROVE look'[r] = look[r]
  BY <1>1, <1>2 DEF LooksStay
<1>3. Ended(t) => Ended(t)'
  BY DEF Goes, Ended
<1>4. OwnerFits(t)'
  BY <1>3 DEF UseFits, OwnerFits, LooksStay
<1>5. ResFits(t)' /\ (res[t].acc = NoAcct => res'[t].acc = NoAcct)
  BY <1>1 DEF UseFits, ResFits
<1>6. RunFits(t)'
  <2>1. CASE run'[t] = NoRun
    BY <1>1, <2>1 DEF RunFits
  <2>2. CASE run'[t] = run[t] /\ (meta[t].status = "running" =>
                                    meta'[t].status \in {"running"} \cup Terminal)
    BY <1>2, <1>3, <1>5, <2>2 DEF UseFits, RunFits, Ended
  <2> QED BY <2>1, <2>2
<1>7. LooksFit(t)'
  <2> SUFFICES ASSUME NEW r \in Reader, look'[r].task = t
               PROVE  /\ look'[r].charge # NoCharge /\ look'[r].acc # NoAcct
                      /\ look'[r].charge = res'[t].charge =>
                           meta'[t].status = "submitted" \/ Ended(t)'
    BY DEF LooksFit
  <2>1. look'[r] = look[r] /\ look[r].task = t
    BY <1>2
  <2>2. look[r].charge # NoCharge /\ look[r].acc # NoAcct
    BY <2>1 DEF UseFits, LooksFit
  <2>3. ASSUME look[r].charge = res'[t].charge
        PROVE  meta'[t].status = "submitted" \/ Ended(t)'
    <3>1. res'[t].charge = res[t].charge /\ Waits(meta[t], meta'[t])
      BY <1>1, <2>2, <2>3
    <3>2. meta[t].status = "submitted" \/ Ended(t)
      BY <2>1, <2>3, <3>1 DEF UseFits, LooksFit
    <3> QED BY <1>3, <3>1, <3>2 DEF Waits, Ended
  <2> QED BY <2>1, <2>2, <2>3
<1> QED BY <1>4, <1>5, <1>6, <1>7 DEF UseFits

LEMMA RunEndsUse ==
  ASSUME IInv, UseInv, NEW t \in Task, LooksStay, NEW m, NEW b \in BOOLEAN,
         meta' = [meta EXCEPT ![t] = m], returned' = [returned EXCEPT ![t] = b],
         \/ run' = [run EXCEPT ![t] = NoRun]
         \/ run' = run /\ (meta[t].status = "running" => m.status \in {"running"} \cup Terminal),
         \/ res' = res /\ Waits(meta[t], m)
         \/ res' = [res EXCEPT ![t] = NoRes] /\ Goes(meta[t], m),
         b /\ t \notin torn' => returned[t] \/ m.status \in Terminal
  PROVE  UseInv'
PROOF
<1>1. /\ meta \in [Task -> Meta] /\ returned \in [Task -> BOOLEAN]
      /\ run \in [Task -> Run] /\ res \in [Task -> Res] /\ UseFits(t)
  BY DEF UseInv, IInv, StoreInv
<1>2. Goes(meta[t], m) /\ m \in Meta
  BY DEF Waits, Goes
<1>3. meta'[t] = m /\ returned'[t] = b
  BY <1>1
<1>4. \/ run'[t] = NoRun
      \/ run'[t] = run[t] /\ (meta[t].status = "running" => m.status \in {"running"} \cup Terminal)
  BY <1>1
<1>5. (res'[t] = res[t] /\ Waits(meta[t], m)) \/ res'[t] = NoRes
  BY <1>1
<1>6. \A u \in Task \ {t} : run'[u] = run[u] /\ res'[u] = res[u]
  BY <1>1
<1>7. UseFits(t)'
  BY <1>1, <1>2, <1>3, <1>4, <1>5, RunEndsFits DEF Ended
<1> QED BY <1>2, <1>6, <1>7, OneTask

\* Steps that leave tasks, runs and queries alone.
LEMMA UseStands ==
  ASSUME UseInv, LooksStay, UNCHANGED <<meta, res, run, returned>> PROVE UseInv'
PROOF
<1>1. \A t \in Task : Stays(t)
  BY DEF Stays
<1> QED BY <1>1, StaysFits DEF UseInv

LEMMA SameLooks == ASSUME UNCHANGED look, torn' = torn \/ torn \subseteq torn' PROVE LooksStay
PROOF
  BY DEF LooksStay

\* Helpers of the proofs below: what is known of the task of a step.
LEMMA UseTypes ==
  ASSUME IInv, UseInv, NEW t \in Task
  PROVE  /\ meta \in [Task -> Meta] /\ meta[t] \in Meta
         /\ returned \in [Task -> BOOLEAN] /\ returned[t] \in BOOLEAN
         /\ run \in [Task -> Run] /\ run[t] \in Run
         /\ res \in [Task -> Res] /\ res[t] \in Res
         /\ OwnerFits(t) /\ RunFits(t) /\ ResFits(t) /\ LooksFit(t)
PROOF
  BY DEF IInv, StoreInv, UseInv, UseFits

LEMMA ClaimPendingUse ==
  ASSUME IInv, UseInv, NEW t \in Task, ClaimPending(t) PROVE UseInv'
PROOF
<1> DEFINE m == ClaimTask([meta[t] EXCEPT !.waiting = FALSE], Gone)
<1>1. /\ meta[t].status = "pending" /\ run[t] = NoRun
      /\ meta' = [meta EXCEPT ![t] = m] /\ run' = [run EXCEPT ![t].stage = "claimed"]
      /\ UNCHANGED <<res, returned, look, torn>>
  BY DEF ClaimPending, history
<1>2. m \in Meta /\ m.status = "running"
  BY UseTypes, ZenonT(40) DEF ClaimTask, Meta, Status, Id
<1> HIDE DEF m
<1>3. meta'[t] = m /\ run'[t].stage = "claimed"
  BY <1>1, UseTypes DEF Run
<1>4. LooksStay
  BY <1>1, SameLooks
<1>5. ~Ended(t)
  BY <1>1 DEF Ended, Terminal
<1>6. OwnerFits(t)' /\ ResFits(t)'
  BY <1>1, <1>5, UseTypes DEF OwnerFits, ResFits
<1>7. RunFits(t)'
  BY <1>2, <1>3 DEF RunFits
<1>8. LooksFit(t)'
  BY <1>1, <1>5, UseTypes DEF LooksFit
<1>9. \A u \in Task \ {t} : run'[u] = run[u] /\ res'[u] = res[u]
  BY <1>1, UseTypes
<1>10. returned' = [returned EXCEPT ![t] = returned[t]]
  BY <1>1, UseTypes
<1>11. UseFits(t)'
  BY <1>6, <1>7, <1>8 DEF UseFits
<1> QED BY <1>1, <1>2, <1>4, <1>9, <1>10, <1>11, UseTypes, OneTask

LEMMA TakeAccountUse ==
  ASSUME IInv, UseInv, NEW t \in Task, NEW a \in Acct, TakeAccount(t, a) PROVE UseInv'
PROOF
<1> DEFINE c == <<t, drawn + 1>>
           h == [stage |-> "held", acc |-> a, charge |-> c]
<1>1. /\ meta[t].status = "running" /\ drawn < MaxClaims
      /\ run' = [run EXCEPT ![t] = h] /\ res' = [res EXCEPT ![t] = NoRes]
      /\ UNCHANGED <<meta, returned, look, torn>>
  BY DEF TakeAccount, history
<1>2. c \in Charge /\ c \notin Known
  <2>1. drawn \in Nat /\ MaxClaims \in Nat
    BY UseConstants DEF IInv, StoreInv
  <2>2. c \in Charge
    BY <1>1, <2>1, UseConstants
  <2> QED BY <2>1, <2>2, AccountConstants DEF Known, Drawn
<1>3. c # NoCharge /\ a # NoAcct
  BY <1>2, AccountConstants, UseConstants
<1>4. \A r \in Reader : look[r].charge # c
  BY <1>2 DEF IInv, StoreInv
<1> HIDE DEF c
<1>5. /\ run'[t].stage = "held" /\ run'[t].acc = a /\ run'[t].charge = c
      /\ res'[t].acc = NoAcct /\ res'[t].charge = NoCharge
  BY <1>1, UseTypes DEF NoRes
<1>6. LooksStay
  BY <1>1, SameLooks
<1>7. OwnerFits(t)'
  BY <1>1, UseTypes DEF OwnerFits, Ended
<1>8. RunFits(t)' /\ ResFits(t)'
  BY <1>1, <1>3, <1>4, <1>5 DEF RunFits, ResFits
<1>9. LooksFit(t)'
  BY <1>1, <1>5, UseTypes DEF LooksFit
<1>10. \A u \in Task \ {t} : run'[u] = run[u] /\ res'[u] = res[u]
  BY <1>1, UseTypes
<1>11. meta' = [meta EXCEPT ![t] = meta[t]] /\ returned' = [returned EXCEPT ![t] = returned[t]]
  BY <1>1, UseTypes
<1>12. UseFits(t)'
  BY <1>7, <1>8, <1>9 DEF UseFits
<1> QED BY <1>6, <1>10, <1>11, <1>12, UseTypes, OneTask

LEMMA SubmitUse ==
  ASSUME IInv, UseInv, NEW t \in Task, NEW conv \in BOOLEAN, Submit(t, conv) PROVE UseInv'
PROOF
<1> DEFINE e == [meta[t] EXCEPT !.evidence = TRUE]
           m == IF plat = "qianwen" THEN e ELSE MarkSubmitted(e)
           s == IF conv THEN "sent" ELSE "blind"
           x == [acc |-> run[t].acc, charge |-> run[t].charge, conv |-> conv, url |-> FALSE]
<1>1. /\ run[t].stage = "held" /\ meta[t].status = "running"
      /\ meta' = [meta EXCEPT ![t] = m] /\ res' = [res EXCEPT ![t] = x]
      /\ run' = [run EXCEPT ![t].stage = s]
      /\ UNCHANGED <<returned, look, torn>>
  BY DEF Submit, history
<1>2. s \notin {"claimed", "held"}
  OBVIOUS
<1>3. e \in Meta /\ e.status = "running"
  BY <1>1, UseTypes DEF Meta
<1> HIDE DEF e, s
<1>4. m \in Meta /\ m.status \in {"running", "submitted"}
  BY <1>3, RecordsWait DEF Waits, Goes, MarkSubmitted, Meta
<1> HIDE DEF m
<1>5. /\ meta'[t] = m /\ run'[t].stage = s /\ res'[t].acc = run[t].acc /\ res'[t].charge = run[t].charge
  BY <1>1, UseTypes DEF Run
<1> HIDE DEF x
<1>6. LooksStay
  BY <1>1, SameLooks
<1>7. OwnerFits(t)'
  BY <1>1, UseTypes DEF OwnerFits, Ended, Terminal
<1>8. RunFits(t)' /\ ResFits(t)'
  BY <1>1, <1>2, <1>5, UseTypes DEF RunFits, ResFits
<1>9. LooksFit(t)'
  BY <1>1, <1>5, UseTypes DEF LooksFit, RunFits
<1>10. \A u \in Task \ {t} : run'[u] = run[u] /\ res'[u] = res[u]
  BY <1>1, UseTypes
<1>11. returned' = [returned EXCEPT ![t] = returned[t]]
  BY <1>1, UseTypes
<1>12. UseFits(t)'
  BY <1>7, <1>8, <1>9 DEF UseFits
<1> QED BY <1>1, <1>4, <1>6, <1>10, <1>11, <1>12, UseTypes, OneTask

\* The run ends without a verdict on the money of the owner.
LEMMA RunEndsQuietly ==
  ASSUME IInv, UseInv, NEW t \in Task, LooksStay, NEW m, Waits(meta[t], m),
         meta' = [meta EXCEPT ![t] = m], run' = [run EXCEPT ![t] = NoRun],
         UNCHANGED <<res, returned>>
  PROVE  UseInv'
PROOF
<1>1. returned[t] \in BOOLEAN /\ returned' = [returned EXCEPT ![t] = returned[t]]
  BY UseTypes
<1> QED BY <1>1, RunEndsUse

LEMMA RunQuietUse ==
  ASSUME IInv, UseInv, NEW t \in Task,
         NoAccountFree(t) \/ TurnedAway(t) \/ ReturnSubmitted(t) \/ CoroutineCanceled(t)
  PROVE  UseInv'
PROOF
<1>1. /\ Waits(meta[t], DeferTask(meta[t])) /\ Waits(meta[t], MarkFailed(meta[t]))
      /\ Waits(meta[t], meta[t]) /\ Waits(meta[t], MarkSubmitted(meta[t]))
      /\ Waits(meta[t], MarkPending(meta[t])) /\ meta = [meta EXCEPT ![t] = meta[t]]
  BY UseTypes, RecordsWait
<1>2. CASE NoAccountFree(t)
  <2>1. /\ run' = [run EXCEPT ![t] = NoRun] /\ res' = res /\ UNCHANGED look /\ UNCHANGED torn
        /\ meta[t].status = "running"
    BY <1>2 DEF NoAccountFree, history
  <2>2. LooksStay
    BY <2>1, SameLooks
  <2>3. CASE meta' = [meta EXCEPT ![t] = DeferTask(meta[t])] /\ UNCHANGED returned
    BY <1>1, <2>1, <2>2, <2>3, RunEndsQuietly
  <2>4. CASE /\ meta' = [meta EXCEPT ![t] = MarkFailed(meta[t])]
             /\ returned' = [returned EXCEPT ![t] = TRUE]
    <3>1. MarkFailed(meta[t]).status \in Terminal
      BY <2>1, UseTypes DEF MarkFailed, Meta, Terminal
    <3> QED BY <1>1, <2>1, <2>2, <2>4, <3>1, RunEndsUse
  <2> QED BY <1>2, <2>3, <2>4 DEF NoAccountFree
<1>3. CASE TurnedAway(t)
  <2>1. /\ run' = [run EXCEPT ![t] = NoRun] /\ UNCHANGED <<res, returned>> /\ UNCHANGED look /\ UNCHANGED torn
        /\ meta' = meta \/ meta' = [meta EXCEPT ![t] = DeferTask(meta[t])]
    BY <1>3 DEF TurnedAway, history
  <2>2. LooksStay
    BY <2>1, SameLooks
  <2> QED BY <1>1, <2>1, <2>2, RunEndsQuietly
<1>4. CASE ReturnSubmitted(t)
  <2>1. /\ run' = [run EXCEPT ![t] = NoRun] /\ UNCHANGED <<res, returned>> /\ UNCHANGED look /\ UNCHANGED torn
        /\ meta' = [meta EXCEPT ![t] = MarkSubmitted(meta[t])]
    BY <1>4 DEF ReturnSubmitted, history
  <2>2. LooksStay
    BY <2>1, SameLooks
  <2> QED BY <1>1, <2>1, <2>2, RunEndsQuietly
<1>5. CASE CoroutineCanceled(t)
  <2>1. /\ run' = [run EXCEPT ![t] = NoRun] /\ UNCHANGED <<res, returned>> /\ UNCHANGED look
        /\ torn' = CutOff(t)
        /\ meta' = [meta EXCEPT ![t] = MarkPending(meta[t])]
    BY <1>5 DEF CoroutineCanceled
  <2>2. LooksStay
    BY <2>1, SameLooks DEF CutOff
  <2> QED BY <1>1, <2>1, <2>2, RunEndsQuietly
<1> QED BY <1>2, <1>3, <1>4, <1>5

\* The price goes back with a retry only when the retry ends the task, or after a
\* submission (CutOff).
LEMMA CountedRun ==
  ASSUME IInv, UseInv, NEW t \in Task, NEW infra \in BOOLEAN, CountRetry(t, infra), LooksStay,
         run' = [run EXCEPT ![t] = NoRun], res' = res,
         run[t].stage \in {"claimed", "held"} \/ t \in torn'
  PROVE  UseInv'
PROOF
<1> DEFINE m == IF infra THEN RecordInfrastructureRetry(meta[t]) ELSE RecordRetry(meta[t])
           b == returned[t] \/ IF infra THEN m.infra > MaxInfra ELSE m.retries > RetryLimit
<1>1. meta' = [meta EXCEPT ![t] = m]
  BY DEF CountRetry
<1>2. meta'[t] = m
  BY <1>1, UseTypes
<1>3. returned' = [returned EXCEPT ![t] = b]
  BY <1>2, UseTypes DEF CountRetry
<1>4. b \in BOOLEAN
  BY UseTypes
<1>5. Waits(meta[t], m)
  BY UseTypes, RecordsWait
<1>6. ASSUME b, ~returned[t], run[t].stage \in {"claimed", "held"} PROVE m.status \in Terminal
  <2>1. meta[t].status \in {"running"} \cup Terminal
    BY <1>6, UseTypes DEF RunFits, Ended
  <2>2. meta[t].status \in Terminal => m.status \in Terminal
    BY <1>5 DEF Waits, Goes
  <2>3. meta[t] \in Meta
    BY UseTypes
  <2> QED BY <1>6, <2>1, <2>2, <2>3, RetryPastLimit
<1> HIDE DEF m, b
<1>7. b /\ t \notin torn' => returned[t] \/ m.status \in Terminal
  BY <1>6
<1> QED BY <1>1, <1>3, <1>4, <1>5, <1>7, RunEndsUse

LEMMA RunFailsUse ==
  ASSUME IInv, UseInv, NEW t \in Task,
         \/ \E o \in Outcomes : ReturnRetryable(t, o)
         \/ ReturnTextOnly(t) \/ ReturnFatal(t)
         \/ \E infra, final \in BOOLEAN : Raise(t, infra, final)
  PROVE  UseInv'
PROOF
<1>1. ASSUME NEW o \in Outcomes, ReturnRetryable(t, o) PROVE UseInv'
  <2>1. /\ run' = [run EXCEPT ![t] = NoRun] /\ res' = res /\ UNCHANGED look /\ UNCHANGED torn
        /\ run[t].stage = "held"
        /\ IF o.defer THEN meta' = [meta EXCEPT ![t] = DeferTask(meta[t])] /\ UNCHANGED returned
           ELSE CountRetry(t, o.kind = "infra")
    BY <1>1 DEF ReturnRetryable
  <2>2. LooksStay
    BY <2>1, SameLooks
  <2>3. CASE o.defer
    <3>1. Waits(meta[t], DeferTask(meta[t]))
      BY UseTypes, RecordsWait
    <3> QED BY <2>1, <2>2, <2>3, <3>1, RunEndsQuietly
  <2>4. CASE ~o.defer
    <3>1. (o.kind = "infra") \in BOOLEAN
      OBVIOUS
    <3> QED BY <2>1, <2>2, <2>4, <3>1, CountedRun
  <2> QED BY <2>3, <2>4
<1>2. CASE ReturnTextOnly(t)
  <2>1. /\ run' = [run EXCEPT ![t] = NoRun] /\ res' = res /\ UNCHANGED look /\ UNCHANGED torn
        /\ run[t].stage = "held" /\ CountRetry(t, FALSE)
    BY <1>2 DEF ReturnTextOnly, history
  <2>2. LooksStay
    BY <2>1, SameLooks
  <2> QED BY <2>1, <2>2, CountedRun
<1>3. CASE ReturnFatal(t)
  <2>1. /\ run' = [run EXCEPT ![t] = NoRun] /\ res' = res /\ UNCHANGED look /\ UNCHANGED torn
        /\ run[t].stage = "held" /\ meta' = [meta EXCEPT ![t] = MarkFailed(meta[t])]
        /\ returned' = [returned EXCEPT ![t] = TRUE]
    BY <1>3 DEF ReturnFatal, history
  <2>2. LooksStay
    BY <2>1, SameLooks
  <2>3. Waits(meta[t], MarkFailed(meta[t]))
    BY UseTypes, RecordsWait
  <2>4. MarkFailed(meta[t]).status \in Terminal
    <3>1. meta[t].status \in {"running"} \cup Terminal
      BY <2>1, UseTypes DEF RunFits, Ended
    <3> QED BY <3>1, UseTypes DEF MarkFailed, Meta, Terminal
  <2> QED BY <2>1, <2>2, <2>3, <2>4, RunEndsUse
<1>4. ASSUME NEW infra \in BOOLEAN, NEW final \in BOOLEAN, Raise(t, infra, final) PROVE UseInv'
  <2>1. /\ run' = [run EXCEPT ![t] = NoRun] /\ res' = res /\ UNCHANGED look
        /\ run[t].stage \in {"claimed", "held", "sent", "blind"} /\ CountRetry(t, infra)
        /\ torn' = CutOff(t)
    BY <1>4 DEF Raise
  <2>2. LooksStay
    BY <2>1, SameLooks DEF CutOff
  <2>3. run[t].stage \in {"claimed", "held"} \/ t \in torn'
    BY <2>1 DEF CutOff
  <2> QED BY <2>1, <2>2, <2>3, CountedRun
<1> QED BY <1>1, <1>2, <1>3, <1>4

LEMMA WorkUse == ASSUME IInv, UseInv, NEW t \in Task, Work(t) PROVE UseInv'
PROOF
<1>1. CASE DropPreference(t)
  <2>1. UNCHANGED <<meta, res, run, returned>> /\ UNCHANGED look /\ UNCHANGED torn
    BY <1>1 DEF DropPreference, history
  <2> QED BY <2>1, SameLooks, UseStands
<1> QED BY <1>1, ClaimPendingUse, TakeAccountUse, SubmitUse, RunQuietUse, RunFailsUse DEF Work

LEMMA RestartWorkerUse ==
  ASSUME IInv, UseInv, NEW orderly \in BOOLEAN, NEW first \in [Acct -> Task],
         RestartWorker(orderly, first)
  PROVE  UseInv'
PROOF
<1>1. /\ meta' = [t \in Task |-> ResetRunningTask(meta[t])] /\ run' = [t \in Task |-> NoRun]
      /\ look' = [look EXCEPT !["watch"] = NoLook] /\ UNCHANGED <<res, returned, torn>>
  BY DEF RestartWorker, history
<1>2. LooksStay
  BY <1>1 DEF LooksStay, IInv, StoreInv
<1>3. \A t \in Task : Waits(meta[t], ResetRunningTask(meta[t]))
  BY UseTypes, RecordsWait
<1>4. ASSUME NEW t \in Task PROVE UseFits(t)'
  <2>1. meta'[t] = ResetRunningTask(meta[t]) /\ run'[t] = NoRun
    BY <1>1
  <2>2. Waits(meta[t], meta'[t]) /\ Goes(meta[t], meta'[t])
    BY <1>3, <2>1 DEF Waits
  <2>3. UseFits(t)
    BY DEF UseInv
  <2> QED BY <1>1, <1>2, <2>1, <2>2, <2>3, RunEndsFits
<1>5. meta' \in [Task -> Meta]
  BY <1>1, <1>3 DEF Waits, Goes
<1> QED BY <1>1, <1>4, <1>5 DEF UseInv

LEMMA RetrySubmittedEnds ==
  ASSUME NEW m \in Meta, NEW limit \in Nat, m.status = "submitted", ~(m.retries + 1 <= limit)
  PROVE  RetrySubmittedTask(m, limit).status = "failed"
PROOF
<1>1. m.retries \in Nat
  BY DEF Meta
<1>2. m.retries + 1 > limit
  BY <1>1
<1> QED BY <1>2 DEF RetrySubmittedTask, Meta


LEMMA GiveUpUse == ASSUME IInv, UseInv, NEW t \in Task, GiveUp(t) PROVE UseInv'
PROOF
<1> DEFINE k == IF plat = "qianwen" THEN RetrySubmittedTask(meta[t], RetryLimit) ELSE meta[t]
           n == GiveUpWaiting(k)
<1>1. /\ meta[t].status = "submitted" /\ UNCHANGED look /\ UNCHANGED torn /\ UNCHANGED run
      /\ IF plat = "qianwen" /\ meta[t].retries < RetryLimit
           THEN RetryOrEnd(t, Verdict)
           ELSE /\ meta' = [meta EXCEPT ![t] = n]
                /\ returned' = [returned EXCEPT ![t] = TRUE]
                /\ UNCHANGED res
  BY DEF GiveUp, history
<1>2. LooksStay
  BY <1>1, SameLooks
<1>3. meta[t] \in Meta /\ RetryLimit \in Nat /\ meta[t].retries \in Nat
  BY UseTypes, StoreConstants DEF Meta
<1>4. CASE plat = "qianwen" /\ meta[t].retries < RetryLimit
  <2> DEFINE m == ClearTransientResult(RetrySubmittedTask(meta[t], RetryLimit), TRUE)
  <2>1. meta[t].retries + 1 <= RetryLimit
    BY <1>3, <1>4
  <2>2. /\ meta' = [meta EXCEPT ![t] = m] /\ res' = [res EXCEPT ![t] = NoRes]
        /\ returned' = [returned EXCEPT ![t] = @ \/ FALSE]
    BY <1>1, <1>4, <2>1 DEF RetryOrEnd, Verdict
  <2>3. returned' = [returned EXCEPT ![t] = returned[t]]
    BY <2>2, UseTypes
  <2>4. Goes(meta[t], m)
    BY <1>3, RecordsGo DEF ClearTransientResult
  <2> HIDE DEF m
  <2> QED BY <1>1, <1>2, <2>2, <2>3, <2>4, UseTypes, RunEndsUse
<1>5. CASE ~(plat = "qianwen" /\ meta[t].retries < RetryLimit)
  <2>1. k \in Meta /\ k.status \in {"submitted", "failed"}
    <3>1. ~(meta[t].retries + 1 <= RetryLimit) \/ plat # "qianwen"
      BY <1>3, <1>5
    <3>2. CASE plat = "qianwen"
      BY <1>1, <1>3, <3>1, <3>2, RetrySubmittedEnds, RecordsGo DEF Goes
    <3> QED BY <1>1, <1>3, <3>2
  <2> HIDE DEF k
  <2>2. n \in Meta /\ n.status = "failed"
    BY <2>1 DEF GiveUpWaiting, MarkFailed, Meta, Id, Status
  <2> HIDE DEF n
  <2>3. Waits(meta[t], n)
    BY <1>1, <2>2 DEF Waits, Goes, Terminal
  <2> QED BY <1>1, <1>2, <1>5, <2>2, <2>3, RunEndsUse DEF Terminal
<1> QED BY <1>4, <1>5

LEMMA WatchUse == ASSUME IInv, UseInv, NEW t \in Task, Watch(t) PROVE UseInv'
PROOF
<1>1. CASE ReleaseSlowAccount(t)
  <2>1. UNCHANGED <<meta, res, run, returned>> /\ UNCHANGED look /\ UNCHANGED torn
    BY <1>1 DEF ReleaseSlowAccount, storeVars, history
  <2> QED BY <2>1, SameLooks, UseStands
<1>2. CASE StopLateWatch(t)
  <2>1. /\ meta' = [meta EXCEPT ![t] = EndLateWatch(meta[t])]
        /\ UNCHANGED <<res, run, returned>> /\ UNCHANGED look /\ UNCHANGED torn
    BY <1>2 DEF StopLateWatch, history
  <2>2. LooksStay
    BY <2>1, SameLooks
  <2>3. Waits(meta[t], EndLateWatch(meta[t])) /\ EndLateWatch(meta[t]).status = meta[t].status
    BY UseTypes, RecordsWait DEF EndLateWatch, Meta
  <2>4. returned[t] \in BOOLEAN /\ returned' = [returned EXCEPT ![t] = returned[t]]
    BY <2>1, UseTypes
  <2> QED BY <2>1, <2>2, <2>3, <2>4, RunEndsUse
<1> QED BY <1>1, <1>2, GiveUpUse DEF Watch

LEMMA EndsFromOutside ==
  ASSUME IInv, UseInv, NEW t \in Task, Expire(t) \/ \E admin \in BOOLEAN : Cancel(t, admin)
  PROVE  UseInv'
PROOF
<1>1. /\ \/ /\ meta' = [meta EXCEPT ![t] = MarkFailed(meta[t])]
            /\ meta[t].status \in {"pending", "running", "submitted"}
         \/ meta' = [meta EXCEPT ![t] = RequestTaskCancel(meta[t])]
      /\ returned' = [returned EXCEPT ![t] = TRUE]
      /\ UNCHANGED <<res, run>> /\ UNCHANGED look /\ UNCHANGED torn
  BY DEF Expire, Cancel, history
<1>2. LooksStay
  BY <1>1, SameLooks
<1>3. Waits(meta[t], MarkFailed(meta[t])) /\ Waits(meta[t], RequestTaskCancel(meta[t]))
  BY UseTypes, RecordsWait
<1>4. CASE /\ meta' = [meta EXCEPT ![t] = MarkFailed(meta[t])]
           /\ meta[t].status \in {"pending", "running", "submitted"}
  <2>1. MarkFailed(meta[t]).status = "failed"
    BY <1>4, UseTypes DEF MarkFailed, Meta
  <2> QED BY <1>1, <1>2, <1>3, <1>4, <2>1, RunEndsUse DEF Terminal
<1>5. CASE meta' = [meta EXCEPT ![t] = RequestTaskCancel(meta[t])]
  <2>1. RequestTaskCancel(meta[t]).status = "canceled"
    BY UseTypes DEF RequestTaskCancel, Meta
  <2> QED BY <1>1, <1>2, <1>3, <1>5, <2>1, RunEndsUse DEF Terminal
<1> QED BY <1>1, <1>4, <1>5

\* An answer about the attempt of the result finds the task submitted or ended; one
\* about another attempt puts the task into torn.
LEMMA AnswerUse ==
  ASSUME IInv, UseInv, NEW r \in Reader, NEW v \in Verdicts(look[r]), Answer(r, v),
         NEW t, t = look[r].task
  PROVE  UseInv'
PROOF
<1> DEFINE l == look[r]
<1>1. /\ t # NoTask /\ look' = [look EXCEPT ![r] = NoLook]
      /\ Apply(t, v, l.late) /\ UNCHANGED run
      /\ torn' = IF res[t].charge # l.charge THEN torn \cup {t} ELSE torn
  BY DEF Answer
<1>2. l \in Look /\ t \in Task
  BY <1>1 DEF IInv, StoreInv, Look
<1>3. VerdictOK(v)
  BY <1>2, VerdictsOK
<1>4. LooksStay
  BY <1>1 DEF LooksStay, IInv, StoreInv
<1>5. t \in torn' \/ meta[t].status \in {"submitted"} \cup Terminal
  BY <1>1, <1>2, UseTypes DEF LooksFit, Ended
<1> HIDE DEF l
<1>6. meta[t] \in Meta /\ v.limit \in Nat
  BY <1>2, <1>3, UseTypes DEF VerdictOK
<1> DEFINE retried == RetrySubmittedTask(meta[t], v.limit)
           count == IF meta[t].status = "submitted" THEN meta[t].retries + 1 ELSE meta[t].retries
<1>7. CASE v.then = "success"
  <2> DEFINE m == IF l.late THEN MarkLateResultSuccess(meta[t]) ELSE MarkSuccess(meta[t])
  <2>1. /\ meta' = [meta EXCEPT ![t] = m] /\ UNCHANGED returned
        /\ res' = [res EXCEPT ![t].url = TRUE, ![t].conv = FALSE]
    BY <1>1, <1>7 DEF Apply
  <2>0. meta' = [meta EXCEPT ![t] = m] /\ returned' = returned
    BY <2>1, Zenon
  <2>2. Waits(meta[t], m)
    BY <1>6, RecordsWait
  <2>3. meta[t].status = "running" => m.status \in {"running"} \cup Terminal
    BY <1>6 DEF MarkSuccess, MarkLateResultSuccess, Meta, Terminal
  <2> HIDE DEF m
  <2>4. m \in Meta /\ Goes(meta[t], m)
    BY <2>2 DEF Waits, Goes
  <2>5. meta'[t] = m /\ res'[t].acc = res[t].acc /\ res'[t].charge = res[t].charge
    BY <1>2, <2>1, UseTypes DEF Res
  <2>6. \A u \in Task \ {t} : run'[u] = run[u] /\ res'[u] = res[u]
    BY <1>1, <1>2, <2>1, UseTypes
  <2>7. UseFits(t)'
    <3>1. UseFits(t)
      BY <1>2 DEF UseInv
    <3>2. /\ run'[t] = run[t] /\ returned'[t] = returned[t]
          /\ Waits(meta[t], meta'[t]) /\ Goes(meta[t], meta'[t])
          /\ meta[t].status = "running" => meta'[t].status \in {"running"} \cup Terminal
      BY <1>1, <2>0, <2>2, <2>3, <2>4, <2>5
    <3> QED BY <1>2, <1>4, <2>5, <3>1, <3>2, RunEndsFits
  <2>8. returned' = [returned EXCEPT ![t] = returned[t]] /\ returned[t] \in BOOLEAN
    BY <1>2, <2>1, UseTypes
  <2> QED BY <1>2, <1>4, <2>0, <2>4, <2>6, <2>7, <2>8, OneTask
<1>8. CASE v.then = "fail"
  <2> DEFINE m == MarkFailed(meta[t])
             b == returned[t] \/ v.user
  <2>1. meta' = [meta EXCEPT ![t] = m] /\ returned' = [returned EXCEPT ![t] = @ \/ v.user] /\ UNCHANGED res
    BY <1>1, <1>8 DEF Apply
  <2>2. returned' = [returned EXCEPT ![t] = b] /\ b \in BOOLEAN
    BY <1>2, <1>3, <2>1, UseTypes DEF VerdictOK
  <2>3. Waits(meta[t], m)
    BY <1>6, RecordsWait
  <2>4. /\ meta[t].status = "running" => m.status \in {"running"} \cup Terminal
        /\ meta[t].status \in {"submitted"} \cup Terminal => m.status \in Terminal
    BY <1>6 DEF MarkFailed, Meta, Terminal
  <2> HIDE DEF m, b
  <2> QED BY <1>1, <1>2, <1>4, <1>5, <2>1, <2>2, <2>3, <2>4, RunEndsUse
<1>9. CASE v.then = "retry"
  <2> DEFINE again == count <= v.limit
             m == IF again THEN ClearTransientResult(retried, plat # "dola")
                  ELSE IF v.hard THEN MarkFailed(retried) ELSE retried
             b == returned[t] \/ ~again
  <2>1. /\ meta' = [meta EXCEPT ![t] = m] /\ returned' = [returned EXCEPT ![t] = @ \/ ~again]
        /\ res' = IF again THEN [res EXCEPT ![t] = NoRes] ELSE res
    BY <1>1, <1>9 DEF Apply, RetryOrEnd
  <2>2. returned' = [returned EXCEPT ![t] = b] /\ b \in BOOLEAN
    BY <1>2, <2>1, UseTypes
  <2>3. Goes(meta[t], retried) /\ (meta[t].status # "submitted" => retried = meta[t])
    BY <1>6, RecordsGo DEF RetrySubmittedTask
  <2>4. meta[t].status = "submitted" /\ ~again => retried.status = "failed"
    BY <1>6, RetrySubmittedEnds
  <2> HIDE DEF retried, again
  <2>5. Goes(meta[t], m) /\ (~again => Waits(meta[t], m))
    <3>1. retried \in Meta
      BY <2>3 DEF Goes
    <3>2. /\ Waits(retried, ClearTransientResult(retried, plat # "dola"))
          /\ Waits(retried, MarkFailed(retried)) /\ Waits(retried, retried)
      BY <1>6, <3>1, RecordsGo, RecordsWait
    <3>3. Waits(retried, m)
      BY <3>2
    <3> HIDE DEF m
    <3>4. Goes(meta[t], m)
      BY <2>3, <3>3 DEF Goes, Waits
    <3>5. ~again => Waits(meta[t], m)
      BY <2>3, <2>4, <3>3, <3>4 DEF Goes, Waits, Terminal
    <3> QED BY <3>4, <3>5
  <2>6. meta[t].status = "running" => m.status \in {"running"} \cup Terminal
    BY <1>6, <2>3 DEF ClearTransientResult, MarkFailed, Meta, Terminal
  <2>7. meta[t].status \in {"submitted"} \cup Terminal /\ ~again => m.status \in Terminal
    BY <2>4, <2>5 DEF Goes, Waits, Terminal, MarkFailed
  <2> HIDE DEF m
  <2>8. b /\ t \notin torn' => returned[t] \/ m.status \in Terminal
    BY <1>5, <2>7
  <2> HIDE DEF b
  <2> QED BY <1>1, <1>2, <1>4, <2>1, <2>2, <2>5, <2>6, <2>8, RunEndsUse
<1>10. CASE v.then = "proxy"
  <2> DEFINE k == RetryAmbiguousProxyTask(meta[t])
             m == ClearTransientResult(k, FALSE)
  <2>1. meta' = [meta EXCEPT ![t] = m] /\ res' = [res EXCEPT ![t] = NoRes] /\ UNCHANGED returned
    BY <1>1, <1>10 DEF Apply
  <2>2. Goes(meta[t], k) /\ (meta[t].status = "running" => k.status = "running")
    BY <1>6, RecordsGo DEF RetryAmbiguousProxyTask
  <2> HIDE DEF k
  <2>3. Waits(k, m) /\ m.status = k.status
    BY <1>6, <2>2, RecordsGo DEF Goes, ClearTransientResult, Meta
  <2> HIDE DEF m
  <2>4. Goes(meta[t], m)
    BY <2>2, <2>3 DEF Goes, Waits
  <2>5. returned' = [returned EXCEPT ![t] = returned[t]] /\ returned[t] \in BOOLEAN
    BY <1>2, <2>1, UseTypes
  <2> QED BY <1>1, <1>2, <1>4, <2>1, <2>2, <2>3, <2>4, <2>5, RunEndsUse
<1>11. CASE v.then = "ambiguous"
  <2> DEFINE next == RetryAmbiguousSubmittedTask(meta[t])
             again == next.infra <= RetryLimit
             m == IF again THEN ClearTransientResult(next, FALSE) ELSE next
             b == returned[t] \/ ~again
  <2>1. /\ meta' = [meta EXCEPT ![t] = m] /\ returned' = [returned EXCEPT ![t] = @ \/ ~again]
        /\ res' = IF again THEN [res EXCEPT ![t] = NoRes] ELSE res
    BY <1>1, <1>11 DEF Apply
  <2>2. returned' = [returned EXCEPT ![t] = b] /\ b \in BOOLEAN
    BY <1>2, <2>1, UseTypes
  <2>3. Goes(meta[t], next) /\ (meta[t].status # "submitted" => next = meta[t])
    BY <1>6, RecordsGo DEF RetryAmbiguousSubmittedTask
  <2>4. meta[t].status = "submitted" /\ ~again => next.status = "failed"
    <3>1. ASSUME meta[t].status = "submitted", next.status # "failed" PROVE again
      <4>1. meta[t].infra \in Nat /\ RetryLimit \in Nat
        BY <1>6, StoreConstants DEF Meta
      <4>2. ~(meta[t].infra + 1 > RetryLimit) /\ next.infra = meta[t].infra + 1
        BY <1>6, <3>1 DEF RetryAmbiguousSubmittedTask, Meta
      <4> HIDE DEF next
      <4> QED BY <4>1, <4>2
    <3> QED BY <3>1
  <2> HIDE DEF next, again
  <2>5. Goes(meta[t], m) /\ (~again => Waits(meta[t], m)) /\ m.status = next.status
    <3>1. next \in Meta
      BY <2>3 DEF Goes
    <3>2. Waits(next, m) /\ m.status = next.status
      BY <1>6, <3>1, RecordsGo, RecordsWait DEF ClearTransientResult, Meta
    <3> HIDE DEF m
    <3>4. Goes(meta[t], m)
      BY <2>3, <3>2 DEF Goes, Waits
    <3>5. ~again => Waits(meta[t], m)
      BY <2>3, <2>4, <3>2, <3>4 DEF Goes, Waits, Terminal
    <3> QED BY <3>2, <3>4, <3>5
  <2> HIDE DEF m
  <2>6. meta[t].status = "running" => m.status \in {"running"} \cup Terminal
    BY <2>3, <2>5
  <2>7. meta[t].status \in {"submitted"} \cup Terminal /\ ~again => m.status \in Terminal
    BY <2>3, <2>4, <2>5 DEF Terminal
  <2>8. b /\ t \notin torn' => returned[t] \/ m.status \in Terminal
    BY <1>5, <2>7
  <2> HIDE DEF b
  <2> QED BY <1>1, <1>2, <1>4, <2>1, <2>2, <2>5, <2>6, <2>8, RunEndsUse
<1> QED BY <1>3, <1>7, <1>8, <1>9, <1>10, <1>11 DEF VerdictOK

LEMMA QueryUse == ASSUME IInv, UseInv, NEW r \in Reader, Query(r) PROVE UseInv'
PROOF
<1>1. ASSUME NEW t \in Task, ReadForQuery(r, t) PROVE UseInv'
  <2> DEFINE e == [task |-> t, acc |-> res[t].acc, charge |-> res[t].charge,
                   late |-> meta[t].status = "failed", conv |-> res[t].conv, once |-> once[t]]
  <2>1. /\ meta[t].status \in {"submitted", "failed"} /\ res[t].acc # NoAcct
        /\ look' = [look EXCEPT ![r] = e]
        /\ UNCHANGED <<meta, res, returned, run>> /\ UNCHANGED torn
    BY <1>1 DEF ReadForQuery, storeVars, history
  <2>2. /\ look'[r].task = t /\ look'[r].charge = res[t].charge /\ look'[r].acc = res[t].acc
        /\ \A x \in Reader \ {r} : look'[x] = look[x]
    BY <2>1 DEF IInv, StoreInv
  <2> HIDE DEF e
  <2>3. OwnerFits(t)' /\ ResFits(t)'
    BY <2>1, UseTypes DEF OwnerFits, ResFits, Ended
  <2>4. run[t].stage # "held"
    BY <2>1, UseTypes DEF RunFits
  <2>5. RunFits(t)'
    BY <2>1, <2>4, UseTypes DEF RunFits, Ended
  <2>6. LooksFit(t)'
    <3> SUFFICES ASSUME NEW x \in Reader, look'[x].task = t
                 PROVE  /\ look'[x].charge # NoCharge /\ look'[x].acc # NoAcct
                        /\ look'[x].charge = res'[t].charge =>
                             meta'[t].status = "submitted" \/ Ended(t)'
      BY DEF LooksFit
    <3>1. CASE x = r
      BY <2>1, <2>2, <3>1, UseTypes DEF ResFits, Ended, Terminal
    <3>2. CASE x # r
      BY <2>1, <2>2, <3>2, UseTypes DEF LooksFit, Ended
    <3> QED BY <3>1, <3>2
  <2>7. ASSUME NEW u \in Task \ {t} PROVE UseFits(u)'
    <3>1. \A x \in Reader : look'[x].task = u => look'[x] = look[x]
      BY <2>2
    <3>2. OwnerFits(u)' /\ RunFits(u)' /\ ResFits(u)'
      BY <2>1, <3>1, UseTypes DEF OwnerFits, RunFits, ResFits, Ended
    <3>3. LooksFit(u)'
      BY <2>1, <3>1, UseTypes DEF LooksFit, Ended
    <3> QED BY <3>2, <3>3 DEF UseFits
  <2> QED BY <2>1, <2>3, <2>5, <2>6, <2>7 DEF UseInv, UseFits
<1>2. ASSUME NEW found \in BOOLEAN, AskAgain(r, found) PROVE UseInv'
  <2>1. /\ res' = res \/ res' = [res EXCEPT ![look[r].task].conv = TRUE]
        /\ look' = [look EXCEPT ![r] = NoLook]
        /\ UNCHANGED <<meta, returned, run>> /\ UNCHANGED torn
    BY <1>2 DEF AskAgain, history
  <2>2. LooksStay
    BY <2>1 DEF LooksStay, IInv, StoreInv
  <2>3. ASSUME NEW u \in Task PROVE UseFits(u)'
    <3>1. res'[u].acc = res[u].acc /\ res'[u].charge = res[u].charge
      BY <2>1, UseTypes DEF Res
    <3>2. Waits(meta[u], meta'[u]) /\ Goes(meta[u], meta'[u])
      BY <2>1, UseTypes, RecordsWait DEF Waits
    <3>3. UseFits(u)
      BY DEF UseInv
    <3>4. run'[u] = run[u] /\ meta'[u] = meta[u] /\ returned'[u] = returned[u]
      BY <2>1
    <3> QED BY <2>2, <3>1, <3>2, <3>3, <3>4, RunEndsFits
  <2> QED BY <2>1, <2>3 DEF UseInv
<1>3. CASE AnswerLost(r)
  <2>1. /\ look' = [look EXCEPT ![r] = NoLook]
        /\ UNCHANGED <<meta, res, run, returned>> /\ UNCHANGED torn
    BY <1>3 DEF AnswerLost, storeVars, history
  <2>2. LooksStay
    BY <2>1 DEF LooksStay, IInv, StoreInv
  <2> QED BY <2>1, <2>2, UseStands
<1> QED BY <1>1, <1>2, <1>3, AnswerUse DEF Query

LEMMA OutsideUse ==
  ASSUME IInv, UseInv,
         \/ \E a \in Acct : Admin(a)
         \/ Midnight \/ ResetDay \/ ListAccounts \/ ClearListed
         \/ \E found \in {"valid", "invalid", "credit"} : EndProbe(found)
         \/ UNCHANGED vars
  PROVE  UseInv'
PROOF
<1>1. ASSUME NEW a \in Acct, Admin(a)
      PROVE  UNCHANGED <<meta, res, run, returned>> /\ UNCHANGED look /\ UNCHANGED torn
  <2>1. ASSUME NEW new, Administer(a, new)
        PROVE  UNCHANGED <<meta, res, run, returned>> /\ UNCHANGED look /\ UNCHANGED torn
    BY <2>1 DEF Administer, storeVars
  <2>2. CASE AddAccount(a) \/ RemoveAccount(a) \/ SignInAgain(a) \/ ClearQuota(a) \/ UnmarkToday(a)
    BY <2>1, <2>2 DEF AddAccount, RemoveAccount, SignInAgain, ClearQuota, UnmarkToday
  <2>3. CASE CoolDownEnds(a) \/ RepairCharges(a)
    BY <2>1, <2>3 DEF CoolDownEnds, RepairCharges
  <2>4. CASE \E on \in BOOLEAN : SwitchAccount(a, on) \/ CleanUp(a, on)
    BY <2>1, <2>4 DEF SwitchAccount, CleanUp
  <2>5. CASE \E limit \in {0, Limit} : ChangeLimit(a, limit)
    BY <2>1, <2>5 DEF ChangeLimit
  <2>6. CASE (\E d \in Acct : MergeDuplicate(a, d)) \/ StartProbe(a)
    BY <2>6 DEF MergeDuplicate, StartProbe, storeVars, history
  <2> QED BY <1>1, <2>2, <2>3, <2>4, <2>5, <2>6 DEF Admin
<1>2. UNCHANGED <<meta, res, run, returned>> /\ UNCHANGED look /\ UNCHANGED torn
  BY <1>1 DEF Midnight, ResetDay, ListAccounts, ClearListed, EndProbe, storeVars, history, vars
<1> QED BY <1>2, SameLooks, UseStands

LEMMA InitUse == Init => UseInv
PROOF
<1> SUFFICES ASSUME Init PROVE UseInv
  OBVIOUS
<1>1. /\ meta \in [Task -> {NoMeta, FinalizeTaskCreation(NoMeta)}]
      /\ res = [t \in Task |-> NoRes] /\ returned = [t \in Task |-> FALSE]
      /\ run = [t \in Task |-> NoRun] /\ look = [r \in Reader |-> NoLook]
  BY DEF Init
<1>2. NoMeta \in Meta /\ FinalizeTaskCreation(NoMeta) \in Meta
  BY DEF NoMeta, Meta, Status, Id, FinalizeTaskCreation
<1>3. ASSUME NEW t \in Task PROVE UseFits(t)
  <2>1. \A r \in Reader : look[r].task # t
    BY <1>1, AccountConstants DEF NoLook
  <2> QED BY <1>1, <2>1 DEF UseFits, OwnerFits, RunFits, ResFits, LooksFit, NoRun, NoRes
<1> QED BY <1>1, <1>2, <1>3 DEF UseInv

LEMMA StepUse == IInv /\ UseInv /\ [Next]_vars => UseInv'
PROOF
<1> SUFFICES ASSUME IInv, UseInv, [Next]_vars PROVE UseInv'
  OBVIOUS
<1>1. CASE UNCHANGED vars
  BY <1>1, OutsideUse
<1>2. ASSUME NEW t \in Task, Work(t) \/ Watch(t) \/ Expire(t) \/ \E admin \in BOOLEAN : Cancel(t, admin)
      PROVE  UseInv'
  BY <1>2, WorkUse, WatchUse, EndsFromOutside
<1>3. CASE Next
  BY <1>2, <1>3, QueryUse, RestartWorkerUse, OutsideUse DEF Next
<1> QED BY <1>1, <1>3

THEOREM UseInvariant == Spec => []UseInv
PROOF
<1>1. Init => UseInv
  BY InitUse
<1>2. IInv /\ UseInv /\ [Next]_vars => UseInv'
  BY StepUse
<1> QED BY <1>1, <1>2, AccountInvariant, PTL DEF Spec

\* A refund never leaves an attempt under way, except that of a task whose run was cut
\* off after its submission or that an answer about another attempt was applied to
\* (_refund_canceled_task, mark_failed, record_retry, retry_submitted_task and
\* retry_ambiguous_submitted_task), whatever the limits on retries are.
THEOREM RefundsFollowTheEnd == Spec => []RefundedEnded
PROOF
<1>1. UseInv => RefundedEnded
  BY DEF UseInv, UseFits, OwnerFits, Ended, RefundedEnded
<1> QED BY <1>1, UseInvariant, PTL

-----------------------------------------------------------------------------
(* The leases of the accounts.                                                *)

\* The lease is given up by t, if t has it, or it is left alone.
Frees(a, k, t) == \A x : x # t /\ a.lease = x => k.lease = x

LEMMA PaidLease ==
  ASSUME NEW a \in Account, NEW c, NEW money \in {"refund", "settle", "consume", "exhaust", "timedOut"}
  PROVE  /\ Refund(a, c).lease = a.lease /\ Settle(a, c).lease = a.lease
         /\ TimedOut(a, c).lease = a.lease /\ Exhaust(a, c).lease = a.lease
         /\ Consume(a, c).lease = a.lease /\ Paid(a, c, money).lease = a.lease
PROOF
<1>1. ASSUME NEW l PROVE Pays(a, c, l).lease = a.lease
  BY DEF Pays, Account
<1>2. /\ Refund(a, c).lease = a.lease /\ Settle(a, c).lease = a.lease
      /\ TimedOut(a, c).lease = a.lease /\ Exhaust(a, c).lease = a.lease
  BY <1>1 DEF Refund, Settle, TimedOut, Exhaust
<1>3. Consume(a, c).lease = a.lease
  BY <1>2 DEF Consume
<1> QED BY <1>2, <1>3 DEF Paid

LEMMA ReleasedFrees ==
  ASSUME NEW a \in Account, NEW t, NEW c \in Charge \cup {NoCharge}
  PROVE  /\ Frees(a, a, t) /\ Frees(a, ClearCurrentTask(a, t), t)
         /\ Frees(a, Refund(ClearCurrentTask(a, t), c), t)
         /\ Frees(a, Consume(ClearCurrentTask(a, t), c), t)
         /\ Frees(a, ClearCurrentTask(Settle(a, c), t), t)
         /\ Frees(a, ClearCurrentTask(Refund(a, c), t), t)
         /\ Frees(a, ClearCurrentTask(TimedOut(a, c), t), t)
PROOF
<1>1. ASSUME NEW k \in Account, k.lease = a.lease PROVE Frees(a, ClearCurrentTask(k, t), t)
  BY <1>1 DEF Frees, ClearCurrentTask, Account
<1>2. ClearCurrentTask(a, t) \in Account /\ Frees(a, ClearCurrentTask(a, t), t)
  BY <1>1, LeaseKeeps DEF Keeps
<1>3. /\ Frees(a, Refund(ClearCurrentTask(a, t), c), t)
      /\ Frees(a, Consume(ClearCurrentTask(a, t), c), t)
  BY <1>2, PaidLease DEF Frees
<1>4. Settle(a, c) \in Account /\ Refund(a, c) \in Account /\ TimedOut(a, c) \in Account
  BY SettleKeeps, RefundKeeps, TimedOutKeeps DEF Keeps
<1>5. /\ Frees(a, ClearCurrentTask(Settle(a, c), t), t)
      /\ Frees(a, ClearCurrentTask(Refund(a, c), t), t)
      /\ Frees(a, ClearCurrentTask(TimedOut(a, c), t), t)
  BY <1>1, <1>4, PaidLease
<1>6. Frees(a, a, t)
  BY DEF Frees
<1> QED BY <1>2, <1>3, <1>5, <1>6

\* The run and the probe that use an account have its lease, as long as it was not
\* taken from them.
LeaseInv ==
  /\ probing \in Acct \cup {NoAcct}
  /\ \A a \in Acct \ stripped :
       /\ \A t \in Task : Uses(t, a) => acct[a].lease = t
       /\ probing = a => acct[a].lease = Maintenance

\* A step that keeps it.
LeaseStep ==
  /\ stripped \subseteq stripped' /\ probing' \in Acct \cup {NoAcct}
  /\ \A a \in Acct \ stripped' :
       /\ \A u \in Task : Uses(u, a)' =>
            \/ acct'[a].lease = u
            \/ Uses(u, a) /\ (acct[a].lease = u => acct'[a].lease = u)
       /\ probing' = a =>
            \/ acct'[a].lease = Maintenance
            \/ probing = a /\ (acct[a].lease = Maintenance => acct'[a].lease = Maintenance)

LEMMA LeaseStepInv == ASSUME LeaseInv, LeaseStep PROVE LeaseInv'
PROOF
<1>1. ASSUME NEW a \in Acct, a \notin stripped'
      PROVE  /\ \A t \in Task : Uses(t, a)' => acct'[a].lease = t
             /\ probing' = a => acct'[a].lease = Maintenance
  <2>1. a \notin stripped
    BY <1>1 DEF LeaseStep
  <2> QED BY <1>1, <2>1 DEF LeaseInv, LeaseStep
<1> QED BY <1>1 DEF LeaseInv, LeaseStep

\* The tasks a step does not set to work.
Rests(u) ==
  \/ run'[u].stage # "held" \/ meta'[u].status # "running"
  \/ run'[u] = run[u] /\ (meta'[u].status = "running" => meta[u].status = "running")

LEMMA RestsUses == ASSUME NEW u, NEW a, Rests(u), Uses(u, a)' PROVE Uses(u, a)
PROOF
  BY DEF Rests, Uses

\* No account is leased or freed.
LEMMA LeasesStand ==
  ASSUME LeaseInv, UNCHANGED <<probing, stripped>>, \A u \in Task : Rests(u),
         \A a \in Acct : acct'[a].lease = acct[a].lease
  PROVE  LeaseStep
PROOF
  BY RestsUses DEF LeaseStep, LeaseInv

\* A task that is not at work any more frees its account.
LEMMA OneFreed ==
  ASSUME LeaseInv, UNCHANGED <<probing, stripped>>, \A u \in Task : Rests(u), NEW t \in Task,
         run'[t].stage # "held" \/ meta'[t].status # "running",
         \A a \in Acct : Frees(acct[a], acct'[a], t)
  PROVE  LeaseStep
PROOF
<1>1. ASSUME NEW a \in Acct, NEW u \in Task, Uses(u, a)'
      PROVE  Uses(u, a) /\ (acct[a].lease = u => acct'[a].lease = u)
  <2>1. u # t
    BY <1>1 DEF Uses
  <2> QED BY <1>1, <2>1, RestsUses DEF Frees
<1>2. ASSUME NEW a \in Acct PROVE acct[a].lease = Maintenance => acct'[a].lease = Maintenance
  BY AccountConstants DEF Frees
<1> QED BY <1>1, <1>2 DEF LeaseStep, LeaseInv

\* Whatever becomes of the accounts, a lease that is taken away is noted.
LEMMA LeasesStripped ==
  ASSUME LeaseInv, UNCHANGED probing, NEW except, Strip(except), \A u \in Task : Rests(u),
         \A u \in except : run'[u].stage # "held"
  PROVE  LeaseStep
PROOF
<1>1. stripped \subseteq stripped'
  BY DEF Strip
<1>2. ASSUME NEW a \in Acct \ stripped', NEW u \in Task, Uses(u, a)'
      PROVE  Uses(u, a) /\ (acct[a].lease = u => acct'[a].lease = u)
  <2>1. Uses(u, a) /\ u \notin except
    BY <1>2, RestsUses DEF Uses
  <2> QED BY <1>2, <2>1 DEF Strip
<1>3. ASSUME NEW a \in Acct \ stripped', probing = a
      PROVE  acct[a].lease = Maintenance => acct'[a].lease = Maintenance
  BY <1>3 DEF Strip
<1> QED BY <1>1, <1>2, <1>3 DEF LeaseStep, LeaseInv

LEMMA TouchFrees ==
  ASSUME IInv, NEW a, NEW new, NEW t,
         \/ UNCHANGED acct \/ acct' = [acct EXCEPT ![a] = new] \/ Touch(a, new),
         a \in Acct => Frees(acct[a], new, t)
  PROVE  \A x \in Acct : Frees(acct[x], acct'[x], t)
PROOF
<1>1. acct \in [Acct -> Account]
  BY DEF IInv, AcctInv
<1>2. CASE UNCHANGED acct
  BY <1>2 DEF Frees
<1>3. CASE acct' = [acct EXCEPT ![a] = new]
  BY <1>1, <1>3 DEF Frees
<1> QED BY <1>2, <1>3 DEF Touch

\* What one task's record becomes.
LEMMA OneRests ==
  ASSUME IInv, UseInv, NEW t \in Task, NEW m, Goes(meta[t], m), meta' = [meta EXCEPT ![t] = m],
         run' = run \/ \E k : run' = [run EXCEPT ![t] = k]
  PROVE  /\ \A u \in Task \ {t} : Rests(u)
         /\ run'[t] = run[t] => Rests(t)
         /\ run'[t].stage # "held" => Rests(t)
PROOF
<1>1. meta \in [Task -> Meta] /\ run \in [Task -> Run]
  BY UseTypes DEF UseInv, IInv, StoreInv
<1>2. /\ \A u \in Task \ {t} : run'[u] = run[u] /\ meta'[u] = meta[u]
      /\ meta'[t] = m
  BY <1>1
<1> QED BY <1>2 DEF Rests, Goes

LEMMA NothingMoves ==
  ASSUME UNCHANGED <<meta, run>> PROVE \A u \in Task : Rests(u)
PROOF
  BY DEF Rests

LEMMA RunEndsRests ==
  ASSUME IInv, UseInv, NEW t \in Task, NEW m, Goes(meta[t], m), meta' = [meta EXCEPT ![t] = m],
         run' = [run EXCEPT ![t] = NoRun]
  PROVE  (\A u \in Task : Rests(u)) /\ run'[t].stage # "held"
PROOF
<1>1. run'[t].stage # "held"
  BY UseTypes DEF NoRun
<1> QED BY <1>1, OneRests

\* Where a run and a result point.
LEMMA Pointed ==
  ASSUME IInv, NEW t \in Task
  PROVE  /\ run[t].charge \in Charge \cup {NoCharge} /\ res[t].charge \in Charge \cup {NoCharge}
         /\ \A a \in Acct : /\ acct[a] \in Account /\ Old(a) = acct[a]
                            /\ acct[a].charge \in Charge \cup {NoCharge}
         /\ Old(NoAcct).charge = NoCharge
PROOF
  BY Remembered

LEMMA WaitsGoes ==
  ASSUME NEW m \in Meta
  PROVE  /\ Goes(m, m) /\ Goes(m, DeferTask(m)) /\ Goes(m, MarkPending(m)) /\ Goes(m, MarkFailed(m))
         /\ Goes(m, MarkSubmitted(m)) /\ Goes(m, RecordRetry(m))
         /\ Goes(m, RecordInfrastructureRetry(m)) /\ Goes(m, EndLateWatch(m))
         /\ Goes(m, RequestTaskCancel(m)) /\ Goes(m, ResetRunningTask(m))
         /\ Goes(m, MarkSuccess(m)) /\ Goes(m, MarkLateResultSuccess(m))
PROOF
  BY RecordsWait DEF Waits

\* The runs that end and free their account.
LEMMA RunEndsLease ==
  ASSUME IInv, UseInv, LeaseInv, NEW t \in Task,
         \/ TurnedAway(t) \/ ReturnSubmitted(t) \/ ReturnTextOnly(t) \/ ReturnFatal(t)
         \/ CoroutineCanceled(t) \/ \E infra, final \in BOOLEAN : Raise(t, infra, final)
  PROVE  LeaseStep
PROOF
<1> DEFINE a == run[t].acc
           c == run[t].charge
           x == acct[a]
<1>1. meta[t] \in Meta /\ meta \in [Task -> Meta] /\ meta = [meta EXCEPT ![t] = meta[t]]
  BY UseTypes
<1>2. a \in Acct => /\ x \in Account /\ Old(a) = x
                    /\ Frees(x, x, t) /\ Frees(x, ClearCurrentTask(x, t), t)
                    /\ Frees(x, Refund(ClearCurrentTask(x, t), c), t)
                    /\ Frees(x, Consume(ClearCurrentTask(x, t), c), t)
                    /\ Frees(x, ClearCurrentTask(Settle(x, c), t), t)
  BY Pointed, ReleasedFrees
<1>3. \E m : Goes(meta[t], m) /\ meta' = [meta EXCEPT ![t] = m]
  BY <1>1, WaitsGoes DEF TurnedAway, ReturnSubmitted, ReturnTextOnly, ReturnFatal, CoroutineCanceled,
     Raise, CountRetry
<1>4. run' = [run EXCEPT ![t] = NoRun] /\ UNCHANGED probing /\ UNCHANGED stripped
  BY DEF TurnedAway, ReturnSubmitted, ReturnTextOnly, ReturnFatal, CoroutineCanceled, Raise, history
<1>5. \E new : /\ \/ UNCHANGED acct \/ acct' = [acct EXCEPT ![a] = new] \/ Touch(a, new)
               /\ a \in Acct => Frees(x, new, t)
  <2> HIDE DEF x
  <2>1. CASE TurnedAway(t)
    BY <1>2, <2>1 DEF TurnedAway, x
  <2>2. CASE ReturnSubmitted(t)
    BY <1>2, <2>2 DEF ReturnSubmitted, x
  <2>3. CASE ReturnTextOnly(t)
    BY <1>2, <2>3 DEF ReturnTextOnly, ReleaseAfterFailure, x
  <2>4. CASE ReturnFatal(t) \/ CoroutineCanceled(t)
    BY <1>2, <2>4 DEF ReturnFatal, CoroutineCanceled, x
  <2>5. ASSUME NEW infra \in BOOLEAN, NEW final \in BOOLEAN, Raise(t, infra, final)
        PROVE  \E new : /\ \/ UNCHANGED acct \/ acct' = [acct EXCEPT ![a] = new] \/ Touch(a, new)
                        /\ a \in Acct => Frees(x, new, t)
    <3> DEFINE k == ClearCurrentTask(Old(a), t)
               consume == ~infra /\ (plat = "dola" \/ ~final)
               new == IF infra THEN Refund(k, c) ELSE IF consume THEN Consume(k, c) ELSE k
    <3>1. Touch(a, new)
      BY <2>5 DEF Raise
    <3>2. a \in Acct => Frees(x, new, t)
      BY <1>2
    <3> QED BY <3>1, <3>2
  <2> QED BY <2>1, <2>2, <2>3, <2>4, <2>5
<1> HIDE DEF a, c, x
<1>6. (\A u \in Task : Rests(u)) /\ run'[t].stage # "held"
  BY <1>3, <1>4, RunEndsRests
<1>7. \A y \in Acct : Frees(acct[y], acct'[y], t)
  BY <1>5, TouchFrees DEF x
<1> QED BY <1>4, <1>6, <1>7, OneFreed

LEMMA WorkLease == ASSUME IInv, UseInv, LeaseInv, NEW t \in Task, Work(t) PROVE LeaseStep
PROOF
<1>1. meta[t] \in Meta /\ meta = [meta EXCEPT ![t] = meta[t]] /\ run[t] \in Run /\ run \in [Task -> Run]
  BY UseTypes
<1>2. CASE ClaimPending(t)
  <2>1. /\ \E m : meta' = [meta EXCEPT ![t] = m]
        /\ run' = [run EXCEPT ![t].stage = "claimed"] /\ UNCHANGED <<acct, probing>> /\ UNCHANGED stripped
    BY <1>2 DEF ClaimPending, history
  <2>2. ASSUME NEW u \in Task PROVE Rests(u)
    <3>1. run'[t].stage = "claimed" /\ (u # t => run'[u] = run[u] /\ meta'[u] = meta[u])
      BY <1>1, <2>1, UseTypes DEF Run
    <3> QED BY <3>1 DEF Rests
  <2> QED BY <2>1, <2>2, LeasesStand
<1>3. CASE DropPreference(t)
  BY <1>3, NothingMoves, LeasesStand DEF DropPreference, history
<1>4. CASE NoAccountFree(t)
  <2>1. /\ \E m : Goes(meta[t], m) /\ meta' = [meta EXCEPT ![t] = m]
        /\ run' = [run EXCEPT ![t] = NoRun] /\ UNCHANGED <<acct, probing>> /\ UNCHANGED stripped
    BY <1>1, <1>4, WaitsGoes DEF NoAccountFree, history
  <2>2. \A u \in Task : Rests(u)
    BY <2>1, RunEndsRests
  <2> QED BY <2>1, <2>2, LeasesStand
<1>5. ASSUME NEW conv \in BOOLEAN, Submit(t, conv) PROVE LeaseStep
  <2> DEFINE s == IF conv THEN "sent" ELSE "blind"
  <2>1. /\ \E m : meta' = [meta EXCEPT ![t] = m]
        /\ run' = [run EXCEPT ![t].stage = s] /\ UNCHANGED <<acct, probing>> /\ UNCHANGED stripped
    BY <1>5 DEF Submit, history
  <2>2. s # "held"
    OBVIOUS
  <2> HIDE DEF s
  <2>3. ASSUME NEW u \in Task PROVE Rests(u)
    <3>1. run'[t].stage = s /\ (u # t => run'[u] = run[u] /\ meta'[u] = meta[u])
      BY <1>1, <2>1, UseTypes DEF Run
    <3> QED BY <2>2, <3>1 DEF Rests
  <2> QED BY <2>1, <2>3, LeasesStand
<1>6. ASSUME NEW a \in Acct, TakeAccount(t, a) PROVE LeaseStep
  <2>1. /\ acct' = [acct EXCEPT ![a] = ClaimAccount(acct[a], t, BucketOf(t), <<t, drawn + 1>>, 1)]
        /\ acct[a].lease = NoTask
        /\ run' = [run EXCEPT ![t] = [stage |-> "held", acc |-> a, charge |-> <<t, drawn + 1>>]]
        /\ UNCHANGED <<meta, probing>> /\ UNCHANGED stripped
    BY <1>6 DEF TakeAccount, Choice, Selectable, history
  <2>2. acct'[a].lease = t /\ \A x \in Acct \ {a} : acct'[x] = acct[x]
    <3>1. ClaimAccount(acct[a], t, BucketOf(t), <<t, drawn + 1>>, 1).lease = t
      BY Pointed DEF ClaimAccount, Account
    <3> QED BY <2>1, <3>1 DEF IInv, AcctInv
  <2>3. /\ run'[t].acc = a /\ \A u \in Task \ {t} : run'[u] = run[u]
    BY <1>1, <2>1
  <2>4. ASSUME NEW u \in Task, NEW x \in Acct, Uses(u, x)'
        PROVE  acct'[x].lease = u \/ (Uses(u, x) /\ (acct[x].lease = u => acct'[x].lease = u))
    <3>1. CASE u = t
      BY <2>2, <2>3, <2>4, <3>1 DEF Uses
    <3>2. CASE u # t
      <4>1. Uses(u, x)
        BY <2>1, <2>3, <2>4, <3>2 DEF Uses
      <4>2. acct[x].lease = u => acct'[x].lease = u
        BY <2>1, <2>2, AccountConstants
      <4> QED BY <4>1, <4>2
    <3> QED BY <3>1, <3>2
  <2>5. \A x \in Acct : acct[x].lease = Maintenance => acct'[x].lease = Maintenance
    BY <2>1, <2>2, AccountConstants
  <2> QED BY <2>1, <2>4, <2>5 DEF LeaseStep, LeaseInv
<1>7. ASSUME NEW o \in Outcomes, ReturnRetryable(t, o) PROVE LeaseStep
  <2>1. /\ \E m : Goes(meta[t], m) /\ meta' = [meta EXCEPT ![t] = m]
        /\ run' = [run EXCEPT ![t] = NoRun] /\ UNCHANGED probing /\ Strip({t})
    BY <1>1, <1>7, WaitsGoes DEF ReturnRetryable, CountRetry
  <2>2. (\A u \in Task : Rests(u)) /\ run'[t].stage # "held"
    BY <2>1, RunEndsRests
  <2> QED BY <2>1, <2>2, LeasesStripped
<1> QED BY <1>2, <1>3, <1>4, <1>5, <1>6, <1>7, RunEndsLease DEF Work

LEMMA RestartWorkerLease ==
  ASSUME IInv, LeaseInv, NEW orderly \in BOOLEAN, NEW first \in [Acct -> Task],
         RestartWorker(orderly, first)
  PROVE  LeaseStep
PROOF
<1> DEFINE freed(a) == IF orderly /\ \E t \in Task : acct[a].lease = t /\ run[t].acc = a
                         THEN ClearCurrentTask(acct[a], acct[a].lease) ELSE acct[a]
<1>1. /\ run' = [t \in Task |-> NoRun] /\ UNCHANGED probing /\ UNCHANGED stripped
      /\ \A a \in Acct : \/ acct'[a] = freed(a)
                         \/ acct'[a] = RestoreCurrentTask(freed(a), first[a], res[first[a]].charge)
  BY DEF RestartWorker, history
<1>2. ASSUME NEW a \in Acct, acct[a].lease = Maintenance PROVE acct'[a].lease = Maintenance
  <2>1. freed(a) = acct[a]
    BY <1>2, AccountConstants
  <2>2. RestoreCurrentTask(acct[a], first[a], res[first[a]].charge) = acct[a]
    BY <1>2, AccountConstants DEF RestoreCurrentTask
  <2> QED BY <1>1, <1>2, <2>1, <2>2
<1>3. \A u \in Task, a \in Acct : ~Uses(u, a)'
  BY <1>1 DEF Uses, NoRun
<1> QED BY <1>1, <1>2, <1>3 DEF LeaseStep, LeaseInv

LEMMA WatchLease ==
  ASSUME IInv, UseInv, LeaseInv, NEW t \in Task,
         Watch(t) \/ Expire(t) \/ \E admin \in BOOLEAN : Cancel(t, admin)
  PROVE  LeaseStep
PROOF
<1>1. meta[t] \in Meta /\ meta \in [Task -> Meta] /\ meta = [meta EXCEPT ![t] = meta[t]]
  BY UseTypes
<1>2. CASE StopLateWatch(t)
  <2>1. /\ meta' = [meta EXCEPT ![t] = EndLateWatch(meta[t])] /\ UNCHANGED <<acct, run, probing>>
        /\ UNCHANGED stripped
    BY <1>2 DEF StopLateWatch, history
  <2>2. \A u \in Task : Rests(u)
    BY <1>1, <2>1, WaitsGoes, OneRests
  <2> QED BY <2>1, <2>2, LeasesStand
\* The task is no longer at work.
<1>3. ASSUME NEW m, Goes(meta[t], m), meta' = [meta EXCEPT ![t] = m], UNCHANGED <<run, probing>>,
             UNCHANGED stripped, m.status # "running", NEW a, NEW new,
             \/ UNCHANGED acct \/ acct' = [acct EXCEPT ![a] = new] \/ Touch(a, new),
             a \in Acct => Frees(acct[a], new, t)
      PROVE  LeaseStep
  <2>1. \A u \in Task : Rests(u)
    BY <1>3, OneRests
  <2>2. \A x \in Acct : Frees(acct[x], acct'[x], t)
    BY <1>3, TouchFrees
  <2>3. meta'[t].status # "running"
    BY <1>1, <1>3
  <2> QED BY <1>3, <2>1, <2>2, <2>3, OneFreed
<1>4. CASE ReleaseSlowAccount(t)
  <2> DEFINE a == res[t].acc
  <2>1. /\ meta[t].status = "submitted" /\ UNCHANGED <<run, meta, probing>> /\ UNCHANGED stripped
        /\ acct' = [acct EXCEPT ![a] = ClearCurrentTask(acct[a], t)]
    BY <1>4 DEF ReleaseSlowAccount, storeVars, history
  <2>2. a \in Acct => Frees(acct[a], ClearCurrentTask(acct[a], t), t)
    BY Pointed, ReleasedFrees
  <2>3. meta' = [meta EXCEPT ![t] = meta[t]] /\ Goes(meta[t], meta[t]) /\ meta[t].status # "running"
    BY <1>1, <2>1, WaitsGoes
  <2> HIDE DEF a
  <2> QED BY <1>3, <2>1, <2>2, <2>3
<1>5. CASE GiveUp(t)
  <2> DEFINE a == res[t].acc
             c == res[t].charge
             k == IF plat = "dola" THEN Settle(Old(a), c) ELSE Refund(Old(a), c)
             s == IF plat = "qianwen" THEN RetrySubmittedTask(meta[t], RetryLimit) ELSE meta[t]
             m1 == ClearTransientResult(RetrySubmittedTask(meta[t], RetryLimit), plat # "dola")
             m2 == RetrySubmittedTask(meta[t], RetryLimit)
  <2>1. /\ meta[t].status = "submitted" /\ UNCHANGED <<run, probing>> /\ UNCHANGED stripped
        /\ Touch(a, ClearCurrentTask(k, t))
        /\ \/ RetryOrEnd(t, Verdict)
           \/ meta' = [meta EXCEPT ![t] = GiveUpWaiting(s)]
    BY <1>5 DEF GiveUp, history
  <2>2. a \in Acct => Frees(acct[a], ClearCurrentTask(k, t), t)
    BY Pointed, ReleasedFrees
  <2>3. RetryLimit \in Nat
    BY StoreConstants
  <2>4. Goes(meta[t], m2) /\ m2 \in Meta
    BY <1>1, <2>3, RecordsGo DEF Goes
  <2>5. Goes(meta[t], m1)
    <3>1. Waits(m2, ClearTransientResult(m2, plat # "dola"))
      BY <2>3, <2>4, RecordsGo
    <3> QED BY <2>4, <3>1 DEF Waits, Goes
  <2>6. Goes(meta[t], GiveUpWaiting(s))
    <3>1. Goes(meta[t], s) /\ s \in Meta
      BY <1>1, <2>4, WaitsGoes
    <3> HIDE DEF s
    <3>2. Goes(s, MarkFailed(s)) /\ MarkFailed(s) \in Meta
      BY <3>1, WaitsGoes DEF Goes
    <3> DEFINE f == MarkFailed(s)
    <3>3. GiveUpWaiting(s) = [f EXCEPT !.late = TRUE]
      BY DEF GiveUpWaiting
    <3> HIDE DEF f
    <3>4. [f EXCEPT !.late = TRUE] \in Meta /\ [f EXCEPT !.late = TRUE].status = f.status
      BY <3>2 DEF Meta, f
    <3> QED BY <3>1, <3>2, <3>3, <3>4 DEF Goes, f
  <2>7. Verdict.hard = FALSE /\ Verdict.limit = RetryLimit
    BY DEF Verdict
  <2>8. \E m : Goes(meta[t], m) /\ meta' = [meta EXCEPT ![t] = m]
    BY <2>1, <2>4, <2>5, <2>6, <2>7 DEF RetryOrEnd
  <2> HIDE DEF a, k, m1, m2, s
  <2>9. PICK m : Goes(meta[t], m) /\ meta' = [meta EXCEPT ![t] = m]
    BY <2>8
  <2>10. m.status # "running"
    BY <2>1, <2>9 DEF Goes
  <2> QED BY <1>3, <2>1, <2>2, <2>9, <2>10
<1>6. CASE Expire(t)
  <2> DEFINE a == res[t].acc
             new == ClearCurrentTask(TimedOut(Old(a), res[t].charge), t)
  <2>1. /\ meta[t].status \in {"pending", "running", "submitted"} /\ UNCHANGED <<run, probing>>
        /\ UNCHANGED stripped /\ Touch(a, new)
        /\ meta' = [meta EXCEPT ![t] = MarkFailed(meta[t])]
    BY <1>6 DEF Expire, history
  <2>2. a \in Acct => Frees(acct[a], new, t)
    BY Pointed, ReleasedFrees
  <2>3. Goes(meta[t], MarkFailed(meta[t])) /\ MarkFailed(meta[t]).status # "running"
    BY <1>1, <2>1, WaitsGoes DEF MarkFailed, Meta
  <2> HIDE DEF a, new
  <2> QED BY <1>3, <2>1, <2>2, <2>3
<1>7. ASSUME NEW admin \in BOOLEAN, Cancel(t, admin) PROVE LeaseStep
  <2> DEFINE leased == {a \in Acct : acct[a].lease = t}
             a == IF res[t].acc # NoAcct THEN res[t].acc
                  ELSE IF leased = {} THEN NoAcct ELSE CHOOSE x \in leased : TRUE
             c == IF res[t].charge # NoCharge THEN res[t].charge ELSE Old(a).charge
             new == Refund(ClearCurrentTask(Old(a), t), c)
  <2>1. /\ UNCHANGED <<run, probing>> /\ UNCHANGED stripped /\ Touch(a, new)
        /\ meta' = [meta EXCEPT ![t] = RequestTaskCancel(meta[t])]
    BY <1>7 DEF Cancel, history
  <2>2. a \in Acct => Frees(acct[a], new, t)
    <3> HIDE DEF a
    <3>1. a \in Acct => acct[a] \in Account /\ Old(a) = acct[a] /\ c \in Charge \cup {NoCharge}
      BY Pointed
    <3> HIDE DEF c
    <3> QED BY <3>1, ReleasedFrees
  <2>3. Goes(meta[t], RequestTaskCancel(meta[t])) /\ RequestTaskCancel(meta[t]).status # "running"
    BY <1>1, WaitsGoes DEF RequestTaskCancel, Meta
  <2> HIDE DEF a, new
  <2> QED BY <1>3, <2>1, <2>2, <2>3
<1> QED BY <1>2, <1>4, <1>5, <1>6, <1>7 DEF Watch

\* What an answer does to the record of the task.
LEMMA ApplyGoes ==
  ASSUME NEW t, meta[t] \in Meta, NEW v, VerdictOK(v), NEW late, Apply(t, v, late)
  PROVE  \E m : Goes(meta[t], m) /\ meta' = [meta EXCEPT ![t] = m]
PROOF
<1> DEFINE retried == RetrySubmittedTask(meta[t], v.limit)
           proxied == RetryAmbiguousProxyTask(meta[t])
           next == RetryAmbiguousSubmittedTask(meta[t])
<1>1. v.limit \in Nat
  BY DEF VerdictOK
<1>2. ASSUME NEW k, Goes(meta[t], k)
      PROVE  /\ Goes(meta[t], MarkFailed(k))
             /\ \A sticky \in BOOLEAN : Goes(meta[t], ClearTransientResult(k, sticky))
  <2>1. k \in Meta
    BY <1>2 DEF Goes
  <2>2. Waits(k, MarkFailed(k)) /\ \A sticky \in BOOLEAN : Waits(k, ClearTransientResult(k, sticky))
    BY <1>1, <2>1, RecordsWait, RecordsGo
  <2> QED BY <1>2, <2>2 DEF Waits, Goes
<1>3. Goes(meta[t], retried) /\ Goes(meta[t], proxied) /\ Goes(meta[t], next)
  BY <1>1, RecordsGo
<1> HIDE DEF retried, proxied, next
<1>4. (plat # "dola") \in BOOLEAN /\ FALSE \in BOOLEAN
  OBVIOUS
<1>5. /\ Goes(meta[t], MarkFailed(retried)) /\ Goes(meta[t], ClearTransientResult(retried, plat # "dola"))
      /\ Goes(meta[t], ClearTransientResult(proxied, FALSE))
      /\ Goes(meta[t], ClearTransientResult(next, FALSE))
  BY <1>2, <1>3, <1>4
<1>6. /\ Goes(meta[t], MarkSuccess(meta[t])) /\ Goes(meta[t], MarkLateResultSuccess(meta[t]))
      /\ Goes(meta[t], MarkFailed(meta[t]))
  BY WaitsGoes
<1>7. \/ meta' = [meta EXCEPT ![t] = MarkSuccess(meta[t])]
      \/ meta' = [meta EXCEPT ![t] = MarkLateResultSuccess(meta[t])]
      \/ meta' = [meta EXCEPT ![t] = MarkFailed(meta[t])]
      \/ meta' = [meta EXCEPT ![t] = MarkFailed(retried)]
      \/ meta' = [meta EXCEPT ![t] = retried]
      \/ meta' = [meta EXCEPT ![t] = ClearTransientResult(retried, plat # "dola")]
      \/ meta' = [meta EXCEPT ![t] = ClearTransientResult(proxied, FALSE)]
      \/ meta' = [meta EXCEPT ![t] = ClearTransientResult(next, FALSE)]
      \/ meta' = [meta EXCEPT ![t] = next]
  <2>1. CASE v.then = "success"
    BY <2>1 DEF Apply
  <2>2. CASE v.then = "fail"
    BY <2>2 DEF Apply
  <2>3. CASE v.then = "retry"
    BY <2>3 DEF Apply, RetryOrEnd, retried
  <2>4. CASE v.then = "proxy"
    BY <2>4 DEF Apply, proxied
  <2>5. CASE v.then = "ambiguous"
    BY <2>5 DEF Apply, next
  <2> QED BY <2>1, <2>2, <2>3, <2>4, <2>5 DEF VerdictOK
<1> QED BY <1>3, <1>5, <1>6, <1>7

LEMMA QueryLease == ASSUME IInv, UseInv, LeaseInv, NEW r \in Reader, Query(r) PROVE LeaseStep
PROOF
<1>1. ASSUME NEW t \in Task, ReadForQuery(r, t) PROVE LeaseStep
  BY <1>1, NothingMoves, LeasesStand DEF ReadForQuery, storeVars, history
<1>2. ASSUME NEW found \in BOOLEAN, AskAgain(r, found) PROVE LeaseStep
  BY <1>2, NothingMoves, LeasesStand DEF AskAgain, history
<1>3. CASE AnswerLost(r)
  BY <1>3, NothingMoves, LeasesStand DEF AnswerLost, storeVars, history
<1>4. ASSUME NEW v \in Verdicts(look[r]), Answer(r, v) PROVE LeaseStep
  <2> DEFINE t == look[r].task
  <2>1. t # NoTask /\ Apply(t, v, look[r].late) /\ Strip({}) /\ UNCHANGED <<run, probing>>
    BY <1>4 DEF Answer
  <2>2. t \in Task /\ VerdictOK(v)
    BY <2>1, VerdictsOK DEF IInv, StoreInv, Look
  <2> HIDE DEF t
  <2>3. PICK m : Goes(meta[t], m) /\ meta' = [meta EXCEPT ![t] = m]
    BY <2>1, <2>2, ApplyGoes, UseTypes
  <2>4. \A u \in Task : Rests(u)
    BY <2>1, <2>2, <2>3, OneRests
  <2> QED BY <2>1, <2>4, LeasesStripped
<1> QED BY <1>1, <1>2, <1>3, <1>4 DEF Query

LEMMA AdminLease == ASSUME IInv, LeaseInv, NEW a \in Acct, Admin(a) PROVE LeaseStep
PROOF
<1>1. ASSUME NEW new, Administer(a, new) PROVE LeaseStep
  BY <1>1, NothingMoves, LeasesStripped DEF Administer, storeVars
<1>2. ASSUME NEW d \in Acct, MergeDuplicate(a, d) PROVE LeaseStep
  BY <1>2, NothingMoves, LeasesStripped DEF MergeDuplicate, storeVars
<1>3. CASE StartProbe(a)
  <2>1. /\ acct' = [acct EXCEPT ![a] = ClaimForMaintenance(acct[a])] /\ acct[a].lease = NoTask
        /\ probing' = a /\ UNCHANGED <<meta, run>> /\ UNCHANGED stripped
    BY <1>3 DEF StartProbe, Selectable, storeVars, history
  <2>2. acct'[a].lease = Maintenance /\ \A x \in Acct \ {a} : acct'[x] = acct[x]
    <3>1. ClaimForMaintenance(acct[a]).lease = Maintenance
      BY DEF IInv, AcctInv, ClaimForMaintenance, Account
    <3> QED BY <2>1, <3>1 DEF IInv, AcctInv
  <2>3. \A u \in Task, x \in Acct : Uses(u, x)' => Uses(u, x)
    BY <2>1 DEF Uses
  <2>4. \A u \in Task, x \in Acct : acct[x].lease = u => acct'[x].lease = u
    BY <2>1, <2>2, AccountConstants
  <2> QED BY <2>1, <2>2, <2>3, <2>4 DEF LeaseStep
<1>4. CASE AddAccount(a) \/ RemoveAccount(a) \/ SignInAgain(a) \/ ClearQuota(a) \/ UnmarkToday(a)
  BY <1>1, <1>4 DEF AddAccount, RemoveAccount, SignInAgain, ClearQuota, UnmarkToday
<1>5. CASE CoolDownEnds(a) \/ RepairCharges(a)
  BY <1>1, <1>5 DEF CoolDownEnds, RepairCharges
<1>6. CASE \E on \in BOOLEAN : SwitchAccount(a, on) \/ CleanUp(a, on)
  BY <1>1, <1>6 DEF SwitchAccount, CleanUp
<1>7. CASE \E limit \in {0, Limit} : ChangeLimit(a, limit)
  BY <1>1, <1>7 DEF ChangeLimit
<1> QED BY <1>2, <1>3, <1>4, <1>5, <1>6, <1>7 DEF Admin

LEMMA DayLease ==
  ASSUME IInv, LeaseInv, Midnight \/ ResetDay \/ ListAccounts \/ ClearListed PROVE LeaseStep
PROOF
<1>0. acct \in [Acct -> Account]
  BY DEF IInv, AcctInv
<1>1. CASE Midnight
  <2>1. /\ \A a \in Acct : acct'[a] = NextDay(acct[a])
        /\ UNCHANGED <<meta, run, probing>> /\ UNCHANGED stripped
    BY <1>1 DEF Midnight, storeVars, history
  <2>2. ASSUME NEW k \in Account PROVE NextDay(k).lease = k.lease
    <3> DEFINE l == [b \in Bucket |-> [k.ledger[b] EXCEPT !.exhausted = Past(k.ledger[b].exhausted)]]
               m == Past(k.marked)
               z == Past(k.reset)
               s == Past(k.synced)
    <3>1. NextDay(k) = [k EXCEPT !.marked = m, !.reset = z, !.synced = s, !.ledger = l]
      BY DEF NextDay
    <3> HIDE DEF l, m, z, s
    <3> QED BY <3>1 DEF Account
  <2>3. \A a \in Acct : acct'[a].lease = acct[a].lease
    BY <1>0, <2>1, <2>2
  <2> QED BY <2>1, <2>3, NothingMoves, LeasesStand
<1>2. CASE ResetDay
  <2>1. /\ \A a \in Acct : acct'[a] = IF Live(acct[a]) THEN DailyReset(acct[a], plat = "qianwen") ELSE acct[a]
        /\ UNCHANGED <<meta, run, probing>> /\ UNCHANGED stripped
    BY <1>2 DEF ResetDay, storeVars
  <2>2. ASSUME NEW k \in Account, NEW q \in BOOLEAN PROVE DailyReset(k, q).lease = k.lease
    BY DEF DailyReset, ReconcileQuotas, Account
  <2>3. \A a \in Acct : acct'[a].lease = acct[a].lease
    BY <1>0, <2>1, <2>2
  <2> QED BY <2>1, <2>3, NothingMoves, LeasesStand
<1>3. CASE ListAccounts
  BY <1>3, NothingMoves, LeasesStand DEF ListAccounts, storeVars, history
<1>4. CASE ClearListed
  BY <1>4, NothingMoves, LeasesStripped DEF ClearListed, storeVars
<1> QED BY <1>1, <1>2, <1>3, <1>4

LEMMA EndProbeLease ==
  ASSUME LeaseInv, NEW found \in {"valid", "invalid", "credit"}, EndProbe(found) PROVE LeaseStep
PROOF
<1>1. /\ probing' = NoAcct /\ UNCHANGED <<meta, run>>
      /\ stripped' = stripped \cup
           {x \in Acct : \E u \in Task : Uses(u, x) /\ acct[x].lease = u /\ acct'[x].lease # u}
  BY DEF EndProbe, storeVars
<1>2. NoAcct \notin Acct
  BY UseConstants
<1>3. \A u \in Task, x \in Acct : Uses(u, x)' => Uses(u, x)
  BY <1>1 DEF Uses
<1> QED BY <1>1, <1>2, <1>3 DEF LeaseStep

LEMMA InitLease == Init => LeaseInv
PROOF
<1> SUFFICES ASSUME Init PROVE LeaseInv
  OBVIOUS
<1>1. run = [t \in Task |-> NoRun] /\ probing = NoAcct
  BY DEF Init
<1>2. \A t \in Task, a \in Acct : ~Uses(t, a)
  <2>1. NoRun.stage = "none"
    BY DEF NoRun
  <2> QED BY <1>1, <2>1 DEF Uses
<1> QED BY <1>1, <1>2, UseConstants DEF LeaseInv

LEMMA StepLease == IInv /\ UseInv /\ LeaseInv /\ [Next]_vars => LeaseInv'
PROOF
<1> SUFFICES ASSUME IInv, UseInv, LeaseInv, [Next]_vars PROVE LeaseInv'
  OBVIOUS
<1>1. CASE UNCHANGED vars
  <2>1. UNCHANGED <<acct, meta, run, probing>> /\ UNCHANGED stripped
    BY <1>1 DEF vars
  <2> QED BY <2>1, NothingMoves, LeasesStand, LeaseStepInv
<1>2. ASSUME NEW t \in Task, Work(t) \/ Watch(t) \/ Expire(t) \/ \E admin \in BOOLEAN : Cancel(t, admin)
      PROVE  LeaseStep
  BY <1>2, WorkLease, WatchLease
<1>3. CASE Next
  <2>1. LeaseStep
    BY <1>2, <1>3, QueryLease, AdminLease, RestartWorkerLease, DayLease, EndProbeLease DEF Next
  <2> QED BY <2>1, LeaseStepInv
<1> QED BY <1>1, <1>3

\* No two runs, and no run and probe, work in the browser of one account, unless its
\* lease was taken from one of them (claim_account_for_worker, clear_account_current_task
\* and every mark on an account), for every number of tasks, accounts and queries.
THEOREM OneUserPerAccount == Spec => []AccountExclusive
PROOF
<1>1. LeaseInv => AccountExclusive
  <2> SUFFICES ASSUME LeaseInv, NEW a \in Acct \ stripped
               PROVE  /\ \A t, u \in Task : Uses(t, a) /\ Uses(u, a) => t = u
                      /\ probing = a => \A t \in Task : ~Uses(t, a)
    BY DEF AccountExclusive
  <2> QED BY AccountConstants DEF LeaseInv
<1>2. Init => LeaseInv
  BY InitLease
<1>3. IInv /\ UseInv /\ LeaseInv /\ [Next]_vars => LeaseInv'
  BY StepLease
<1> QED BY <1>1, <1>2, <1>3, AccountInvariant, UseInvariant, PTL DEF Spec

-----------------------------------------------------------------------------
(* The charge of a success.                                                   *)

Backing == {"charged", "settled"}

\* A lease that is new comes with a charge of its task.
LeaseFits(a, k) ==
  k.lease \in Task => \/ k.lease = a.lease /\ k.charge = a.charge
                      \/ k.charge \in Charge => k.charge[1] = k.lease

\* The account keeps its row and every charge that counts but x, and nothing is
\* entered into an account that is gone.
Holds(a, k, x) ==
  /\ k.row = a.row /\ LeaseFits(a, k)
  /\ ~Live(a) => \A b \in Bucket : k.ledger[b].st = a.ledger[b].st
  /\ \A b \in Bucket : \A c \in Charge :
       c # x /\ a.ledger[b].st[c] \in Backing => k.ledger[b].st[c] \in Backing

LEMMA HoldsItself == ASSUME NEW a, NEW x PROVE Holds(a, a, x)
PROOF
  BY DEF Holds, LeaseFits

LEMMA HoldsThen ==
  ASSUME NEW a, NEW k, NEW m, NEW x, Holds(a, k, x), Holds(k, m, x) PROVE Holds(a, m, x)
PROOF
<1>1. m.row = a.row /\ (Live(k) <=> Live(a))
  BY DEF Holds, Live
<1>2. LeaseFits(a, m)
  BY DEF Holds, LeaseFits
<1>3. \A b \in Bucket : \A c \in Charge :
        c # x /\ a.ledger[b].st[c] \in Backing => m.ledger[b].st[c] \in Backing
  BY DEF Holds
<1>4. ~Live(a) => \A b \in Bucket : m.ledger[b].st = a.ledger[b].st
  BY <1>1 DEF Holds
<1> QED BY <1>1, <1>2, <1>3, <1>4 DEF Holds

\* A change that leaves the ledgers alone.
LEMMA HoldsLedgers ==
  ASSUME NEW a, NEW k, NEW x, k.row = a.row, k.ledger = a.ledger, LeaseFits(a, k)
  PROVE  Holds(a, k, x)
PROOF
  BY DEF Holds

\* One ledger changes.
LEMMA HoldsUpdate ==
  ASSUME NEW a \in Account, Live(a), NEW b \in Bucket, NEW l, NEW x,
         \A c \in Charge : c # x /\ a.ledger[b].st[c] \in Backing => l.st[c] \in Backing
  PROVE  Holds(a, [a EXCEPT !.ledger[b] = l], x)
PROOF
<1> DEFINE k == [a EXCEPT !.ledger[b] = l]
<1>1. /\ k.row = a.row /\ k.lease = a.lease /\ k.charge = a.charge
      /\ a.ledger \in [Bucket -> Ledger] /\ k.ledger = [a.ledger EXCEPT ![b] = l]
  BY DEF Account
<1> HIDE DEF k
<1>2. \A e \in Bucket : k.ledger[e] = IF e = b THEN l ELSE a.ledger[e]
  BY <1>1
<1>3. Holds(a, k, x)
  BY <1>1, <1>2 DEF Holds, LeaseFits
<1> QED BY <1>3 DEF k

LEMMA PaysHolds ==
  ASSUME NEW a \in Account, NEW c, NEW l, NEW x,
         \A e \in Charge : e # x /\ LedgerOf(a, c).st[e] \in Backing => l.st[e] \in Backing
  PROVE  Holds(a, Pays(a, c, l), x)
PROOF
<1>1. CASE c = NoCharge \/ ~Live(a)
  BY <1>1, HoldsItself DEF Pays
<1>2. CASE ~(c = NoCharge \/ ~Live(a))
  <2> DEFINE b == BucketOf(c[1])
  <2>1. b \in Bucket /\ Pays(a, c, l) = [a EXCEPT !.ledger[b] = l]
    BY <1>2, BucketOfType DEF Pays
  <2>2. \A e \in Charge : e # x /\ a.ledger[b].st[e] \in Backing => l.st[e] \in Backing
    BY DEF LedgerOf
  <2> HIDE DEF b
  <2> QED BY <1>2, <2>1, <2>2, HoldsUpdate
<1> QED BY <1>1, <1>2

\* Only a refund and an exhaustion take a charge, the one that they are called with.
LEMMA LedgerTakes ==
  ASSUME NEW l \in Ledger, NEW c
  PROVE  /\ \A e \in Charge : l.st[e] \in Backing => SettleQuota(l, c).st[e] \in Backing
         /\ \A e \in Charge : l.st[e] \in Backing => ExhaustTimedOut(l, c).st[e] \in Backing
         /\ \A e \in Charge : e # c /\ l.st[e] \in Backing => RefundQuota(l, c).st[e] \in Backing
         /\ \A e \in Charge : e # c /\ l.st[e] \in Backing => ExhaustQuota(l, c).st[e] \in Backing
         /\ \A e \in Charge : e # c /\ l.st[e] \in Backing =>
              ExhaustStudioQuota(l, c).st[e] \in Backing
PROOF
<1>1. l.st \in [Charge -> ChargeStatus]
  BY DEF Ledger
<1>2. \A e \in Charge : l.st[e] \in Backing => SettleQuota(l, c).st[e] \in Backing
  BY <1>1 DEF SettleQuota, Recompute, Ledger, Backing
<1>3. \A e \in Charge : e # c /\ l.st[e] \in Backing => RefundQuota(l, c).st[e] \in Backing
  BY <1>1 DEF RefundQuota, Recompute, Ledger, Backing
<1>4. InitializeLedger(l) \in Ledger /\ InitializeLedger(l).st = l.st
  BY DEF InitializeLedger, Ledger
<1>5. \A e \in Charge : l.st[e] \in Backing => ExhaustTimedOut(l, c).st[e] \in Backing
  <2> DEFINE k == InitializeLedger(l)
             n == IF k.st[c] = "none" THEN 1 ELSE k.units[c]
             m == [k EXCEPT !.st[c] = "settled", !.units[c] = n]
             u == ReconciledUsed(m)
  <2>1. ExhaustTimedOut(l, c) = [[m EXCEPT !.used = u] EXCEPT !.exhausted = "today"]
    BY DEF ExhaustTimedOut, Recompute
  <2> HIDE DEF u, n
  <2>2. m.st = [l.st EXCEPT ![c] = "settled"]
    BY <1>4 DEF Ledger
  <2>3. ExhaustTimedOut(l, c).st = m.st
    BY <1>4, <2>1 DEF Ledger
  <2> QED BY <1>1, <2>2, <2>3 DEF Backing
<1>6. \A e \in Charge : e # c /\ l.st[e] \in Backing => ExhaustQuota(l, c).st[e] \in Backing
  <2> DEFINE limit == AtLeast(l.limit, 1)
             s     == IF l.st[c] = "charged" THEN "refunded" ELSE l.st[c]
             k     == [l EXCEPT !.st[c] = s, !.limit = limit, !.exhausted = "today"]
             z     == IF ActiveUnits(k) < limit THEN limit - ActiveUnits(k) ELSE 0
             based == [k EXCEPT !.base = z]
             u     == AtLeast(limit, ReconciledUsed(based))
             w     == AtLeast(limit, l.used)
  <2>1. ExhaustQuota(l, c) = IF l.init THEN [based EXCEPT !.used = u]
                             ELSE [l EXCEPT !.limit = limit, !.used = w, !.exhausted = "today"]
    BY DEF ExhaustQuota
  <2> HIDE DEF limit, z, u, w, s
  <2>2. based.st = [l.st EXCEPT ![c] = s]
    BY DEF Ledger
  <2>3. ExhaustQuota(l, c).st \in {based.st, l.st}
    BY <2>1 DEF Ledger
  <2> HIDE DEF based
  <2> QED BY <1>1, <2>2, <2>3
<1>7. \A e \in Charge : e # c /\ l.st[e] \in Backing =>
        ExhaustStudioQuota(l, c).st[e] \in Backing
  <2> DEFINE limit == AtLeast(l.limit, 1)
             i     == InitializeLedger(l)
             s     == IF i.st[c] = "settled" THEN "settled" ELSE "refunded"
             k     == [i EXCEPT !.st[c] = s, !.limit = limit, !.exhausted = "today"]
             z     == IF ActiveUnits(k) < limit THEN limit - ActiveUnits(k) ELSE 0
             based == [k EXCEPT !.base = z]
             u     == AtLeast(limit, ReconciledUsed(based))
  <2>1. ExhaustStudioQuota(l, c) = [based EXCEPT !.used = u]
    BY DEF ExhaustStudioQuota
  <2> HIDE DEF limit, z, u, s
  <2>2. based.st = [l.st EXCEPT ![c] = s]
    BY <1>4 DEF Ledger
  <2>3. ExhaustStudioQuota(l, c).st = based.st
    BY <1>4, <2>1 DEF Ledger
  <2> HIDE DEF based
  <2> QED BY <1>1, <2>2, <2>3
<1> QED BY <1>2, <1>3, <1>5, <1>6, <1>7

LEMMA PaidHolds ==
  ASSUME NEW a \in Account, NEW c, NEW x
  PROVE  /\ Holds(a, Settle(a, c), x) /\ Holds(a, TimedOut(a, c), x)
         /\ Holds(a, Refund(a, c), c) /\ Holds(a, Exhaust(a, c), c) /\ Holds(a, Consume(a, c), c)
         /\ \A money \in {"refund", "settle", "consume", "exhaust", "timedOut"} :
              Holds(a, Paid(a, c, money), c)
         /\ Holds(a, Paid(a, c, "settle"), x)
PROOF
<1>1. LedgerOf(a, c) \in Ledger
  BY BucketOfType DEF LedgerOf, Account
<1>2. \A y : Holds(a, Settle(a, c), y) /\ Holds(a, TimedOut(a, c), y)
  BY <1>1, LedgerTakes, PaysHolds DEF Settle, TimedOut
<1>3. Holds(a, Refund(a, c), c)
  BY <1>1, LedgerTakes, PaysHolds DEF Refund
<1>4. Holds(a, Exhaust(a, c), c)
  <2> DEFINE l == IF BucketOf(c[1]) = "studio" THEN ExhaustStudioQuota(LedgerOf(a, c), c)
                  ELSE ExhaustQuota(LedgerOf(a, c), c)
  <2>1. \A e \in Charge : e # c /\ LedgerOf(a, c).st[e] \in Backing => l.st[e] \in Backing
    BY <1>1, LedgerTakes
  <2>2. Exhaust(a, c) = Pays(a, c, l)
    BY DEF Exhaust
  <2> HIDE DEF l
  <2> QED BY <2>1, <2>2, PaysHolds
<1>5. Holds(a, Consume(a, c), c)
  BY <1>2, <1>3 DEF Consume
<1>6. /\ \A money \in {"refund", "settle", "consume", "exhaust", "timedOut"} :
           Holds(a, Paid(a, c, money), c)
      /\ Holds(a, Paid(a, c, "settle"), x)
  BY <1>2, <1>3, <1>4, <1>5 DEF Paid
<1> QED BY <1>2, <1>3, <1>4, <1>5, <1>6

\* The lease and the marks leave every charge alone.
LEMMA LeaseHolds ==
  ASSUME NEW a \in Account, NEW x
  PROVE  /\ \A t : Holds(a, ClearCurrentTask(a, t), x)
         /\ \A t, c : c \in Charge /\ c[1] = t => Holds(a, RestoreCurrentTask(a, t, c), x)
         /\ Holds(a, ClaimForMaintenance(a), x)
PROOF
<1>0. NoTask \notin Task /\ Maintenance \notin Task /\ NoCharge \notin Charge
  BY AccountConstants
<1>1. ASSUME NEW t PROVE Holds(a, ClearCurrentTask(a, t), x)
  <2> DEFINE k == ClearCurrentTask(a, t)
  <2>1. k = a \/ (k.row = a.row /\ k.ledger = a.ledger /\ k.lease = NoTask)
    BY DEF ClearCurrentTask, Account
  <2> HIDE DEF k
  <2>2. Holds(a, k, x)
    BY <1>0, <2>1, HoldsItself, HoldsLedgers DEF LeaseFits
  <2> QED BY <2>2 DEF k
<1>2. ASSUME NEW t, NEW c \in Charge, c[1] = t PROVE Holds(a, RestoreCurrentTask(a, t, c), x)
  <2> DEFINE k == RestoreCurrentTask(a, t, c)
  <2>1. \/ k = a
        \/ k.row = a.row /\ k.ledger = a.ledger /\ k.lease = t /\ k.charge = c
    BY <1>0, <1>2 DEF RestoreCurrentTask, Account
  <2> HIDE DEF k
  <2>2. Holds(a, k, x)
    BY <1>2, <2>1, HoldsItself, HoldsLedgers DEF LeaseFits
  <2> QED BY <2>2 DEF k
<1>3. Holds(a, ClaimForMaintenance(a), x)
  <2> DEFINE k == ClaimForMaintenance(a)
  <2>1. k.row = a.row /\ k.ledger = a.ledger /\ k.lease = Maintenance
    BY DEF ClaimForMaintenance, Account
  <2> HIDE DEF k
  <2>2. Holds(a, k, x)
    BY <1>0, <2>1, HoldsLedgers DEF LeaseFits
  <2> QED BY <2>2 DEF k
<1> QED BY <1>1, <1>2, <1>3

\* A mark: the lease stays with its charge, or is given up.
Marks(a, k) ==
  /\ k.row = a.row /\ k.ledger = a.ledger /\ k.charge = a.charge /\ k.lease \in {a.lease, NoTask}

LEMMA MarksHold ==
  ASSUME NEW a \in Account, NEW x
  PROVE  /\ Holds(a, DisableForLogin(a), x) /\ Holds(a, MarkTextOnly(a), x)
         /\ Holds(a, MarkRegionRestricted(a), x) /\ Holds(a, MarkSliderVerification(a), x)
         /\ Holds(a, MarkTenSecondLimit(a), x) /\ Holds(a, SetCooldown(a), x)
         /\ Holds(a, UpdateCookies(a), x) /\ Holds(a, Reinstate(a), x)
         /\ Holds(a, [a EXCEPT !.cooling = FALSE], x)
         /\ \A on : Holds(a, SetEnabled(a, on), x)
         /\ \A mark \in {"", "login", "slider", "tenSecond"} : Holds(a, Marked(a, mark), x)
PROOF
<1>1. ASSUME NEW k, Marks(a, k) PROVE Holds(a, k, x)
  BY <1>1, AccountConstants, HoldsLedgers DEF Marks, LeaseFits
<1>2. /\ Marks(a, DisableForLogin(a)) /\ Marks(a, MarkTextOnly(a)) /\ Marks(a, Reinstate(a))
      /\ Marks(a, MarkRegionRestricted(a)) /\ Marks(a, MarkSliderVerification(a))
  BY DEF Marks, DisableForLogin, MarkTextOnly, MarkRegionRestricted, MarkSliderVerification,
         Reinstate, Account
<1>3. /\ Marks(a, MarkTenSecondLimit(a)) /\ Marks(a, SetCooldown(a)) /\ Marks(a, UpdateCookies(a))
      /\ Marks(a, [a EXCEPT !.cooling = FALSE]) /\ \A on : Marks(a, SetEnabled(a, on))
  BY DEF Marks, MarkTenSecondLimit, SetCooldown, UpdateCookies, SetEnabled, Account
<1>4. \A mark \in {"", "login", "slider", "tenSecond"} : Holds(a, Marked(a, mark), x)
  BY <1>1, <1>2, <1>3, HoldsItself DEF Marked
<1> QED BY <1>1, <1>2, <1>3, <1>4

\* The charge is moved, and the lease is given up before or after it.
LEMMA ReleasedHolds ==
  ASSUME NEW a \in Account, NEW t, NEW c \in Charge \cup {NoCharge}, NEW x
  PROVE  /\ Holds(a, Refund(ClearCurrentTask(a, t), c), c)
         /\ Holds(a, Consume(ClearCurrentTask(a, t), c), c)
         /\ Holds(a, ClearCurrentTask(Settle(a, c), t), x)
         /\ Holds(a, ClearCurrentTask(Refund(a, c), t), c)
         /\ Holds(a, ClearCurrentTask(TimedOut(a, c), t), x)
PROOF
<1> DEFINE C == Charge
           k == ClearCurrentTask(a, t)
<1>1. Holds(a, k, c) /\ k \in Account
  BY LeaseKeeps, LeaseHolds DEF Keeps
<1> HIDE DEF k
<1>2. Holds(k, Refund(k, c), c) /\ Holds(k, Consume(k, c), c)
  BY <1>1, PaidHolds
<1>3. ASSUME NEW m, NEW y, Keeps(a, m, C), Holds(a, m, y) PROVE Holds(a, ClearCurrentTask(m, t), y)
  <2>1. m \in Account
    BY <1>3 DEF Keeps
  <2>2. Holds(m, ClearCurrentTask(m, t), y)
    BY <2>1, LeaseHolds
  <2> QED BY <1>3, <2>2, HoldsThen
<1>4. Keeps(a, Settle(a, c), C) /\ Keeps(a, Refund(a, c), C) /\ Keeps(a, TimedOut(a, c), C)
  BY SettleKeeps, RefundKeeps, TimedOutKeeps
<1>5. /\ Holds(a, ClearCurrentTask(Settle(a, c), t), x) /\ Holds(a, ClearCurrentTask(Refund(a, c), t), c)
      /\ Holds(a, ClearCurrentTask(TimedOut(a, c), t), x)
  BY <1>3, <1>4, PaidHolds
<1>6. Holds(a, Refund(k, c), c) /\ Holds(a, Consume(k, c), c)
  BY <1>1, <1>2, HoldsThen
<1> QED BY <1>5, <1>6 DEF k

LEMMA AnsweredHolds ==
  ASSUME NEW a \in Account, NEW t, NEW c \in Charge \cup {NoCharge},
         NEW mark \in {"", "login", "slider", "tenSecond"},
         NEW money \in {"refund", "settle", "consume", "exhaust", "timedOut"},
         NEW x \in {c, NoCharge}, x = c \/ money = "settle"
  PROVE  /\ Holds(a, Paid(Marked(a, mark), c, money), x)
         /\ Holds(a, ClearCurrentTask(Paid(Marked(a, mark), c, money), t), x)
PROOF
<1> DEFINE m == Marked(a, mark)
           k == Paid(m, c, money)
<1>1. Holds(a, m, x) /\ m \in Account
  BY MarksHold, MarkedKeeps DEF Keeps
<1> HIDE DEF m
<1>2. Holds(m, k, x) /\ Keeps(m, k, Charge)
  BY <1>1, PaidHolds, PaidKeeps
<1> HIDE DEF k
<1>3. Holds(a, k, x) /\ k \in Account
  BY <1>1, <1>2, HoldsThen DEF Keeps
<1>4. Holds(k, ClearCurrentTask(k, t), x)
  BY <1>3, LeaseHolds
<1>5. Holds(a, ClearCurrentTask(k, t), x)
  BY <1>3, <1>4, HoldsThen
<1> QED BY <1>3, <1>5 DEF k, m

LEMMA ReleaseAfterFailureHolds ==
  ASSUME NEW a \in Account, NEW t, NEW c \in Charge \cup {NoCharge}, NEW kind \in FailureKind
  PROVE  Holds(a, ReleaseAfterFailure(a, t, c, kind), c)
PROOF
<1> DEFINE k == ClearCurrentTask(a, t)
<1>1. Holds(a, k, c) /\ k \in Account
  BY LeaseHolds, LeaseKeeps DEF Keeps
<1>2. ReleaseAfterFailure(a, t, c, kind) =
        CASE kind = "login"    -> Refund(DisableForLogin(k), c)
          [] kind = "slider"   -> Refund(MarkSliderVerification(k), c)
          [] kind = "textOnly" -> Refund(MarkTextOnly(k), c)
          [] kind = "region"   -> Refund(MarkRegionRestricted(k), c)
          [] kind = "quota"    -> Exhaust(k, c)
          [] kind = "infra"    -> Refund(k, c)
          [] kind = "cool"     -> SetCooldown(k)
          [] kind = "plain"    -> k
  BY DEF ReleaseAfterFailure
<1> HIDE DEF k
<1>3. ASSUME NEW m, Holds(k, m, c), Keeps(k, m, Charge) PROVE Holds(k, Refund(m, c), c)
  <2>1. Holds(m, Refund(m, c), c)
    BY <1>3, PaidHolds DEF Keeps
  <2> QED BY <1>3, <2>1, HoldsThen
<1>4. /\ Keeps(k, k, Charge) /\ Keeps(k, DisableForLogin(k), Charge)
      /\ Keeps(k, MarkSliderVerification(k), Charge) /\ Keeps(k, MarkTextOnly(k), Charge)
      /\ Keeps(k, MarkRegionRestricted(k), Charge)
  BY <1>1, MarksKeep, KeepsItself
<1>5. /\ Holds(k, k, c) /\ Holds(k, DisableForLogin(k), c) /\ Holds(k, MarkSliderVerification(k), c)
      /\ Holds(k, MarkTextOnly(k), c) /\ Holds(k, MarkRegionRestricted(k), c)
      /\ Holds(k, SetCooldown(k), c) /\ Holds(k, Exhaust(k, c), c)
  BY <1>1, MarksHold, HoldsItself, PaidHolds
<1>6. Holds(k, ReleaseAfterFailure(a, t, c, kind), c)
  BY <1>2, <1>3, <1>4, <1>5 DEF FailureKind
<1> QED BY <1>1, <1>6, HoldsThen

\* The charge of a claim is entered; that of the task that had the account before stays.
LEMMA ClaimAccountHolds ==
  ASSUME NEW a \in Account, NEW t \in Task, NEW c \in Charge, c[1] = t, Live(a), NEW x
  PROVE  /\ Holds(a, ClaimAccount(a, t, BucketOf(t), c, 1), x)
         /\ ClaimAccount(a, t, BucketOf(t), c, 1).ledger[BucketOf(t)].st[c] = "charged"
PROOF
<1> DEFINE b == BucketOf(t)
           i == InitializeLedger(a.ledger[b])
           n == [i EXCEPT !.st[c] = "charged", !.units[c] = 1]
           u == ReconciledUsed(n)
           l == [n EXCEPT !.used = u]
           k == [a EXCEPT !.ledger[b] = l]
           m == [a EXCEPT !.lease = t, !.charge = c, !.ledger[b] = l]
<1>1. b \in Bucket /\ a.ledger[b] \in Ledger
  BY BucketOfType DEF Account
<1>2. m = ClaimAccount(a, t, b, c, 1)
  BY DEF ClaimAccount, ChargeQuota, Recompute
<1>3. i \in Ledger /\ i.st = a.ledger[b].st
  BY <1>1 DEF InitializeLedger, Ledger
<1> HIDE DEF u, i, b
<1>4. l.st = [a.ledger[b].st EXCEPT ![c] = "charged"] /\ a.ledger[b].st \in [Charge -> ChargeStatus]
  BY <1>1, <1>3 DEF Ledger
<1> HIDE DEF l
<1>5. \A e \in Charge : a.ledger[b].st[e] \in Backing => l.st[e] \in Backing
  BY <1>4 DEF Backing
<1>6. Holds(a, k, x)
  BY <1>1, <1>5, HoldsUpdate
<1>7. /\ m.row = k.row /\ m.ledger = k.ledger /\ m.lease = t /\ m.charge = c
      /\ m.ledger[b] = l
  BY <1>1 DEF Account
<1> HIDE DEF k, m
<1>8. Holds(k, m, x)
  BY <1>7, HoldsLedgers DEF LeaseFits
<1>9. Holds(a, m, x)
  BY <1>6, <1>8, HoldsThen
<1>10. m.ledger[b].st[c] = "charged"
  BY <1>4, <1>7
<1> QED BY <1>2, <1>9, <1>10 DEF b

\* Limits, repairs and merges only add charges.
LEMMA DefaultHolds ==
  ASSUME NEW a \in Account, NEW x, Live(a)
  PROVE  /\ \A limit : Holds(a, [a EXCEPT !.ledger["default"] = SetLimit(@, limit)], x)
         /\ \A D : Holds(a, [a EXCEPT !.ledger["default"] = AddMissingCharges(@, D)], x)
         /\ \A d \in Account : Holds(a, MergeAccounts(a, d), x)
PROOF
<1> DEFINE l == a.ledger["default"]
<1>1. l \in Ledger /\ "default" \in Bucket /\ l.st \in [Charge -> ChargeStatus]
  BY DEF Account, Bucket, Ledger
<1>2. ASSUME NEW n, \A c \in Charge : l.st[c] \in Backing => n.st[c] \in Backing
      PROVE  Holds(a, [a EXCEPT !.ledger["default"] = n], x)
  BY <1>1, <1>2, HoldsUpdate
<1> HIDE DEF l
<1>3. ASSUME NEW limit PROVE SetLimit(l, limit).st = l.st
  BY <1>1 DEF SetLimit, Ledger
<1>4. ASSUME NEW D, NEW c \in Charge, l.st[c] \in Backing
      PROVE  AddMissingCharges(l, D).st[c] \in Backing
  <2> DEFINE missing == {e \in D : l.st[e] = "none"}
             n    == Cardinality(missing)
             base == IF l.used > n THEN l.used - n ELSE 0
             k    == IF l.init THEN l ELSE [l EXCEPT !.init = TRUE, !.base = base]
             s    == [e \in Charge |-> IF e \in missing THEN "settled" ELSE k.st[e]]
             u    == [e \in Charge |-> IF e \in missing THEN 1 ELSE k.units[e]]
             m    == [k EXCEPT !.st = s, !.units = u]
             used == ReconciledUsed(m)
             w    == [m EXCEPT !.used = used]
  <2>1. AddMissingCharges(l, D) = IF missing = {} THEN l ELSE w
    BY DEF AddMissingCharges, Recompute
  <2>2. k.st = l.st /\ DOMAIN k = DOMAIN l
    BY <1>1 DEF Ledger
  <2>3. s[c] = l.st[c]
    BY <1>4, <2>2 DEF Backing
  <2> HIDE DEF missing, k, s, u, used
  <2>4. w.st = s
    BY <1>1, <2>2 DEF Ledger
  <2> HIDE DEF w
  <2> QED BY <1>4, <2>1, <2>3, <2>4
<1>5. ASSUME NEW d \in Ledger, NEW c \in Charge, l.st[c] \in Backing
      PROVE  MergeLedgers(l, d).st[c] \in Backing
  <2> DEFINE st    == [e \in Charge |-> IF l.st[e] = "none" THEN d.st[e] ELSE l.st[e]]
             units == [e \in Charge |-> IF l.st[e] = "none" THEN d.units[e] ELSE l.units[e]]
             base  == AtLeast(l.base, d.base)
             m     == [l EXCEPT !.init = TRUE, !.base = base, !.st = st, !.units = units]
             used  == ReconciledUsed(m)
             w     == [m EXCEPT !.used = used]
  <2>1. MergeLedgers(l, d) = IF \A e \in Charge : st[e] = "none" THEN l ELSE w
    BY DEF MergeLedgers, Recompute
  <2>2. st[c] = l.st[c]
    BY <1>5 DEF Backing
  <2> HIDE DEF st, units, base, used
  <2>3. w.st = st
    BY <1>1 DEF Ledger
  <2> HIDE DEF w
  <2> QED BY <1>5, <2>1, <2>2, <2>3
<1>6. /\ \A limit : Holds(a, [a EXCEPT !.ledger["default"] = SetLimit(l, limit)], x)
      /\ \A D : Holds(a, [a EXCEPT !.ledger["default"] = AddMissingCharges(l, D)], x)
  BY <1>2, <1>3, <1>4
<1>7. ASSUME NEW d \in Account PROVE Holds(a, MergeAccounts(a, d), x)
  <2>1. d.ledger["default"] \in Ledger
    BY <1>1 DEF Account
  <2> QED BY <1>2, <1>5, <2>1 DEF MergeAccounts, l
<1> QED BY <1>6, <1>7 DEF l

LEMMA ReconcileLedgerStatus ==
  ASSUME NEW l \in Ledger
  PROVE  ReconcileLedger(l).st = l.st /\ InitializeLedger(l).st = l.st
PROOF
  BY DEF ReconcileLedger, Recompute, InitializeLedger, Ledger

LEMMA QuotasHold ==
  ASSUME NEW a \in Account, NEW x, Live(a)
  PROVE  /\ \A qianwen : Holds(a, ReconcileQuotas(a, qianwen), x)
         /\ \A available : Holds(a, SyncCredit(a, available, NoCharge), x)
PROOF
<1>1. \A b \in Bucket : a.ledger[b] \in Ledger
  BY DEF Account
<1>2. ASSUME NEW b \in Bucket PROVE Holds(a, [a EXCEPT !.ledger[b] = ReconcileLedger(a.ledger[b])], x)
  BY <1>1, HoldsUpdate, ReconcileLedgerStatus
<1>3. \A qianwen : Holds(a, ReconcileQuotas(a, qianwen), x)
  BY <1>2, HoldsItself DEF ReconcileQuotas, Bucket
<1>4. ASSUME NEW available PROVE Holds(a, SyncCredit(a, available, NoCharge), x)
  <2> DEFINE s      == a.ledger["studio"]
             l      == InitializeLedger(s)
             used   == ReconciledUsed(l)
             before == IF used > 0 THEN used - 0 ELSE 0
             limit  == before + available
             exhausted == IF available >= 0 THEN "" ELSE l.exhausted
             n == [l EXCEPT !.limit = limit, !.used = used, !.exhausted = exhausted]
             k == [a EXCEPT !.ledger["studio"] = n]
             m == [a EXCEPT !.synced = "today", !.available = available, !.usedThen = before,
                            !.ledger["studio"] = n]
  <2>1. m = SyncCredit(a, available, NoCharge)
    BY DEF SyncCredit
  <2>2. s \in Ledger /\ "studio" \in Bucket
    BY <1>1 DEF Bucket
  <2>3. l \in Ledger /\ l.st = s.st
    BY <2>2, InitializeLedgerType
  <2> HIDE DEF l, used, before, limit, exhausted
  <2>4. n.st = s.st
    BY <2>3 DEF Ledger
  <2> HIDE DEF n
  <2>5. Holds(a, k, x)
    BY <2>2, <2>4, HoldsUpdate
  <2>6. m.row = k.row /\ m.ledger = k.ledger /\ m.lease = k.lease /\ m.charge = k.charge
    BY <2>2 DEF Account
  <2> HIDE DEF k, m
  <2>7. Holds(k, m, x)
    BY <2>6, HoldsLedgers DEF LeaseFits
  <2> QED BY <2>1, <2>5, <2>7, HoldsThen
<1> QED BY <1>3, <1>4

LEMMA NextDayHolds ==
  ASSUME NEW a \in Account, NEW x PROVE Holds(a, NextDay(a), x)
PROOF
<1> DEFINE f == [b \in Bucket |-> [a.ledger[b] EXCEPT !.exhausted = Past(a.ledger[b].exhausted)]]
           d == Past(a.marked)
           e == Past(a.reset)
           g == Past(a.synced)
           k == [a EXCEPT !.marked = d, !.reset = e, !.synced = g, !.ledger = f]
<1>1. k = NextDay(a)
  BY DEF NextDay
<1>2. ASSUME NEW b \in Bucket PROVE f[b].st = a.ledger[b].st
  <2>1. a.ledger[b] \in Ledger
    BY DEF Account
  <2> QED BY <2>1 DEF Ledger
<1> HIDE DEF d, e, f, g
<1>3. k.row = a.row /\ k.lease = a.lease /\ k.charge = a.charge /\ k.ledger = f
  BY DEF Account
<1> HIDE DEF k
<1>4. Holds(a, k, x)
  BY <1>2, <1>3 DEF Holds, LeaseFits
<1> QED BY <1>1, <1>4

\* The ledgers are emptied or the account is gone: its lease ends, or stays.
LEMMA EmptiedFits ==
  ASSUME NEW a \in Account, NEW q
  PROVE  /\ LeaseFits(a, DeleteAccount(a)) /\ LeaseFits(a, NewAccount(TRUE, Limit, Limit, q))
         /\ LeaseFits(a, ResetQuota(a, q))
         /\ a.reset # "today" => LeaseFits(a, DailyReset(a, q))
PROOF
<1>1. NoTask \notin Task
  BY AccountConstants
<1>2. LeaseFits(a, DeleteAccount(a)) /\ LeaseFits(a, NewAccount(TRUE, Limit, Limit, q))
  BY <1>1 DEF LeaseFits, DeleteAccount, NewAccount, NoAccountYet
<1>3. LeaseFits(a, ResetQuota(a, q))
  BY DEF LeaseFits, ResetQuota, Account
<1>4. a.reset # "today" => LeaseFits(a, DailyReset(a, q))
  BY DEF LeaseFits, DailyReset, Account
<1> QED BY <1>2, <1>3, <1>4

\* The charge counts where it was drawn, or has left with its ledger; one that is
\* settled counts for good.
BackedAt(c, a) == c \in dropped \/ acct[a].ledger[BucketOf(c[1])].st[c] \in Backing
Firm(c) == c \in dropped \/ \E a \in Acct, b \in Bucket : acct[a].ledger[b].st[c] = "settled"

\* The owner has paid, and the attempts of the task went the ordinary way.
Open(t) == ~returned[t] /\ t \notin torn

\* What is remembered of charges for a task are charges of the task.
ChargesFit(t) ==
  /\ run[t].charge \in Charge => run[t].charge[1] = t
  /\ res[t].charge \in Charge => res[t].charge[1] = t
  /\ run[t].stage = "claimed" => run[t].acc = NoAcct
  /\ \A r \in Reader : look[r].task = t =>
       /\ look[r].charge \in Charge => look[r].charge[1] = t
       /\ look[r].charge = res[t].charge => look[r].acc = res[t].acc

\* Who asks for a late result asks for a task whose owner was refunded.
LateFits(t) ==
  /\ meta[t].late => returned[t]
  /\ \A r \in Reader : look[r].task = t /\ look[r].late => returned[t]

\* The attempt under way is paid for: the one in the browser, and the submitted one.
RunPaid(t) == run[t].stage = "held" => BackedAt(run[t].charge, run[t].acc)
ResPaid(t) == res[t].acc # NoAcct /\ ~Ended(t) => BackedAt(res[t].charge, res[t].acc)
PaidFor(t) == Open(t) => RunPaid(t) /\ ResPaid(t)

\* SuccessCounted, with a charge that nothing takes back any more.
SuccessFits(t) ==
  meta[t].status = "success" /\ Open(t) => \E c \in Charge : c[1] = t /\ Firm(c)

CountFits(t) == ChargesFit(t) /\ LateFits(t) /\ PaidFor(t) /\ SuccessFits(t)

\* An account that is gone has no charges, and a lease comes with a charge of its task.
AcctFits(a) ==
  /\ ~Live(acct[a]) => \A b \in Bucket : \A c \in Charge : acct[a].ledger[b].st[c] = "none"
  /\ acct[a].lease \in Task /\ acct[a].charge \in Charge => acct[a].charge[1] = acct[a].lease

CountInv == (\A t \in Task : CountFits(t)) /\ (\A a \in Acct : AcctFits(a))

\* A step takes at most the charge x.
HoldsStep(x) ==
  \A a \in Acct : \/ Holds(acct[a], acct'[a], x)
                  \/ /\ Empties(acct[a], acct'[a]) /\ LeaseFits(acct[a], acct'[a])
                     /\ ChargesIn(acct[a]) \subseteq dropped'

\* A record that neither becomes a success nor is watched for a late result.
Plain(m, k) == (k.status = "success" => m.status = "success") /\ (k.late => m.late)

\* What a step that takes x does to a task.  Its record becomes a success only with a
\* charge that is firm.  Its run ends, goes on and is not what x pays for, is claimed or
\* has submitted, or has taken an account for a charge of its own.  Its result is
\* cleared, kept and not what x pays for, or becomes that of the run.
MetaTakes(t) ==
  /\ returned[t] => returned'[t]
  /\ meta[t].status \in Terminal => meta'[t].status \in Terminal
  /\ \/ returned'[t]
     \/ Plain(meta[t], meta'[t])
     \/ /\ meta'[t].late => meta[t].late
        /\ Open(t)' => \E c \in Charge : c[1] = t /\ Firm(c)'

RunTakes(t, x) ==
  \/ run'[t] = NoRun
  \/ run'[t] = run[t] /\ (run[t].stage = "held" /\ Open(t)' => x # run[t].charge)
  \/ /\ run'[t].stage # "held" /\ run'[t].charge = run[t].charge
     /\ run'[t].stage = "claimed" => run'[t].acc = NoAcct
  \/ /\ run'[t].stage = "held" /\ run'[t].charge[1] = t
     /\ run'[t].charge \in Charge /\ RunPaid(t)'

ResTakes(t, x) ==
  \/ res'[t] = NoRes
  \/ /\ res'[t].acc = res[t].acc /\ res'[t].charge = res[t].charge
     /\ res[t].acc # NoAcct /\ Open(t)' /\ meta'[t].status \notin Terminal => x # res[t].charge
  \/ /\ run[t].stage = "held" /\ x # run[t].charge
     /\ res'[t].acc = run[t].acc /\ res'[t].charge = run[t].charge

Takes(t, x) == MetaTakes(t) /\ RunTakes(t, x) /\ ResTakes(t, x)

\* The frame of every step below.
Frame == SettledStep /\ LooksStay /\ dropped \subseteq dropped' /\ plat' = plat

LEMMA AcctsFit ==
  ASSUME NEW x, \A a \in Acct : AcctFits(a), HoldsStep(x) PROVE \A a \in Acct : AcctFits(a)'
PROOF
<1> SUFFICES ASSUME NEW a \in Acct PROVE AcctFits(a)'
  OBVIOUS
<1> DEFINE k == acct[a]
           m == acct'[a]
<1>1. \/ Holds(k, m, x)
      \/ Empties(k, m) /\ LeaseFits(k, m)
  BY DEF HoldsStep
<1>2. LeaseFits(k, m)
  BY <1>1 DEF Holds
<1>3. m.lease \in Task /\ m.charge \in Charge => m.charge[1] = m.lease
  BY <1>2 DEF AcctFits, LeaseFits
<1>4. ~Live(m) => \A b \in Bucket : \A c \in Charge : m.ledger[b].st[c] = "none"
  <2>1. CASE Holds(k, m, x)
    BY <2>1 DEF Holds, AcctFits, Live
  <2>2. CASE Empties(k, m)
    BY <2>2 DEF Empties
  <2> QED BY <1>1, <2>1, <2>2
<1> QED BY <1>3, <1>4 DEF AcctFits

\* BackedAt after the step, for a charge and an account of before it.
BackedNext(c, a) == c \in dropped' \/ acct'[a].ledger[BucketOf(c[1])].st[c] \in Backing

LEMMA BackedStays ==
  ASSUME NEW x, HoldsStep(x), dropped \subseteq dropped',
         NEW a \in Acct, NEW c \in Charge, c # x, BackedAt(c, a)
  PROVE  BackedNext(c, a)
PROOF
<1>1. CASE c \in dropped
  BY <1>1 DEF BackedNext
<1>2. CASE c \notin dropped
  <2> DEFINE b == BucketOf(c[1])
  <2>1. b \in Bucket
    BY BucketOfType
  <2>2. acct[a].ledger[b].st[c] \in Backing
    BY <1>2 DEF BackedAt
  <2>3. acct'[a].ledger[b].st[c] \in Backing \/ c \in dropped'
    <3>1. CASE Holds(acct[a], acct'[a], x)
      BY <2>1, <2>2, <3>1 DEF Holds
    <3>2. CASE ChargesIn(acct[a]) \subseteq dropped'
      BY <2>1, <2>2, <3>2 DEF ChargesIn, Backing
    <3> QED BY <3>1, <3>2 DEF HoldsStep
  <2> QED BY <2>3 DEF BackedNext
<1> QED BY <1>1, <1>2

LEMMA FirmStays ==
  ASSUME SettledStep, dropped \subseteq dropped', NEW c \in Charge, Firm(c) PROVE Firm(c)'
PROOF
  BY DEF SettledStep, Firm

LEMMA TaskCounts ==
  ASSUME IInv, UseInv, Frame, NEW t \in Task, CountFits(t), NEW x, HoldsStep(x), Takes(t, x)
  PROVE  CountFits(t)'
PROOF
<1>1. /\ NoLook.task # t /\ NoCharge \notin Charge
      /\ NoRun.stage = "none" /\ NoRun.charge = NoCharge
      /\ NoRes.acc = NoAcct /\ NoRes.charge = NoCharge
  BY AccountConstants DEF NoLook, NoRun, NoRes
<1>2. ASSUME NEW r \in Reader, look'[r].task = t PROVE look'[r] = look[r]
  BY <1>1, <1>2 DEF Frame, LooksStay
<1>3. Open(t)' => Open(t)
  BY DEF Open, Takes, MetaTakes, Frame, LooksStay
<1>4. ChargesFit(t)'
  <2>1. /\ run'[t].charge \in Charge => run'[t].charge[1] = t
        /\ res'[t].charge \in Charge => res'[t].charge[1] = t
        /\ run'[t].stage = "claimed" => run'[t].acc = NoAcct
    BY <1>1 DEF Takes, RunTakes, ResTakes, CountFits, ChargesFit
  <2>2. ASSUME NEW r \in Reader, look'[r].task = t
        PROVE  /\ look'[r].charge \in Charge => look'[r].charge[1] = t
               /\ look'[r].charge = res'[t].charge => look'[r].acc = res'[t].acc
    <3>1. look'[r] = look[r] /\ look[r].charge # NoCharge
      BY <1>2, <2>2, UseTypes DEF LooksFit
    <3> QED BY <1>1, <2>2, <3>1, UseTypes DEF Takes, ResTakes, RunFits, CountFits, ChargesFit
  <2> QED BY <2>1, <2>2 DEF ChargesFit
<1>5. LateFits(t)'
  <2>1. meta'[t].late => returned'[t]
    BY DEF Takes, MetaTakes, Plain, CountFits, LateFits
  <2>2. ASSUME NEW r \in Reader, look'[r].task = t, look'[r].late PROVE returned'[t]
    BY <1>2, <2>2 DEF Takes, MetaTakes, CountFits, LateFits
  <2> QED BY <2>1, <2>2 DEF LateFits
<1>6. PaidFor(t)'
  <2> SUFFICES ASSUME Open(t)' PROVE RunPaid(t)' /\ ResPaid(t)'
    BY DEF PaidFor
  <2>1. \A e \in Charge, g \in Acct : e # x /\ BackedAt(e, g) => BackedNext(e, g)
    BY BackedStays DEF Frame
  <2>2. ASSUME run[t].stage = "held", x # run[t].charge PROVE BackedNext(run[t].charge, run[t].acc)
    <3>1. run[t].charge \in Charge /\ run[t].acc \in Acct
      BY <2>2, UseTypes DEF RunFits, Run
    <3>2. BackedAt(run[t].charge, run[t].acc)
      BY <1>3, <2>2 DEF CountFits, PaidFor, RunPaid
    <3> QED BY <2>1, <2>2, <3>1, <3>2
  <2>3. RunPaid(t)'
    <3> SUFFICES ASSUME run'[t].stage = "held", ~RunPaid(t)' PROVE BackedAt(run[t].charge, run[t].acc)'
      BY DEF RunPaid
    <3>1. run'[t] = run[t] /\ run[t].stage = "held" /\ x # run[t].charge
      BY <1>1 DEF Takes, RunTakes
    <3> QED BY <2>2, <3>1 DEF BackedNext, BackedAt, BucketOf, Frame
  <2>4. ResPaid(t)'
    <3> SUFFICES ASSUME res'[t].acc # NoAcct, meta'[t].status \notin Terminal
                 PROVE  BackedAt(res[t].charge, res[t].acc)'
      BY DEF ResPaid, Ended
    <3>1. CASE /\ res'[t].acc = res[t].acc /\ res'[t].charge = res[t].charge
               /\ x # res[t].charge /\ meta[t].status \notin Terminal
      <4>1. res[t].charge \in Charge /\ res[t].acc \in Acct /\ res[t].acc # NoAcct
        BY <3>1, UseTypes DEF ResFits, Res
      <4>2. BackedAt(res[t].charge, res[t].acc)
        BY <1>3, <3>1, <4>1 DEF CountFits, PaidFor, ResPaid, Ended
      <4>3. BackedNext(res[t].charge, res[t].acc)
        BY <2>1, <3>1, <4>1, <4>2
      <4> QED BY <3>1, <4>3 DEF BackedNext, BackedAt, BucketOf, Frame
    <3>2. CASE /\ run[t].stage = "held" /\ x # run[t].charge
               /\ res'[t].acc = run[t].acc /\ res'[t].charge = run[t].charge
      BY <2>2, <3>2 DEF BackedNext, BackedAt, BucketOf, Frame
    <3> QED BY <1>1, <3>1, <3>2 DEF Takes, MetaTakes, ResTakes
  <2> QED BY <2>3, <2>4
<1>7. SuccessFits(t)'
  <2> SUFFICES ASSUME meta'[t].status = "success", Open(t)'
               PROVE  \E c \in Charge : c[1] = t /\ Firm(c)'
    BY DEF SuccessFits
  <2>1. CASE meta[t].status = "success"
    <3>1. PICK c \in Charge : c[1] = t /\ Firm(c)
      BY <1>3, <2>1 DEF CountFits, SuccessFits
    <3>2. Firm(c)'
      BY <3>1, FirmStays DEF Frame
    <3> QED BY <3>1, <3>2
  <2>2. CASE meta[t].status # "success"
    BY <2>2 DEF Open, Takes, MetaTakes, Plain
  <2> QED BY <2>1, <2>2
<1> QED BY <1>4, <1>5, <1>6, <1>7 DEF CountFits

LEMMA RecordsPlain ==
  ASSUME NEW m \in Meta
  PROVE  /\ Plain(m, m) /\ Plain(m, DeferTask(m)) /\ Plain(m, MarkPending(m))
         /\ Plain(m, MarkFailed(m)) /\ Plain(m, MarkSubmitted(m)) /\ Plain(m, EndLateWatch(m))
         /\ Plain(m, ResetRunningTask(m))
         /\ Plain(m, RecordRetry(m)) /\ Plain(m, RecordInfrastructureRetry(m))
         /\ Plain(m, RetryAmbiguousProxyTask(m)) /\ Plain(m, RetryAmbiguousSubmittedTask(m))
         /\ \A limit : Plain(m, RetrySubmittedTask(m, limit))
         /\ \A sticky : Plain(m, ClearTransientResult(m, sticky))
PROOF
<1>1. /\ Plain(m, m) /\ Plain(m, DeferTask(m)) /\ Plain(m, MarkPending(m))
      /\ Plain(m, MarkFailed(m)) /\ Plain(m, MarkSubmitted(m)) /\ Plain(m, EndLateWatch(m))
  BY DEF Plain, Meta, DeferTask, MarkPending, MarkFailed, MarkSubmitted, EndLateWatch
<1>2. Plain(m, ResetRunningTask(m))
  BY DEF Plain, Meta, ResetRunningTask, MarkPending
<1>3. Plain(m, RecordRetry(m))
  <2> DEFINE n == m.retries + 1
  <2>1. RecordRetry(m) \in {m, [m EXCEPT !.status = "failed", !.worker = NoWorker, !.retries = n],
                            [m EXCEPT !.status = "pending", !.worker = NoWorker, !.retries = n,
                                      !.waiting = TRUE]}
    BY DEF RecordRetry
  <2> HIDE DEF n
  <2> QED BY <2>1 DEF Plain, Meta
<1>4. Plain(m, RecordInfrastructureRetry(m))
  <2> DEFINE n == m.infra + 1
  <2>1. RecordInfrastructureRetry(m) \in
          {m, [m EXCEPT !.status = "failed", !.worker = NoWorker, !.infra = n],
           [m EXCEPT !.status = "pending", !.worker = NoWorker, !.infra = n, !.waiting = TRUE]}
    BY DEF RecordInfrastructureRetry
  <2> HIDE DEF n
  <2> QED BY <2>1 DEF Plain, Meta
<1>5. Plain(m, RetryAmbiguousProxyTask(m))
  BY DEF Plain, Meta, RetryAmbiguousProxyTask
<1>6. Plain(m, RetryAmbiguousSubmittedTask(m))
  <2> DEFINE n == m.infra + 1
  <2>1. RetryAmbiguousSubmittedTask(m) \in
          {m, [m EXCEPT !.status = "failed", !.worker = NoWorker, !.phase = "", !.infra = n],
           [m EXCEPT !.status = "pending", !.worker = NoWorker, !.phase = "", !.infra = n,
                     !.waiting = TRUE]}
    BY DEF RetryAmbiguousSubmittedTask
  <2> HIDE DEF n
  <2> QED BY <2>1 DEF Plain, Meta
<1>7. ASSUME NEW limit PROVE Plain(m, RetrySubmittedTask(m, limit))
  <2> DEFINE n == m.retries + 1
  <2>1. RetrySubmittedTask(m, limit) \in
          {m, [m EXCEPT !.status = "failed", !.worker = NoWorker, !.retries = n],
           [m EXCEPT !.status = "pending", !.worker = NoWorker, !.retries = n, !.waiting = TRUE]}
    BY DEF RetrySubmittedTask
  <2> HIDE DEF n
  <2> QED BY <2>1 DEF Plain, Meta
<1>8. \A sticky : Plain(m, ClearTransientResult(m, sticky))
  BY DEF Plain, Meta, ClearTransientResult
<1> QED BY <1>1, <1>2, <1>3, <1>4, <1>5, <1>6, <1>7, <1>8

LEMMA PlainThen == ASSUME NEW m, NEW k, NEW n, Plain(m, k), Plain(k, n) PROVE Plain(m, n)
PROOF
  BY DEF Plain

\* A task that the step is not about.
LEMMA OthersCount ==
  ASSUME IInv, UseInv, CountInv, NEW u \in Task, Stays(u), NEW x,
         x \in Charge => x[1] # u, x \in Charge \cup {NoCharge}
  PROVE  Takes(u, x)
PROOF
<1>1. CountFits(u) /\ NoCharge \notin Charge
  BY AccountConstants DEF CountInv
<1>2. run[u].stage = "held" => run[u].charge \in Charge /\ run[u].charge[1] = u
  BY <1>1, UseTypes DEF RunFits, Run, CountFits, ChargesFit
<1>3. res[u].acc # NoAcct => res[u].charge \in Charge /\ res[u].charge[1] = u
  BY <1>1, UseTypes DEF ResFits, Res, CountFits, ChargesFit
<1>4. MetaTakes(u)
  BY DEF Stays, MetaTakes, Plain
<1>5. RunTakes(u, x) /\ ResTakes(u, x)
  BY <1>1, <1>2, <1>3 DEF Stays, RunTakes, ResTakes
<1> QED BY <1>4, <1>5 DEF Takes

\* A step about one task.
LEMMA OneTaskCounts ==
  ASSUME IInv, UseInv, CountInv, Frame, NEW t \in Task,
         NEW x, x \in Charge \cup {NoCharge}, x \in Charge => x[1] = t, HoldsStep(x), Takes(t, x),
         \A u \in Task \ {t} : Stays(u)
  PROVE  CountInv'
PROOF
<1>1. \A a \in Acct : AcctFits(a)'
  BY AcctsFit DEF CountInv
<1>2. ASSUME NEW u \in Task PROVE CountFits(u)'
  <2>1. CASE u = t
    BY <2>1, TaskCounts DEF CountInv
  <2>2. CASE u # t
    <3>1. Takes(u, x)
      BY <2>2, OthersCount
    <3> QED BY <3>1, TaskCounts DEF CountInv
  <2> QED BY <2>1, <2>2
<1> QED BY <1>1, <1>2 DEF CountInv

\* A step that leaves tasks, runs and queries alone.
LEMMA CountStands ==
  ASSUME IInv, UseInv, CountInv, Frame, HoldsStep(NoCharge), UNCHANGED <<meta, res, run, returned>>
  PROVE  CountInv'
PROOF
<1>1. \A a \in Acct : AcctFits(a)'
  BY AcctsFit DEF CountInv
<1>2. ASSUME NEW u \in Task PROVE CountFits(u)'
  <2>1. Stays(u)
    BY DEF Stays
  <2>2. Takes(u, NoCharge)
    BY <2>1, OthersCount, AccountConstants
  <2> QED BY <2>2, TaskCounts DEF CountInv
<1> QED BY <1>1, <1>2 DEF CountInv

\* The accounts of a step.
LEMMA SameHolds == ASSUME UNCHANGED acct, NEW x PROVE HoldsStep(x)
PROOF
  BY HoldsItself DEF HoldsStep

LEMMA OneHolds ==
  ASSUME IInv, NEW a, NEW new, NEW x, acct' = [acct EXCEPT ![a] = new],
         a \in Acct => Holds(acct[a], new, x)
  PROVE  HoldsStep(x)
PROOF
<1>1. acct \in [Acct -> Account]
  BY DEF IInv, AcctInv
<1>2. ASSUME NEW y \in Acct PROVE Holds(acct[y], acct'[y], x)
  <2>1. CASE y = a
    BY <1>1, <2>1
  <2>2. CASE y # a
    <3>1. acct'[y] = acct[y]
      BY <1>1, <2>2
    <3> QED BY <3>1, HoldsItself
  <2> QED BY <2>1, <2>2
<1> QED BY <1>2 DEF HoldsStep

LEMMA TouchHolds ==
  ASSUME IInv, NEW a, NEW new, NEW x, Touch(a, new), a \in Acct => Holds(acct[a], new, x)
  PROVE  HoldsStep(x)
PROOF
<1>1. CASE a = NoAcct
  BY <1>1, SameHolds DEF Touch
<1>2. CASE a # NoAcct
  BY <1>2, OneHolds DEF Touch
<1> QED BY <1>1, <1>2

-----------------------------------------------------------------------------
(* The steps of a run.                                                        *)

\* Nothing happens to a charge of another task.
LEMMA RememberedOwn ==
  ASSUME IInv, CountInv, NEW t \in Task
  PROVE  /\ run[t].charge \in Charge \cup {NoCharge} /\ res[t].charge \in Charge \cup {NoCharge}
         /\ run[t].charge \in Charge => run[t].charge[1] = t
         /\ res[t].charge \in Charge => res[t].charge[1] = t
         /\ run[t].stage = "claimed" => run[t].acc = NoAcct
PROOF
<1>1. run[t].charge \in Charge \cup {NoCharge} /\ res[t].charge \in Charge \cup {NoCharge}
  BY Remembered
<1> QED BY <1>1 DEF CountInv, CountFits, ChargesFit

\* The run ends and the result stays: what was taken is the charge of a run without a
\* result, or the run was cut off.
LEMMA RunEndsCounts ==
  ASSUME IInv, UseInv, CountInv, Frame, NEW t \in Task, NEW x \in {NoCharge, run[t].charge},
         HoldsStep(x), x = NoCharge \/ run[t].stage = "held" \/ t \in torn',
         NEW m, Plain(meta[t], m), Goes(meta[t], m), meta' = [meta EXCEPT ![t] = m],
         NEW b, returned[t] => b, returned' = [returned EXCEPT ![t] = b],
         run' = [run EXCEPT ![t] = NoRun], UNCHANGED res
  PROVE  CountInv'
PROOF
<1>1. /\ meta'[t] = m /\ returned'[t] = b /\ run'[t] = NoRun
      /\ \A u \in Task \ {t} : Stays(u)
  BY UseTypes DEF Stays
<1>2. x \in Charge \cup {NoCharge} /\ (x \in Charge => x[1] = t)
  BY RememberedOwn, AccountConstants
<1>3. MetaTakes(t) /\ RunTakes(t, x)
  BY <1>1 DEF MetaTakes, RunTakes, Goes
<1>4. res[t].acc # NoAcct /\ Open(t)' => x # res[t].charge
  <2>1. res[t].acc # NoAcct => res[t].charge # NoCharge /\ run[t].stage # "held"
    BY UseTypes DEF ResFits, RunFits
  <2> QED BY <2>1 DEF Open
<1>5. ResTakes(t, x)
  BY <1>4 DEF ResTakes
<1> QED BY <1>1, <1>2, <1>3, <1>5, OneTaskCounts DEF Takes

\* The same when the owner does not get the price back.
LEMMA RunEndsUncounted ==
  ASSUME IInv, UseInv, CountInv, Frame, NEW t \in Task, NEW x \in {NoCharge, run[t].charge},
         HoldsStep(x), x = NoCharge \/ run[t].stage = "held" \/ t \in torn',
         NEW m, Plain(meta[t], m), Waits(meta[t], m), meta' = [meta EXCEPT ![t] = m],
         run' = [run EXCEPT ![t] = NoRun], UNCHANGED <<res, returned>>
  PROVE  CountInv'
PROOF
<1>1. returned' = [returned EXCEPT ![t] = returned[t]]
  BY UseTypes
<1>2. Goes(meta[t], m)
  BY DEF Waits
<1> QED BY <1>1, <1>2, RunEndsCounts

\* The same with a retry that is counted.
LEMMA RunEndsCountRetry ==
  ASSUME IInv, UseInv, CountInv, Frame, NEW t \in Task, NEW x \in {NoCharge, run[t].charge},
         HoldsStep(x), x = NoCharge \/ run[t].stage = "held" \/ t \in torn',
         NEW infra \in BOOLEAN, CountRetry(t, infra),
         run' = [run EXCEPT ![t] = NoRun], UNCHANGED res
  PROVE  CountInv'
PROOF
<1> DEFINE m == IF infra THEN RecordInfrastructureRetry(meta[t]) ELSE RecordRetry(meta[t])
           b == returned[t] \/ IF infra THEN m.infra > MaxInfra ELSE m.retries > RetryLimit
<1>1. meta' = [meta EXCEPT ![t] = m]
  BY DEF CountRetry
<1>2. meta'[t] = m
  BY <1>1, UseTypes
<1>3. returned' = [returned EXCEPT ![t] = b]
  BY <1>2, UseTypes DEF CountRetry
<1>4. Waits(meta[t], m) /\ Plain(meta[t], m)
  BY UseTypes, RecordsWait, RecordsPlain
<1>5. returned[t] => b
  OBVIOUS
<1> HIDE DEF m, b
<1>6. Goes(meta[t], m)
  BY <1>4 DEF Waits
<1> QED BY <1>1, <1>3, <1>4, <1>5, <1>6, RunEndsCounts

LEMMA ClaimPendingCounts ==
  ASSUME IInv, UseInv, CountInv, SettledStep, NEW t \in Task, ClaimPending(t) PROVE CountInv'
PROOF
<1> DEFINE m == ClaimTask([meta[t] EXCEPT !.waiting = FALSE], Gone)
<1>1. /\ meta[t].status = "pending" /\ run[t] = NoRun
      /\ meta' = [meta EXCEPT ![t] = m] /\ run' = [run EXCEPT ![t].stage = "claimed"]
      /\ UNCHANGED <<acct, res, returned, plat>> /\ UNCHANGED look
      /\ UNCHANGED torn /\ UNCHANGED dropped
  BY DEF ClaimPending, history
<1>2. Frame
  BY <1>1, SameLooks DEF Frame
<1>3. Plain(meta[t], m)
  BY UseTypes DEF Plain, Meta, ClaimTask
<1> HIDE DEF m
<1>4. /\ meta'[t] = m /\ run'[t] = [run[t] EXCEPT !.stage = "claimed"]
      /\ \A u \in Task \ {t} : Stays(u)
  BY <1>1, UseTypes DEF Stays
<1>5. run'[t].stage = "claimed" /\ run'[t].charge = run[t].charge /\ run'[t].acc = NoAcct
  BY <1>1, <1>4 DEF NoRun
<1>6. RunTakes(t, NoCharge)
  BY <1>5 DEF RunTakes
<1>7. ResTakes(t, NoCharge)
  BY <1>1, UseTypes DEF ResTakes, ResFits
<1>8. MetaTakes(t)
  BY <1>1, <1>3, <1>4 DEF MetaTakes, Terminal
<1>9. HoldsStep(NoCharge)
  BY <1>1, SameHolds
<1> QED BY <1>2, <1>4, <1>6, <1>7, <1>8, <1>9, AccountConstants, OneTaskCounts DEF Takes

LEMMA TakeAccountCounts ==
  ASSUME IInv, UseInv, CountInv, SettledStep, NEW t \in Task, NEW a \in Acct, TakeAccount(t, a)
  PROVE  CountInv'
PROOF
<1> DEFINE c == <<t, drawn + 1>>
           h == [stage |-> "held", acc |-> a, charge |-> c]
           k == ClaimAccount(acct[a], t, BucketOf(t), c, 1)
<1>1. /\ a \in Choice(t) /\ drawn < MaxClaims /\ acct' = [acct EXCEPT ![a] = k]
      /\ run' = [run EXCEPT ![t] = h] /\ res' = [res EXCEPT ![t] = NoRes]
      /\ UNCHANGED <<meta, returned, plat>> /\ UNCHANGED look
      /\ UNCHANGED torn /\ UNCHANGED dropped
  BY DEF TakeAccount, history
<1>2. Frame
  BY <1>1, SameLooks DEF Frame
<1>3. c \in Charge /\ c[1] = t
  <2>1. drawn \in Nat /\ MaxClaims \in Nat
    BY UseConstants DEF IInv, StoreInv
  <2> QED BY <1>1, <2>1, UseConstants
<1>4. acct[a] \in Account /\ Live(acct[a]) /\ acct \in [Acct -> Account]
  BY <1>1, Remembered DEF Choice, Selectable, IInv, AcctInv
<1> HIDE DEF c
<1>5. Holds(acct[a], k, NoCharge) /\ k.ledger[BucketOf(t)].st[c] = "charged"
  BY <1>3, <1>4, ClaimAccountHolds
<1> HIDE DEF k
<1>6. HoldsStep(NoCharge)
  BY <1>1, <1>5, OneHolds
<1>7. acct'[a] = k
  BY <1>1, <1>4
<1>8. /\ run'[t].stage = "held" /\ run'[t].acc = a /\ run'[t].charge = c /\ res'[t] = NoRes
      /\ \A u \in Task \ {t} : Stays(u)
  BY <1>1, UseTypes DEF Stays
<1>9. RunPaid(t)'
  <2> SUFFICES acct'[a].ledger[BucketOf(t)'].st[c] \in Backing
    BY <1>3, <1>8 DEF RunPaid, BackedAt
  <2>1. BucketOf(t)' = BucketOf(t)
    BY <1>1 DEF BucketOf
  <2> QED BY <1>5, <1>7, <2>1 DEF Backing
<1>10. RunTakes(t, NoCharge) /\ ResTakes(t, NoCharge)
  BY <1>3, <1>8, <1>9 DEF RunTakes, ResTakes
<1>11. MetaTakes(t)
  BY <1>1 DEF MetaTakes, Plain
<1> QED BY <1>2, <1>6, <1>8, <1>10, <1>11, AccountConstants, OneTaskCounts DEF Takes

LEMMA SubmitCounts ==
  ASSUME IInv, UseInv, CountInv, SettledStep, NEW t \in Task, NEW conv \in BOOLEAN, Submit(t, conv)
  PROVE  CountInv'
PROOF
<1> DEFINE e == [meta[t] EXCEPT !.evidence = TRUE]
           m == IF plat = "qianwen" THEN e ELSE MarkSubmitted(e)
           s == IF conv THEN "sent" ELSE "blind"
           x == [acc |-> run[t].acc, charge |-> run[t].charge, conv |-> conv, url |-> FALSE]
<1>1. /\ run[t].stage = "held" /\ meta[t].status = "running"
      /\ meta' = [meta EXCEPT ![t] = m] /\ res' = [res EXCEPT ![t] = x]
      /\ run' = [run EXCEPT ![t].stage = s]
      /\ UNCHANGED <<acct, returned, plat>> /\ UNCHANGED look
      /\ UNCHANGED torn /\ UNCHANGED dropped
  BY DEF Submit, history
<1>2. Frame
  BY <1>1, SameLooks DEF Frame
<1>3. e \in Meta /\ Plain(meta[t], e)
  BY UseTypes DEF Meta, Plain
<1>4. s \notin {"claimed", "held"}
  OBVIOUS
<1> HIDE DEF e, s
<1>5. Plain(meta[t], m)
  BY <1>3, RecordsPlain, PlainThen
<1> HIDE DEF m
<1>6. /\ meta'[t] = m /\ run'[t].stage = s /\ run'[t].charge = run[t].charge
      /\ res'[t].acc = run[t].acc /\ res'[t].charge = run[t].charge
      /\ \A u \in Task \ {t} : Stays(u)
  BY <1>1, UseTypes DEF Stays, Run
<1>7. run[t].charge # NoCharge
  BY <1>1, UseTypes DEF RunFits
<1>8. RunTakes(t, NoCharge) /\ ResTakes(t, NoCharge)
  BY <1>1, <1>4, <1>6, <1>7 DEF RunTakes, ResTakes
<1>9. MetaTakes(t)
  BY <1>1, <1>5, <1>6 DEF MetaTakes, Terminal
<1>10. HoldsStep(NoCharge)
  BY <1>1, SameHolds
<1> QED BY <1>2, <1>6, <1>8, <1>9, <1>10, AccountConstants, OneTaskCounts DEF Takes

LEMMA RunQuietCounts ==
  ASSUME IInv, UseInv, CountInv, SettledStep, NEW t \in Task,
         NoAccountFree(t) \/ TurnedAway(t) \/ ReturnSubmitted(t) \/ CoroutineCanceled(t)
  PROVE  CountInv'
PROOF
<1> DEFINE a == run[t].acc
           c == run[t].charge
<1>1. /\ Waits(meta[t], DeferTask(meta[t])) /\ Waits(meta[t], MarkFailed(meta[t]))
      /\ Waits(meta[t], meta[t]) /\ Waits(meta[t], MarkSubmitted(meta[t]))
      /\ Waits(meta[t], MarkPending(meta[t])) /\ meta = [meta EXCEPT ![t] = meta[t]]
      /\ Plain(meta[t], DeferTask(meta[t])) /\ Plain(meta[t], MarkFailed(meta[t]))
      /\ Plain(meta[t], meta[t]) /\ Plain(meta[t], MarkSubmitted(meta[t]))
      /\ Plain(meta[t], MarkPending(meta[t]))
  BY UseTypes, RecordsWait, RecordsPlain
<1>2. /\ c \in Charge \cup {NoCharge}
      /\ (run[t].stage = "claimed" => a = NoAcct)
      /\ \A x \in Acct : acct[x] \in Account
  BY RememberedOwn, Remembered
<1>3. CASE NoAccountFree(t)
  <2>1. /\ run' = [run EXCEPT ![t] = NoRun] /\ UNCHANGED <<acct, res, plat>> /\ UNCHANGED look
        /\ UNCHANGED torn /\ UNCHANGED dropped
    BY <1>3 DEF NoAccountFree, history
  <2>2. Frame /\ HoldsStep(NoCharge)
    BY <2>1, SameLooks, SameHolds DEF Frame
  <2>3. CASE meta' = [meta EXCEPT ![t] = DeferTask(meta[t])] /\ UNCHANGED returned
    BY <1>1, <2>1, <2>2, <2>3, RunEndsUncounted
  <2>4. CASE /\ meta' = [meta EXCEPT ![t] = MarkFailed(meta[t])]
             /\ returned' = [returned EXCEPT ![t] = TRUE]
    <3>1. Goes(meta[t], MarkFailed(meta[t]))
      BY <1>1 DEF Waits
    <3> QED BY <1>1, <2>1, <2>2, <2>4, <3>1, RunEndsCounts
  <2> QED BY <1>3, <2>3, <2>4 DEF NoAccountFree
<1>4. CASE TurnedAway(t)
  <2>1. /\ run' = [run EXCEPT ![t] = NoRun] /\ UNCHANGED <<res, returned, plat>> /\ UNCHANGED look
        /\ UNCHANGED torn /\ UNCHANGED dropped
        /\ \/ UNCHANGED <<acct, meta>>
           \/ /\ run[t].stage = "held" /\ meta' = [meta EXCEPT ![t] = DeferTask(meta[t])]
              /\ Touch(a, Refund(ClearCurrentTask(acct[a], t), c))
    BY <1>4 DEF TurnedAway, history
  <2>2. Frame
    BY <2>1, SameLooks DEF Frame
  <2>3. CASE UNCHANGED <<acct, meta>>
    BY <1>1, <2>1, <2>2, <2>3, SameHolds, RunEndsUncounted
  <2>4. CASE /\ run[t].stage = "held" /\ meta' = [meta EXCEPT ![t] = DeferTask(meta[t])]
             /\ Touch(a, Refund(ClearCurrentTask(acct[a], t), c))
    <3>1. HoldsStep(c)
      BY <1>2, <2>4, ReleasedHolds, TouchHolds
    <3> QED BY <1>1, <2>1, <2>2, <2>4, <3>1, RunEndsUncounted
  <2> QED BY <2>1, <2>3, <2>4
<1>5. CASE ReturnSubmitted(t)
  <2>1. /\ run' = [run EXCEPT ![t] = NoRun] /\ UNCHANGED <<res, returned, plat>> /\ UNCHANGED look
        /\ UNCHANGED torn /\ UNCHANGED dropped
        /\ meta' = [meta EXCEPT ![t] = MarkSubmitted(meta[t])]
        /\ \/ UNCHANGED acct
           \/ Touch(a, ClearCurrentTask(Settle(acct[a], c), t))
           \/ Touch(a, ClearCurrentTask(acct[a], t))
    BY <1>5 DEF ReturnSubmitted, history
  <2>2. Frame
    BY <2>1, SameLooks DEF Frame
  <2>3. HoldsStep(NoCharge)
    BY <1>2, <2>1, SameHolds, ReleasedHolds, LeaseHolds, TouchHolds
  <2> QED BY <1>1, <2>1, <2>2, <2>3, RunEndsUncounted
<1>6. CASE CoroutineCanceled(t)
  <2>1. /\ run' = [run EXCEPT ![t] = NoRun] /\ UNCHANGED <<res, returned, plat>> /\ UNCHANGED look
        /\ torn' = CutOff(t) /\ UNCHANGED dropped
        /\ meta' = [meta EXCEPT ![t] = MarkPending(meta[t])]
        /\ acct' = [acct EXCEPT ![a] = Refund(ClearCurrentTask(acct[a], t), c)]
        /\ run[t].stage \in {"held", "sent", "blind"}
    BY <1>6 DEF CoroutineCanceled
  <2>2. Frame /\ (run[t].stage = "held" \/ t \in torn')
    BY <2>1, SameLooks DEF Frame, CutOff
  <2>3. HoldsStep(c)
    BY <1>2, <2>1, ReleasedHolds, OneHolds
  <2> QED BY <1>1, <2>1, <2>2, <2>3, RunEndsUncounted
<1> QED BY <1>3, <1>4, <1>5, <1>6

LEMMA RunFailsCounts ==
  ASSUME IInv, UseInv, CountInv, SettledStep, NEW t \in Task,
         \/ \E o \in Outcomes : ReturnRetryable(t, o)
         \/ ReturnTextOnly(t) \/ ReturnFatal(t)
         \/ \E infra, final \in BOOLEAN : Raise(t, infra, final)
  PROVE  CountInv'
PROOF
<1> DEFINE a == run[t].acc
           c == run[t].charge
<1>0. /\ c \in Charge \cup {NoCharge}
      /\ (run[t].stage = "claimed" => a = NoAcct)
      /\ \A x \in Acct : acct[x] \in Account /\ Old(x) = acct[x]
  BY RememberedOwn, Remembered
<1>1. ASSUME NEW o \in Outcomes, ReturnRetryable(t, o) PROVE CountInv'
  <2>1. /\ run' = [run EXCEPT ![t] = NoRun] /\ UNCHANGED <<res, plat>> /\ UNCHANGED look
        /\ UNCHANGED torn /\ UNCHANGED dropped /\ run[t].stage = "held"
        /\ acct' = [acct EXCEPT ![a] = ReleaseAfterFailure(acct[a], t, c, o.kind)]
        /\ IF o.defer THEN meta' = [meta EXCEPT ![t] = DeferTask(meta[t])] /\ UNCHANGED returned
           ELSE CountRetry(t, o.kind = "infra")
    BY <1>1 DEF ReturnRetryable
  <2>2. Frame
    BY <2>1, SameLooks DEF Frame
  <2>3. HoldsStep(c)
    BY <1>0, <2>1, OutcomeKinds, ReleaseAfterFailureHolds, OneHolds
  <2>4. CASE o.defer
    <3>1. Waits(meta[t], DeferTask(meta[t])) /\ Plain(meta[t], DeferTask(meta[t]))
      BY UseTypes, RecordsWait, RecordsPlain
    <3> QED BY <2>1, <2>2, <2>3, <2>4, <3>1, RunEndsUncounted
  <2>5. CASE ~o.defer
    <3>1. (o.kind = "infra") \in BOOLEAN
      OBVIOUS
    <3> QED BY <2>1, <2>2, <2>3, <2>5, <3>1, RunEndsCountRetry
  <2> QED BY <2>4, <2>5
<1>2. CASE ReturnTextOnly(t)
  <2>1. /\ run' = [run EXCEPT ![t] = NoRun] /\ UNCHANGED <<res, plat>> /\ UNCHANGED look
        /\ UNCHANGED torn /\ UNCHANGED dropped /\ run[t].stage = "held" /\ CountRetry(t, FALSE)
        /\ acct' = [acct EXCEPT ![a] = ReleaseAfterFailure(acct[a], t, c, "plain")]
    BY <1>2 DEF ReturnTextOnly, history
  <2>2. Frame
    BY <2>1, SameLooks DEF Frame
  <2>3. HoldsStep(c)
    <3>1. "plain" \in FailureKind
      BY DEF FailureKind
    <3> QED BY <1>0, <2>1, <3>1, ReleaseAfterFailureHolds, OneHolds
  <2> QED BY <2>1, <2>2, <2>3, RunEndsCountRetry
<1>3. CASE ReturnFatal(t)
  <2>1. /\ run' = [run EXCEPT ![t] = NoRun] /\ UNCHANGED <<res, plat>> /\ UNCHANGED look
        /\ UNCHANGED torn /\ UNCHANGED dropped /\ run[t].stage = "held"
        /\ meta' = [meta EXCEPT ![t] = MarkFailed(meta[t])]
        /\ returned' = [returned EXCEPT ![t] = TRUE]
        /\ acct' = [acct EXCEPT ![a] = Consume(ClearCurrentTask(acct[a], t), c)]
    BY <1>3 DEF ReturnFatal, history
  <2>2. Frame
    BY <2>1, SameLooks DEF Frame
  <2>3. HoldsStep(c)
    BY <1>0, <2>1, ReleasedHolds, OneHolds
  <2>4. Goes(meta[t], MarkFailed(meta[t])) /\ Plain(meta[t], MarkFailed(meta[t]))
    BY UseTypes, RecordsWait, RecordsPlain DEF Waits
  <2> QED BY <2>1, <2>2, <2>3, <2>4, RunEndsCounts
<1>4. ASSUME NEW infra \in BOOLEAN, NEW final \in BOOLEAN, Raise(t, infra, final) PROVE CountInv'
  <2> DEFINE k == ClearCurrentTask(Old(a), t)
             new == IF infra THEN Refund(k, c)
                    ELSE IF ~infra /\ (plat = "dola" \/ ~final) THEN Consume(k, c) ELSE k
  <2>1. /\ run' = [run EXCEPT ![t] = NoRun] /\ UNCHANGED <<res, plat>> /\ UNCHANGED look
        /\ run[t].stage \in {"claimed", "held", "sent", "blind"} /\ CountRetry(t, infra)
        /\ torn' = CutOff(t) /\ UNCHANGED dropped /\ Touch(a, new)
    BY <1>4 DEF Raise
  <2>2. Frame
    BY <2>1, SameLooks DEF Frame, CutOff
  <2>3. CASE run[t].stage = "claimed"
    <3>1. HoldsStep(NoCharge)
      BY <1>0, <2>1, <2>3, SameHolds DEF Touch
    <3> QED BY <2>1, <2>2, <3>1, RunEndsCountRetry
  <2>4. CASE run[t].stage # "claimed"
    <3>1. run[t].stage = "held" \/ t \in torn'
      BY <2>1, <2>4 DEF CutOff
    <3>2. ASSUME a \in Acct PROVE Holds(acct[a], new, c)
      <4>1. acct[a] \in Account /\ k = ClearCurrentTask(acct[a], t)
        BY <1>0, <3>2
      <4>2. /\ Holds(acct[a], k, c) /\ Holds(acct[a], Refund(k, c), c)
            /\ Holds(acct[a], Consume(k, c), c)
        BY <1>0, <4>1, LeaseHolds, ReleasedHolds
      <4> HIDE DEF k
      <4> QED BY <4>2
    <3> HIDE DEF new
    <3>3. HoldsStep(c)
      BY <2>1, <3>2, TouchHolds
    <3> QED BY <2>1, <2>2, <3>1, <3>3, RunEndsCountRetry
  <2> QED BY <2>3, <2>4
<1> QED BY <1>1, <1>2, <1>3, <1>4

LEMMA WorkCounts ==
  ASSUME IInv, UseInv, CountInv, SettledStep, NEW t \in Task, Work(t) PROVE CountInv'
PROOF
<1>1. CASE DropPreference(t)
  <2>1. /\ UNCHANGED <<acct, meta, res, run, returned, plat>> /\ UNCHANGED look
        /\ UNCHANGED torn /\ UNCHANGED dropped
    BY <1>1 DEF DropPreference, history
  <2>2. Frame /\ HoldsStep(NoCharge)
    BY <2>1, SameLooks, SameHolds DEF Frame
  <2> QED BY <2>1, <2>2, CountStands
<1> QED BY <1>1, ClaimPendingCounts, TakeAccountCounts, SubmitCounts, RunQuietCounts,
        RunFailsCounts DEF Work

LEMMA RestartWorkerCounts ==
  ASSUME IInv, UseInv, CountInv, SettledStep,
         NEW orderly \in BOOLEAN, NEW first \in [Acct -> Task], RestartWorker(orderly, first)
  PROVE  CountInv'
PROOF
<1>1. /\ meta' = [t \in Task |-> ResetRunningTask(meta[t])] /\ run' = [t \in Task |-> NoRun]
      /\ look' = [look EXCEPT !["watch"] = NoLook] /\ UNCHANGED <<res, returned, plat>>
      /\ UNCHANGED torn /\ UNCHANGED dropped
  BY DEF RestartWorker, history
<1>2. Frame
  BY <1>1 DEF Frame, LooksStay, IInv, StoreInv
<1>3. ASSUME NEW a \in Acct PROVE Holds(acct[a], acct'[a], NoCharge)
  <2> DEFINE freed == IF orderly /\ \E t \in Task : acct[a].lease = t /\ run[t].acc = a
                      THEN ClearCurrentTask(acct[a], acct[a].lease) ELSE acct[a]
             t == first[a]
             c == res[t].charge
             kept == RestoreCurrentTask(freed, t, c)
  <2>1. acct'[a] = freed \/ (acct'[a] = kept /\ res[t].acc = a)
    BY DEF RestartWorker
  <2>2. acct[a] \in Account
    BY Remembered
  <2>3. Holds(acct[a], freed, NoCharge) /\ freed \in Account
    BY <2>2, LeaseHolds, LeaseKeeps, HoldsItself DEF Keeps
  <2> HIDE DEF freed
  <2>4. t \in Task /\ a # NoAcct
    BY UseConstants
  <2>5. res[t].acc = a => c \in Charge /\ c[1] = t
    BY <2>4, UseTypes, RememberedOwn DEF ResFits
  <2> HIDE DEF t, c
  <2>6. res[t].acc = a => Holds(freed, kept, NoCharge)
    BY <2>3, <2>5, LeaseHolds
  <2> HIDE DEF kept
  <2> QED BY <2>1, <2>3, <2>6, HoldsThen
<1>4. HoldsStep(NoCharge)
  BY <1>3 DEF HoldsStep
<1>5. ASSUME NEW t \in Task PROVE Takes(t, NoCharge)
  <2>1. meta'[t] = ResetRunningTask(meta[t]) /\ run'[t] = NoRun
    BY <1>1
  <2>2. Plain(meta[t], meta'[t]) /\ Waits(meta[t], meta'[t])
    BY <2>1, UseTypes, RecordsPlain, RecordsWait
  <2>3. MetaTakes(t) /\ RunTakes(t, NoCharge)
    BY <1>1, <2>1, <2>2 DEF MetaTakes, RunTakes, Waits, Goes
  <2>4. ResTakes(t, NoCharge)
    BY <1>1, UseTypes DEF ResTakes, ResFits
  <2> QED BY <2>3, <2>4 DEF Takes
<1>6. \A a \in Acct : AcctFits(a)'
  BY <1>4, AcctsFit DEF CountInv
<1>7. \A t \in Task : CountFits(t)'
  BY <1>2, <1>4, <1>5, TaskCounts DEF CountInv
<1> QED BY <1>6, <1>7 DEF CountInv

-----------------------------------------------------------------------------
(* The watch, the ends from outside and the queries.                          *)

\* The run goes on, the result is cleared or stays.
LEMMA RunGoesCounts ==
  ASSUME IInv, UseInv, CountInv, Frame, NEW t \in Task, NEW x,
         x \in Charge \cup {NoCharge}, x \in Charge => x[1] = t, HoldsStep(x),
         NEW b, returned[t] => b, returned' = [returned EXCEPT ![t] = b],
         NEW m, b \/ Plain(meta[t], m), Goes(meta[t], m), meta' = [meta EXCEPT ![t] = m],
         b \/ (run[t].stage = "held" => x # run[t].charge), UNCHANGED run,
         \/ res' = [res EXCEPT ![t] = NoRes]
         \/ /\ UNCHANGED res
            /\ b \/ m.status \in Terminal \/ t \in torn' \/ x # res[t].charge \/ x = NoCharge
  PROVE  CountInv'
PROOF
<1>1. /\ meta'[t] = m /\ returned'[t] = b /\ run'[t] = run[t]
      /\ \A u \in Task \ {t} : Stays(u)
  BY UseTypes DEF Stays
<1>2. res'[t] = NoRes \/ res'[t] = res[t]
  BY UseTypes
<1>3. MetaTakes(t)
  BY <1>1 DEF MetaTakes, Goes
<1>4. RunTakes(t, x)
  BY <1>1 DEF RunTakes, Open
<1>5. ResTakes(t, x)
  <2>1. CASE res' = [res EXCEPT ![t] = NoRes]
    BY <2>1, UseTypes DEF ResTakes
  <2>2. CASE UNCHANGED res
    <3>1. res[t].acc # NoAcct => res[t].charge # NoCharge
      BY UseTypes DEF ResFits
    <3> QED BY <1>1, <2>1, <2>2, <3>1 DEF ResTakes, Open
  <2> QED BY <2>1, <2>2
<1> QED BY <1>1, <1>3, <1>4, <1>5, OneTaskCounts DEF Takes

LEMMA GiveUpCounts ==
  ASSUME IInv, UseInv, CountInv, SettledStep, NEW t \in Task, GiveUp(t) PROVE CountInv'
PROOF
<1> DEFINE a == res[t].acc
           c == res[t].charge
           k == IF plat = "dola" THEN Settle(Old(a), c) ELSE Refund(Old(a), c)
           new == ClearCurrentTask(k, t)
           e == IF plat = "qianwen" THEN RetrySubmittedTask(meta[t], RetryLimit) ELSE meta[t]
           n == GiveUpWaiting(e)
<1>1. /\ meta[t].status = "submitted" /\ Touch(a, new)
      /\ UNCHANGED <<run, plat>> /\ UNCHANGED look /\ UNCHANGED torn /\ UNCHANGED dropped
      /\ IF plat = "qianwen" /\ meta[t].retries < RetryLimit
           THEN RetryOrEnd(t, Verdict)
           ELSE /\ meta' = [meta EXCEPT ![t] = n]
                /\ returned' = [returned EXCEPT ![t] = TRUE]
                /\ UNCHANGED res
  BY DEF GiveUp, history
<1>2. Frame
  BY <1>1, SameLooks DEF Frame
<1>3. c \in Charge \cup {NoCharge} /\ (c \in Charge => c[1] = t)
  BY RememberedOwn
<1>4. ASSUME a \in Acct PROVE Holds(acct[a], new, c)
  <2>1. acct[a] \in Account /\ Old(a) = acct[a]
    BY <1>4, Remembered
  <2>2. /\ Holds(acct[a], ClearCurrentTask(Settle(acct[a], c), t), c)
        /\ Holds(acct[a], ClearCurrentTask(Refund(acct[a], c), t), c)
    BY <1>3, <2>1, ReleasedHolds
  <2> QED BY <2>1, <2>2
<1> HIDE DEF new
<1>5. HoldsStep(c)
  BY <1>1, <1>4, TouchHolds
<1>6. run[t].stage # "held"
  BY <1>1, UseTypes DEF RunFits, Ended, Terminal
<1>7. meta[t] \in Meta /\ RetryLimit \in Nat /\ meta[t].retries \in Nat
  BY UseTypes, StoreConstants DEF Meta
<1>8. CASE plat = "qianwen" /\ meta[t].retries < RetryLimit
  <2> DEFINE r == RetrySubmittedTask(meta[t], RetryLimit)
             m == ClearTransientResult(r, TRUE)
  <2>1. meta[t].retries + 1 <= RetryLimit
    BY <1>7, <1>8
  <2>2. /\ meta' = [meta EXCEPT ![t] = m] /\ res' = [res EXCEPT ![t] = NoRes]
        /\ returned' = [returned EXCEPT ![t] = @ \/ FALSE]
    BY <1>1, <1>8, <2>1 DEF RetryOrEnd, Verdict
  <2>3. returned' = [returned EXCEPT ![t] = returned[t]]
    BY <2>2, UseTypes
  <2>4. Goes(meta[t], m) /\ Plain(meta[t], m)
    BY <1>7, RecordsGo, RecordsPlain DEF ClearTransientResult
  <2> HIDE DEF m
  <2> QED BY <1>2, <1>1, <1>3, <1>5, <1>6, <2>2, <2>3, <2>4, RunGoesCounts
<1>9. CASE ~(plat = "qianwen" /\ meta[t].retries < RetryLimit)
  <2>1. e \in Meta /\ e.status \in {"submitted", "failed"}
    <3>1. ~(meta[t].retries + 1 <= RetryLimit) \/ plat # "qianwen"
      BY <1>7, <1>9
    <3>2. CASE plat = "qianwen"
      BY <1>1, <1>7, <3>1, <3>2, RetrySubmittedEnds, RecordsGo DEF Goes
    <3> QED BY <1>1, <1>7, <3>2
  <2> HIDE DEF e
  <2>2. n \in Meta /\ n.status = "failed"
    BY <2>1 DEF GiveUpWaiting, MarkFailed, Meta, Id, Status
  <2> HIDE DEF n
  <2>3. Goes(meta[t], n)
    BY <1>1, <2>2 DEF Goes, Terminal
  <2> QED BY <1>1, <1>2, <1>3, <1>5, <1>9, <2>3, RunGoesCounts
<1> QED BY <1>8, <1>9

LEMMA WatchCounts ==
  ASSUME IInv, UseInv, CountInv, SettledStep, NEW t \in Task, Watch(t) PROVE CountInv'
PROOF
<1>1. CASE ReleaseSlowAccount(t)
  <2> DEFINE a == res[t].acc
  <2>1. /\ UNCHANGED <<meta, res, run, returned, plat>> /\ UNCHANGED look
        /\ UNCHANGED torn /\ UNCHANGED dropped
        /\ acct' = [acct EXCEPT ![a] = ClearCurrentTask(acct[a], t)]
    BY <1>1 DEF ReleaseSlowAccount, storeVars, history
  <2>2. Frame
    BY <2>1, SameLooks DEF Frame
  <2>3. a \in Acct => Holds(acct[a], ClearCurrentTask(acct[a], t), NoCharge)
    BY Remembered, LeaseHolds
  <2>4. HoldsStep(NoCharge)
    BY <2>1, <2>3, OneHolds
  <2> QED BY <2>1, <2>2, <2>4, CountStands
<1>2. CASE StopLateWatch(t)
  <2>1. /\ meta' = [meta EXCEPT ![t] = EndLateWatch(meta[t])]
        /\ UNCHANGED <<acct, res, run, returned, plat>> /\ UNCHANGED look
        /\ UNCHANGED torn /\ UNCHANGED dropped
    BY <1>2 DEF StopLateWatch, history
  <2>2. Frame /\ HoldsStep(NoCharge)
    BY <2>1, SameLooks, SameHolds DEF Frame
  <2>3. Goes(meta[t], EndLateWatch(meta[t])) /\ Plain(meta[t], EndLateWatch(meta[t]))
    BY UseTypes, RecordsWait, RecordsPlain DEF Waits
  <2>4. returned' = [returned EXCEPT ![t] = returned[t]]
    BY <2>1, UseTypes
  <2>5. run[t].stage = "held" => NoCharge # run[t].charge
    BY UseTypes DEF RunFits
  <2>6. NoCharge \notin Charge
    BY AccountConstants
  <2> QED BY <2>1, <2>2, <2>3, <2>4, <2>5, <2>6, RunGoesCounts
<1> QED BY <1>1, <1>2, GiveUpCounts DEF Watch

LEMMA EndsFromOutsideCount ==
  ASSUME IInv, UseInv, CountInv, SettledStep, NEW t \in Task,
         Expire(t) \/ \E admin \in BOOLEAN : Cancel(t, admin)
  PROVE  CountInv'
PROOF
<1>1. CASE Expire(t)
  <2> DEFINE a == res[t].acc
             c == res[t].charge
             new == ClearCurrentTask(TimedOut(Old(a), c), t)
  <2>1. /\ meta' = [meta EXCEPT ![t] = MarkFailed(meta[t])] /\ Touch(a, new)
        /\ returned' = [returned EXCEPT ![t] = TRUE]
        /\ UNCHANGED <<res, run, plat>> /\ UNCHANGED look /\ UNCHANGED torn /\ UNCHANGED dropped
    BY <1>1 DEF Expire, history
  <2>2. Frame
    BY <2>1, SameLooks DEF Frame
  <2>3. c \in Charge \cup {NoCharge} /\ (c \in Charge => c[1] = t)
    BY RememberedOwn
  <2>4. ASSUME a \in Acct PROVE Holds(acct[a], new, c)
    <3>1. acct[a] \in Account /\ Old(a) = acct[a]
      BY <2>4, Remembered
    <3> QED BY <2>3, <3>1, ReleasedHolds
  <2> HIDE DEF new
  <2>5. HoldsStep(c)
    BY <2>1, <2>4, TouchHolds
  <2>6. Goes(meta[t], MarkFailed(meta[t]))
    BY UseTypes, RecordsWait DEF Waits
  <2> QED BY <2>1, <2>2, <2>3, <2>5, <2>6, RunGoesCounts
<1>2. ASSUME NEW admin \in BOOLEAN, Cancel(t, admin) PROVE CountInv'
  <2> DEFINE leased == {y \in Acct : acct[y].lease = t}
             a == IF res[t].acc # NoAcct THEN res[t].acc
                  ELSE IF leased = {} THEN NoAcct ELSE CHOOSE y \in leased : TRUE
             c == IF res[t].charge # NoCharge THEN res[t].charge ELSE Old(a).charge
             new == Refund(ClearCurrentTask(Old(a), t), c)
  <2>1. /\ meta' = [meta EXCEPT ![t] = RequestTaskCancel(meta[t])] /\ Touch(a, new)
        /\ returned' = [returned EXCEPT ![t] = TRUE]
        /\ UNCHANGED <<res, run, plat>> /\ UNCHANGED look /\ UNCHANGED torn /\ UNCHANGED dropped
    BY <1>2 DEF Cancel, history
  <2>2. Frame
    BY <2>1, SameLooks DEF Frame
  <2>3. res[t].acc # NoAcct => res[t].charge # NoCharge
    BY UseTypes DEF ResFits
  <2>4. res[t].charge = NoCharge => a = NoAcct \/ (a \in Acct /\ acct[a].lease = t)
    BY <2>3
  <2>5. res[t].charge \in Charge \cup {NoCharge} /\ (res[t].charge \in Charge => res[t].charge[1] = t)
    BY RememberedOwn
  <2> HIDE DEF leased, a
  <2>6. /\ c \in Charge \cup {NoCharge} /\ (c \in Charge => c[1] = t)
        /\ (a \in Acct => acct[a] \in Account /\ Old(a) = acct[a])
    <3>1. a \in Acct => acct[a] \in Account /\ Old(a) = acct[a] /\ AcctFits(a)
      BY Remembered DEF CountInv
    <3>2. CASE res[t].charge # NoCharge
      BY <2>5, <3>1, <3>2
    <3>3. CASE res[t].charge = NoCharge /\ a = NoAcct
      BY <3>1, <3>3, AccountConstants DEF Old, NoAccountYet
    <3>4. CASE res[t].charge = NoCharge /\ a \in Acct /\ acct[a].lease = t
      BY <3>1, <3>4 DEF AcctFits, Account
    <3> QED BY <2>4, <3>2, <3>3, <3>4
  <2> HIDE DEF c
  <2>7. a \in Acct => Holds(acct[a], new, c)
    BY <2>6, ReleasedHolds
  <2> HIDE DEF new
  <2>8. HoldsStep(c)
    BY <2>1, <2>7, TouchHolds
  <2>9. Goes(meta[t], RequestTaskCancel(meta[t]))
    BY UseTypes, RecordsWait DEF Waits
  <2> QED BY <2>1, <2>2, <2>6, <2>8, <2>9, RunGoesCounts
<1> QED BY <1>1, <1>2

\* A query reads the account and the charge of the result together.
LEMMA ReadCounts ==
  ASSUME IInv, UseInv, CountInv, NEW r \in Reader, NEW t \in Task, ReadForQuery(r, t)
  PROVE  CountInv'
PROOF
<1> DEFINE e == [task |-> t, acc |-> res[t].acc, charge |-> res[t].charge,
                 late |-> meta[t].status = "failed", conv |-> res[t].conv, once |-> once[t]]
<1>1. /\ meta[t].status = "submitted" \/ (meta[t].late /\ meta[t].status = "failed")
      /\ look' = [look EXCEPT ![r] = e]
      /\ UNCHANGED <<plat, acct, meta, res, returned, run>> /\ UNCHANGED torn /\ UNCHANGED dropped
  BY DEF ReadForQuery, storeVars, history
<1>2. /\ look'[r].task = t /\ look'[r].charge = res[t].charge /\ look'[r].acc = res[t].acc
      /\ look'[r].late => meta[t].late
      /\ \A x \in Reader \ {r} : look'[x] = look[x]
  BY <1>1 DEF IInv, StoreInv
<1> HIDE DEF e
<1>3. ASSUME NEW a \in Acct PROVE AcctFits(a)'
  BY <1>1 DEF CountInv, AcctFits, Live
<1>4. ASSUME NEW u \in Task PROVE CountFits(u)'
  <2>1. CountFits(u)
    BY DEF CountInv
  <2>2. ASSUME NEW x \in Reader, look'[x].task = u
        PROVE  /\ look'[x].charge \in Charge => look'[x].charge[1] = u
               /\ look'[x].charge = res[u].charge => look'[x].acc = res[u].acc
               /\ look'[x].late => returned[u]
    <3>1. CASE x = r
      BY <1>2, <2>1, <2>2, <3>1 DEF CountFits, ChargesFit, LateFits
    <3>2. CASE x # r
      BY <1>2, <2>1, <2>2, <3>2 DEF CountFits, ChargesFit, LateFits
    <3> QED BY <3>1, <3>2
  <2>3. ChargesFit(u)'
    BY <1>1, <2>1, <2>2 DEF CountFits, ChargesFit
  <2>4. LateFits(u)'
    BY <1>1, <2>1, <2>2 DEF CountFits, LateFits
  <2>5. PaidFor(u)'
    BY <1>1, <2>1 DEF CountFits, PaidFor, Open, RunPaid, ResPaid, BackedAt, BucketOf, Ended
  <2>6. SuccessFits(u)'
    BY <1>1, <2>1 DEF CountFits, SuccessFits, Open, Firm
  <2> QED BY <2>3, <2>4, <2>5, <2>6 DEF CountFits
<1> QED BY <1>3, <1>4 DEF CountInv

LEMMA AskAgainCounts ==
  ASSUME IInv, UseInv, CountInv, SettledStep, NEW r \in Reader, NEW found \in BOOLEAN,
         AskAgain(r, found)
  PROVE  CountInv'
PROOF
<1>1. /\ res' = res \/ res' = [res EXCEPT ![look[r].task].conv = TRUE]
      /\ look' = [look EXCEPT ![r] = NoLook]
      /\ UNCHANGED <<acct, meta, returned, run, plat>> /\ UNCHANGED torn /\ UNCHANGED dropped
  BY DEF AskAgain, history
<1>2. Frame /\ HoldsStep(NoCharge)
  BY <1>1, SameHolds DEF Frame, LooksStay, IInv, StoreInv
<1>3. ASSUME NEW u \in Task PROVE Takes(u, NoCharge)
  <2>1. res'[u].acc = res[u].acc /\ res'[u].charge = res[u].charge
    BY <1>1, UseTypes DEF Res
  <2>2. meta'[u] = meta[u] /\ returned'[u] = returned[u] /\ run'[u] = run[u]
    BY <1>1
  <2>3. /\ run[u].stage = "held" => NoCharge # run[u].charge
        /\ res[u].acc # NoAcct => NoCharge # res[u].charge
    BY UseTypes DEF RunFits, ResFits
  <2> QED BY <2>1, <2>2, <2>3 DEF Takes, MetaTakes, RunTakes, ResTakes, Plain
<1>4. \A a \in Acct : AcctFits(a)'
  BY <1>2, AcctsFit DEF CountInv
<1>5. \A u \in Task : CountFits(u)'
  BY <1>2, <1>3, TaskCounts DEF CountInv
<1> QED BY <1>4, <1>5 DEF CountInv

\* The account of an answer holds every charge but the one the answer is about, and
\* that one too when the answer settles it.
LEMMA AnswerHolds ==
  ASSUME IInv, NEW r \in Reader, NEW v \in Verdicts(look[r]), Answer(r, v),
         NEW x \in {look[r].charge, NoCharge}, x = look[r].charge \/ v.money = "settle"
  PROVE  HoldsStep(x)
PROOF
<1> DEFINE t == look[r].task
           a == look[r].acc
           c == look[r].charge
           mark == v.mark
           money == v.money
           k == Paid(Marked(acct[a], mark), c, money)
           new == IF v.free THEN ClearCurrentTask(k, t) ELSE k
<1>1. acct' = [acct EXCEPT ![a] = new]
  BY DEF Answer
<1>2. look[r] \in Look
  BY DEF IInv, StoreInv
<1>3. VerdictOK(v)
  BY <1>2, VerdictsOK
<1>4. ASSUME a \in Acct PROVE Holds(acct[a], new, x)
  <2> DEFINE y == acct[a]
             paid == Paid(Marked(y, mark), c, money)
  <2>1. y \in Account /\ c \in Charge \cup {NoCharge}
    BY <1>2, <1>4, Remembered DEF Look
  <2>2. /\ mark \in {"", "login", "slider", "tenSecond"}
        /\ money \in {"refund", "settle", "consume", "exhaust", "timedOut"}
        /\ x \in {c, NoCharge} /\ (x = c \/ money = "settle")
    BY <1>3 DEF VerdictOK
  <2> SUFFICES Holds(y, paid, x) /\ Holds(y, ClearCurrentTask(paid, t), x)
    OBVIOUS
  <2> HIDE DEF y, c, mark, money, t
  <2> QED BY <2>1, <2>2, AnsweredHolds
<1> HIDE DEF new, a
<1> QED BY <1>1, <1>4, OneHolds

\* An answer that is no success.
LEMMA NoSuccessCounts ==
  ASSUME IInv, UseInv, CountInv, SettledStep, NEW r \in Reader, NEW v \in Verdicts(look[r]),
         Answer(r, v), v.then # "success"
  PROVE  CountInv'
PROOF
<1> DEFINE l == look[r]
           t == l.task
           x == l.charge
<1>1. /\ t # NoTask /\ look' = [look EXCEPT ![r] = NoLook]
      /\ Apply(t, v, l.late) /\ UNCHANGED <<run, plat>> /\ UNCHANGED dropped
      /\ torn' = IF res[t].charge # x THEN torn \cup {t} ELSE torn
  BY DEF Answer
<1>2. l \in Look /\ t \in Task
  BY <1>1 DEF IInv, StoreInv, Look
<1>3. VerdictOK(v)
  BY <1>2, VerdictsOK
<1>4. Frame
  BY <1>1 DEF Frame, LooksStay, IInv, StoreInv
<1>5. HoldsStep(x)
  BY AnswerHolds
<1>6. x \in Charge \cup {NoCharge} /\ (x \in Charge => x[1] = t)
  BY <1>2 DEF Look, CountInv, CountFits, ChargesFit
<1>7. run[t].stage = "held" => x # run[t].charge
  BY <1>2, UseTypes DEF RunFits
<1>8. t \in torn' \/ x # res[t].charge \/ meta[t].status \in {"submitted"} \cup Terminal
  BY <1>2, UseTypes DEF LooksFit, Ended
<1> HIDE DEF l, t, x
<1>9. meta[t] \in Meta /\ v.limit \in Nat
  BY <1>2, <1>3, UseTypes DEF VerdictOK
<1> DEFINE Good(m, b) ==
             /\ returned[t] => b
             /\ b \/ Plain(meta[t], m)
             /\ Goes(meta[t], m)
             /\ \/ res' = [res EXCEPT ![t] = NoRes]
                \/ /\ UNCHANGED res
                   /\ meta[t].status \in {"submitted"} \cup Terminal => b \/ m.status \in Terminal
<1>10. ASSUME NEW m, NEW b, meta' = [meta EXCEPT ![t] = m],
              returned' = [returned EXCEPT ![t] = b], Good(m, b)
       PROVE  CountInv'
  <2>1. \/ res' = [res EXCEPT ![t] = NoRes]
        \/ /\ UNCHANGED res
           /\ b \/ m.status \in Terminal \/ t \in torn' \/ x # res[t].charge \/ x = NoCharge
    BY <1>8, <1>10
  <2> QED BY <1>1, <1>2, <1>4, <1>5, <1>6, <1>7, <1>10, <2>1, RunGoesCounts
<1>11. CASE v.then = "fail"
  <2> DEFINE m == MarkFailed(meta[t])
             b == returned[t] \/ v.user
  <2>1. meta' = [meta EXCEPT ![t] = m] /\ returned' = [returned EXCEPT ![t] = @ \/ v.user] /\ UNCHANGED res
    BY <1>1, <1>11 DEF Apply
  <2>2. returned' = [returned EXCEPT ![t] = b]
    BY <1>2, <2>1, UseTypes
  <2>3. Goes(meta[t], m) /\ Plain(meta[t], m)
    BY <1>9, RecordsWait, RecordsPlain DEF Waits
  <2>4. meta[t].status \in {"submitted"} \cup Terminal => m.status \in Terminal
    BY <1>9 DEF MarkFailed, Meta, Terminal
  <2> HIDE DEF m, b
  <2>5. Good(m, b)
    BY <2>1, <2>2, <2>3, <2>4 DEF b
  <2> HIDE DEF Good
  <2> QED BY <1>10, <2>1, <2>2, <2>5
<1>12. CASE v.then = "retry"
  <2> DEFINE retried == RetrySubmittedTask(meta[t], v.limit)
             count == IF meta[t].status = "submitted" THEN meta[t].retries + 1 ELSE meta[t].retries
             again == count <= v.limit
             m == IF again THEN ClearTransientResult(retried, plat # "dola")
                  ELSE IF v.hard THEN MarkFailed(retried) ELSE retried
             b == returned[t] \/ ~again
  <2>1. /\ meta' = [meta EXCEPT ![t] = m] /\ returned' = [returned EXCEPT ![t] = @ \/ ~again]
        /\ res' = IF again THEN [res EXCEPT ![t] = NoRes] ELSE res
    BY <1>1, <1>12 DEF Apply, RetryOrEnd
  <2>2. returned' = [returned EXCEPT ![t] = b]
    BY <1>2, <2>1, UseTypes
  <2>3. Goes(meta[t], retried) /\ Plain(meta[t], retried) /\ retried \in Meta
    BY <1>9, RecordsGo, RecordsPlain DEF Goes
  <2> HIDE DEF retried, again
  <2>4. /\ Waits(retried, ClearTransientResult(retried, plat # "dola"))
        /\ Waits(retried, MarkFailed(retried)) /\ Waits(retried, retried)
        /\ Plain(retried, ClearTransientResult(retried, plat # "dola"))
        /\ Plain(retried, MarkFailed(retried)) /\ Plain(retried, retried)
    BY <1>9, <2>3, RecordsGo, RecordsWait, RecordsPlain
  <2>5. Waits(retried, m) /\ Plain(retried, m)
    BY <2>4
  <2> HIDE DEF m
  <2>6. Goes(meta[t], m) /\ Plain(meta[t], m)
    BY <2>3, <2>5 DEF Goes, Waits, Plain
  <2>7. (returned[t] => b) /\ (~again => b)
    OBVIOUS
  <2> HIDE DEF b
  <2>8. Good(m, b)
    BY <2>1, <2>6, <2>7
  <2> HIDE DEF Good
  <2> QED BY <1>10, <2>1, <2>2, <2>8
<1>13. CASE v.then = "proxy"
  <2> DEFINE k == RetryAmbiguousProxyTask(meta[t])
             m == ClearTransientResult(k, FALSE)
             b == returned[t]
  <2>1. meta' = [meta EXCEPT ![t] = m] /\ res' = [res EXCEPT ![t] = NoRes] /\ UNCHANGED returned
    BY <1>1, <1>13 DEF Apply
  <2>2. returned' = [returned EXCEPT ![t] = b]
    BY <1>2, <2>1, UseTypes
  <2>3. Goes(meta[t], k) /\ Plain(meta[t], k) /\ k \in Meta
    BY <1>9, RecordsGo, RecordsPlain DEF Goes
  <2> HIDE DEF k
  <2>4. Waits(k, m) /\ Plain(k, m)
    BY <1>9, <2>3, RecordsGo, RecordsPlain
  <2> HIDE DEF m
  <2>5. Good(m, b)
    BY <2>1, <2>3, <2>4 DEF Goes, Waits, Plain
  <2> HIDE DEF Good, b
  <2> QED BY <1>10, <2>1, <2>2, <2>5
<1>14. CASE v.then = "ambiguous"
  <2> DEFINE next == RetryAmbiguousSubmittedTask(meta[t])
             again == next.infra <= RetryLimit
             m == IF again THEN ClearTransientResult(next, FALSE) ELSE next
             b == returned[t] \/ ~again
  <2>1. /\ meta' = [meta EXCEPT ![t] = m] /\ returned' = [returned EXCEPT ![t] = @ \/ ~again]
        /\ res' = IF again THEN [res EXCEPT ![t] = NoRes] ELSE res
    BY <1>1, <1>14 DEF Apply
  <2>2. returned' = [returned EXCEPT ![t] = b]
    BY <1>2, <2>1, UseTypes
  <2>3. Goes(meta[t], next) /\ Plain(meta[t], next) /\ next \in Meta
    BY <1>9, RecordsGo, RecordsPlain DEF Goes
  <2> HIDE DEF next, again
  <2>4. Waits(next, m) /\ Plain(next, m)
    BY <1>9, <2>3, RecordsGo, RecordsWait, RecordsPlain
  <2> HIDE DEF m
  <2>6. Goes(meta[t], m) /\ Plain(meta[t], m)
    BY <2>3, <2>4 DEF Goes, Waits, Plain
  <2>7. (returned[t] => b) /\ (~again => b)
    OBVIOUS
  <2> HIDE DEF b
  <2>8. Good(m, b)
    BY <2>1, <2>6, <2>7
  <2> HIDE DEF Good
  <2> QED BY <1>10, <2>1, <2>2, <2>8
<1> QED BY <1>3, <1>11, <1>12, <1>13, <1>14 DEF VerdictOK

\* What the answer about a charge that counts does to it.
LEMMA SettlePays ==
  ASSUME NEW a \in Account, Live(a), NEW c \in Charge, NEW t,
         LedgerOf(a, c).st[c] \in Backing
  PROVE  /\ LedgerOf(Settle(a, c), c).st[c] = "settled"
         /\ LedgerOf(ClearCurrentTask(Settle(a, c), t), c).st[c] = "settled"
PROOF
<1> DEFINE b == BucketOf(c[1])
           l == a.ledger[b]
           n == SettleQuota(l, c)
           k == Settle(a, c)
<1>1. b \in Bucket /\ c # NoCharge
  BY BucketOfType, AccountConstants
<1>2. l \in Ledger /\ l.st[c] \in Backing /\ a.ledger \in [Bucket -> Ledger]
  BY <1>1 DEF Account, LedgerOf
<1>3. k = [a EXCEPT !.ledger[b] = n]
  BY <1>1 DEF Settle, Pays, LedgerOf
<1> HIDE DEF b, l
<1>4. n.st[c] = "settled"
  <2>1. CASE l.st[c] = "charged"
    <3> DEFINE m == [l EXCEPT !.st[c] = "settled"]
    <3>1. n = [m EXCEPT !.used = ReconciledUsed(m)]
      BY <2>1 DEF SettleQuota, Recompute
    <3>2. m.st = [l.st EXCEPT ![c] = "settled"] /\ l.st \in [Charge -> ChargeStatus]
      BY <1>2 DEF Ledger
    <3>3. n.st = m.st
      <4> DEFINE u == ReconciledUsed(m)
      <4>1. n = [m EXCEPT !.used = u]
        BY <3>1
      <4> HIDE DEF u, n
      <4> QED BY <1>2, <4>1 DEF Ledger
    <3> HIDE DEF m, n
    <3> QED BY <3>2, <3>3
  <2>2. CASE l.st[c] = "settled"
    BY <2>2 DEF SettleQuota
  <2> QED BY <1>2, <2>1, <2>2 DEF Backing
<1> HIDE DEF n
<1>5. k.ledger = [a.ledger EXCEPT ![b] = n]
  BY <1>3 DEF Account
<1>6. k.ledger[b].st[c] = "settled"
  BY <1>1, <1>2, <1>4, <1>5
<1>7. k \in Account
  <2>1. {c} \in SUBSET Charge
    OBVIOUS
  <2> QED BY <2>1, SettleKeeps DEF Keeps
<1> HIDE DEF k
<1>8. ClearCurrentTask(k, t).ledger = k.ledger
  BY <1>7 DEF ClearCurrentTask, Account
<1> QED BY <1>6, <1>8 DEF LedgerOf, b, k

\* The charge of the attempt that succeeded still counts when the answer comes, and the
\* answer settles it.
LEMMA SuccessCounts ==
  ASSUME IInv, UseInv, CountInv, SettledStep, NEW r \in Reader, NEW v \in Verdicts(look[r]),
         Answer(r, v), v.then = "success",
         NEW t, t = look[r].task, NEW a, a = look[r].acc, NEW c, c = look[r].charge
  PROVE  CountInv'
PROOF
<1> DEFINE k == Paid(Marked(acct[a], v.mark), c, v.money)
           new == IF v.free THEN ClearCurrentTask(k, t) ELSE k
           m == IF look[r].late THEN MarkLateResultSuccess(meta[t]) ELSE MarkSuccess(meta[t])
<1>1. /\ t # NoTask /\ look' = [look EXCEPT ![r] = NoLook]
      /\ acct' = [acct EXCEPT ![a] = new]
      /\ Apply(t, v, look[r].late) /\ UNCHANGED <<run, plat>> /\ UNCHANGED dropped
      /\ torn' = IF res[t].charge # c THEN torn \cup {t} ELSE torn
  BY DEF Answer
<1>2. /\ meta' = [meta EXCEPT ![t] = m] /\ UNCHANGED returned
      /\ res' = [res EXCEPT ![t].url = TRUE, ![t].conv = FALSE]
  BY <1>1 DEF Apply
<1>3. look[r] \in Look /\ t \in Task
  BY <1>1 DEF IInv, StoreInv, Look
<1>4. v.mark = "" /\ v.money = "settle"
  BY <1>3, VerdictsOK DEF VerdictOK
<1>5. k = Settle(acct[a], c)
  BY <1>4 DEF Paid, Marked
<1>6. Frame
  BY <1>1 DEF Frame, LooksStay, IInv, StoreInv
<1>7. HoldsStep(NoCharge)
  BY <1>4, AnswerHolds
<1>8. /\ res'[t].acc = res[t].acc /\ res'[t].charge = res[t].charge
      /\ meta'[t] = m /\ returned'[t] = returned[t] /\ run'[t] = run[t]
      /\ \A u \in Task \ {t} : Stays(u)
  <2>1. res'[t].acc = res[t].acc /\ res'[t].charge = res[t].charge
    BY <1>2, <1>3, UseTypes DEF Res
  <2>2. meta'[t] = m /\ returned'[t] = returned[t] /\ run'[t] = run[t]
    BY <1>1, <1>2, <1>3, UseTypes
  <2>3. \A u \in Task \ {t} : Stays(u)
    BY <1>1, <1>2, <1>3, UseTypes DEF Stays
  <2> QED BY <2>1, <2>2, <2>3
<1>9. RunTakes(t, NoCharge) /\ ResTakes(t, NoCharge)
  BY <1>3, <1>8, UseTypes DEF RunTakes, ResTakes, RunFits, ResFits
<1>10. meta[t] \in Meta /\ Goes(meta[t], m)
  BY <1>3, UseTypes, RecordsWait DEF Waits
<1>11. m.late => meta[t].late
  BY <1>10 DEF MarkSuccess, MarkLateResultSuccess, Meta
<1>12. ASSUME Open(t)', ~Plain(meta[t], m) PROVE c[1] = t /\ c \in Charge /\ Firm(c)'
  <2>1. c = res[t].charge /\ ~returned[t] /\ t \notin torn
    BY <1>1, <1>8, <1>12 DEF Open
  <2>2. /\ c \in Charge /\ c[1] = t /\ a = res[t].acc /\ a \in Acct /\ a # NoAcct
        /\ meta[t].status = "submitted" \/ Ended(t)
    <3>1. look[r].charge # NoCharge /\ look[r].acc # NoAcct
          /\ (look[r].charge = res[t].charge => meta[t].status = "submitted" \/ Ended(t))
      BY <1>3, UseTypes DEF LooksFit
    <3>2. look[r].acc \in Acct /\ look[r].charge \in Charge
      BY <1>3, <3>1 DEF Look
    <3>3. /\ look[r].charge \in Charge => look[r].charge[1] = t
          /\ look[r].charge = res[t].charge => look[r].acc = res[t].acc
      BY <1>3 DEF CountInv, CountFits, ChargesFit
    <3> QED BY <2>1, <3>1, <3>2, <3>3
  <2>3. ~look[r].late
    BY <1>3, <2>1 DEF CountInv, CountFits, LateFits
  <2>4. m = MarkSuccess(meta[t])
    BY <2>3
  <2>5. ~Ended(t)
    <3>1. Ended(t) => m = meta[t]
      BY <1>10, <2>4 DEF Ended, Terminal, MarkSuccess
    <3> QED BY <1>12, <3>1 DEF Plain
  <2>6. BackedAt(c, a)
    BY <1>3, <2>1, <2>2, <2>5 DEF CountInv, CountFits, PaidFor, Open, ResPaid
  <2>7. CASE c \in dropped
    BY <1>1, <2>2, <2>7 DEF Firm
  <2>8. CASE c \notin dropped
    <3>1. LedgerOf(acct[a], c).st[c] \in Backing
      BY <2>6, <2>8 DEF BackedAt, LedgerOf
    <3>2. acct[a] \in Account /\ AcctFits(a) /\ acct \in [Acct -> Account]
      BY <2>2, Remembered DEF CountInv, IInv, AcctInv
    <3>3. BucketOf(c[1]) \in Bucket
      BY BucketOfType
    <3>4. Live(acct[a])
      BY <2>2, <3>1, <3>2, <3>3 DEF AcctFits, LedgerOf, Backing
    <3>5. LedgerOf(new, c).st[c] = "settled"
      <4>1. /\ LedgerOf(Settle(acct[a], c), c).st[c] = "settled"
            /\ LedgerOf(ClearCurrentTask(Settle(acct[a], c), t), c).st[c] = "settled"
        BY <2>2, <3>1, <3>2, <3>4, SettlePays
      <4>2. new = Settle(acct[a], c) \/ new = ClearCurrentTask(Settle(acct[a], c), t)
        BY <1>5
      <4> HIDE DEF new
      <4> QED BY <4>1, <4>2
    <3> HIDE DEF new
    <3>6. acct'[a] = new
      BY <1>1, <2>2, <3>2
    <3> QED BY <2>2, <3>3, <3>5, <3>6 DEF Firm, LedgerOf
  <2> QED BY <2>2, <2>7, <2>8
<1> HIDE DEF m
<1>13. MetaTakes(t)
  BY <1>8, <1>10, <1>11, <1>12 DEF MetaTakes, Goes
<1> QED BY <1>3, <1>6, <1>7, <1>8, <1>9, <1>13, AccountConstants, OneTaskCounts DEF Takes

LEMMA QueryCounts ==
  ASSUME IInv, UseInv, CountInv, SettledStep, NEW r \in Reader, Query(r) PROVE CountInv'
PROOF
<1>1. CASE AnswerLost(r)
  <2>1. /\ look' = [look EXCEPT ![r] = NoLook]
        /\ UNCHANGED <<acct, meta, res, run, returned, plat>> /\ UNCHANGED torn /\ UNCHANGED dropped
    BY <1>1 DEF AnswerLost, storeVars, history
  <2>2. Frame /\ HoldsStep(NoCharge)
    BY <2>1, SameHolds DEF Frame, LooksStay, IInv, StoreInv
  <2> QED BY <2>1, <2>2, CountStands
<1> QED BY <1>1, ReadCounts, AskAgainCounts, NoSuccessCounts, SuccessCounts DEF Query

-----------------------------------------------------------------------------
(* Administrators, the turn of the day and the probe.                         *)

LEMMA AdministerCounts ==
  ASSUME IInv, UseInv, CountInv, SettledStep, NEW a \in Acct, NEW new, Administer(a, new),
         \/ Holds(acct[a], new, NoCharge)
         \/ Empties(acct[a], new) /\ LeaseFits(acct[a], new)
  PROVE  CountInv'
PROOF
<1>1. /\ acct' = [acct EXCEPT ![a] = new] /\ UNCHANGED <<meta, res, run, returned, plat>>
      /\ UNCHANGED look /\ UNCHANGED torn
      /\ dropped' = dropped \cup (ChargesIn(acct[a]) \ ChargesIn(new))
  BY DEF Administer, storeVars
<1>2. Frame
  BY <1>1, SameLooks DEF Frame
<1>3. CASE Holds(acct[a], new, NoCharge)
  <2>1. HoldsStep(NoCharge)
    BY <1>1, <1>3, OneHolds
  <2> QED BY <1>1, <1>2, <2>1, CountStands
<1>4. CASE Empties(acct[a], new) /\ LeaseFits(acct[a], new)
  <2>1. ChargesIn(acct[a]) \subseteq dropped'
    BY <1>1, <1>4, EmptiedHasNoCharges
  <2>2. acct' = [acct EXCEPT ![a] = new] /\ acct \in [Acct -> Account]
    BY <1>1 DEF IInv, AcctInv
  <2>3. acct'[a] = new /\ \A y \in Acct \ {a} : acct'[y] = acct[y]
    BY <2>2
  <2>4. HoldsStep(NoCharge)
    BY <1>4, <2>1, <2>3, HoldsItself DEF HoldsStep
  <2> QED BY <1>1, <1>2, <2>4, CountStands
<1> QED BY <1>3, <1>4

LEMMA MergeDuplicateCounts ==
  ASSUME IInv, UseInv, CountInv, SettledStep, NEW a \in Acct, NEW d \in Acct, MergeDuplicate(a, d)
  PROVE  CountInv'
PROOF
<1> DEFINE k == MergeAccounts(acct[a], acct[d])
           n == DeleteAccount(acct[d])
<1>1. /\ acct' = [acct EXCEPT ![a] = k, ![d] = n] /\ UNCHANGED <<meta, res, run, returned, plat>>
      /\ UNCHANGED look /\ UNCHANGED torn
      /\ dropped' = dropped \cup ChargesIn(acct[d]) /\ a # d /\ Live(acct[a])
  BY DEF MergeDuplicate, storeVars
<1>2. Frame
  BY <1>1, SameLooks DEF Frame
<1>3. acct \in [Acct -> Account] /\ acct[a] \in Account /\ acct[d] \in Account
  BY DEF IInv, AcctInv
<1>4. Holds(acct[a], k, NoCharge)
  BY <1>1, <1>3, DefaultHolds
<1>5. Empties(acct[d], n) /\ LeaseFits(acct[d], n)
  BY <1>3, NewAccountEmpties, EmptiedFits
<1> HIDE DEF k, n
<1>6. acct'[a] = k /\ acct'[d] = n /\ \A x \in Acct \ {a, d} : acct'[x] = acct[x]
  BY <1>1, <1>3
<1>7. ChargesIn(acct[d]) \subseteq dropped'
  BY <1>1
<1>8. HoldsStep(NoCharge)
  BY <1>4, <1>5, <1>6, <1>7, HoldsItself DEF HoldsStep
<1> QED BY <1>1, <1>2, <1>8, CountStands

LEMMA AdminCounts ==
  ASSUME IInv, UseInv, CountInv, SettledStep, NEW a \in Acct, Admin(a) PROVE CountInv'
PROOF
<1> DEFINE x == acct[a]
<1>1. x \in Account
  BY Remembered
<1>2. NoStudio(x) /\ \A b \in Bucket : LedgerBalanced(x.ledger[b])
  BY DEF IInv, AcctInv, Balanced
<1>3. (plat = "qianwen") \in BOOLEAN
  OBVIOUS
<1>4. CASE AddAccount(a) \/ RemoveAccount(a)
  <2>1. /\ Empties(x, NewAccount(TRUE, Limit, Limit, plat = "qianwen"))
        /\ Empties(x, DeleteAccount(x))
        /\ LeaseFits(x, NewAccount(TRUE, Limit, Limit, plat = "qianwen"))
        /\ LeaseFits(x, DeleteAccount(x))
    BY <1>1, <1>3, NewAccountEmpties, EmptiedFits
  <2>2. \/ Administer(a, NewAccount(TRUE, Limit, Limit, plat = "qianwen"))
        \/ Administer(a, DeleteAccount(x))
    BY <1>4 DEF AddAccount, RemoveAccount
  <2> HIDE DEF x
  <2> QED BY <2>1, <2>2, AdministerCounts DEF x
<1>5. CASE SignInAgain(a)
  <2>1. Holds(x, UpdateCookies(x), NoCharge) /\ Administer(a, UpdateCookies(x))
    BY <1>1, <1>5, MarksHold DEF SignInAgain
  <2> QED BY <2>1, AdministerCounts
<1>6. CASE ClearQuota(a)
  <2> DEFINE n == ResetQuota(x, plat = "qianwen")
  <2>1. Administer(a, n)
    BY <1>6 DEF ClearQuota
  <2>2. Empties(x, n) /\ LeaseFits(x, n)
    BY <1>1, <1>2, ResetQuotaEmpties, EmptiedFits
  <2> QED BY <2>1, <2>2, AdministerCounts
<1>7. CASE UnmarkToday(a)
  <2>1. Administer(a, ResetMarkedToday(x))
    BY <1>7 DEF UnmarkToday
  <2>2. Holds(x, ResetMarkedToday(x), NoCharge)
    BY <1>1, MarksHold, HoldsItself DEF ResetMarkedToday
  <2> QED BY <2>1, <2>2, AdministerCounts
<1>8. CASE CoolDownEnds(a)
  <2>1. Holds(x, [x EXCEPT !.cooling = FALSE], NoCharge) /\ Administer(a, [x EXCEPT !.cooling = FALSE])
    BY <1>1, <1>8, MarksHold DEF CoolDownEnds
  <2> QED BY <2>1, AdministerCounts
<1>9. CASE RepairCharges(a)
  <2> DEFINE D == {c \in Charge : \E t \in Task : meta[t].status = "success" /\ res[t].acc = a
                                                   /\ res[t].charge = c}
             new == [x EXCEPT !.ledger["default"] = AddMissingCharges(@, D)]
  <2>1. Administer(a, new) /\ Live(x)
    BY <1>9 DEF RepairCharges
  <2> HIDE DEF D
  <2>2. Holds(x, new, NoCharge)
    BY <1>1, <2>1, DefaultHolds
  <2> QED BY <2>1, <2>2, AdministerCounts
<1>10. ASSUME NEW on \in BOOLEAN, SwitchAccount(a, on) PROVE CountInv'
  <2>1. Holds(x, SetEnabled(x, on), NoCharge) /\ Administer(a, SetEnabled(x, on))
    BY <1>1, <1>10, MarksHold DEF SwitchAccount
  <2> QED BY <2>1, AdministerCounts
<1>11. ASSUME NEW on \in BOOLEAN, CleanUp(a, on) PROVE CountInv'
  <2> DEFINE new == CleanUpFlagged(x, plat = "doubao", on)
  <2>1. Administer(a, new)
    BY <1>11 DEF CleanUp
  <2>2. new \in {x, Reinstate(x), DeleteAccount(x)}
    BY DEF CleanUpFlagged
  <2>3. Empties(x, DeleteAccount(x)) /\ LeaseFits(x, DeleteAccount(x))
    BY <1>1, <1>3, NewAccountEmpties, EmptiedFits
  <2>4. Holds(x, x, NoCharge) /\ Holds(x, Reinstate(x), NoCharge)
    BY <1>1, MarksHold, HoldsItself
  <2> HIDE DEF new
  <2>5. Holds(x, new, NoCharge) \/ (Empties(x, new) /\ LeaseFits(x, new))
    BY <2>2, <2>3, <2>4
  <2> QED BY <2>1, <2>5, AdministerCounts
<1>12. ASSUME NEW limit \in {0, Limit}, ChangeLimit(a, limit) PROVE CountInv'
  <2> DEFINE new == [x EXCEPT !.ledger["default"] = SetLimit(@, limit)]
  <2>1. Administer(a, new) /\ Live(x)
    BY <1>12 DEF ChangeLimit
  <2>2. Holds(x, new, NoCharge)
    BY <1>1, <2>1, DefaultHolds
  <2> QED BY <2>1, <2>2, AdministerCounts
<1>13. CASE StartProbe(a)
  <2>1. /\ acct' = [acct EXCEPT ![a] = ClaimForMaintenance(x)]
        /\ UNCHANGED <<meta, res, run, returned, plat>>
        /\ UNCHANGED look /\ UNCHANGED torn /\ UNCHANGED dropped
    BY <1>13 DEF StartProbe, storeVars, history
  <2>2. Frame
    BY <2>1, SameLooks DEF Frame
  <2>3. Holds(x, ClaimForMaintenance(x), NoCharge)
    BY <1>1, LeaseHolds
  <2>4. HoldsStep(NoCharge)
    BY <2>1, <2>3, OneHolds
  <2> QED BY <2>1, <2>2, <2>4, CountStands
<1> QED BY <1>4, <1>5, <1>6, <1>7, <1>8, <1>9, <1>10, <1>11, <1>12, <1>13, MergeDuplicateCounts
        DEF Admin

LEMMA DayCounts ==
  ASSUME IInv, UseInv, CountInv, SettledStep, Midnight \/ ResetDay \/ ListAccounts \/ ClearListed
  PROVE  CountInv'
PROOF
<1>1. /\ UNCHANGED <<meta, res, run, returned, plat>> /\ UNCHANGED look /\ UNCHANGED torn
      /\ dropped \subseteq dropped'
  BY DEF Midnight, ResetDay, ListAccounts, ClearListed, storeVars, history
<1>2. Frame
  BY <1>1, SameLooks DEF Frame
<1>3. acct \in [Acct -> Account] /\ \A a \in Acct : acct[a] \in Account
  BY DEF IInv, AcctInv
<1>4. CASE Midnight
  <2>1. \A a \in Acct : acct'[a] = NextDay(acct[a])
    BY <1>4 DEF Midnight
  <2>2. HoldsStep(NoCharge)
    BY <1>3, <2>1, NextDayHolds DEF HoldsStep
  <2> QED BY <1>1, <1>2, <2>2, CountStands
<1>5. CASE ResetDay
  <2>1. /\ acct' = [a \in Acct |-> IF Live(acct[a]) THEN DailyReset(acct[a], plat = "qianwen")
                                   ELSE acct[a]]
        /\ dropped' = dropped \cup UNION {ChargesIn(acct[a]) \ ChargesIn(acct'[a]) : a \in Acct}
    BY <1>5 DEF ResetDay
  <2>2. ASSUME NEW a \in Acct
        PROVE  \/ Holds(acct[a], acct'[a], NoCharge)
               \/ /\ Empties(acct[a], acct'[a]) /\ LeaseFits(acct[a], acct'[a])
                  /\ ChargesIn(acct[a]) \subseteq dropped'
    <3>1. NoStudio(acct[a]) /\ \A b \in Bucket : LedgerBalanced(acct[a].ledger[b])
      BY DEF IInv, AcctInv, Balanced
    <3>2. CASE ~Live(acct[a])
      BY <2>1, <3>2, HoldsItself
    <3>3. CASE Live(acct[a]) /\ acct[a].reset = "today"
      <4>1. acct'[a] = ReconcileQuotas(acct[a], plat = "qianwen")
        BY <2>1, <3>3 DEF DailyReset
      <4> QED BY <1>3, <3>3, <4>1, QuotasHold
    <3>4. CASE Live(acct[a]) /\ acct[a].reset # "today"
      <4>1. acct'[a] = DailyReset(acct[a], plat = "qianwen")
        BY <2>1, <3>4
      <4>2. Empties(acct[a], acct'[a]) /\ LeaseFits(acct[a], acct'[a])
        BY <1>3, <3>1, <3>4, <4>1, ResetQuotaEmpties, EmptiedFits
      <4>3. ChargesIn(acct'[a]) = {}
        BY <4>2, EmptiedHasNoCharges
      <4>4. ChargesIn(acct[a]) \subseteq dropped'
        BY <2>1, <4>3
      <4> QED BY <4>2, <4>4
    <3> QED BY <3>2, <3>3, <3>4
  <2>3. HoldsStep(NoCharge)
    BY <2>2 DEF HoldsStep
  <2> QED BY <1>1, <1>2, <2>3, CountStands
<1>6. CASE ListAccounts
  <2>1. HoldsStep(NoCharge)
    BY <1>6, SameHolds DEF ListAccounts
  <2> QED BY <1>1, <1>2, <2>1, CountStands
<1>7. CASE ClearListed
  <2>1. acct' = [a \in Acct |-> IF listed[a] = NoTask \/ NeedsLease(listed[a]) THEN acct[a]
                                ELSE ClearCurrentTask(acct[a], listed[a])]
    BY <1>7 DEF ClearListed
  <2>2. ASSUME NEW a \in Acct PROVE Holds(acct[a], acct'[a], NoCharge)
    <3>1. acct'[a] = acct[a] \/ acct'[a] = ClearCurrentTask(acct[a], listed[a])
      BY <2>1
    <3> QED BY <1>3, <3>1, HoldsItself, LeaseHolds
  <2>3. HoldsStep(NoCharge)
    BY <2>2 DEF HoldsStep
  <2> QED BY <1>1, <1>2, <2>3, CountStands
<1> QED BY <1>4, <1>5, <1>6, <1>7

LEMMA EndProbeCounts ==
  ASSUME IInv, UseInv, CountInv, SettledStep, NEW found \in {"valid", "invalid", "credit"},
         EndProbe(found)
  PROVE  CountInv'
PROOF
<1> DEFINE a == probing
           x == acct[a]
           k == CASE found = "invalid" -> IF plat = "qianwen" THEN DisableForLogin(x) ELSE x
                  [] found = "valid"   -> x
                  [] found = "credit"  -> IF plat = "qianwen" THEN SyncCredit(x, 1, NoCharge)
                                          ELSE UpdateCookies(x)
           new == IF Live(x) THEN ClearCurrentTask(k, Maintenance) ELSE x
<1>1. /\ acct' = [acct EXCEPT ![a] = new] /\ UNCHANGED <<meta, res, run, returned, plat>>
      /\ UNCHANGED look /\ UNCHANGED torn /\ UNCHANGED dropped
  BY DEF EndProbe, storeVars
<1>2. Frame
  BY <1>1, SameLooks DEF Frame
<1>3. ASSUME a \in Acct PROVE Holds(acct[a], new, NoCharge)
  <2>1. x \in Account
    BY <1>3, Remembered
  <2> HIDE DEF x
  <2>2. CASE ~Live(x)
    BY <2>2, HoldsItself DEF x
  <2>3. CASE Live(x)
    <3>1. k \in {x, DisableForLogin(x), SyncCredit(x, 1, NoCharge), UpdateCookies(x)}
      OBVIOUS
    <3>2. Keeps(x, k, Drawn(drawn))
      BY <2>1, MarksKeep, KeepsItself, SyncCreditKeeps, Remembered
    <3> HIDE DEF k
    <3>3. Holds(x, k, NoCharge)
      BY <2>1, <2>3, <3>1, HoldsItself, MarksHold, QuotasHold
    <3>4. Holds(k, ClearCurrentTask(k, Maintenance), NoCharge)
      BY <3>2, LeaseHolds DEF Keeps
    <3>5. Holds(x, ClearCurrentTask(k, Maintenance), NoCharge)
      BY <3>3, <3>4, HoldsThen
    <3> QED BY <2>3, <3>5 DEF x
  <2> QED BY <2>2, <2>3
<1> HIDE DEF a, new
<1>4. HoldsStep(NoCharge)
  BY <1>1, <1>3, OneHolds
<1> QED BY <1>1, <1>2, <1>4, CountStands

LEMMA InitCounts == Init => CountInv
PROOF
<1> SUFFICES ASSUME Init PROVE CountInv
  OBVIOUS
<1>1. /\ meta \in [Task -> {NoMeta, FinalizeTaskCreation(NoMeta)}]
      /\ res = [t \in Task |-> NoRes] /\ returned = [t \in Task |-> FALSE]
      /\ run = [t \in Task |-> NoRun] /\ look = [r \in Reader |-> NoLook]
  BY DEF Init
<1>2. ASSUME NEW t \in Task PROVE CountFits(t)
  <2>1. /\ run[t] = NoRun /\ res[t] = NoRes /\ \A r \in Reader : look[r].task # t
        /\ meta[t] \in {NoMeta, FinalizeTaskCreation(NoMeta)}
    BY <1>1, AccountConstants DEF NoLook
  <2>2. ~meta[t].late /\ meta[t].status # "success"
    <3>1. ~NoMeta.late /\ NoMeta.status # "success"
      BY DEF NoMeta
    <3>2. ~FinalizeTaskCreation(NoMeta).late /\ FinalizeTaskCreation(NoMeta).status # "success"
      BY DEF NoMeta, FinalizeTaskCreation
    <3> QED BY <2>1, <3>1, <3>2
  <2>3. NoCharge \notin Charge
    BY AccountConstants
  <2> QED BY <2>1, <2>2, <2>3 DEF CountFits, ChargesFit, LateFits, PaidFor, RunPaid, ResPaid,
             SuccessFits, NoRun, NoRes
<1>3. ASSUME NEW a \in Acct PROVE AcctFits(a)
  <2>1. acct[a] \in {NewAccount(TRUE, Limit, Limit, plat = "qianwen"), NoAccountYet}
    BY DEF Init
  <2>2. (plat = "qianwen") \in BOOLEAN
    OBVIOUS
  <2>3. \A b \in Bucket : \A c \in Charge : acct[a].ledger[b].st[c] = "none"
    <3> DEFINE k == acct[a]
    <3>1. Empties(k, NewAccount(TRUE, Limit, Limit, plat = "qianwen")) /\ Empties(k, NoAccountYet)
      BY <2>2, NewAccountEmpties
    <3> QED BY <2>1, <3>1 DEF Empties
  <2>4. acct[a].lease = NoTask
    <3>1. NewAccount(TRUE, Limit, Limit, plat = "qianwen").lease = NoTask /\ NoAccountYet.lease = NoTask
      BY DEF NewAccount, NoAccountYet
    <3> QED BY <2>1, <3>1
  <2> QED BY <2>3, <2>4, AccountConstants DEF AcctFits
<1> QED BY <1>2, <1>3 DEF CountInv

LEMMA StepCounts == IInv /\ UseInv /\ CountInv /\ [Next]_vars => CountInv'
PROOF
<1> SUFFICES ASSUME IInv, UseInv, CountInv, [Next]_vars PROVE CountInv'
  OBVIOUS
<1>1. SettledStep
  BY StepIInv
<1>2. CASE UNCHANGED vars
  <2>1. /\ UNCHANGED <<acct, meta, res, run, returned, plat>>
        /\ UNCHANGED look /\ UNCHANGED torn /\ UNCHANGED dropped
    BY <1>2 DEF vars, storeVars, history
  <2>2. Frame /\ HoldsStep(NoCharge)
    BY <1>1, <2>1, SameLooks, SameHolds DEF Frame
  <2> QED BY <2>1, <2>2, CountStands
<1>3. ASSUME NEW t \in Task, Work(t) \/ Watch(t) \/ Expire(t) \/ \E admin \in BOOLEAN : Cancel(t, admin)
      PROVE  CountInv'
  BY <1>1, <1>3, WorkCounts, WatchCounts, EndsFromOutsideCount
<1>4. CASE Next
  BY <1>1, <1>3, <1>4, QueryCounts, AdminCounts, RestartWorkerCounts, DayCounts, EndProbeCounts
     DEF Next
<1> QED BY <1>2, <1>4

\* A task that succeeded has a charge that counts, or one that left its ledger with a
\* reset or with its account, for every number of tasks, accounts, claims, queries and
\* interventions: whichever of the watch and the clients' queries settles, whatever is
\* refunded, exhausted, merged or repaired in between (settle_account_quota,
\* refund_account_quota, mark_success).  The charge of the attempt under way counts until
\* the answer, and what the answer settles stays settled.
THEOREM SuccessesCounted == Spec => []SuccessCounted
PROOF
<1>1. Init => CountInv
  BY InitCounts
<1>2. IInv /\ UseInv /\ CountInv /\ [Next]_vars => CountInv'
  BY StepCounts
<1>3. CountInv => SuccessCounted
  <2> SUFFICES ASSUME CountInv, NEW t \in Task, meta[t].status = "success", ~returned[t],
                      t \notin torn
               PROVE  \E c \in Charge : c[1] = t /\ (Counts(c) \/ c \in dropped)
    BY DEF SuccessCounted
  <2>1. PICK c \in Charge : c[1] = t /\ Firm(c)
    BY DEF CountInv, CountFits, SuccessFits, Open
  <2>2. Counts(c) \/ c \in dropped
    BY <2>1 DEF Firm, Counts
  <2> QED BY <2>1, <2>2
<1> QED BY <1>1, <1>2, <1>3, AccountInvariant, UseInvariant, PTL DEF Spec

=============================================================================
