---------------------------- MODULE AccountLedger ----------------------------
(* The quota ledger of a platform account (app/accounts.py).  Every account     *)
(* has one for ordinary tasks, and an account of qianwen has a second one for   *)
(* AI Studio whose fields carry the prefix qianwen_ai_studio; the charge id     *)
(* says which one a charge is in.  Every function below is one row-locked       *)
(* read-modify-write of the account, so it is an operator from the ledger       *)
(* before to the one after.                                                     *)
EXTENDS Naturals, FiniteSets

CONSTANTS
  Charge,    \* charge ids (task_id:random)
  MaxUnits   \* bound: no charge costs more units of quota than this

ASSUME LedgerConstants == IsFiniteSet(Charge) /\ MaxUnits \in Nat \ {0}

\* A date field against the current day; "" when it is not set.
Date == {"", "today", "earlier"}

\* "none": the charge is not in the list of charges.
ChargeStatus == {"none", "charged", "settled", "refunded"}

\* init, base, used and limit are quota_ledger_initialized, quota_ledger_base,
\* quota_used and quota_limit (0: no limit); exhausted is
\* quota_exhausted_date; st and units are the charges with their status
\* and cost.
Ledger == [init      : BOOLEAN,
           base      : Nat,
           used      : Nat,
           limit     : Nat,
           exhausted : Date,
           st        : [Charge -> ChargeStatus],
           units     : [Charge -> 1..MaxUnits]]

\* The quota part of _new_account: the default ledger has no list of charges yet,
\* the AI Studio ledger starts with an empty one.
NewLedger(limit, init) ==
  [init |-> init, base |-> 0, used |-> 0, limit |-> limit, exhausted |-> "",
   st |-> [c \in Charge |-> "none"], units |-> [c \in Charge |-> 1]]

\* The units of the charges that count, one pair for every unit.
ActiveUnits(l) ==
  Cardinality({p \in Charge \X (1..MaxUnits) :
                 l.st[p[1]] \in {"charged", "settled"} /\ p[2] <= l.units[p[1]]})

\* _reconciled_quota_used, _studio_reconciled_quota_used.
ReconciledUsed(l) == l.base + ActiveUnits(l)

Recompute(l) == [l EXCEPT !.used = ReconciledUsed(l)]

\* _initialize_quota_ledger: what was used before the list existed becomes its base.
InitializeLedger(l) == IF l.init THEN l ELSE [l EXCEPT !.base = l.used, !.init = TRUE]

\* _reconcile_account, _reconcile_studio_quota.
ReconcileLedger(l) == IF l.init THEN Recompute(l) ELSE l

AtLeast(n, m) == IF n < m THEN m ELSE n

\* Mutant: the charge is entered and quota_used is left for the next reconcile.
ChargeLater(l, c, cost) ==
  [InitializeLedger(l) EXCEPT !.st[c] = "charged", !.units[c] = cost]

\* claim_account_for_worker: the charge of a new claim.
ChargeQuota(l, c, cost) ==
  Recompute([InitializeLedger(l) EXCEPT !.st[c] = "charged", !.units[c] = cost])

\* Mutant: a settled charge can be refunded too.
RefundSettled(l, c) ==
  IF l.init /\ l.st[c] \in {"charged", "settled"}
    THEN Recompute([l EXCEPT !.st[c] = "refunded"]) ELSE l

\* refund_account_quota with the id of a charge.  (Its branch for a ledger
\* without a list serves charges made before the list was introduced; a claim
\* always has a charge id, so the functions are never called without one.)
RefundQuota(l, c) ==
  IF l.init /\ l.st[c] = "charged" THEN Recompute([l EXCEPT !.st[c] = "refunded"]) ELSE l

\* settle_account_quota.
SettleQuota(l, c) ==
  IF l.st[c] = "charged" THEN Recompute([l EXCEPT !.st[c] = "settled"]) ELSE l

\* exhaust_timed_out_account with a charge: whatever became of the charge, and
\* also when it is no longer in the list, it now counts.  An entry that has to be
\* added has no units and counts as one.  (The AI Studio variant raises used to 1,
\* which the settled charge does by itself.)
ExhaustTimedOut(l, c) ==
  LET k == InitializeLedger(l) IN
  [Recompute([k EXCEPT !.st[c] = "settled",
                       !.units[c] = IF k.st[c] = "none" THEN 1 ELSE k.units[c]])
     EXCEPT !.exhausted = "today"]

\* exhaust_account_quota with a charge: the platform says the account has no quota
\* left.  The charge goes back and the base is raised until the limit is reached.
ExhaustQuota(l, c) ==
  LET limit == AtLeast(l.limit, 1)
      k     == [l EXCEPT !.st[c] = IF l.st[c] = "charged" THEN "refunded" ELSE l.st[c],
                         !.limit = limit, !.exhausted = "today"]
      based == [k EXCEPT !.base = IF ActiveUnits(k) < limit THEN limit - ActiveUnits(k) ELSE 0]
  IN IF l.init THEN [based EXCEPT !.used = AtLeast(limit, ReconciledUsed(based))]
     ELSE [l EXCEPT !.limit = limit, !.used = AtLeast(limit, l.used), !.exhausted = "today"]

\* The AI Studio variant: it initialises the ledger, and a charge that is no
\* longer in the list is entered as refunded.
ExhaustStudioQuota(l, c) ==
  LET limit == AtLeast(l.limit, 1)
      i     == InitializeLedger(l)
      k     == [i EXCEPT !.st[c] = IF i.st[c] = "settled" THEN "settled" ELSE "refunded",
                         !.limit = limit, !.exhausted = "today"]
      based == [k EXCEPT !.base = IF ActiveUnits(k) < limit THEN limit - ActiveUnits(k) ELSE 0]
  IN [based EXCEPT !.used = AtLeast(limit, ReconciledUsed(based))]

\* The daily reset, and reset_account_quota: an empty list, for any past charge.
EmptyLedger(l) ==
  [l EXCEPT !.init = TRUE, !.base = 0, !.used = 0, !.exhausted = "",
            !.st = [c \in Charge |-> "none"], !.units = [c \in Charge |-> 1]]

\* update_account_quota, update_account_details, sync_account_default_quotas,
\* sync_qianwen_ai_studio_default_quota.
SetLimit(l, limit) == [l EXCEPT !.limit = limit]

\* reconcile_success_quota_charges: charges of successful tasks that are missing
\* from the list are entered as settled, one unit each.
AddMissingCharges(l, C) ==
  LET missing == {c \in C : l.st[c] = "none"}
      n       == Cardinality(missing)
      k       == IF l.init THEN l
                 ELSE [l EXCEPT !.init = TRUE, !.base = IF l.used > n THEN l.used - n ELSE 0]
  IN IF missing = {} THEN l
     ELSE Recompute([k EXCEPT !.st = [c \in Charge |-> IF c \in missing THEN "settled" ELSE k.st[c]],
                              !.units = [c \in Charge |-> IF c \in missing THEN 1 ELSE k.units[c]]])

\* merge_duplicate_accounts: the account that is kept takes over the charges of
\* its duplicate that it does not have, and the larger of the two bases.
MergeLedgers(l, d) ==
  LET st == [c \in Charge |-> IF l.st[c] = "none" THEN d.st[c] ELSE l.st[c]]
  IN IF \A c \in Charge : st[c] = "none" THEN l
     ELSE Recompute([l EXCEPT !.init = TRUE, !.base = AtLeast(l.base, d.base), !.st = st,
                              !.units = [c \in Charge |-> IF l.st[c] = "none" THEN d.units[c]
                                                          ELSE l.units[c]]])

\* quota_available of _select_account without a synchronised credit.
QuotaLeft(l, cost) == l.limit = 0 \/ l.used + cost <= l.limit

\* What every function above keeps up: quota_used is the base plus the charges
\* that count.
LedgerBalanced(l) == l.init => l.used = ReconciledUsed(l)
=============================================================================
