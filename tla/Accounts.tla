------------------------------- MODULE Accounts -------------------------------
(* The account record of app/accounts.py: its lease (current_task_id), its      *)
(* status marks and its two ledgers.  An operator is one function of the file,  *)
(* from the record before to the record after.  Names, cookies, proxy pins and  *)
(* time stamps are left out; an account always has cookies.                     *)
EXTENDS AccountLedger

CONSTANTS
  Task,         \* task ids
  NoTask,       \* current_task_id = ""
  Maintenance,  \* current_task_id = "maintenance:..."
  NoCharge      \* current_quota_charge_id = ""

ASSUME AccountConstants == /\ NoTask \notin Task
                           /\ Maintenance \notin Task \cup {NoTask}
                           /\ NoCharge \notin Charge

Bucket == {"default", "studio"}
AccountStatus == {"normal", "abnormal", "slider_verification", "text_only", "region_restricted"}

\* row: whether the row exists; an id is never used again.  marked: the day of
\* account_status_marked_at (or slider_verification_date).  cooling: cooldown_until
\* lies ahead.  reset: the day of quota_reset_date.  synced, available and usedThen:
\* the last synchronisation of the AI Studio credit.
Account == [row       : {"none", "there", "deleted"},
            enabled   : BOOLEAN,
            status    : AccountStatus,
            marked    : Date,
            cooling   : BOOLEAN,
            tenSecond : BOOLEAN,
            source    : {"api", "admin"},
            lease     : Task \cup {NoTask, Maintenance},
            charge    : Charge \cup {NoCharge},
            reset     : Date,
            synced    : Date,
            available : Nat,
            usedThen  : Nat,
            ledger    : [Bucket -> Ledger]]

NoAccountYet == [row |-> "none", enabled |-> FALSE, status |-> "normal", marked |-> "",
                 cooling |-> FALSE, tenSecond |-> FALSE, source |-> "admin",
                 lease |-> NoTask, charge |-> NoCharge, reset |-> "", synced |-> "",
                 available |-> 0, usedThen |-> 0,
                 ledger |-> [b \in Bucket |-> NewLedger(0, FALSE)]]

Live(a) == a.row = "there"

\* delete_account.
DeleteAccount(a) == [NoAccountYet EXCEPT !.row = "deleted"]

\* _new_account.  The AI Studio fields are there for qianwen only.
NewAccount(enabled, limit, studioLimit, qianwen) ==
  [NoAccountYet EXCEPT !.row = "there", !.enabled = enabled, !.reset = "today",
     !.ledger = [b \in Bucket |-> IF b = "default" THEN NewLedger(limit, FALSE)
                                  ELSE NewLedger(studioLimit, qianwen)]]

\* _studio_synced_quota_remaining, when the credit was synchronised today.
SyncedRemaining(a) ==
  LET used  == ReconciledUsed(a.ledger["studio"])
      spent == IF used > a.usedThen THEN used - a.usedThen ELSE 0
  IN IF a.available > spent THEN a.available - spent ELSE 0

\* Mutant: the lease of another task is not looked at.
SelectableThoughLeased(a, b, cost, long) ==
  /\ Live(a) /\ a.enabled /\ a.status = "normal" /\ ~a.cooling
  /\ a.ledger[b].exhausted # "today" /\ QuotaLeft(a.ledger[b], cost)

\* The conditions of _select_account and of the query of claim_available_account.
\* long: the task is one of dola and longer than ten seconds.
Selectable(a, b, cost, long) ==
  /\ Live(a) /\ a.enabled /\ a.status = "normal"
  /\ ~(long /\ a.tenSecond)
  /\ a.lease = NoTask
  /\ ~a.cooling
  /\ a.ledger[b].exhausted # "today"
  /\ IF b = "studio" /\ a.synced = "today" THEN SyncedRemaining(a) >= cost
     ELSE QuotaLeft(a.ledger[b], cost)

\* claim_account_for_worker.
ClaimAccount(a, t, b, c, cost) ==
  [a EXCEPT !.lease = t, !.charge = c, !.ledger[b] = ChargeQuota(a.ledger[b], c, cost)]

\* claim_account_for_maintenance: a lease and no charge.
ClaimForMaintenance(a) == [a EXCEPT !.lease = Maintenance]

\* clear_account_current_task.
ClearCurrentTask(a, t) ==
  IF a.lease = t THEN [a EXCEPT !.lease = NoTask, !.charge = NoCharge] ELSE a

\* restore_account_current_task.
RestoreCurrentTask(a, t, c) ==
  IF a.lease \notin {NoTask, t} THEN a
  ELSE [a EXCEPT !.lease = t, !.charge = IF c = NoCharge THEN a.charge ELSE c]

\* disable_account_for_login.
DisableForLogin(a) ==
  [a EXCEPT !.enabled = FALSE, !.status = "abnormal", !.marked = "today", !.lease = NoTask]

\* mark_account_text_only.
MarkTextOnly(a) ==
  [a EXCEPT !.enabled = FALSE, !.status = "text_only", !.marked = "today", !.lease = NoTask]

\* mark_account_region_restricted.
MarkRegionRestricted(a) ==
  [a EXCEPT !.enabled = FALSE, !.status = "region_restricted", !.marked = "today",
            !.lease = NoTask]

\* mark_account_slider_verification: the account stays enabled.
MarkSliderVerification(a) ==
  [a EXCEPT !.status = "slider_verification", !.marked = "today", !.lease = NoTask]

\* mark_account_ten_second_limit.
MarkTenSecondLimit(a) == [a EXCEPT !.tenSecond = TRUE, !.source = "api"]

\* set_account_cooldown.
SetCooldown(a) == [a EXCEPT !.cooling = TRUE]

\* update_account_cookies: a new login clears every mark but not the lease.
UpdateCookies(a) ==
  [a EXCEPT !.enabled = TRUE, !.status = "normal", !.marked = "", !.tenSecond = FALSE]

\* set_account_enabled.
SetEnabled(a, enabled) == [a EXCEPT !.enabled = enabled]

\* What the two resets of marked accounts write.
Reinstate(a) ==
  [a EXCEPT !.enabled = TRUE, !.status = "normal", !.marked = "", !.cooling = FALSE,
            !.lease = NoTask]

\* reset_platform_accounts_marked_today, for one account of the platform.
ResetMarkedToday(a) == IF a.marked = "today" THEN Reinstate(a) ELSE a

\* cleanup_flagged_accounts, for one account: accounts with a mark that ends them
\* are deleted, marked doubao accounts with a captcha are reinstated; an account
\* with a lease is left for the next run.  evening: it is 23:00 or later.
CleanUpFlagged(a, doubao, evening) ==
  LET delete == IF doubao THEN {"abnormal", "region_restricted"}
                ELSE {"abnormal", "slider_verification"}
      again  == IF doubao THEN {"slider_verification"} ELSE {}
      due    == a.marked = "earlier" \/ evening
  IN IF a.status \notin delete \cup again \/ ~due \/ a.lease # NoTask THEN a
     ELSE IF a.status \in again THEN Reinstate(a)
     ELSE DeleteAccount(a)

\* reconcile_account_quotas, for one account: the AI Studio ledger is looked at
\* only when the first one needed no repair.
ReconcileQuotas(a, qianwen) ==
  LET first == ReconcileLedger(a.ledger["default"]) IN
  IF first # a.ledger["default"] THEN [a EXCEPT !.ledger["default"] = first]
  ELSE IF qianwen THEN [a EXCEPT !.ledger["studio"] = ReconcileLedger(a.ledger["studio"])]
  ELSE a

\* reset_daily_account_quotas_if_needed, for one account.
DailyReset(a, qianwen) ==
  IF a.reset = "today" THEN ReconcileQuotas(a, qianwen)
  ELSE [a EXCEPT !.reset = "today",
                 !.ledger = [b \in Bucket |-> IF b = "default" \/ qianwen
                                              THEN EmptyLedger(a.ledger[b]) ELSE a.ledger[b]]]

\* reset_account_quota.
ResetQuota(a, qianwen) ==
  [a EXCEPT !.ledger = [b \in Bucket |-> IF b = "default" \/ qianwen
                                         THEN EmptyLedger(a.ledger[b]) ELSE a.ledger[b]]]

\* sync_qianwen_ai_studio_credit: the platform's own figure, read while the
\* charge c of the running claim is not yet part of it.
SyncCredit(a, available, c) ==
  LET l       == InitializeLedger(a.ledger["studio"])
      used    == ReconciledUsed(l)
      pending == IF c # NoCharge /\ l.st[c] = "charged" THEN l.units[c] ELSE 0
      before  == IF used > pending THEN used - pending ELSE 0
  IN [a EXCEPT !.synced = "today", !.available = available, !.usedThen = before,
        !.ledger["studio"] =
          [l EXCEPT !.limit = before + available, !.used = used,
                    !.exhausted = IF available >= pending THEN "" ELSE l.exhausted]]

\* Midnight: what was dated today is of an earlier day.
Past(d) == IF d = "today" THEN "earlier" ELSE d
NextDay(a) ==
  [a EXCEPT !.marked = Past(a.marked), !.reset = Past(a.reset), !.synced = Past(a.synced),
            !.ledger = [b \in Bucket |-> [a.ledger[b] EXCEPT !.exhausted = Past(a.ledger[b].exhausted)]]]

\* merge_duplicate_accounts, the record that is kept (only the first ledger).
MergeAccounts(a, d) ==
  [a EXCEPT !.ledger["default"] = MergeLedgers(a.ledger["default"], d.ledger["default"])]
=============================================================================
