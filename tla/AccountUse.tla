----------------------------- MODULE AccountUse -----------------------------
(* How tasks use the accounts of a platform: the worker claims an account and   *)
(* charges its ledger, runs the automation, and the result queries of the       *)
(* worker and of the API later settle, refund or move the charge, while         *)
(* administrators, midnight and the maintenance probe change the same accounts. *)
(* A handler that does not wait is one step.  What a query read before it       *)
(* asked the platform (look) may be out of date when it applies the answer.     *)
(* The queue, the workers and the phases of a submission are in TaskQueue; here *)
(* a task has at most one run.                                                  *)
EXTENDS Accounts, TaskStore

CONSTANTS
  Acct, NoAcct,   \* account ids; account_id = ""
  Reader,         \* who queries results: "watch" (the worker), "api" (clients)
  Platforms,      \* the platforms to check, one per behaviour
  StudioTask,     \* the tasks that qianwen runs in AI Studio
  LongTask,       \* the tasks longer than ten seconds
  MaxClaims,      \* bound: claims of an account by a task
  MaxParts,       \* bound: accounts and tasks to begin with, together
  MaxIncidents,   \* bound: failures, rejections and interventions; a second task
                  \*   takes the place of one
  Limit           \* the default quota_limit

ASSUME UseConstants ==
  /\ NoAcct \notin Acct
  /\ {"watch"} \subseteq Reader /\ Reader \subseteq {"watch", "api"}
  /\ Platforms \subseteq {"dola", "doubao", "qianwen"}
  /\ StudioTask \subseteq Task /\ LongTask \subseteq Task
  /\ MaxClaims \in Nat /\ MaxParts \in Nat /\ MaxIncidents \in Nat /\ Limit \in Nat
  /\ Charge = Task \X (1..MaxClaims)

VARIABLES
  plat,      \* the platform of all tasks and accounts
  acct,      \* acct[a]: the account record
  meta,      \* meta[t]: the task record (TaskStore)
  res,       \* res[t]: account_id, account_quota_charge_id, conversation_id and
             \*   decoded_main_url of the result
  excl,      \* excl[t]: failed_account_ids
  pref,      \* pref[t]: preferred_account_id
  once,      \* once[t]: the platform's flag that the first special retry was used
  returned,  \* returned[t]: the owner has the price back
  run,       \* run[t]: the worker's run of t, with the account it claimed
  look,      \* look[r]: what query r read before it asked the platform
  probing,   \* the account whose login the probe is checking
  listed,    \* what _build_account_list_snapshot read: current_task_id by account
  drawn,     \* claims of an account so far
  budget,    \* incidents left
  stripped,  \* history: accounts whose lease was taken from a live run or probe
  torn,      \* history: tasks whose run was cut off after its submission, or with an
             \*   answer applied to another attempt
  dropped    \* history: charges that left a ledger with a reset or an account

storeVars == <<meta, res, excl, pref, once, returned>>
history   == <<stripped, torn, dropped>>
vars == <<plat, acct, meta, res, excl, pref, once, returned, run, look, probing,
          listed, drawn, budget, stripped, torn, dropped>>

NoRes  == [acc |-> NoAcct, charge |-> NoCharge, conv |-> FALSE, url |-> FALSE]
NoRun  == [stage |-> "none", acc |-> NoAcct, charge |-> NoCharge]
NoLook == [task |-> NoTask, acc |-> NoAcct, charge |-> NoCharge, late |-> FALSE, conv |-> FALSE,
           once |-> FALSE]

Res  == [acc : Acct \cup {NoAcct}, charge : Charge \cup {NoCharge}, conv : BOOLEAN, url : BOOLEAN]
\* "claimed": the worker has the task; "held": and an account; "sent": the
\* automation has submitted and stored the result, and has yet to return;
\* "blind": the same, and the platform did not name the conversation.
Run  == [stage : {"none", "claimed", "held", "sent", "blind"}, acc : Acct \cup {NoAcct},
         charge : Charge \cup {NoCharge}]
Look == [task : Task \cup {NoTask}, acc : Acct \cup {NoAcct}, charge : Charge \cup {NoCharge},
         late : BOOLEAN, conv : BOOLEAN, once : BOOLEAN]

\* The ledger of the task, by quota_bucket.
BucketOf(t) == IF plat = "qianwen" /\ t \in StudioTask THEN "studio" ELSE "default"

\* A charge knows its ledger by its prefix, and so its task.
LedgerOf(a, c) == a.ledger[BucketOf(c[1])]
Pays(a, c, l) ==
  IF c = NoCharge \/ ~Live(a) THEN a ELSE [a EXCEPT !.ledger[BucketOf(c[1])] = l]

Refund(a, c)   == Pays(a, c, RefundQuota(LedgerOf(a, c), c))
Settle(a, c)   == Pays(a, c, SettleQuota(LedgerOf(a, c), c))
TimedOut(a, c) == Pays(a, c, ExhaustTimedOut(LedgerOf(a, c), c))
Exhaust(a, c)  ==
  Pays(a, c, IF BucketOf(c[1]) = "studio" THEN ExhaustStudioQuota(LedgerOf(a, c), c)
             ELSE ExhaustQuota(LedgerOf(a, c), c))

\* consume_failed_account_quota, of the worker and of the queries.
Consume(a, c) == IF plat = "dola" THEN Settle(a, c) ELSE Refund(a, c)

\* One account changes; nothing happens for account_id = "".
Touch(a, new) == acct' = IF a = NoAcct THEN acct ELSE [acct EXCEPT ![a] = new]
Old(a) == IF a = NoAcct THEN NoAccountYet ELSE acct[a]

\* Something goes wrong, or somebody intervenes.
Incident == budget > 0 /\ budget' = budget - 1

\* The automation of t works with the account in its browser.
Uses(t, a) == run[t].stage = "held" /\ run[t].acc = a /\ meta[t].status = "running"

\* A step of an actor other than the run of u takes the lease away from u.
Strip(except) ==
  stripped' = stripped \cup
    {a \in Acct : \/ \E u \in Task \ except : Uses(u, a) /\ acct[a].lease = u /\ acct'[a].lease # u
                  \/ a = probing /\ acct[a].lease = Maintenance /\ acct'[a].lease # Maintenance}

-----------------------------------------------------------------------------
(* The worker.                                                                *)

\* postgres.claim_task, seen from the accounts; next_attempt_at has passed.
ClaimPending(t) ==
  /\ meta[t].status = "pending" /\ run[t] = NoRun /\ drawn < MaxClaims
  /\ meta' = [meta EXCEPT ![t] = ClaimTask([meta[t] EXCEPT !.waiting = FALSE], Gone)]
  /\ run' = [run EXCEPT ![t].stage = "claimed"]
  /\ UNCHANGED <<plat, acct, res, excl, pref, once, returned, look, probing, listed, drawn,
                 budget, history>>

\* The accounts claim_account_for_worker may choose for t.
Choice(t) ==
  {a \in Acct \ excl[t] :
     /\ pref[t] # NoAcct => a = pref[t]
     /\ Selectable(acct[a], BucketOf(t), 1, plat = "dola" /\ t \in LongTask)}

\* Up to the claim: an account with the ten second limit is no longer preferred
\* (account_supports_duration), then an account is claimed and charged.
DropPreference(t) ==
  /\ run[t].stage = "claimed" /\ pref[t] # NoAcct
  /\ plat = "dola" /\ t \in LongTask /\ Live(acct[pref[t]]) /\ acct[pref[t]].tenSecond
  /\ pref' = [pref EXCEPT ![t] = NoAcct]
  /\ UNCHANGED <<plat, acct, meta, res, excl, once, returned, run, look, probing, listed, drawn,
                 budget, history>>

TakeAccount(t, a) ==
  LET c == <<t, drawn + 1>> IN
  /\ run[t].stage = "claimed" /\ meta[t].status = "running" /\ a \in Choice(t)
  /\ drawn < MaxClaims
  /\ acct' = [acct EXCEPT ![a] = ClaimAccount(acct[a], t, BucketOf(t), c, 1)]
  /\ drawn' = drawn + 1
  /\ run' = [run EXCEPT ![t] = [stage |-> "held", acc |-> a, charge |-> c]]
  /\ res' = [res EXCEPT ![t] = NoRes]
  /\ UNCHANGED <<plat, meta, excl, pref, once, returned, look, probing, listed, budget, history>>

\* No account: the task waits, or ends once a retry has waited too long
\* (_handle_unavailable_account).
NoAccountFree(t) ==
  /\ run[t].stage = "claimed" /\ Choice(t) = {} /\ meta[t].status = "running"
  /\ \/ /\ meta' = [meta EXCEPT ![t] = DeferTask(meta[t])]
        /\ UNCHANGED returned
     \/ /\ pref[t] = NoAcct /\ meta[t].retries > 0
        /\ meta' = [meta EXCEPT ![t] = MarkFailed(meta[t])]
        /\ returned' = [returned EXCEPT ![t] = TRUE]
  /\ run' = [run EXCEPT ![t] = NoRun]
  /\ UNCHANGED <<plat, acct, res, excl, pref, once, look, probing, listed, drawn, budget, history>>

\* The run ends without a submission because the task is no longer its own, or
\* (other than on dola) the platform guard turns it away.
TurnedAway(t) ==
  /\ \/ run[t].stage = "claimed" /\ meta[t].status # "running" /\ UNCHANGED <<acct, meta>>
     \/ /\ run[t].stage = "held"
        /\ \/ meta[t].status # "running"
           \/ plat # "dola"
        /\ Touch(run[t].acc, Refund(ClearCurrentTask(acct[run[t].acc], t), run[t].charge))
        /\ meta' = [meta EXCEPT ![t] = DeferTask(meta[t])]
  /\ run' = [run EXCEPT ![t] = NoRun]
  /\ UNCHANGED <<plat, res, excl, pref, once, returned, look, probing, listed, drawn, budget,
                 history>>

\* The automation has submitted: the account and the charge are stored with the
\* result.  dola and doubao mark the task submitted at once, qianwen leaves that
\* to the worker.  conv: the platform has named the conversation.
Submit(t, conv) ==
  /\ run[t].stage = "held" /\ meta[t].status = "running"
  /\ conv \/ plat = "dola"
  /\ res' = [res EXCEPT ![t] = [acc |-> run[t].acc, charge |-> run[t].charge,
                                conv |-> conv, url |-> FALSE]]
  /\ LET m == [meta[t] EXCEPT !.evidence = TRUE] IN
     meta' = [meta EXCEPT ![t] = IF plat = "qianwen" THEN m ELSE MarkSubmitted(m)]
  /\ pref' = [pref EXCEPT ![t] = IF plat = "dola" /\ conv THEN NoAcct ELSE pref[t]]
  /\ run' = [run EXCEPT ![t].stage = IF conv THEN "sent" ELSE "blind"]
  /\ UNCHANGED <<plat, acct, excl, once, returned, look, probing, listed, drawn, budget, history>>

\* The automation returns after a submission.  dola: success, settled when the
\* conversation is known.  doubao: success with confirmation_pending and
\* keep_account_claimed.  qianwen: submitted and keep_account_claimed.
ReturnSubmitted(t) ==
  LET a == run[t].acc IN
  /\ run[t].stage \in {"sent", "blind"}
  /\ \/ /\ plat = "dola"
        /\ Touch(a, ClearCurrentTask(IF run[t].stage = "sent" THEN Settle(acct[a], run[t].charge)
                                     ELSE acct[a], t))
     \/ plat # "dola" /\ UNCHANGED acct
  /\ meta' = [meta EXCEPT ![t] = MarkSubmitted(meta[t])]
  /\ run' = [run EXCEPT ![t] = NoRun]
  /\ UNCHANGED <<plat, res, excl, pref, once, returned, look, probing, listed, drawn, budget,
                 history>>

\* The retryable outcomes of the automations: what is wrong, whether another
\* account is to be tried, and whether the attempt counts (defer_only).
Outcome(kind, switch, defer) == [kind |-> kind, switch |-> switch, defer |-> defer]
Outcomes ==
  LET common == {Outcome("infra", FALSE, FALSE), Outcome("plain", FALSE, FALSE)} IN
  CASE plat = "dola" ->
         common \cup {Outcome("login", TRUE, FALSE), Outcome("slider", TRUE, FALSE),
                      Outcome("infra", FALSE, TRUE)}
    [] plat = "doubao" ->
         common \cup {Outcome(k, TRUE, FALSE) :
                        k \in {"login", "slider", "region", "textOnly", "quota", "plain"}}
                \cup {Outcome("infra", FALSE, TRUE)}
    [] OTHER ->
         common \cup {Outcome("quota", TRUE, TRUE), Outcome("login", TRUE, FALSE),
                      Outcome("plain", TRUE, FALSE), Outcome("cool", TRUE, FALSE)}

\* release_account_after_retryable_failure.  A plain failure keeps its charge: the
\* attempt is paid for.
ReleaseAfterFailure(a, t, c, kind) ==
  LET k == ClearCurrentTask(a, t) IN
  CASE kind = "login"    -> Refund(DisableForLogin(k), c)
    [] kind = "slider"   -> Refund(MarkSliderVerification(k), c)
    [] kind = "textOnly" -> Refund(MarkTextOnly(k), c)
    [] kind = "region"   -> Refund(MarkRegionRestricted(k), c)
    [] kind = "quota"    -> Exhaust(k, c)
    [] kind = "infra"    -> Refund(k, c)
    [] kind = "cool"     -> SetCooldown(k)
    [] kind = "plain"    -> k

\* Mutant: the price goes back with the last retry, not after it.
CountRetryEarly(t, infra) ==
  /\ meta' = [meta EXCEPT ![t] = IF infra THEN RecordInfrastructureRetry(meta[t])
                                          ELSE RecordRetry(meta[t])]
  /\ returned' = [returned EXCEPT ![t] = @ \/ IF infra THEN meta'[t].infra >= MaxInfra
                                              ELSE meta'[t].retries >= RetryLimit]

\* A retry of the worker; past its limit the owner gets the price back.
CountRetry(t, infra) ==
  /\ meta' = [meta EXCEPT ![t] = IF infra THEN RecordInfrastructureRetry(meta[t])
                                          ELSE RecordRetry(meta[t])]
  /\ returned' = [returned EXCEPT ![t] = @ \/ IF infra THEN meta'[t].infra > MaxInfra
                                              ELSE meta'[t].retries > RetryLimit]

\* The automation returns a retryable failure.  (A mark on an account that was
\* deleted raises, which is Raise below.)
ReturnRetryable(t, o) ==
  LET a == run[t].acc IN
  /\ Incident /\ run[t].stage = "held" /\ Live(acct[a])
  /\ acct' = [acct EXCEPT ![a] = ReleaseAfterFailure(acct[a], t, run[t].charge, o.kind)]
  /\ excl' = [excl EXCEPT ![t] = IF o.switch THEN @ \cup {a} ELSE @]
  /\ pref' = [pref EXCEPT ![t] = IF o.switch THEN NoAcct ELSE @]
  /\ IF o.defer THEN meta' = [meta EXCEPT ![t] = DeferTask(meta[t])] /\ UNCHANGED returned
     ELSE CountRetry(t, o.kind = "infra")
  /\ run' = [run EXCEPT ![t] = NoRun]
  /\ Strip({t})
  /\ UNCHANGED <<plat, res, once, look, probing, listed, drawn, torn, dropped>>

\* qianwen answered with text only: the account is tried once more, then another
\* one, which does not exclude it.
ReturnTextOnly(t) ==
  LET a == run[t].acc IN
  /\ Incident /\ plat = "qianwen" /\ run[t].stage = "held"
  /\ acct' = [acct EXCEPT ![a] = ReleaseAfterFailure(acct[a], t, run[t].charge, "plain")]
  /\ pref' = [pref EXCEPT ![t] = IF once[t] THEN NoAcct ELSE a]
  /\ once' = [once EXCEPT ![t] = ~@]
  /\ CountRetry(t, FALSE)
  /\ run' = [run EXCEPT ![t] = NoRun]
  /\ UNCHANGED <<plat, res, excl, look, probing, listed, drawn, history>>

\* The automation returns a failure that is not retried.
ReturnFatal(t) ==
  LET a == run[t].acc IN
  /\ Incident /\ run[t].stage = "held"
  /\ acct' = [acct EXCEPT ![a] = Consume(ClearCurrentTask(acct[a], t), run[t].charge)]
  /\ meta' = [meta EXCEPT ![t] = MarkFailed(meta[t])]
  /\ returned' = [returned EXCEPT ![t] = TRUE]
  /\ run' = [run EXCEPT ![t] = NoRun]
  /\ UNCHANGED <<plat, res, excl, pref, once, look, probing, listed, drawn, history>>

CutOff(t) == IF run[t].stage \in {"sent", "blind"} THEN torn \cup {t} ELSE torn

\* The automation raises.  A final generation failure (other than on dola) neither
\* excludes the account nor gives the charge back.
Raise(t, infra, final) ==
  LET a == run[t].acc
      k == ClearCurrentTask(Old(a), t)
      consume == ~infra /\ (plat = "dola" \/ ~final)
  IN
  /\ Incident /\ run[t].stage \in {"claimed", "held", "sent", "blind"} /\ ~(infra /\ final)
  /\ CountRetry(t, infra)
  /\ Touch(a, IF infra THEN Refund(k, run[t].charge)
              ELSE IF consume THEN Consume(k, run[t].charge) ELSE k)
  /\ excl' = [excl EXCEPT ![t] = IF consume /\ a # NoAcct THEN @ \cup {a} ELSE @]
  /\ run' = [run EXCEPT ![t] = NoRun]
  /\ torn' = CutOff(t)
  /\ UNCHANGED <<plat, res, pref, once, look, probing, listed, drawn, stripped, dropped>>

\* The coroutine is canceled with an account in hand: by the watchdog after a
\* cancel request, or because the pool of workers shrinks.
CoroutineCanceled(t) ==
  LET a == run[t].acc IN
  /\ run[t].stage \in {"held", "sent", "blind"}
  /\ meta[t].status = "canceled" \/ budget > 0
  /\ acct' = [acct EXCEPT ![a] = Refund(ClearCurrentTask(acct[a], t), run[t].charge)]
  /\ meta' = [meta EXCEPT ![t] = MarkPending(meta[t])]
  /\ budget' = IF meta[t].status = "canceled" THEN budget ELSE budget - 1
  /\ run' = [run EXCEPT ![t] = NoRun]
  /\ torn' = CutOff(t)
  /\ UNCHANGED <<plat, res, excl, pref, once, returned, look, probing, listed, drawn, stripped,
                 dropped>>

\* The worker process ends and starts again.  At a shutdown (orderly) every run
\* gives up its lease and keeps its charge; a crash leaves both.  Start-up puts the
\* running tasks back and restores the leases of submitted qianwen tasks, for each
\* account the task that comes first.
RestartWorker(orderly, first) ==
  LET freed(a)   == IF orderly /\ \E t \in Task : acct[a].lease = t /\ run[t].acc = a
                      THEN ClearCurrentTask(acct[a], acct[a].lease) ELSE acct[a]
      after      == [t \in Task |-> ResetRunningTask(meta[t])]
      waiting(a) == {t \in Task : plat = "qianwen" /\ after[t].status = "submitted"
                                  /\ res[t].acc = a /\ freed(a).lease \in {NoTask, t}}
  IN
  /\ budget > 0 /\ \E t \in Task : run[t] # NoRun
  /\ meta' = after
  /\ acct' = [a \in Acct |->
                IF Live(acct[a]) /\ first[a] \in waiting(a)
                  THEN RestoreCurrentTask(freed(a), first[a], res[first[a]].charge)
                  ELSE freed(a)]
  /\ \A a \in Acct : waiting(a) # {} => first[a] \in waiting(a)
  /\ run' = [t \in Task |-> NoRun]
  /\ look' = [look EXCEPT !["watch"] = NoLook]
  /\ budget' = budget - 1
  /\ UNCHANGED <<plat, res, excl, pref, once, returned, probing, listed, drawn, history>>

-----------------------------------------------------------------------------
(* The result queries.                                                        *)

\* What a query does with an answer.  mark: what the account is marked with;
\* money: what becomes of the charge; free: whether the lease is given up; skip:
\* whether the account is excluded; pref: "same" (unchanged), "none" or "this";
\* flag: what once becomes; then: how the task goes on; limit: against
\* which number of retries; hard: mark_failed follows the last retry; user:
\* whether the owner gets the price back when the task fails.
Verdict == [mark |-> "", money |-> "refund", free |-> TRUE, skip |-> FALSE, pref |-> "same",
            flag |-> "", then |-> "retry", limit |-> RetryLimit, hard |-> FALSE, user |-> TRUE]

VideoReady == [Verdict EXCEPT !.money = "settle", !.then = "success"]

\* _query_doubao_task_once.
DoubaoLoginExpired == [Verdict EXCEPT !.mark = "login", !.then = "fail", !.user = FALSE]
DoubaoUnconfirmed(used) ==
  [Verdict EXCEPT !.skip = used, !.pref = IF used THEN "none" ELSE "this",
                  !.flag = IF used THEN "off" ELSE "on"]
DoubaoQuota == [Verdict EXCEPT !.money = "exhaust", !.skip = TRUE]
DoubaoFailed(mark) == [Verdict EXCEPT !.mark = mark, !.then = "fail"]

\* The qianwen part of _query_task_once and its three helpers.
QianwenTextOnly(used) ==
  [Verdict EXCEPT !.pref = IF used THEN "none" ELSE "this",
                  !.flag = IF used THEN "off" ELSE "on"]
QianwenQuota == [Verdict EXCEPT !.money = "exhaust", !.pref = "none"]
QianwenRejected == [Verdict EXCEPT !.then = "fail"]

\* The dola part of _query_task_once, from a known conversation.
DolaTenSeconds == [Verdict EXCEPT !.mark = "tenSecond", !.skip = TRUE, !.hard = TRUE]
DolaPortrait(used) == [Verdict EXCEPT !.skip = TRUE, !.hard = TRUE, !.flag = "on",
                                      !.then = IF used THEN "fail" ELSE "retry"]
DolaNotRealPerson == [Verdict EXCEPT !.then = "fail"]
DolaNoImage(hasImage) == [Verdict EXCEPT !.skip = hasImage, !.hard = TRUE,
                                         !.then = IF hasImage THEN "retry" ELSE "fail"]
DolaQuota == [Verdict EXCEPT !.money = "timedOut", !.skip = TRUE]
DolaSameAccount == [Verdict EXCEPT !.pref = "this", !.hard = TRUE]
DolaPolicy == [Verdict EXCEPT !.money = "consume", !.skip = TRUE, !.hard = TRUE,
                              !.limit = IF RetryLimit < 1 THEN RetryLimit ELSE 1]
DolaLogin == [Verdict EXCEPT !.mark = "login", !.skip = TRUE, !.hard = TRUE]
DolaFailed == [Verdict EXCEPT !.money = "consume", !.skip = TRUE, !.hard = TRUE]

\* No conversation was found in time.
DolaNewProxy == [Verdict EXCEPT !.free = FALSE, !.pref = "this", !.then = "proxy"]
DolaAmbiguous == [Verdict EXCEPT !.skip = TRUE, !.then = "ambiguous"]

Verdicts(l) ==
  CASE plat = "doubao" ->
         {VideoReady, DoubaoLoginExpired, DoubaoUnconfirmed(l.once), DoubaoQuota}
           \cup {DoubaoFailed(m) : m \in {"", "login", "slider"}}
    [] plat = "qianwen" -> {VideoReady, QianwenTextOnly(l.once), QianwenQuota, QianwenRejected}
    [] OTHER ->
         IF ~l.conv THEN {DolaNewProxy, DolaAmbiguous}
         ELSE IF l.late THEN {VideoReady}
         ELSE {VideoReady, DolaTenSeconds, DolaPortrait(l.once), DolaNotRealPerson,
               DolaNoImage(TRUE), DolaNoImage(FALSE), DolaQuota, DolaSameAccount, DolaPolicy,
               DolaLogin, DolaFailed}

\* What a query reads before it asks the platform.  Clients' queries ask it for
\* dola only.
ReadForQuery(r, t) ==
  /\ look[r] = NoLook /\ (r = "api" => plat = "dola")
  /\ meta[t].status = "submitted" \/ (r = "watch" /\ meta[t].late /\ meta[t].status = "failed")
  /\ ~res[t].url /\ res[t].acc # NoAcct
  /\ look' = [look EXCEPT ![r] = [task |-> t, acc |-> res[t].acc, charge |-> res[t].charge,
                late |-> meta[t].status = "failed", conv |-> res[t].conv, once |-> once[t]]]
  /\ UNCHANGED <<plat, acct, storeVars, run, probing, listed, drawn, budget, history>>

\* The platform has no answer yet, or none that changes anything.  A conversation
\* that was found late is stored with the result.
AskAgain(r, found) ==
  LET t == look[r].task IN
  /\ t # NoTask
  /\ res' = IF found /\ plat = "dola" /\ ~look[r].conv THEN [res EXCEPT ![t].conv = TRUE] ELSE res
  /\ look' = [look EXCEPT ![r] = NoLook]
  /\ UNCHANGED <<plat, acct, meta, excl, pref, once, returned, run, probing, listed, drawn, budget,
                 history>>

Marked(a, mark) ==
  CASE mark = ""          -> a
    [] mark = "login"     -> DisableForLogin(a)
    [] mark = "slider"    -> MarkSliderVerification(a)
    [] mark = "tenSecond" -> MarkTenSecondLimit(a)

Paid(a, c, money) ==
  CASE money = "refund"   -> Refund(a, c)
    [] money = "settle"   -> Settle(a, c)
    [] money = "consume"  -> Consume(a, c)
    [] money = "exhaust"  -> Exhaust(a, c)
    [] money = "timedOut" -> TimedOut(a, c)

\* retry_submitted_task with the count it returns, which is the present one when
\* the task is no longer submitted; then clear_transient_result, or past the limit
\* the end of the task.
RetryOrEnd(t, v) ==
  LET m     == meta[t]
      count == IF m.status = "submitted" THEN m.retries + 1 ELSE m.retries
      again == count <= v.limit
      next  == RetrySubmittedTask(m, v.limit)
  IN
  /\ meta' = [meta EXCEPT ![t] = IF again THEN ClearTransientResult(next, plat # "dola")
                                 ELSE IF v.hard THEN MarkFailed(next) ELSE next]
  /\ res' = IF again THEN [res EXCEPT ![t] = NoRes] ELSE res
  /\ returned' = [returned EXCEPT ![t] = @ \/ ~again]

\* The answer of the platform is applied to the task and to the account that were
\* read before.
Apply(t, v, late) ==
  CASE v.then = "success" ->
         /\ meta' = [meta EXCEPT ![t] = IF late THEN MarkLateResultSuccess(meta[t])
                                     ELSE MarkSuccess(meta[t])]
         /\ res' = [res EXCEPT ![t].url = TRUE, ![t].conv = FALSE]
         /\ UNCHANGED returned
    [] v.then = "fail" ->
         /\ meta' = [meta EXCEPT ![t] = MarkFailed(meta[t])]
         /\ returned' = [returned EXCEPT ![t] = @ \/ v.user]
         /\ UNCHANGED res
    [] v.then = "retry" -> RetryOrEnd(t, v)
    [] v.then = "proxy" ->
         /\ meta' = [meta EXCEPT ![t] = ClearTransientResult(RetryAmbiguousProxyTask(meta[t]), FALSE)]
         /\ res' = [res EXCEPT ![t] = NoRes]
         /\ UNCHANGED returned
    [] v.then = "ambiguous" ->
         LET next  == RetryAmbiguousSubmittedTask(meta[t])
             again == next.infra <= RetryLimit
         IN /\ meta' = [meta EXCEPT ![t] = IF again THEN ClearTransientResult(next, FALSE) ELSE next]
            /\ res' = IF again THEN [res EXCEPT ![t] = NoRes] ELSE res
            /\ returned' = [returned EXCEPT ![t] = @ \/ ~again]

Answer(r, v) ==
  LET l == look[r]  t == look[r].task  a == look[r].acc
      k == Paid(Marked(acct[a], v.mark), l.charge, v.money)
  IN
  /\ t # NoTask /\ v \in Verdicts(l)
  /\ IF v = VideoReady THEN UNCHANGED budget ELSE Incident
  /\ v.mark # "" => Live(acct[a])
  /\ acct' = [acct EXCEPT ![a] = IF v.free THEN ClearCurrentTask(k, t) ELSE k]
  /\ excl' = [excl EXCEPT ![t] = IF v.skip THEN @ \cup {a} ELSE @]
  /\ pref' = [pref EXCEPT ![t] =
                CASE v.pref = "same" -> @
                  [] v.pref = "none" -> NoAcct
                  [] v.pref = "this" -> IF v.then = "proxy" /\ meta[t].status # "submitted" THEN @
                                        ELSE a]
  /\ once' = [once EXCEPT ![t] = IF v.flag = "" THEN @ ELSE v.flag = "on"]
  /\ Apply(t, v, l.late)
  /\ look' = [look EXCEPT ![r] = NoLook]
  /\ Strip({})
  /\ torn' = IF res[t].charge # l.charge THEN torn \cup {t} ELSE torn
  /\ UNCHANGED <<plat, run, probing, listed, drawn, dropped>>

\* A mark raises because the account is gone: the query ends with the error.
AnswerLost(r) ==
  /\ look[r].task # NoTask /\ ~Live(acct[look[r].acc])
  /\ \E v \in Verdicts(look[r]) : v.mark # ""
  /\ look' = [look EXCEPT ![r] = NoLook]
  /\ UNCHANGED <<plat, acct, storeVars, run, probing, listed, drawn, budget, history>>

\* The result watch at its deadline.  qianwen tries another account.
GiveUp(t) ==
  LET a == res[t].acc
      k == IF plat = "dola" THEN Settle(Old(a), res[t].charge) ELSE Refund(Old(a), res[t].charge)
  IN
  /\ Incident /\ meta[t].status = "submitted" /\ look["watch"].task # t
  /\ Touch(a, ClearCurrentTask(k, t))
  /\ excl' = [excl EXCEPT ![t] = IF plat = "qianwen" /\ a # NoAcct THEN @ \cup {a} ELSE @]
  /\ pref' = [pref EXCEPT ![t] = IF plat = "qianwen" THEN NoAcct ELSE @]
  /\ IF plat = "qianwen" /\ meta[t].retries < RetryLimit
       THEN RetryOrEnd(t, Verdict)
       ELSE /\ meta' = [meta EXCEPT ![t] = GiveUpWaiting(IF plat = "qianwen"
                                       THEN RetrySubmittedTask(meta[t], RetryLimit) ELSE meta[t])]
            /\ returned' = [returned EXCEPT ![t] = TRUE]
            /\ UNCHANGED res
  /\ UNCHANGED <<plat, once, run, look, probing, listed, drawn, history>>

\* dola is slow: the watch gives the account to other tasks.
ReleaseSlowAccount(t) ==
  /\ plat = "dola" /\ meta[t].status = "submitted" /\ res[t].acc # NoAcct
  /\ acct[res[t].acc].lease = t
  /\ acct' = [acct EXCEPT ![res[t].acc] = ClearCurrentTask(acct[res[t].acc], t)]
  /\ UNCHANGED <<plat, storeVars, run, look, probing, listed, drawn, budget, history>>

\* The second deadline: the watch of a failed task ends.
StopLateWatch(t) ==
  /\ meta[t].late /\ look["watch"].task # t
  /\ meta' = [meta EXCEPT ![t] = EndLateWatch(meta[t])]
  /\ UNCHANGED <<plat, acct, res, excl, pref, once, returned, run, look, probing, listed, drawn,
                 budget, history>>

-----------------------------------------------------------------------------
(* What happens to tasks and accounts from outside.                           *)

\* expire_task_if_timeout, on a claim or at the start of a query.
Expire(t) ==
  LET a == res[t].acc IN
  /\ Incident /\ meta[t].status \in {"pending", "running", "submitted"} /\ ~res[t].url
  /\ Touch(a, ClearCurrentTask(TimedOut(Old(a), res[t].charge), t))
  /\ meta' = [meta EXCEPT ![t] = MarkFailed(meta[t])]
  /\ returned' = [returned EXCEPT ![t] = TRUE]
  /\ UNCHANGED <<plat, res, excl, pref, once, run, look, probing, listed, drawn, history>>

\* The cancel requests of the API with _refund_canceled_task: the account comes
\* from the result or from the lease.
Cancel(t, admin) ==
  LET leased == {a \in Acct : acct[a].lease = t}
      a == IF res[t].acc # NoAcct THEN res[t].acc
           ELSE IF leased = {} THEN NoAcct ELSE CHOOSE x \in leased : TRUE
      c == IF res[t].charge # NoCharge THEN res[t].charge ELSE Old(a).charge
  IN
  /\ Incident /\ MayCancel(meta[t], admin)
  /\ meta' = [meta EXCEPT ![t] = RequestTaskCancel(meta[t])]
  /\ Touch(a, Refund(ClearCurrentTask(Old(a), t), c))
  /\ returned' = [returned EXCEPT ![t] = TRUE]
  /\ UNCHANGED <<plat, res, excl, pref, once, run, look, probing, listed, drawn, history>>

\* The charges an account has in its ledgers.
ChargesIn(a) == {c \in Charge : \E b \in Bucket : a.ledger[b].st[c] # "none"}

\* One change of one account by an administrator or a script.
Administer(a, new) ==
  /\ Incident /\ acct' = [acct EXCEPT ![a] = new] /\ new # acct[a]
  /\ Strip({})
  /\ dropped' = dropped \cup (ChargesIn(acct[a]) \ ChargesIn(new))
  /\ UNCHANGED <<plat, storeVars, run, look, probing, listed, drawn, torn>>

AddAccount(a) == acct[a].row = "none" /\ Administer(a, NewAccount(TRUE, Limit, Limit, plat = "qianwen"))
RemoveAccount(a) == Live(acct[a]) /\ Administer(a, DeleteAccount(acct[a]))
SwitchAccount(a, on) == Live(acct[a]) /\ Administer(a, SetEnabled(acct[a], on))
SignInAgain(a) == Live(acct[a]) /\ Administer(a, UpdateCookies(acct[a]))
ClearQuota(a) == Live(acct[a]) /\ Administer(a, ResetQuota(acct[a], plat = "qianwen"))
ChangeLimit(a, limit) ==
  Live(acct[a]) /\ Administer(a, [acct[a] EXCEPT !.ledger["default"] = SetLimit(@, limit)])
UnmarkToday(a) == Live(acct[a]) /\ Administer(a, ResetMarkedToday(acct[a]))
CleanUp(a, evening) == Live(acct[a]) /\ Administer(a, CleanUpFlagged(acct[a], plat = "doubao", evening))
CoolDownEnds(a) == Live(acct[a]) /\ Administer(a, [acct[a] EXCEPT !.cooling = FALSE])
\* scripts/reconcile_success_quotas.py.  It looks at the first ledger only, so the
\* charge of an AI Studio task is entered there as well.
RepairCharges(a) ==
  LET C == {c \in Charge : \E t \in Task : meta[t].status = "success" /\ res[t].acc = a
                                            /\ res[t].charge = c}
  IN
  Live(acct[a]) /\ Administer(a, [acct[a] EXCEPT !.ledger["default"] = AddMissingCharges(@, C)])

\* merge_duplicate_accounts: d is deleted, its charges move to a.
MergeDuplicate(a, d) ==
  /\ Incident /\ a # d /\ Live(acct[a]) /\ Live(acct[d])
  /\ acct' = [acct EXCEPT ![a] = MergeAccounts(acct[a], acct[d]), ![d] = DeleteAccount(acct[d])]
  /\ Strip({})
  /\ dropped' = dropped \cup ChargesIn(acct[d])
  /\ UNCHANGED <<plat, storeVars, run, look, probing, listed, drawn, torn>>

Midnight ==
  /\ Incident
  /\ acct' = [a \in Acct |-> NextDay(acct[a])]
  /\ UNCHANGED <<plat, storeVars, run, look, probing, listed, drawn, history>>

\* account_quota_reset_loop and the maintenance of the account list.
ResetDay ==
  /\ \E a \in Acct : Live(acct[a]) /\ acct[a].reset # "today"
  /\ acct' = [a \in Acct |-> IF Live(acct[a]) THEN DailyReset(acct[a], plat = "qianwen") ELSE acct[a]]
  /\ dropped' = dropped \cup UNION {ChargesIn(acct[a]) \ ChargesIn(acct'[a]) : a \in Acct}
  /\ UNCHANGED <<plat, storeVars, run, look, probing, listed, drawn, budget, stripped, torn>>

\* _build_account_list_snapshot: the accounts are read, then their tasks, then
\* every lease without a task that needs it is given up.
ListAccounts ==
  /\ Incident /\ \A a \in Acct : listed[a] = NoTask
  /\ listed' = [a \in Acct |-> acct[a].lease]
  /\ UNCHANGED <<plat, acct, storeVars, run, look, probing, drawn, history>>

NeedsLease(t) ==
  /\ t \in Task
  /\ \/ meta[t].status = "running"
     \/ plat = "qianwen" /\ meta[t].status = "submitted"
     \/ meta[t].status = "success" /\ ~res[t].url

ClearListed ==
  /\ \E a \in Acct : listed[a] # NoTask
  /\ acct' = [a \in Acct |-> IF listed[a] = NoTask \/ NeedsLease(listed[a]) THEN acct[a]
                             ELSE ClearCurrentTask(acct[a], listed[a])]
  /\ listed' = [a \in Acct |-> NoTask]
  /\ Strip({})
  /\ UNCHANGED <<plat, storeVars, run, look, probing, drawn, budget, torn, dropped>>

\* The qianwen probe and the model synchronisations.
StartProbe(a) ==
  /\ Incident /\ probing = NoAcct /\ Selectable(acct[a], "default", 1, FALSE)
  /\ acct' = [acct EXCEPT ![a] = ClaimForMaintenance(acct[a])]
  /\ probing' = a
  /\ UNCHANGED <<plat, storeVars, run, look, listed, drawn, history>>

\* found: "valid", "invalid" or an amount of AI Studio credit.
EndProbe(found) ==
  LET a == probing
      k == CASE found = "invalid" -> IF plat = "qianwen" THEN DisableForLogin(acct[a]) ELSE acct[a]
             [] found = "valid"   -> acct[a]
             [] found = "credit"  -> IF plat = "qianwen" THEN SyncCredit(acct[a], 1, NoCharge)
                                     ELSE UpdateCookies(acct[a])
  IN
  /\ a # NoAcct
  /\ acct' = [acct EXCEPT ![a] = IF Live(acct[a]) THEN ClearCurrentTask(k, Maintenance) ELSE acct[a]]
  /\ probing' = NoAcct
  /\ stripped' = stripped \cup {x \in Acct : \E u \in Task : Uses(u, x) /\ acct[x].lease = u /\ acct'[x].lease # u}
  /\ UNCHANGED <<plat, storeVars, run, look, listed, drawn, budget, torn, dropped>>

-----------------------------------------------------------------------------
Init ==
  /\ plat \in Platforms
  /\ \E A \in SUBSET Acct, T \in SUBSET Task :
       /\ A # {} /\ T # {} /\ Cardinality(A) + Cardinality(T) <= MaxParts
       /\ acct = [a \in Acct |-> IF a \in A THEN NewAccount(TRUE, Limit, Limit, plat = "qianwen")
                                 ELSE NoAccountYet]
       /\ meta = [t \in Task |-> IF t \in T THEN FinalizeTaskCreation(NoMeta) ELSE NoMeta]
       /\ budget = IF Cardinality(T) <= MaxIncidents THEN MaxIncidents + 1 - Cardinality(T) ELSE 0
  /\ res = [t \in Task |-> NoRes]
  /\ excl = [t \in Task |-> {}] /\ pref = [t \in Task |-> NoAcct]
  /\ once = [t \in Task |-> FALSE] /\ returned = [t \in Task |-> FALSE]
  /\ run = [t \in Task |-> NoRun] /\ look = [r \in Reader |-> NoLook]
  /\ probing = NoAcct /\ listed = [a \in Acct |-> NoTask]
  /\ drawn = 0
  /\ stripped = {} /\ torn = {} /\ dropped = {}

Work(t) ==
  \/ ClaimPending(t) \/ DropPreference(t) \/ NoAccountFree(t) \/ TurnedAway(t)
  \/ \E a \in Acct : TakeAccount(t, a)
  \/ \E conv \in BOOLEAN : Submit(t, conv)
  \/ ReturnSubmitted(t) \/ ReturnTextOnly(t) \/ ReturnFatal(t) \/ CoroutineCanceled(t)
  \/ \E o \in Outcomes : ReturnRetryable(t, o)
  \/ \E infra, final \in BOOLEAN : Raise(t, infra, final)

Watch(t) == GiveUp(t) \/ ReleaseSlowAccount(t) \/ StopLateWatch(t)

Query(r) ==
  \/ \E t \in Task : ReadForQuery(r, t)
  \/ \E found \in BOOLEAN : AskAgain(r, found)
  \/ \E v \in Verdicts(look[r]) : Answer(r, v)
  \/ AnswerLost(r)

Admin(a) ==
  \/ AddAccount(a) \/ RemoveAccount(a) \/ SignInAgain(a) \/ ClearQuota(a) \/ UnmarkToday(a)
  \/ CoolDownEnds(a) \/ RepairCharges(a)
  \/ \E on \in BOOLEAN : SwitchAccount(a, on) \/ CleanUp(a, on)
  \/ \E limit \in {0, Limit} : ChangeLimit(a, limit)
  \/ \E d \in Acct : MergeDuplicate(a, d)
  \/ StartProbe(a)

Next ==
  \/ \E t \in Task : Work(t) \/ Watch(t) \/ Expire(t) \/ \E admin \in BOOLEAN : Cancel(t, admin)
  \/ \E r \in Reader : Query(r)
  \/ \E a \in Acct : Admin(a)
  \/ \E orderly \in BOOLEAN, first \in [Acct -> Task] : RestartWorker(orderly, first)
  \/ Midnight \/ ResetDay \/ ListAccounts \/ ClearListed
  \/ \E found \in {"valid", "invalid", "credit"} : EndProbe(found)

Spec == Init /\ [][Next]_vars

-----------------------------------------------------------------------------
\* quota_used of both ledgers of every account is its base plus the charges that
\* count, whatever order claims, settlements, refunds, exhaustions, repairs,
\* merges and resets come in (_reconciled_quota_used is called by each of them).
Balanced == \A a \in Acct, b \in Bucket : LedgerBalanced(acct[a].ledger[b])

\* Two runs never work in the browser of one account, nor a run and the probe,
\* unless the lease was taken from one of them: by a mark for another task, a late
\* answer, the account list or an administrator.
AccountExclusive ==
  \A a \in Acct \ stripped :
    /\ \A t, u \in Task : Uses(t, a) /\ Uses(u, a) => t = u
    /\ probing = a => \A t \in Task : ~Uses(t, a)

\* The owner of a task has the price back only when the task has ended: a refund
\* never leaves an attempt under way, unless the run was cut off after its
\* submission or an answer was applied to another attempt (retry_ambiguous_submitted_task
\* returns the present count of a task that is no longer submitted, which the query
\* takes for the count past the limit).
RefundedEnded == \A t \in Task : returned[t] /\ t \notin torn => meta[t].status \in Terminal

\* A task that succeeded has a charge that counts, or one that left its ledger with
\* a reset or an account, unless the owner was refunded before a late success, the
\* run was cut off after its submission (its charge is refunded then, while the
\* platform works on), or an answer was applied to another attempt.
Counts(c) == \E a \in Acct, b \in Bucket : acct[a].ledger[b].st[c] \in {"charged", "settled"}
SuccessCounted ==
  \A t \in Task : meta[t].status = "success" /\ ~returned[t] /\ t \notin torn =>
    \E c \in Charge : c[1] = t /\ (Counts(c) \/ c \in dropped)

\* A settled charge stays settled until the ledger is emptied or its account goes
\* (refund_account_quota and exhaust_account_quota take back only what is charged).
SettledFinal ==
  [][\A a \in Acct, b \in Bucket, c \in Charge :
       acct[a].ledger[b].st[c] = "settled" =>
         acct'[a].ledger[b].st[c] = "settled" \/ c \in dropped']_vars
=============================================================================
