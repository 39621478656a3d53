------------------------------ MODULE TaskStore ------------------------------
(* The task record of app/store.py.  Every writer of a record goes through one *)
(* row-locked read-modify-write (postgres.mutate_task_part), so each store     *)
(* function is an operator from the record before to the record after.         *)
EXTENDS Naturals

CONSTANTS
  Worker,      \* ids of the worker coroutines
  NoWorker,    \* worker_id = ""
  Gone,        \* stands for the ids of coroutines that have been replaced
  RetryLimit,  \* task_retry_limit()
  MaxInfra     \* MAX_INFRASTRUCTURE_RETRIES

ASSUME StoreConstants == /\ NoWorker \notin Worker
                         /\ Gone \notin Worker \cup {NoWorker}
                         /\ RetryLimit \in Nat
                         /\ MaxInfra \in Nat

\* "none": no row yet.  "initializing": row written, files still being uploaded.
Status == {"none", "initializing", "pending", "running", "submitted",
           "success", "failed", "canceled"}
Terminal == {"success", "failed", "canceled"}

Id == Worker \cup {NoWorker, Gone}

\* worker, phase, retries and infra are worker_id, submit_phase, retry_count and
\* infrastructure_retry_count; waiting says next_attempt_at lies in the future;
\* evidence says the result part shows a submission (conversation_id,
\* submission_ambiguous, submit_confirmation_state, *_submit_confirmed); late says
\* late_result_watch_until was set: the result watch goes on after the failure.
\* cancel_requested is only ever written together with status "canceled", which
\* no function leaves, so the status stands for it.
Meta == [status   : Status,
         worker   : Id,
         phase    : {"", "committing", "submitted"},
         evidence : BOOLEAN,
         waiting  : BOOLEAN,
         late     : BOOLEAN,
         retries  : Nat,
         infra    : Nat]

NoMeta == [status |-> "none", worker |-> NoWorker, phase |-> "", evidence |-> FALSE,
           waiting |-> FALSE, late |-> FALSE, retries |-> 0, infra |-> 0]

\* find_or_create_task: a row that is not yet visible to the workers.
CreateTask(m) == [m EXCEPT !.status = "initializing"]

\* delete_task, while nobody but the creating request knows the row.
DeleteTask(m) == [m EXCEPT !.status = "none"]

\* finalize_task_creation, the database half (the enqueue follows it).
FinalizeTaskCreation(m) == [m EXCEPT !.status = "pending"]

\* Mutant: mark_pending does not look at the status it replaces.
MarkPendingAnyway(m) == [m EXCEPT !.status = "pending", !.worker = NoWorker]

\* update_meta_if(task_id, {pending, running}, status=pending, worker_id="")
MarkPending(m) ==
  IF m.status \in {"pending", "running"}
    THEN [m EXCEPT !.status = "pending", !.worker = NoWorker] ELSE m

\* Like mark_pending, with next_attempt_at a few seconds ahead.
DeferTask(m) ==
  IF m.status \in {"pending", "running"}
    THEN [m EXCEPT !.status = "pending", !.worker = NoWorker, !.waiting = TRUE] ELSE m

MarkFailed(m) ==
  IF m.status \in {"initializing", "pending", "running", "submitted", "failed"}
    THEN [m EXCEPT !.status = "failed", !.worker = NoWorker] ELSE m

MarkSubmitted(m) ==
  IF m.status = "running"
    THEN [m EXCEPT !.status = "submitted", !.worker = NoWorker, !.phase = "submitted"]
    ELSE m

\* mark_success: only a running or submitted task whose result holds a video URL.
MarkSuccess(m) ==
  IF m.status \in {"running", "submitted"}
    THEN [m EXCEPT !.status = "success", !.worker = NoWorker] ELSE m

\* mark_late_result_success: the same for a task the watch had given up on.
MarkLateResultSuccess(m) ==
  IF m.status = "failed" THEN [m EXCEPT !.status = "success", !.worker = NoWorker, !.late = FALSE]
  ELSE m

\* The result watch at its deadline: mark_failed, then late_result_watch_until.
GiveUpWaiting(m) == [MarkFailed(m) EXCEPT !.late = TRUE]

\* The late result watch at its own deadline: late_result_watch_until is emptied.
EndLateWatch(m) == [m EXCEPT !.late = FALSE]

\* postgres.claim_task once its checks have passed.
ClaimTask(m, w) == [m EXCEPT !.status = "running", !.worker = w, !.phase = ""]

CanRunTask(m, w) == m.status = "running" /\ m.worker = w

\* Mutant: the submission is not marked on the row, so a cancel does not see it.
UnmarkedSubmission(m) == m

\* begin_task_submission, its test and its write.
MayBeginSubmission(m) == m.status = "running" /\ m.phase # "committing"
BeginTaskSubmission(m) == [m EXCEPT !.phase = "committing"]

ReleaseTaskSubmission(m) == IF m.status = "running" THEN [m EXCEPT !.phase = ""] ELSE m

\* request_task_cancel: a client may not cancel during a submission, an
\* administrator (allow_submitted) may, and may cancel a submitted task.
MayCancel(m, admin) ==
  IF admin THEN m.status \in {"pending", "running", "submitted"}
           ELSE m.status \in {"pending", "running"} /\ m.phase # "committing"
RequestTaskCancel(m) == [m EXCEPT !.status = "canceled", !.worker = NoWorker]

\* Mutant: record_retry forgets that a canceled task is final.
RetryReopensCanceled(m) ==
  IF m.status \in {"success", "submitted", "failed"} THEN m
  ELSE [m EXCEPT !.status = IF m.retries + 1 > RetryLimit THEN "failed" ELSE "pending",
                 !.worker = NoWorker, !.retries = @ + 1, !.waiting = TRUE]

\* record_retry: back to pending with a delay, or failed past the limit.
RecordRetry(m) ==
  IF m.status \in {"success", "submitted", "failed", "canceled"} THEN m
  ELSE IF m.retries + 1 > RetryLimit
    THEN [m EXCEPT !.status = "failed", !.worker = NoWorker, !.retries = @ + 1]
    ELSE [m EXCEPT !.status = "pending", !.worker = NoWorker, !.retries = @ + 1,
                   !.waiting = TRUE]

\* Mutant: the limit is compared with the count before the increment.
InfrastructureRetryOnceMore(m) ==
  IF m.status \in {"success", "submitted", "failed", "canceled"} THEN m
  ELSE [m EXCEPT !.status = IF m.infra > MaxInfra THEN "failed" ELSE "pending",
                 !.worker = NoWorker, !.infra = @ + 1, !.waiting = TRUE]

\* Mutant: a task in its submission phase is spared.
InfrastructureRetrySparesCommit(m) ==
  IF m.status \in {"success", "submitted", "failed", "canceled"} \/ m.phase = "committing" THEN m
  ELSE [m EXCEPT !.status = IF m.infra + 1 > MaxInfra THEN "failed" ELSE "pending",
                 !.worker = NoWorker, !.infra = @ + 1, !.waiting = TRUE]

\* record_infrastructure_retry: the same with its own counter and limit.
RecordInfrastructureRetry(m) ==
  IF m.status \in {"success", "submitted", "failed", "canceled"} THEN m
  ELSE IF m.infra + 1 > MaxInfra
    THEN [m EXCEPT !.status = "failed", !.worker = NoWorker, !.infra = @ + 1]
    ELSE [m EXCEPT !.status = "pending", !.worker = NoWorker, !.infra = @ + 1,
                   !.waiting = TRUE]

\* retry_submitted_task: a query gives a submitted task another attempt, against
\* the caller's limit.  submit_phase is left as it is.
RetrySubmittedTask(m, limit) ==
  IF m.status # "submitted" THEN m
  ELSE IF m.retries + 1 > limit
    THEN [m EXCEPT !.status = "failed", !.worker = NoWorker, !.retries = @ + 1]
    ELSE [m EXCEPT !.status = "pending", !.worker = NoWorker, !.retries = @ + 1,
                   !.waiting = TRUE]

\* retry_ambiguous_proxy_task: another attempt that neither retry counter counts.
RetryAmbiguousProxyTask(m) ==
  IF m.status # "submitted" THEN m
  ELSE [m EXCEPT !.status = "pending", !.worker = NoWorker, !.phase = "", !.waiting = TRUE]

\* retry_ambiguous_submitted_task: another attempt, counted as infrastructure but
\* held against task_retry_limit().
RetryAmbiguousSubmittedTask(m) ==
  IF m.status # "submitted" THEN m
  ELSE IF m.infra + 1 > RetryLimit
    THEN [m EXCEPT !.status = "failed", !.worker = NoWorker, !.phase = "", !.infra = @ + 1]
    ELSE [m EXCEPT !.status = "pending", !.worker = NoWorker, !.phase = "",
                   !.infra = @ + 1, !.waiting = TRUE]

\* clear_transient_result.  TRANSIENT_RESULT_FIELDS does not name
\* doubao_submit_confirmed, qianwen_submit_confirmed or qianwen_remote_task_ids,
\* so for a task of those platforms (sticky) the evidence of an earlier attempt
\* outlives the call.
ClearTransientResult(m, sticky) == IF sticky THEN m ELSE [m EXCEPT !.evidence = FALSE]

\* reset_running_tasks at worker start.  Unlike mark_submitted it does not write
\* submit_phase.
ResetRunningTask(m) ==
  IF m.status # "running" THEN m
  ELSE IF m.evidence THEN [m EXCEPT !.status = "submitted", !.worker = NoWorker]
  ELSE MarkPending(m)

\* redis queue lane: a retry of any kind goes to the retry lists.
\* manual: retry_of_task_id is set, the task was created by a manual retry.
MetaIsRetry(m, manual) == m.retries > 0 \/ m.infra > 0 \/ manual
=============================================================================
