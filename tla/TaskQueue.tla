------------------------------ MODULE TaskQueue ------------------------------
(* The task pipeline of dola_fetch_service: the API process that creates and   *)
(* cancels tasks, the task records (TaskStore), the Redis queue (RedisQueue)   *)
(* and one worker process with its coroutines, watchdog and reconcile thread.  *)
(*                                                                             *)
(* Granularity.  The worker process is one asyncio event loop: code between    *)
(* two awaits is never interleaved with another coroutine, but it is with the  *)
(* API process and the reconcile thread, and the process can die between any   *)
(* two commands it sends to Redis or PostgreSQL.  The variable loop says which *)
(* await-free section of queue code, if any, has the event loop.               *)
(* Time is a choice: a delay elapses, a lease expires, a timeout fires at any  *)
(* moment after it was set.                                                    *)
EXTENDS TaskStore, FiniteSets

CONSTANTS
  Task,         \* task ids
  NoTask,
  Main,         \* the worker process's start-up code, a user of recover()
  Owner,        \* owner_token_hash values
  OwnerOf,      \* Task -> Owner
  Limited,      \* the owners that have a concurrency limit
  Limit,        \* Owner -> that limit
  ManualRetry,  \* the tasks created with a retry_of_task_id
  Confirmed,    \* the tasks of doubao and qianwen: *_submit_confirmed evidence
  Budget        \* Kinds -> how often each disturbance may happen

\* The worker process dies or is stopped; the API process dies; a heartbeat comes
\* too late for a live coroutine's lease; a Redis or PostgreSQL call raises in the
\* claim section; a coroutine gets stuck in one phase; queue code takes longer
\* than a retry delay; an administrator pauses the service.
Kinds == {"crash", "restart", "lapse", "fault", "stuck", "slow", "pause"}

ASSUME QueueConstants ==
  /\ IsFiniteSet(Task)
  /\ NoTask \notin Task
  /\ Main \notin Id
  /\ OwnerOf \in [Task -> Owner]
  /\ Limited \subseteq Owner
  /\ Limit \in [Owner -> Nat]
  /\ Budget \in [Kinds -> Nat]

VARIABLES
  meta,      \* PostgreSQL: task -> record of TaskStore
  paused,    \* runtime flag task_submission_paused
  q,         \* Redis: task -> entry of RedisQueue
  loop,      \* worker process: the section holding the event loop
  pc,        \* worker process: where each coroutine is in _worker_loop
  cur,       \* worker process: the task each coroutine holds
  canceling, \* worker process: coroutines with an undelivered task.cancel()
  scan,      \* reconcile thread: pending retries listed and not yet requeued
  handoff,   \* a record is written and its queue command is still to come
  pausing,   \* pause handler: pending tasks listed and not yet canceled
  limits,    \* worker process: owners in the cached _token_concurrency_limits
  upstream,  \* what the platform did with the current attempt's request
  used       \* Kinds -> disturbances so far

workerVars == <<loop, pc, cur, canceling, scan, limits>>
apiVars == <<handoff, pausing, paused>>
vars == <<meta, q, loop, pc, cur, canceling, scan, limits, handoff, pausing, paused, upstream, used>>

R == INSTANCE RedisQueue

Sections == {"down", "boot", "free", "recover", "recovered", "push", "lmove", "moved",
             "checked", "marked", "leased", "deferred", "orphan", "finally"}
\* The sections that work on one task, those of a coroutine and those of recover(),
\* which a coroutine's claim runs and start() too.
TaskSections == {"recovered", "push", "moved", "checked", "marked", "leased", "deferred",
                 "orphan", "finally"}
WorkerSections == {"lmove", "moved", "checked", "marked", "leased", "deferred", "finally"}
RecoverSections == {"recover", "recovered", "push"}

At(section, w, t) == [at |-> section, w |-> w, t |-> t]
Free == At("free", NoWorker, NoTask)

LoopOK ==
  /\ loop \in [at : Sections, w : Worker \cup {NoWorker, Main}, t : Task \cup {NoTask}]
  /\ loop.at \in TaskSections <=> loop.t # NoTask
  /\ loop.at \in WorkerSections => loop.w \in Worker
  /\ loop.at \in RecoverSections => loop.w \in Worker \cup {Main}
  /\ loop.at \in {"down", "free", "orphan"} => loop.w = NoWorker
  /\ loop.at = "boot" => loop.w = Main

\* Every variable has its type, and the section that has the event loop its task and
\* its coroutine; the occurrences of a task in the ready lists are never fewer than
\* zero, whoever pushes, removes and moves them.
TypeOK ==
  /\ meta \in [Task -> Meta]
  /\ paused \in BOOLEAN
  /\ q \in [Task -> R!Entry]
  /\ LoopOK
  /\ pc \in [Worker -> {"idle", "claimed", "auto", "commit", "received", "failed", "settle", "parked", "dead"}]
  /\ cur \in [Worker -> Task \cup {NoTask}]
  /\ canceling \subseteq Worker
  /\ scan \subseteq Task
  /\ limits \subseteq Limited
  /\ handoff \in [Task -> {"none", "enqueue", "requeue"}]
  /\ pausing \subseteq Task
  /\ upstream \in [Task -> {"none", "accepted", "rejected"}]
  /\ used \in [Kinds -> Nat]

Init ==
  /\ meta = [t \in Task |-> NoMeta]
  /\ paused = FALSE
  /\ q = [t \in Task |-> R!NoEntry]
  /\ loop = Free
  /\ pc = [w \in Worker |-> "idle"]
  /\ cur = [w \in Worker |-> NoTask]
  /\ canceling = {}
  /\ scan = {}
  /\ limits = Limited
  /\ handoff = [t \in Task |-> "none"]
  /\ pausing = {}
  /\ upstream = [t \in Task |-> "none"]
  /\ used = [k \in Kinds |-> 0]

-----------------------------------------------------------------------------
(* Helper state formulae *)

Disturb(kind) == used[kind] < Budget[kind] /\ used' = [used EXCEPT ![kind] = @ + 1]

IsRetry(t) == MetaIsRetry(meta[t], t \in ManualRetry)
\* start() has not reached the end of reconcile(), which queues all that is pending.
InBoot == loop.at \in {"down", "boot"} \/ loop.w = Main
Held(w) == pc[w] \notin {"idle", "dead"}
\* A coroutine of the event loop may take a step.
MayStep(w) == loop.at = "free" /\ w \notin canceling
Running(o) == {t \in Task : OwnerOf[t] = o /\ meta[t].status = "running"}
\* claim_task's limit, never below one.
Capacity(o) == IF Limit[o] > 1 THEN Limit[o] ELSE 1
\* Mutant: one task too many.
AboveCapacity(o) == o \in limits /\ Cardinality(Running(o)) > Capacity(o)
AtCapacity(o) == o \in limits /\ Cardinality(Running(o)) >= Capacity(o)

\* Mutant: release acknowledges a task that went back to pending.
ReleaseAlwaysAcks(t, w) == R!AckOwned(q[t], w)

\* RedisTaskQueue.release(task_id, worker_id): what it leaves of the entry.
Release(t, w) ==
  IF meta[t].status = "pending"
    THEN R!DelayOwned(q[t], w, IsRetry(t), meta[t].waiting)
    ELSE R!AckOwned(q[t], w)

-----------------------------------------------------------------------------
(* API process *)

\* The row is written; uploads and the charge happen before finalize.
Create(t) ==
  /\ meta[t].status = "none"
  /\ ~paused
  /\ meta' = [meta EXCEPT ![t] = CreateTask(@)]
  /\ UNCHANGED <<q, workerVars, apiVars, upstream, used>>

\* The upload, the charge or the batch check fails: the row is deleted.
CreationFails(t) ==
  /\ meta[t].status = "initializing"
  /\ meta' = [meta EXCEPT ![t] = DeleteTask(@)]
  /\ UNCHANGED <<q, workerVars, apiVars, upstream, used>>

\* finalize_task_creation writes the row first and enqueues after.
Finalize(t) ==
  /\ meta[t].status = "initializing"
  /\ meta' = [meta EXCEPT ![t] = FinalizeTaskCreation(@)]
  /\ handoff' = [handoff EXCEPT ![t] = "enqueue"]
  /\ UNCHANGED <<q, workerVars, pausing, paused, upstream, used>>

EnqueueNew(t) ==
  /\ handoff[t] = "enqueue"
  /\ q' = [q EXCEPT ![t] = R!Enqueue(@, IsRetry(t), meta[t].waiting)]
  /\ handoff' = [handoff EXCEPT ![t] = "none"]
  /\ UNCHANGED <<meta, workerVars, pausing, paused, upstream, used>>

\* DELETE /tasks/{id}: the queue entry stays and is acknowledged when claimed.
CancelTask(t, admin) ==
  /\ MayCancel(meta[t], admin)
  /\ ~admin => meta[t].phase # "submitted"
  /\ meta' = [meta EXCEPT ![t] = RequestTaskCancel(@)]
  /\ UNCHANGED <<q, workerVars, apiVars, upstream, used>>

\* POST /admin/task-pause {paused: true}: the flag, then the pending tasks one by one.
Pause ==
  /\ Disturb("pause") /\ ~paused
  /\ paused' = TRUE
  /\ pausing' = {t \in Task : meta[t].status = "pending"}
  /\ UNCHANGED <<meta, q, workerVars, handoff, upstream>>

PauseCancel(t) ==
  /\ t \in pausing
  /\ pausing' = pausing \ {t}
  /\ meta' = [meta EXCEPT ![t] = IF MayCancel(@, FALSE) THEN RequestTaskCancel(@) ELSE @]
  /\ UNCHANGED <<q, workerVars, handoff, paused, upstream, used>>

Resume ==
  /\ paused /\ pausing = {}
  /\ paused' = FALSE
  /\ UNCHANGED <<meta, q, workerVars, handoff, pausing, upstream, used>>

\* expire_task_if_timeout from a query, the reconcile thread or a worker.
Expire(t) ==
  /\ meta[t].status \in {"pending", "running", "submitted"}
  /\ meta' = [meta EXCEPT ![t] = MarkFailed(@)]
  /\ UNCHANGED <<q, workerVars, apiVars, upstream, used>>

\* The API process dies and starts again: what it had begun is lost, and rows that
\* never became pending are failed.
ApiRestart ==
  /\ Disturb("restart")
  /\ meta' = [t \in Task |-> IF meta[t].status = "initializing" THEN MarkFailed(meta[t]) ELSE meta[t]]
  /\ handoff' = [t \in Task |-> "none"]
  /\ pausing' = {}
  /\ UNCHANGED <<q, workerVars, paused, upstream>>

-----------------------------------------------------------------------------
(* Results of submitted tasks: query_task, run by the API or the result watch *)

ResultFinished(t) ==
  /\ meta[t].status = "submitted"
  /\ \E m \in {MarkSuccess(meta[t]), MarkFailed(meta[t]), GiveUpWaiting(meta[t])} :
        meta' = [meta EXCEPT ![t] = m]
  /\ UNCHANGED <<q, workerVars, apiVars, upstream, used>>

\* The late result watch finds a video, or its time is up.
LateResult(t) ==
  /\ meta[t].status = "failed" /\ meta[t].late
  /\ \E m \in {MarkLateResultSuccess(meta[t]), EndLateWatch(meta[t])} : meta' = [meta EXCEPT ![t] = m]
  /\ UNCHANGED <<q, workerVars, apiVars, upstream, used>>

\* max_retries=1 for a suspected policy false positive
PolicyLimit == IF RetryLimit > 1 THEN 1 ELSE RetryLimit

\* retry_*_task: the record goes back to pending, then requeue_pending_task runs,
\* and the caller clears the transient result.
ResultRetry(t) ==
  /\ meta[t].status = "submitted"
  /\ \E m \in {RetrySubmittedTask(meta[t], limit) : limit \in {RetryLimit, PolicyLimit}}
              \cup (IF t \in Confirmed THEN {}
                    ELSE {RetryAmbiguousProxyTask(meta[t]), RetryAmbiguousSubmittedTask(meta[t])}) :
        /\ meta' = [meta EXCEPT ![t] = ClearTransientResult(m, t \in Confirmed)]
        /\ handoff' = [handoff EXCEPT ![t] = IF m.status = "pending" THEN "requeue" ELSE @]
  /\ upstream' = [upstream EXCEPT ![t] = "none"]
  /\ UNCHANGED <<q, workerVars, pausing, paused, used>>

\* requeue_pending_task
RequeuePending(t) ==
  /\ handoff[t] = "requeue"
  /\ handoff' = [handoff EXCEPT ![t] = "none"]
  /\ q' = [q EXCEPT ![t] = IF meta[t].status = "pending"
                             THEN R!Requeue(@, IsRetry(t), meta[t].waiting) ELSE @]
  /\ UNCHANGED <<meta, workerVars, pausing, paused, upstream, used>>
-----------------------------------------------------------------------------
(* Worker process: RedisTaskQueue.recover, run by claim and by start *)

\* The script: lease, owner and processing entry of an expired lease go.
RecoverTake(t) ==
  /\ loop.at = "recover" /\ q[t].lease = "expired"
  /\ q' = [q EXCEPT ![t] = R!DropExpired(@)]
  /\ loop' = At("recovered", loop.w, t)
  /\ UNCHANGED <<meta, pc, cur, canceling, scan, limits, apiVars, upstream, used>>

\* Then the record: running with evidence becomes submitted, running without it
\* pending; a finished task is only forgotten.
RecoverStatus ==
  LET t == loop.t
      m == meta[t]
      resumed == IF m.status = "running" /\ m.evidence THEN MarkSubmitted(m) ELSE MarkPending(m)
  IN /\ loop.at = "recovered"
     /\ meta' = [meta EXCEPT ![t] = resumed]
     /\ q' = [q EXCEPT ![t] = IF m.status \in {"running", "pending"} THEN @ ELSE R!SRem(@)]
     /\ loop' = IF resumed.status = "pending" THEN At("push", loop.w, t) ELSE At("recover", loop.w, NoTask)
     /\ UNCHANGED <<pc, cur, canceling, scan, limits, apiVars, upstream, used>>

\* Last, the push to a ready list.
RecoverPush ==
  /\ loop.at = "push"
  /\ q' = [q EXCEPT ![loop.t] = R!LPush(@, IsRetry(loop.t))]
  /\ loop' = At("recover", loop.w, NoTask)
  /\ UNCHANGED <<meta, pc, cur, canceling, scan, limits, apiVars, upstream, used>>

NoneExpired == \A t \in Task : q[t].lease # "expired"

-----------------------------------------------------------------------------
(* Worker process: RedisTaskQueue.claim and the claim part of _worker_loop *)

\* _owner_concurrency_limits: contending owners only, unless there is none.
FreshLimits ==
  LET contenders == {OwnerOf[t] : t \in {u \in Task : meta[u].status \in {"pending", "running"}}}
  IN IF contenders \cap Limited = {} THEN Limited ELSE contenders \cap Limited

\* A coroutine enters the claim section; the cached limits are refreshed when
\* they are older than a second.
ClaimStart(w) ==
  /\ MayStep(w) /\ pc[w] = "idle"
  /\ limits' \in {limits, FreshLimits}
  /\ loop' = At("recover", w, NoTask)
  /\ UNCHANGED <<meta, q, pc, cur, canceling, scan, apiVars, upstream, used>>

ClaimPromote ==
  /\ loop.at = "recover" /\ loop.w # Main /\ NoneExpired
  /\ q' = [t \in Task |-> R!Promote(q[t])]
  /\ loop' = At("lmove", loop.w, NoTask)
  /\ UNCHANGED <<meta, pc, cur, canceling, scan, limits, apiVars, upstream, used>>

\* LMOVE from one of the two ready lists.
ClaimMove(t, retry) ==
  /\ loop.at = "lmove"
  /\ IF retry THEN q[t].retryReady > 0 ELSE q[t].ready > 0
  /\ q' = [q EXCEPT ![t] = R!LMove(@, retry)]
  /\ loop' = At("moved", loop.w, t)
  /\ UNCHANGED <<meta, pc, cur, canceling, scan, limits, apiVars, upstream, used>>

ClaimEmpty ==
  /\ loop.at = "lmove"
  /\ \A t \in Task : q[t].ready = 0 /\ q[t].retryReady = 0
  /\ loop' = Free
  /\ UNCHANGED <<meta, q, pc, cur, canceling, scan, limits, apiVars, upstream, used>>

\* The record just moved to processing is read and checked.
ClaimCheck ==
  LET t == loop.t IN
  /\ loop.at = "moved"
  /\ \/ /\ meta[t].status # "pending"
        /\ q' = [q EXCEPT ![t] = R!Ack(@)]
        /\ loop' = At("lmove", loop.w, NoTask)
     \/ /\ meta[t].status = "pending" /\ meta[t].waiting
        /\ q' = [q EXCEPT ![t] = R!DelayClaimed(@, IsRetry(t), TRUE)]
        /\ loop' = At("lmove", loop.w, NoTask)
     \/ /\ meta[t].status = "pending" /\ ~meta[t].waiting
        /\ loop' = At("checked", loop.w, t)
        /\ UNCHANGED q
  /\ UNCHANGED <<meta, pc, cur, canceling, scan, limits, apiVars, upstream, used>>

\* mark_running: pause flag, then claim_task in one transaction.
MayMarkRunning(t) == ~paused /\ meta[t].status = "pending" /\ ~AtCapacity(OwnerOf[t])

ClaimMark ==
  LET t == loop.t IN
  /\ loop.at = "checked" /\ MayMarkRunning(t)
  /\ meta' = [meta EXCEPT ![t] = ClaimTask(@, loop.w)]
  /\ upstream' = [upstream EXCEPT ![t] = "none"]
  /\ loop' = At("marked", loop.w, t)
  /\ UNCHANGED <<q, pc, cur, canceling, scan, limits, apiVars, used>>

\* Refused: a limited owner's task waits two seconds, any other is acknowledged.
ClaimRefused ==
  LET t == loop.t IN
  /\ loop.at = "checked" /\ ~MayMarkRunning(t)
  /\ q' = [q EXCEPT ![t] = IF OwnerOf[t] \in limits
                             THEN R!DelayClaimed(@, IsRetry(t), TRUE) ELSE R!Ack(@)]
  /\ loop' = At("lmove", loop.w, NoTask)
  /\ UNCHANGED <<meta, pc, cur, canceling, scan, limits, apiVars, upstream, used>>

ClaimLease ==
  /\ loop.at = "marked"
  /\ q' = [q EXCEPT ![loop.t] = R!TakeLease(@, loop.w)]
  /\ loop' = At("leased", loop.w, loop.t)
  /\ UNCHANGED <<meta, pc, cur, canceling, scan, limits, apiVars, upstream, used>>

ClaimAccept ==
  /\ loop.at = "leased"
  /\ pc' = [pc EXCEPT ![loop.w] = "claimed"]
  /\ cur' = [cur EXCEPT ![loop.w] = loop.t]
  /\ loop' = Free
  /\ UNCHANGED <<meta, q, canceling, scan, limits, apiVars, upstream, used>>

\* A browser, image or remote-generation limit: defer_task, release, claim again.
ClaimDefer ==
  /\ loop.at = "leased"
  /\ meta' = [meta EXCEPT ![loop.t] = DeferTask(@)]
  /\ loop' = At("deferred", loop.w, loop.t)
  /\ UNCHANGED <<q, pc, cur, canceling, scan, limits, apiVars, upstream, used>>

ClaimDeferRelease ==
  /\ loop.at = "deferred"
  /\ q' = [q EXCEPT ![loop.t] = Release(loop.t, loop.w)]
  /\ loop' = At("recover", loop.w, NoTask)
  /\ UNCHANGED <<meta, pc, cur, canceling, scan, limits, apiVars, upstream, used>>
-----------------------------------------------------------------------------
(* Worker process: the claim section fails *)

\* A Redis or PostgreSQL call raises: nothing in _worker_loop catches it there,
\* the coroutine ends and the rest of the section is never run.
ClaimRaises ==
  /\ loop.w \in Worker /\ loop.at # "finally"
  /\ Disturb("fault")
  /\ pc' = [pc EXCEPT ![loop.w] = "dead"]
  /\ loop' = Free
  /\ UNCHANGED <<meta, q, cur, canceling, scan, limits, apiVars, upstream>>

-----------------------------------------------------------------------------
(* Worker process: the task part of _worker_loop and the automation it runs *)

\* Up to the account claim: the task may be failed (expired, unsupported, no
\* account for too long), put off (admission, no account) or not ours any more.
\* A dola task awaits its admission after can_run_task and before the deferral,
\* so it is put off whoever runs it by then.
StartTask(w) ==
  LET t == cur[w] IN
  /\ MayStep(w) /\ pc[w] = "claimed"
  /\ \/ /\ CanRunTask(meta[t], w)
        /\ meta' = [meta EXCEPT ![t] = ClearTransientResult(@, t \in Confirmed)]
        /\ pc' = [pc EXCEPT ![w] = "auto"]
     \/ /\ meta' = [meta EXCEPT ![t] = MarkFailed(@)]
        /\ pc' = [pc EXCEPT ![w] = "parked"]
     \/ /\ t \in Confirmed => CanRunTask(meta[t], w)
        /\ meta' = [meta EXCEPT ![t] = DeferTask(@)]
        /\ pc' = [pc EXCEPT ![w] = "parked"]
     \/ /\ ~CanRunTask(meta[t], w)
        /\ pc' = [pc EXCEPT ![w] = "parked"]
        /\ UNCHANGED meta
  /\ UNCHANGED <<q, loop, cur, canceling, scan, limits, apiVars, upstream, used>>

\* The automation gives up before the request: login, proxy, upload, timeout.
AutomationFails(w) ==
  /\ MayStep(w) /\ pc[w] = "auto"
  /\ pc' = [pc EXCEPT ![w] = "failed"]
  /\ UNCHANGED <<meta, q, loop, cur, canceling, scan, limits, apiVars, upstream, used>>

BeginSubmission(w) ==
  LET t == cur[w] IN
  /\ MayStep(w) /\ pc[w] = "auto"
  /\ IF MayBeginSubmission(meta[t])
       THEN /\ meta' = [meta EXCEPT ![t] = BeginTaskSubmission(@)]
            /\ pc' = [pc EXCEPT ![w] = "commit"]
       ELSE /\ pc' = [pc EXCEPT ![w] = "failed"]
            /\ UNCHANGED meta
  /\ UNCHANGED <<q, loop, cur, canceling, scan, limits, apiVars, upstream, used>>

\* The platform decides on a request that was sent.
PlatformAnswers(w) ==
  /\ pc[w] = "commit" /\ upstream[cur[w]] = "none"
  /\ \E answer \in {"accepted", "rejected"} : upstream' = [upstream EXCEPT ![cur[w]] = answer]
  /\ UNCHANGED <<meta, q, workerVars, apiVars, used>>

\* save_result with the conversation id or the confirmation.
ResponseAccepted(w) ==
  LET t == cur[w] IN
  /\ MayStep(w) /\ pc[w] = "commit" /\ upstream[t] = "accepted"
  /\ meta' = [meta EXCEPT ![t].evidence = TRUE]
  /\ pc' = [pc EXCEPT ![w] = "received"]
  /\ UNCHANGED <<q, loop, cur, canceling, scan, limits, apiVars, upstream, used>>

\* A refusal.  Dola's automation has by then saved submission_ambiguous (there is
\* no conversation id); dola and doubao release the submission, qianwen does not.
ResponseRejected(w) ==
  LET t == cur[w] IN
  /\ MayStep(w) /\ pc[w] = "commit" /\ upstream[t] = "rejected"
  /\ IF t \in Confirmed
       THEN \E m \in {meta[t], ReleaseTaskSubmission(meta[t])} : meta' = [meta EXCEPT ![t] = m]
       ELSE meta' = [meta EXCEPT ![t] = [ReleaseTaskSubmission(@) EXCEPT !.evidence = TRUE]]
  /\ pc' = [pc EXCEPT ![w] = "failed"]
  /\ UNCHANGED <<q, loop, cur, canceling, scan, limits, apiVars, upstream, used>>

\* The submission raises and nobody knows what the platform did.  A connection fault
\* makes dola record it as ambiguous and have it polled; any other exception, and
\* all of them with doubao, release the submission and retry, qianwen just retries.
TransportError(w) ==
  LET t == cur[w] IN
  /\ MayStep(w) /\ pc[w] = "commit"
  /\ \/ /\ t \notin Confirmed
        /\ meta' = [meta EXCEPT ![t].evidence = TRUE]
        /\ pc' = [pc EXCEPT ![w] = "received"]
     \/ /\ \E m \in {ReleaseTaskSubmission(meta[t])} \cup (IF t \in Confirmed THEN {meta[t]} ELSE {}) :
              meta' = [meta EXCEPT ![t] = m]
        /\ pc' = [pc EXCEPT ![w] = "failed"]
  /\ UNCHANGED <<q, loop, cur, canceling, scan, limits, apiVars, upstream, used>>

\* wait_for gives up while the request is out: nothing is saved, the outcome is
\* a retryable infrastructure fault.
RunTimeout(w) ==
  /\ MayStep(w) /\ pc[w] = "commit"
  /\ pc' = [pc EXCEPT ![w] = "failed"]
  /\ UNCHANGED <<meta, q, loop, cur, canceling, scan, limits, apiVars, upstream, used>>

SubmissionReceived(w) ==
  /\ MayStep(w) /\ pc[w] = "received"
  /\ meta' = [meta EXCEPT ![cur[w]] = MarkSubmitted(@)]
  /\ pc' = [pc EXCEPT ![w] = "settle"]
  /\ UNCHANGED <<q, loop, cur, canceling, scan, limits, apiVars, upstream, used>>

\* The outcome of a run that did not submit: a counted retry, an infrastructure
\* retry, a deferral, a failure, or a swallowed FileNotFoundError.
RecordOutcome(w) ==
  LET t == cur[w] IN
  /\ MayStep(w) /\ pc[w] = "failed"
  /\ \E m \in {RecordRetry(meta[t]), RecordInfrastructureRetry(meta[t]), DeferTask(meta[t]),
                MarkFailed(meta[t]), meta[t]} : meta' = [meta EXCEPT ![t] = m]
  /\ pc' = [pc EXCEPT ![w] = "settle"]
  /\ UNCHANGED <<q, loop, cur, canceling, scan, limits, apiVars, upstream, used>>

\* The finally block: release the queue entry, forget the task.
FinallyRelease(w) ==
  /\ MayStep(w) /\ pc[w] \in {"settle", "parked"}
  /\ q' = [q EXCEPT ![cur[w]] = Release(cur[w], w)]
  /\ pc' = [pc EXCEPT ![w] = "idle"]
  /\ cur' = [cur EXCEPT ![w] = NoTask]
  /\ UNCHANGED <<meta, loop, canceling, scan, limits, apiVars, upstream, used>>

\* CancelledError reaches the coroutine.  With an account in hand a task that is
\* not canceled is marked pending; the finally block follows at once.
DeliverCancel(w) ==
  LET t == cur[w] IN
  /\ loop.at = "free" /\ w \in canceling
  /\ canceling' = canceling \ {w}
  /\ pc' = [pc EXCEPT ![w] = "dead"]
  /\ IF Held(w)
       THEN /\ meta' = [meta EXCEPT ![t] = IF pc[w] \in {"claimed", "parked"} THEN @ ELSE MarkPending(@)]
            /\ loop' = At("finally", w, t)
       ELSE UNCHANGED <<meta, loop>>
  /\ UNCHANGED <<q, cur, scan, limits, apiVars, upstream, used>>

CancelRelease ==
  /\ loop.at = "finally"
  /\ q' = [q EXCEPT ![loop.t] = Release(loop.t, loop.w)]
  /\ cur' = [cur EXCEPT ![loop.w] = NoTask]
  /\ loop' = Free
  /\ UNCHANGED <<meta, pc, canceling, scan, limits, apiVars, upstream, used>>

-----------------------------------------------------------------------------
(* Worker process: supervisor, watchdog, reconcile thread (the watchdog waits for *)
(* the thread: scan = {} when it looks at the running tasks) *)

\* The supervisor replaces a finished coroutine.  The new one gets a fresh id; here
\* it takes over w, and what still names the old w names Gone from now on.
Spawn(w) ==
  /\ loop.at = "free" /\ pc[w] = "dead"
  /\ pc' = [pc EXCEPT ![w] = "idle"]
  /\ meta' = [t \in Task |-> [meta[t] EXCEPT !.worker = IF @ = w THEN Gone ELSE @]]
  /\ q' = [t \in Task |-> [q[t] EXCEPT !.owner = IF @ = w THEN Gone ELSE @]]
  /\ UNCHANGED <<loop, cur, canceling, scan, limits, apiVars, upstream, used>>

\* Fewer tasks or less memory: an idle coroutine is canceled, never the last one.
Trim(w) ==
  /\ MayStep(w) /\ pc[w] = "idle"
  /\ \E v \in Worker \ {w} : pc[v] # "dead"
  /\ pc' = [pc EXCEPT ![w] = "dead"]
  /\ UNCHANGED <<meta, q, loop, cur, canceling, scan, limits, apiVars, upstream, used>>

\* The supervisor refreshes the lease of every task a coroutine holds.
HeartbeatAll ==
  /\ loop.at = "free"
  /\ q' = [t \in Task |-> IF \E w \in Worker : Held(w) /\ cur[w] = t /\ q[t].owner = w
                             THEN R!Heartbeat(q[t], q[t].owner) ELSE q[t]]
  /\ q' # q
  /\ UNCHANGED <<meta, workerVars, apiVars, upstream, used>>

\* The worker id is live but the phase has not moved for too long: another
\* attempt, and task.cancel() on the coroutine of that id, whatever it does by
\* now.  The phase of a task its coroutine has let go of never moves.
WatchStale(t) ==
  /\ loop.at = "free" /\ scan = {} /\ meta[t].status = "running"
  /\ \E w \in Worker :
        /\ meta[t].worker = w /\ pc[w] # "dead"
        /\ canceling' = canceling \cup {w}
        /\ IF cur[w] = t THEN Disturb("stuck") ELSE UNCHANGED used
  /\ meta' = [meta EXCEPT ![t] = RecordInfrastructureRetry(@)]
  /\ UNCHANGED <<q, loop, pc, cur, scan, limits, apiVars, upstream>>

\* Mutant: a coroutine whose automation has not reached the request counts as gone.
OwnerNotSubmitting(t) == \A w \in Worker : meta[t].worker = w => pc[w] \in {"dead", "auto"}

\* The worker id is none of the live coroutines'.
OwnerGone(t) == \A w \in Worker : meta[t].worker = w => pc[w] = "dead"

\* The worker id is gone: another attempt, and the queue entry is rewritten.
WatchOrphan(t) ==
  /\ loop.at = "free" /\ scan = {} /\ meta[t].status = "running"
  /\ OwnerGone(t)
  /\ meta' = [meta EXCEPT ![t] = RecordInfrastructureRetry(@)]
  /\ loop' = At("orphan", NoWorker, t)
  /\ UNCHANGED <<q, pc, cur, canceling, scan, limits, apiVars, upstream, used>>

OrphanRequeue ==
  LET t == loop.t IN
  /\ loop.at = "orphan"
  /\ q' = [q EXCEPT ![t] = IF meta[t].infra <= MaxInfra THEN R!Requeue(@, IsRetry(t), FALSE) ELSE @]
  /\ loop' = Free
  /\ UNCHANGED <<meta, pc, cur, canceling, scan, limits, apiVars, upstream, used>>

\* _reconcile_pending_retries, in a thread: the list is read once ...
ReconcileList ==
  /\ ~InBoot /\ scan = {}
  /\ scan' = {t \in Task : /\ meta[t].status = "pending" /\ ~meta[t].waiting
                            /\ meta[t].retries + meta[t].infra > 0}
  /\ scan' # {}
  /\ UNCHANGED <<meta, q, loop, pc, cur, canceling, limits, apiVars, upstream, used>>

\* ... and each task on it is requeued, whatever has become of it since.
ReconcileOne(t) ==
  /\ t \in scan
  /\ scan' = scan \ {t}
  /\ q' = [q EXCEPT ![t] = R!Requeue(@, IsRetry(t), FALSE)]
  /\ UNCHANGED <<meta, loop, pc, cur, canceling, limits, apiVars, upstream, used>>

-----------------------------------------------------------------------------
(* Worker process: crash, stop and start *)

\* Requeues that the result watch of this process had begun are lost with it.
Crash ==
  /\ loop.at # "down" /\ Disturb("crash")
  /\ loop' = At("down", NoWorker, NoTask)
  /\ pc' = [w \in Worker |-> "dead"]
  /\ cur' = [w \in Worker |-> NoTask]
  /\ canceling' = {} /\ scan' = {}
  /\ \E lost \in SUBSET {t \in Task : handoff[t] = "requeue"} :
        handoff' = [t \in Task |-> IF t \in lost THEN "none" ELSE handoff[t]]
  /\ UNCHANGED <<meta, q, limits, pausing, paused, upstream>>

\* stop(): every coroutine is canceled with _stopping set, which marks nothing
\* pending, and its finally block releases the entry (Main stands for a holder
\* that does not own it).
Stop ==
  /\ loop.at = "free" /\ Disturb("crash")
  /\ q' = [t \in Task |->
              LET holders == {w \in Worker : Held(w) /\ cur[w] = t}
              IN IF holders = {} THEN q[t]
                 ELSE Release(t, IF q[t].owner \in holders THEN q[t].owner ELSE Main)]
  /\ loop' = At("down", NoWorker, NoTask)
  /\ pc' = [w \in Worker |-> "dead"]
  /\ cur' = [w \in Worker |-> NoTask]
  /\ canceling' = {} /\ scan' = {}
  /\ UNCHANGED <<meta, limits, apiVars, upstream>>

\* start(): recover first.
Start ==
  /\ loop.at = "down"
  /\ loop' = At("recover", Main, NoTask)
  /\ UNCHANGED <<meta, q, pc, cur, canceling, scan, limits, apiVars, upstream, used>>

\* Then reset_running_tasks.
StartReset ==
  /\ loop.at = "recover" /\ loop.w = Main /\ NoneExpired
  /\ meta' = [t \in Task |-> ResetRunningTask(meta[t])]
  /\ loop' = At("boot", Main, NoTask)
  /\ UNCHANGED <<q, pc, cur, canceling, scan, limits, apiVars, upstream, used>>

\* Then reconcile() requeues every pending task, and the dola tasks whose
\* queue_category names a resource of the old process are made due at once, those
\* that had timed out allocating a browser with infrastructure_retry_count 0.
StartReconcile ==
  /\ loop.at = "boot"
  /\ \E due \in SUBSET {t \in Task \ Confirmed : meta[t].status = "pending" /\ handoff[t] = "none"} :
     \E forgiven \in SUBSET {t \in due : meta[t].infra > 0} :
        /\ meta' = [t \in Task |-> [meta[t] EXCEPT !.waiting = @ /\ t \notin due,
                                                  !.infra = IF t \in forgiven THEN 0 ELSE @]]
        /\ q' = [t \in Task |->
                    IF meta[t].status = "pending"
                      THEN R!Requeue(q[t], MetaIsRetry(meta'[t], t \in ManualRetry), meta'[t].waiting)
                      ELSE q[t]]
  /\ loop' = Free
  /\ UNCHANGED <<pc, cur, canceling, scan, limits, apiVars, upstream, used>>

-----------------------------------------------------------------------------
(* Time *)

\* Queue code that takes milliseconds is at work.
Busy(t) == handoff[t] = "requeue" \/ loop.w \in Worker

Elapse(t) ==
  /\ meta[t].waiting
  /\ IF Busy(t) THEN Disturb("slow") ELSE UNCHANGED used
  /\ meta' = [meta EXCEPT ![t].waiting = FALSE]
  /\ UNCHANGED <<q, workerVars, apiVars, upstream>>

ElapseDelayed(t) ==
  /\ "future" \in {q[t].delayed, q[t].retryDelayed}
  /\ Busy(t) => ~meta[t].waiting
  /\ q' = [q EXCEPT ![t].delayed = IF @ = "future" THEN "due" ELSE @,
                    ![t].retryDelayed = IF @ = "future" THEN "due" ELSE @]
  /\ UNCHANGED <<meta, workerVars, apiVars, upstream, used>>

\* A lease nobody refreshes runs out.  A live coroutine's lease runs out only
\* when the supervisor is kept from its heartbeat for the visibility timeout.
LeaseExpires(t) ==
  /\ q[t].lease = "live"
  /\ IF \E w \in Worker : q[t].owner = w /\ (cur[w] = t \/ loop.w = w)
       THEN Disturb("lapse") ELSE UNCHANGED used
  /\ q' = [q EXCEPT ![t].lease = "expired"]
  /\ UNCHANGED <<meta, workerVars, apiVars, upstream>>

-----------------------------------------------------------------------------
Api == \/ \E t \in Task : \/ Create(t) \/ CreationFails(t) \/ Finalize(t) \/ EnqueueNew(t)
                           \/ Expire(t) \/ PauseCancel(t)
                           \/ \E admin \in BOOLEAN : CancelTask(t, admin)
       \/ Pause \/ Resume \/ ApiRestart

Results == \E t \in Task : ResultFinished(t) \/ LateResult(t) \/ ResultRetry(t) \/ RequeuePending(t)

Recover == (\E t \in Task : RecoverTake(t)) \/ RecoverStatus \/ RecoverPush

Claim == \/ \E t \in Task, retry \in BOOLEAN : ClaimMove(t, retry)
         \/ ClaimPromote \/ ClaimEmpty \/ ClaimCheck \/ ClaimMark \/ ClaimRefused \/ ClaimLease
         \/ ClaimAccept \/ ClaimDefer \/ ClaimDeferRelease \/ ClaimRaises

Execute(w) == \/ ClaimStart(w) \/ StartTask(w) \/ AutomationFails(w) \/ BeginSubmission(w)
              \/ ResponseAccepted(w) \/ ResponseRejected(w) \/ TransportError(w) \/ RunTimeout(w)
              \/ SubmissionReceived(w) \/ RecordOutcome(w) \/ FinallyRelease(w) \/ DeliverCancel(w)

Supervise == \/ HeartbeatAll \/ CancelRelease \/ OrphanRequeue \/ ReconcileList
             \/ \E w \in Worker : Spawn(w) \/ Trim(w)
             \/ \E t \in Task : WatchStale(t) \/ WatchOrphan(t) \/ ReconcileOne(t)

Lifecycle == Crash \/ Stop \/ Start \/ StartReset \/ StartReconcile

Time == \E t \in Task : Elapse(t) \/ ElapseDelayed(t) \/ LeaseExpires(t)

Next == \/ Api \/ Results \/ Recover \/ Claim \/ Supervise \/ Lifecycle \/ Time
        \/ \E w \in Worker : Execute(w) \/ PlatformAnswers(w)

Spec == Init /\ [][Next]_vars

(* Fairness.  A request handler that has begun finishes; the event loop gives    *)
(* every coroutine its turn again and again (asyncio's ready queue and the claim *)
(* lock are first in, first out), hence strong fairness for steps that need it    *)
(* free; a run is bounded by its timeouts; the supervisor and the watchdog run    *)
(* every few seconds; compose restarts the process (restart: unless-stopped);     *)
(* time passes.  Nothing is assumed of clients, administrators, the platforms,   *)
(* expiry, heartbeats or disturbances.                                           *)
Fairness ==
  /\ WF_vars(Recover) /\ WF_vars(Claim) /\ WF_vars(CancelRelease) /\ WF_vars(OrphanRequeue)
  /\ WF_vars(Start) /\ WF_vars(StartReset) /\ WF_vars(StartReconcile) /\ WF_vars(ReconcileList)
  /\ \A w \in Worker : SF_vars(Execute(w)) /\ SF_vars(Spawn(w))
  /\ \A t \in Task : /\ WF_vars(EnqueueNew(t)) /\ WF_vars(RequeuePending(t))
                      /\ WF_vars(ReconcileOne(t)) /\ WF_vars(LeaseExpires(t))
                      /\ SF_vars(Elapse(t)) /\ SF_vars(ElapseDelayed(t))
                      /\ SF_vars(WatchStale(t)) /\ SF_vars(WatchOrphan(t))

FairSpec == Spec /\ Fairness

-----------------------------------------------------------------------------
(* Properties: the queue never loses or doubles a task *)

\* Something will bring task t to a coroutine: an entry of a ready or delayed list,
\* a lease that can expire, a queue command under way, the claim section, the
\* start-up reconcile, or the reconcile thread (which looks at retries only).
Findable(t) ==
  \/ R!Queued(q[t]) \/ q[t].lease # "none"
  \/ handoff[t] # "none" \/ loop.t = t \/ InBoot
  \/ meta[t].retries + meta[t].infra > 0

\* A pending task is never lost: whatever release, recover, reconcile, the watchdog
\* and a crash of the worker process do in whatever order, the queue or somebody
\* about to write to it still knows every task the store calls pending.  It is about
\* doubao and qianwen: a task of dola can be given another attempt that no counter
\* counts and be put off by a coroutine it was taken from, see README.md.
NoStranded == \A t \in Task \cap Confirmed : meta[t].status = "pending" => Findable(t)

\* Coroutine w is running the automation of task t and has not been told to stop.
Working(w, t) == cur[w] = t /\ w \notin canceling /\ pc[w] \in {"auto", "commit", "received"}

\* Two coroutines never run the automation of one task at the same time: LMOVE,
\* claim_task and the lease hand a task to one of them, although requeue drops the
\* lease of a running task and recover pushes a task a second time.
OneWorker == \A t \in Task : \A v, w \in Worker : Working(v, t) /\ Working(w, t) => v = w

\* The submission barrier: once a cancel outside the committing phase has gone
\* through (and the owner was refunded), the platform answers no request for the
\* task any more, because begin_task_submission and request_task_cancel exclude
\* one another on the task row.
CancelBarrier ==
  [][\A t \in Task : meta[t].status = "canceled" /\ meta[t].phase # "committing"
        => upstream'[t] = upstream[t]]_vars

\* A finished task stays finished, whoever still works on it: a coroutine recording
\* its outcome after a cancel, recover, the watchdog or a query never reopens it.
\* Only a task the result watch gave up on may still turn from failed to success.
SettledStays ==
  [][\A t \in Task : meta[t].status \in Terminal =>
        \/ meta'[t].status = meta[t].status
        \/ meta[t].status = "failed" /\ meta[t].late /\ meta'[t].status = "success"]_vars

\* The owners hash tells the truth: a coroutine that is alive and named as the owner
\* of a task has that task, so the supervisor's heartbeat refreshes the lease of
\* every coroutine that owns one and an unused lease is left to expire.
LeaseNamesHolder ==
  \A t \in Task : \A w \in Worker : q[t].owner = w /\ pc[w] # "dead"
     => cur[w] = t \/ (loop.w = w /\ loop.t = t)

\* The leases zset and the owners hash agree: the scripts and pipelines of claim,
\* release, requeue, recover and _ack write the two keys together, so no lease is
\* left that heartbeat cannot refresh and no owner that recover cannot remove.
LeaseHasOwner == \A t \in Task : q[t].lease = "none" <=> q[t].owner = NoWorker

\* A task that has used up its retries is failed and never runs again, although
\* the two counters are raised from the worker, the watchdog and the queries.
RetryBudget ==
  \A t \in Task : meta[t].status # "failed" =>
     /\ meta[t].retries <= RetryLimit
     /\ meta[t].infra <= RetryLimit \/ meta[t].infra <= MaxInfra

\* claim_task counts the owner's running tasks in the transaction that adds one, so
\* an owner whose limit the worker knows never runs more tasks than the limit.
OwnerLimit == \A o \in Limited : Cardinality(Running(o)) <= Capacity(o)

-----------------------------------------------------------------------------
(* Properties: the life of a task *)

LifeCycle == INSTANCE TaskLifecycle WITH
  status <- [t \in Task |-> meta[t].status],
  late <- [t \in Task |-> meta[t].late],
  retries <- [t \in Task |-> meta[t].retries],
  infra <- [t \in Task |-> meta[t].infra],
  InfraLimit <- IF MaxInfra > RetryLimit THEN MaxInfra ELSE RetryLimit

\* Whatever the API, the coroutines, the watchdog, recovery and the queries write
\* to a task record, and in whatever order, the record follows the life cycle:
\* no state is skipped, none is left backwards but for a counted retry, a deferral
\* or a recovery, and the counters are raised one at a time.
FollowsLifeCycle == LifeCycle!Spec

-----------------------------------------------------------------------------
(* Properties: tasks make progress *)

\* A pending task is claimed, failed or canceled in the end: the worker loop, the
\* delayed sets, recovery after a crash and the reconcile thread never leave it.
PickedUp == \A t \in Task : meta[t].status = "pending" ~> meta[t].status # "pending"

\* A running task ends its run: the coroutine records an outcome, or the watchdog,
\* lease recovery or the restart of the process takes the task away.
RunEnds == \A t \in Task : meta[t].status = "running" ~> meta[t].status # "running"

-----------------------------------------------------------------------------
(* What the documentation says and the code does not do *)

\* README: when a lease expires, a task that was submitted to the platform is
\* recovered as submitted.
RecoverKeepsSubmitted ==
  [][loop.at = "recovered" /\ meta[loop.t].status = "running" /\ upstream[loop.t] = "accepted"
        => meta'[loop.t].status # "pending"]_vars
=============================================================================
