-------------------------- MODULE TaskQueue_proofs --------------------------
(* Proofs about TaskQueue for every set of tasks, workers and owners, every   *)
(* limit and every budget of disturbances.                                    *)
EXTENDS TaskQueue, TLAPS, FiniteSetTheorems

-----------------------------------------------------------------------------
(* The functions of the store and of the queue are well typed *)

\* Every function of app/store.py that writes a task record returns a task record.
LEMMA StoreTypes ==
  ASSUME NEW m \in Meta
  PROVE  /\ CreateTask(m) \in Meta
         /\ DeleteTask(m) \in Meta
         /\ FinalizeTaskCreation(m) \in Meta
         /\ MarkPending(m) \in Meta
         /\ DeferTask(m) \in Meta
         /\ MarkFailed(m) \in Meta
         /\ MarkSubmitted(m) \in Meta
         /\ MarkSuccess(m) \in Meta
         /\ MarkLateResultSuccess(m) \in Meta
         /\ EndLateWatch(m) \in Meta
         /\ GiveUpWaiting(m) \in Meta
         /\ \A w \in Worker : ClaimTask(m, w) \in Meta
         /\ BeginTaskSubmission(m) \in Meta
         /\ ReleaseTaskSubmission(m) \in Meta
         /\ RequestTaskCancel(m) \in Meta
         /\ ResetRunningTask(m) \in Meta
         /\ \A sticky : ClearTransientResult(m, sticky) \in Meta
<1> USE DEF Meta, Status, Id
<1>1. CreateTask(m) \in Meta /\ DeleteTask(m) \in Meta /\ FinalizeTaskCreation(m) \in Meta
  BY DEF CreateTask, DeleteTask, FinalizeTaskCreation
<1>2. MarkPending(m) \in Meta
  BY DEF MarkPending
<1>3. DeferTask(m) \in Meta
  BY DEF DeferTask
<1>4. MarkFailed(m) \in Meta
  BY DEF MarkFailed
<1>5. MarkSubmitted(m) \in Meta
  BY DEF MarkSubmitted
<1>6. MarkSuccess(m) \in Meta
  BY DEF MarkSuccess
<1>7. MarkLateResultSuccess(m) \in Meta
  BY DEF MarkLateResultSuccess
<1>15. EndLateWatch(m) \in Meta
  BY DEF EndLateWatch
<1>8. GiveUpWaiting(m) \in Meta
  <2> DEFINE f == MarkFailed(m)
  <2>1. f \in Meta
    BY <1>4
  <2> HIDE DEF f
  <2>2. [f EXCEPT !.late = TRUE] \in Meta
    BY <2>1
  <2> QED BY <2>2 DEF GiveUpWaiting, f
<1>9. \A w \in Worker : ClaimTask(m, w) \in Meta
  BY DEF ClaimTask
<1>10. BeginTaskSubmission(m) \in Meta
  BY DEF BeginTaskSubmission
<1>14. ReleaseTaskSubmission(m) \in Meta
  BY DEF ReleaseTaskSubmission
<1>11. RequestTaskCancel(m) \in Meta
  BY DEF RequestTaskCancel
<1>12. ResetRunningTask(m) \in Meta
  <2>1. [m EXCEPT !.status = "submitted", !.worker = NoWorker] \in Meta
    OBVIOUS
  <2> HIDE DEF Meta, Status, Id
  <2> QED BY <1>2, <2>1 DEF ResetRunningTask
<1>13. \A sticky : ClearTransientResult(m, sticky) \in Meta
  BY DEF ClearTransientResult
<1> HIDE DEF Meta, Status, Id
<1> QED BY <1>1, <1>2, <1>3, <1>4, <1>5, <1>6, <1>7, <1>8, <1>9, <1>10, <1>11, <1>12, <1>13, <1>14, <1>15

\* The counters of a record are numbers and stay numbers when they are raised.
LEMMA Counters ==
  ASSUME NEW m \in Meta
  PROVE  /\ m.retries \in Nat /\ m.retries + 1 \in Nat
         /\ m.infra \in Nat /\ m.infra + 1 \in Nat
<1>1. m.retries \in Nat /\ m.infra \in Nat
  BY DEF Meta
<1> QED BY <1>1

\* The retries of the worker, the watchdog and the queries return a task record.
LEMMA RetryTypes ==
  ASSUME NEW m \in Meta, NEW limit \in Nat
  PROVE  /\ RecordRetry(m) \in Meta
         /\ RecordInfrastructureRetry(m) \in Meta
         /\ RetrySubmittedTask(m, limit) \in Meta
         /\ RetryAmbiguousProxyTask(m) \in Meta
         /\ RetryAmbiguousSubmittedTask(m) \in Meta
<1> DEFINE r == m.retries + 1
           i == m.infra + 1
<1>0. r \in Nat /\ i \in Nat
  BY Counters
<1> HIDE DEF r, i
<1>1. /\ [m EXCEPT !.status = "failed", !.worker = NoWorker, !.retries = r] \in Meta
      /\ [m EXCEPT !.status = "failed", !.worker = NoWorker, !.infra = i] \in Meta
  BY <1>0 DEF Meta, Status, Id
<1>2. [m EXCEPT !.status = "pending", !.worker = NoWorker, !.retries = r, !.waiting = TRUE] \in Meta
  BY <1>0 DEF Meta, Status, Id
<1>3. [m EXCEPT !.status = "pending", !.worker = NoWorker, !.infra = i, !.waiting = TRUE] \in Meta
  BY <1>0 DEF Meta, Status, Id
<1>4. [m EXCEPT !.status = "failed", !.worker = NoWorker, !.phase = "", !.infra = i] \in Meta
  BY <1>0 DEF Meta, Status, Id
<1>5. [m EXCEPT !.status = "pending", !.worker = NoWorker, !.phase = "", !.infra = i, !.waiting = TRUE] \in Meta
  BY <1>0 DEF Meta, Status, Id
<1>6. RetryAmbiguousProxyTask(m) \in Meta
  BY DEF RetryAmbiguousProxyTask, Meta, Status, Id
<1>7. RecordRetry(m) \in Meta /\ RetrySubmittedTask(m, limit) \in Meta
  BY <1>1, <1>2 DEF RecordRetry, RetrySubmittedTask, r
<1>8. RecordInfrastructureRetry(m) \in Meta
  BY <1>1, <1>3 DEF RecordInfrastructureRetry, i
<1>9. RetryAmbiguousSubmittedTask(m) \in Meta
  BY <1>4, <1>5 DEF RetryAmbiguousSubmittedTask, i
<1> QED BY <1>6, <1>7, <1>8, <1>9

\* Every command, pipeline and script of app/task_queue.py leaves an entry; LMOVE
\* does when the list it takes from has one.
LEMMA QueueTypes ==
  ASSUME NEW e \in R!Entry
  PROVE  /\ \A retry, future \in BOOLEAN :
              /\ R!LPush(e, retry) \in R!Entry
              /\ R!Enqueue(e, retry, future) \in R!Entry
              /\ R!Requeue(e, retry, future) \in R!Entry
              /\ (IF retry THEN e.retryReady > 0 ELSE e.ready > 0) => R!LMove(e, retry) \in R!Entry
              /\ R!DelayClaimed(e, retry, future) \in R!Entry
              /\ \A w : R!DelayOwned(e, w, retry, future) \in R!Entry
         /\ R!Promote(e) \in R!Entry
         /\ R!Ack(e) \in R!Entry
         /\ R!DropExpired(e) \in R!Entry
         /\ R!SRem(e) \in R!Entry
         /\ \A w \in Id : R!TakeLease(e, w) \in R!Entry
         /\ \A w : R!Heartbeat(e, w) \in R!Entry /\ R!AckOwned(e, w) \in R!Entry
<1>0. NoWorker \in Id
  BY DEF Id
<1>1. ASSUME NEW f \in R!Entry, NEW retry \in BOOLEAN, NEW future \in BOOLEAN
      PROVE  R!LPush(f, retry) \in R!Entry /\ R!ZAdd(f, retry, future) \in R!Entry
  BY DEF R!Entry, R!LPush, R!ZAdd, R!When
<1>2. ASSUME NEW retry \in BOOLEAN, NEW future \in BOOLEAN
      PROVE  R!Enqueue(e, retry, future) \in R!Entry
  <2>1. [e EXCEPT !.known = TRUE] \in R!Entry
    BY DEF R!Entry
  <2> QED BY <1>1, <2>1 DEF R!Enqueue
<1>3. ASSUME NEW retry \in BOOLEAN, NEW future \in BOOLEAN
      PROVE  R!Requeue(e, retry, future) \in R!Entry
  <2>1. [R!NoEntry EXCEPT !.known = TRUE] \in R!Entry
    BY <1>0 DEF R!Entry, R!NoEntry
  <2> QED BY <1>1, <2>1 DEF R!Requeue
<1>4. ASSUME NEW retry \in BOOLEAN, IF retry THEN e.retryReady > 0 ELSE e.ready > 0
      PROVE  R!LMove(e, retry) \in R!Entry
  <2>1. e.ready \in Nat /\ e.retryReady \in Nat
    BY DEF R!Entry
  <2>2. CASE retry
    <3>1. e.retryReady - 1 \in Nat
      BY <1>4, <2>1, <2>2
    <3> QED BY <2>2, <3>1 DEF R!Entry, R!LMove
  <2>3. CASE ~retry
    <3>1. e.ready - 1 \in Nat
      BY <1>4, <2>1, <2>3
    <3> QED BY <2>3, <3>1 DEF R!Entry, R!LMove
  <2> QED BY <2>2, <2>3
<1>5. ASSUME NEW retry \in BOOLEAN, NEW future \in BOOLEAN
      PROVE  R!DelayClaimed(e, retry, future) \in R!Entry
  BY <1>0 DEF R!Entry, R!DelayClaimed, R!When
<1>6. ASSUME NEW retry \in BOOLEAN, NEW future \in BOOLEAN, NEW w
      PROVE  R!DelayOwned(e, w, retry, future) \in R!Entry
  <2>1. [e EXCEPT !.processing = FALSE, !.lease = "none", !.owner = NoWorker] \in R!Entry
    BY <1>0 DEF R!Entry
  <2> QED BY <1>1, <2>1 DEF R!DelayOwned
<1>7. R!Promote(e) \in R!Entry
  <2>1. e.ready + 1 \in Nat /\ e.retryReady + 1 \in Nat
    BY DEF R!Entry
  <2>2. CASE e.delayed = "due"
    BY <2>1, <2>2 DEF R!Entry, R!Promote
  <2>3. CASE e.delayed # "due"
    BY <2>1, <2>3 DEF R!Entry, R!Promote
  <2> QED BY <2>2, <2>3
<1>8. R!Ack(e) \in R!Entry /\ R!DropExpired(e) \in R!Entry /\ R!SRem(e) \in R!Entry
  BY <1>0 DEF R!Entry, R!Ack, R!NoEntry, R!DropExpired, R!SRem
<1>9. ASSUME NEW w \in Id PROVE R!TakeLease(e, w) \in R!Entry
  BY DEF R!Entry, R!TakeLease
<1>10. ASSUME NEW w PROVE R!Heartbeat(e, w) \in R!Entry
  BY DEF R!Entry, R!Heartbeat
<1>11. ASSUME NEW w PROVE R!AckOwned(e, w) \in R!Entry
  BY <1>0 DEF R!Entry, R!AckOwned
<1> QED BY <1>1, <1>2, <1>3, <1>4, <1>5, <1>6, <1>7, <1>8, <1>9, <1>10, <1>11

-----------------------------------------------------------------------------
(* Type correctness *)

\* Coroutines and tasks: an idle or dead coroutine has no task (a canceled one has
\* it until its finally block), and the claim section runs in an idle coroutine.
HoldOK ==
  /\ \A w \in Worker : ~Held(w) => cur[w] = NoTask \/ (loop.at = "finally" /\ loop.w = w)
  /\ \A w \in Worker : Held(w) => cur[w] \in Task
  /\ loop.w \in Worker => pc[loop.w] = IF loop.at = "finally" THEN "dead" ELSE "idle"

\* RedisTaskQueue.release leaves an entry, whoever calls it.
LEMMA ReleaseType ==
  ASSUME TypeOK, NEW t \in Task, NEW w
  PROVE  Release(t, w) \in R!Entry
<1>1. q[t] \in R!Entry /\ meta[t] \in Meta
  BY DEF TypeOK
<1>2. meta[t].waiting \in BOOLEAN
  BY <1>1 DEF Meta
<1>3. IsRetry(t) \in BOOLEAN
  BY DEF IsRetry, MetaIsRetry
<1> QED BY <1>1, <1>2, <1>3, QueueTypes DEF Release

\* A disturbance is counted.
LEMMA DisturbType ==
  ASSUME TypeOK, NEW kind \in Kinds, Disturb(kind)
  PROVE  used' \in [Kinds -> Nat]
<1>1. used \in [Kinds -> Nat] /\ used[kind] + 1 \in Nat
  BY DEF TypeOK
<1> QED BY <1>1 DEF Disturb

\* The initial state is well typed.
LEMMA TypeInit == Init => TypeOK
<1> SUFFICES ASSUME Init PROVE TypeOK
  OBVIOUS
<1>1. NoMeta \in Meta
  BY DEF NoMeta, Meta, Status, Id
<1>2. R!NoEntry \in R!Entry
  BY DEF R!NoEntry, R!Entry, Id
<1>3. LoopOK
  BY DEF Init, LoopOK, Free, At, Sections, TaskSections, WorkerSections, RecoverSections
<1> QED BY <1>1, <1>2, <1>3 DEF Init, TypeOK

\* The API process.
LEMMA TypeApi == TypeOK /\ Api => TypeOK'
<1> SUFFICES ASSUME TypeOK, Api PROVE TypeOK'
  OBVIOUS
<1> USE DEF TypeOK, apiVars, workerVars
<1>1. ASSUME NEW t \in Task, Create(t) PROVE TypeOK'
  BY <1>1, StoreTypes DEF Create, LoopOK
<1>2. ASSUME NEW t \in Task, CreationFails(t) \/ Finalize(t) PROVE TypeOK'
  BY <1>2, StoreTypes DEF CreationFails, Finalize, LoopOK
<1>3. ASSUME NEW t \in Task, EnqueueNew(t) PROVE TypeOK'
  <2>1. IsRetry(t) \in BOOLEAN /\ meta[t].waiting \in BOOLEAN
    BY DEF IsRetry, MetaIsRetry, Meta
  <2> QED BY <1>3, <2>1, QueueTypes DEF EnqueueNew, LoopOK
<1>4. ASSUME NEW t \in Task, Expire(t) PROVE TypeOK'
  BY <1>4, StoreTypes DEF Expire, LoopOK
<1>5. ASSUME NEW t \in Task, PauseCancel(t) PROVE TypeOK'
  BY <1>5, StoreTypes DEF PauseCancel, LoopOK
<1>6. ASSUME NEW t \in Task, NEW admin \in BOOLEAN, CancelTask(t, admin) PROVE TypeOK'
  BY <1>6, StoreTypes DEF CancelTask, LoopOK
<1>7. CASE Pause
  BY <1>7, DisturbType DEF Pause, LoopOK, Kinds
<1>8. CASE Resume
  BY <1>8 DEF Resume, LoopOK
<1>9. CASE ApiRestart
  <2>1. \A t \in Task : MarkFailed(meta[t]) \in Meta /\ meta[t] \in Meta
    BY StoreTypes
  <2>2. meta' \in [Task -> Meta]
    BY <1>9, <2>1 DEF ApiRestart
  <2>3. used' \in [Kinds -> Nat]
    BY <1>9, DisturbType DEF ApiRestart, Kinds
  <2>4. handoff' \in [Task -> {"none", "enqueue", "requeue"}]
    BY <1>9 DEF ApiRestart
  <2> QED BY <1>9, <2>2, <2>3, <2>4 DEF ApiRestart, LoopOK
<1> QED BY <1>1, <1>2, <1>3, <1>4, <1>5, <1>6, <1>7, <1>8, <1>9 DEF Api

\* Results of submitted tasks.
LEMMA TypeResults == TypeOK /\ Results => TypeOK'
<1> SUFFICES ASSUME TypeOK, NEW t \in Task,
                    ResultFinished(t) \/ LateResult(t) \/ ResultRetry(t) \/ RequeuePending(t)
             PROVE  TypeOK'
  BY DEF Results
<1> USE DEF TypeOK, apiVars, workerVars
<1>1. CASE ResultFinished(t)
  BY <1>1, StoreTypes DEF ResultFinished, LoopOK
<1>2. CASE LateResult(t)
  BY <1>2, StoreTypes DEF LateResult, LoopOK
<1>3. CASE ResultRetry(t)
  <2>1. RetryLimit \in Nat /\ PolicyLimit \in Nat
    BY StoreConstants DEF PolicyLimit
  <2>2. PICK m : /\ \/ \E limit \in {RetryLimit, PolicyLimit} : m = RetrySubmittedTask(meta[t], limit)
                    \/ m = RetryAmbiguousProxyTask(meta[t])
                    \/ m = RetryAmbiguousSubmittedTask(meta[t])
                 /\ meta' = [meta EXCEPT ![t] = ClearTransientResult(m, t \in Confirmed)]
                 /\ handoff' = [handoff EXCEPT ![t] = IF m.status = "pending" THEN "requeue" ELSE @]
    BY <1>3, Zenon DEF ResultRetry
  <2>3. m \in Meta
    <3>1. meta[t] \in Meta
      OBVIOUS
    <3> QED BY <2>1, <2>2, <3>1, RetryTypes
  <2>4. ClearTransientResult(m, t \in Confirmed) \in Meta
    BY <2>3, StoreTypes
  <2> QED BY <1>3, <2>2, <2>4 DEF ResultRetry, LoopOK
<1>4. CASE RequeuePending(t)
  <2>1. IsRetry(t) \in BOOLEAN /\ meta[t].waiting \in BOOLEAN
    BY DEF IsRetry, MetaIsRetry, Meta
  <2> QED BY <1>4, <2>1, QueueTypes DEF RequeuePending, LoopOK
<1> QED BY <1>1, <1>2, <1>3, <1>4

\* RedisTaskQueue.recover.
LEMMA TypeRecover == TypeOK /\ Recover => TypeOK'
<1> SUFFICES ASSUME TypeOK, Recover PROVE TypeOK'
  OBVIOUS
<1> USE DEF TypeOK, apiVars
<1> USE DEF LoopOK, At, Sections, TaskSections, WorkerSections, RecoverSections
<1>0. loop.at \in {"recovered", "push"} => loop.t \in Task
  OBVIOUS
<1>1. ASSUME NEW t \in Task, RecoverTake(t) PROVE TypeOK'
  <2>1. R!DropExpired(q[t]) \in R!Entry
    BY QueueTypes
  <2>2. LoopOK'
    BY <1>1, QueueConstants DEF RecoverTake
  <2> QED BY <1>1, <2>1, <2>2 DEF RecoverTake
<1>2. CASE RecoverStatus
  <2>1. loop.t \in Task
    BY <1>0, <1>2 DEF RecoverStatus
  <2>2. /\ MarkPending(meta[loop.t]) \in Meta /\ MarkSubmitted(meta[loop.t]) \in Meta
        /\ R!SRem(q[loop.t]) \in R!Entry
    BY <2>1, StoreTypes, QueueTypes
  <2>3. meta' \in [Task -> Meta] /\ q' \in [Task -> R!Entry]
    BY <1>2, <2>1, <2>2 DEF RecoverStatus
  <2>4. LoopOK'
    BY <1>2, <2>1, QueueConstants DEF RecoverStatus
  <2> QED BY <1>2, <2>3, <2>4 DEF RecoverStatus
<1>3. CASE RecoverPush
  <2>1. loop.t \in Task
    BY <1>0, <1>3 DEF RecoverPush
  <2>2. R!LPush(q[loop.t], IsRetry(loop.t)) \in R!Entry
    <3>1. IsRetry(loop.t) \in BOOLEAN
      BY DEF IsRetry, MetaIsRetry
    <3> QED BY <2>1, <3>1, QueueTypes
  <2>3. LoopOK'
    BY <1>3 DEF RecoverPush
  <2> QED BY <1>3, <2>2, <2>3 DEF RecoverPush
<1> QED BY <1>1, <1>2, <1>3 DEF Recover

\* RedisTaskQueue.claim and the claim part of _worker_loop.
LEMMA TypeClaim == TypeOK /\ Claim => TypeOK'
<1> SUFFICES ASSUME TypeOK, Claim PROVE TypeOK'
  OBVIOUS
<1> USE DEF TypeOK, apiVars
<1> DEFINE t == loop.t
           w == loop.w
<1>0. ASSUME NEW u \in Task
      PROVE  q[u] \in R!Entry /\ meta[u] \in Meta /\ IsRetry(u) \in BOOLEAN
  BY DEF IsRetry, MetaIsRetry
<1>1. /\ loop.at \in {"moved", "checked", "marked", "leased", "deferred"} => t \in Task
      /\ loop.at \in {"lmove", "moved", "checked", "marked", "leased", "deferred"} => w \in Worker
      /\ loop.at = "recover" /\ w # Main => w \in Worker
  BY DEF LoopOK, TaskSections, WorkerSections, RecoverSections
<1>2. /\ \A section \in {"lmove", "recover"}, v \in Worker :
            loop' = At(section, v, NoTask) => LoopOK'
      /\ \A section \in {"moved", "checked", "marked", "leased", "deferred"}, v \in Worker, u \in Task :
            loop' = At(section, v, u) => LoopOK'
      /\ loop' = Free => LoopOK'
  BY QueueConstants DEF LoopOK, At, Free, Sections, TaskSections, WorkerSections, RecoverSections
<1>3. ASSUME NEW u \in Task, NEW retry \in BOOLEAN, ClaimMove(u, retry) PROVE TypeOK'
  <2>1. R!LMove(q[u], retry) \in R!Entry
    BY <1>0, <1>3, QueueTypes DEF ClaimMove
  <2> QED BY <1>1, <1>2, <1>3, <2>1 DEF ClaimMove
<1>4. CASE ClaimPromote
  <2>1. \A u \in Task : R!Promote(q[u]) \in R!Entry
    BY <1>0, QueueTypes
  <2> QED BY <1>1, <1>2, <1>4, <2>1 DEF ClaimPromote
<1>5. CASE ClaimEmpty
  BY <1>2, <1>5 DEF ClaimEmpty
<1>6. CASE ClaimCheck
  <2>1. R!Ack(q[t]) \in R!Entry /\ R!DelayClaimed(q[t], IsRetry(t), TRUE) \in R!Entry
    BY <1>0, <1>1, <1>6, QueueTypes DEF ClaimCheck
  <2> QED BY <1>1, <1>2, <1>6, <2>1 DEF ClaimCheck
<1>7. CASE ClaimMark
  <2>1. ClaimTask(meta[t], w) \in Meta
    BY <1>0, <1>1, <1>7, StoreTypes DEF ClaimMark
  <2> QED BY <1>1, <1>2, <1>7, <2>1 DEF ClaimMark
<1>8. CASE ClaimRefused
  <2>1. R!Ack(q[t]) \in R!Entry /\ R!DelayClaimed(q[t], IsRetry(t), TRUE) \in R!Entry
    BY <1>0, <1>1, <1>8, QueueTypes DEF ClaimRefused
  <2> QED BY <1>1, <1>2, <1>8, <2>1 DEF ClaimRefused
<1>9. CASE ClaimLease
  <2>1. R!TakeLease(q[t], w) \in R!Entry
    BY <1>0, <1>1, <1>9, QueueTypes DEF ClaimLease, Id
  <2> QED BY <1>1, <1>2, <1>9, <2>1 DEF ClaimLease
<1>10. CASE ClaimAccept
  BY <1>1, <1>2, <1>10 DEF ClaimAccept
<1>11. CASE ClaimDefer
  <2>1. DeferTask(meta[t]) \in Meta
    BY <1>0, <1>1, <1>11, StoreTypes DEF ClaimDefer
  <2> QED BY <1>1, <1>2, <1>11, <2>1 DEF ClaimDefer
<1>12. CASE ClaimDeferRelease
  <2>1. Release(t, w) \in R!Entry
    BY <1>1, <1>12, ReleaseType DEF ClaimDeferRelease
  <2> QED BY <1>1, <1>2, <1>12, <2>1 DEF ClaimDeferRelease
<1>13. CASE ClaimRaises
  <2>1. used' \in [Kinds -> Nat]
    BY <1>13, DisturbType DEF ClaimRaises, Kinds
  <2> QED BY <1>2, <1>13, <2>1 DEF ClaimRaises
<1> QED BY <1>3, <1>4, <1>5, <1>6, <1>7, <1>8, <1>9, <1>10, <1>11, <1>12, <1>13 DEF Claim

\* The coroutines: the task part of _worker_loop and the automation.
LEMMA TypeExecute ==
  ASSUME TypeOK, HoldOK, NEW w \in Worker, Execute(w) \/ PlatformAnswers(w)
  PROVE  TypeOK'
<1> USE DEF TypeOK, apiVars, workerVars
<1> DEFINE t == cur[w]
<1>1. pc[w] \notin {"idle", "dead"} => t \in Task /\ meta[t] \in Meta /\ q[t] \in R!Entry
  BY DEF HoldOK, Held
<1>2. CASE StartTask(w)
  <2>1. /\ ClearTransientResult(meta[t], t \in Confirmed) \in Meta
        /\ MarkFailed(meta[t]) \in Meta /\ DeferTask(meta[t]) \in Meta
    BY <1>1, <1>2, StoreTypes DEF StartTask
  <2> QED BY <1>2, <2>1 DEF StartTask, LoopOK
<1>3. CASE BeginSubmission(w)
  <2>1. BeginTaskSubmission(meta[t]) \in Meta
    BY <1>1, <1>3, StoreTypes DEF BeginSubmission
  <2> QED BY <1>3, <2>1 DEF BeginSubmission, LoopOK
<1>4. CASE ResponseAccepted(w) \/ TransportError(w)
  <2>1. /\ [meta[t] EXCEPT !.evidence = TRUE] \in Meta
        /\ meta[t] \in Meta /\ ReleaseTaskSubmission(meta[t]) \in Meta
    <3>1. meta[t] \in Meta
      BY <1>1, <1>4 DEF ResponseAccepted, TransportError
    <3> QED BY <3>1, StoreTypes DEF Meta
  <2>2. meta' \in [Task -> Meta]
    <3>1. PICK m : m \in Meta /\ meta' = [meta EXCEPT ![t] = m]
      BY <1>4, <2>1, Zenon DEF ResponseAccepted, TransportError
    <3> QED BY <3>1
  <2>3. pc' \in [Worker -> {"idle", "claimed", "auto", "commit", "received", "failed", "settle", "parked", "dead"}]
    BY <1>4 DEF ResponseAccepted, TransportError
  <2> QED BY <1>4, <2>2, <2>3 DEF ResponseAccepted, TransportError, LoopOK
<1>5. CASE ResponseRejected(w)
  <2>1. meta[t] \in Meta /\ ReleaseTaskSubmission(meta[t]) \in Meta
    BY <1>1, <1>5, StoreTypes DEF ResponseRejected
  <2>2. [ReleaseTaskSubmission(meta[t]) EXCEPT !.evidence = TRUE] \in Meta
    <3> DEFINE m == ReleaseTaskSubmission(meta[t])
    <3>1. m \in Meta
      BY <2>1
    <3> HIDE DEF m
    <3>2. [m EXCEPT !.evidence = TRUE] \in Meta
      BY <3>1 DEF Meta
    <3> QED BY <3>2 DEF m
  <2>3. meta' \in [Task -> Meta]
    <3>1. PICK m : m \in Meta /\ meta' = [meta EXCEPT ![t] = m]
      BY <1>5, <2>1, <2>2, Zenon DEF ResponseRejected
    <3> QED BY <3>1
  <2> QED BY <1>5, <2>3 DEF ResponseRejected, LoopOK
<1>6. CASE SubmissionReceived(w)
  <2>1. MarkSubmitted(meta[t]) \in Meta
    BY <1>1, <1>6, StoreTypes DEF SubmissionReceived
  <2> QED BY <1>6, <2>1 DEF SubmissionReceived, LoopOK
<1>7. CASE RecordOutcome(w)
  <2>1. /\ RecordRetry(meta[t]) \in Meta /\ RecordInfrastructureRetry(meta[t]) \in Meta
        /\ DeferTask(meta[t]) \in Meta /\ MarkFailed(meta[t]) \in Meta /\ meta[t] \in Meta
    BY <1>1, <1>7, StoreTypes, RetryTypes, StoreConstants DEF RecordOutcome
  <2>2. PICK m : m \in Meta /\ meta' = [meta EXCEPT ![t] = m]
    BY <1>7, <2>1, Zenon DEF RecordOutcome
  <2> QED BY <1>7, <2>2 DEF RecordOutcome, LoopOK
<1>8. CASE FinallyRelease(w)
  <2>1. Release(t, w) \in R!Entry
    BY <1>1, <1>8, ReleaseType DEF FinallyRelease
  <2> QED BY <1>8, <2>1 DEF FinallyRelease, LoopOK
<1>9. CASE DeliverCancel(w)
  <2>1. Held(w) => t \in Task /\ MarkPending(meta[t]) \in Meta /\ meta[t] \in Meta
    BY <1>1, StoreTypes DEF Held
  <2>2. LoopOK'
    BY <1>9, <2>1, QueueConstants
    DEF DeliverCancel, LoopOK, At, Sections, TaskSections, WorkerSections, RecoverSections
  <2>3. meta' \in [Task -> Meta]
    BY <1>9, <2>1 DEF DeliverCancel
  <2> QED BY <1>9, <2>2, <2>3 DEF DeliverCancel
<1>10. CASE ClaimStart(w)
  <2>1. limits' \subseteq Limited
    BY <1>10 DEF ClaimStart, FreshLimits
  <2>2. LoopOK'
    BY <1>10 DEF ClaimStart, LoopOK, At, Sections, TaskSections, WorkerSections, RecoverSections
  <2> QED BY <1>10, <2>1, <2>2 DEF ClaimStart
<1>11. CASE AutomationFails(w) \/ RunTimeout(w)
  BY <1>11 DEF AutomationFails, RunTimeout, LoopOK
<1>12. CASE PlatformAnswers(w)
  <2>1. PICK answer \in {"accepted", "rejected"} : upstream' = [upstream EXCEPT ![t] = answer]
    BY <1>12 DEF PlatformAnswers
  <2>2. upstream' \in [Task -> {"none", "accepted", "rejected"}]
    BY <2>1
  <2> QED BY <1>12, <2>2 DEF PlatformAnswers, LoopOK
<1> QED BY <1>2, <1>3, <1>4, <1>5, <1>6, <1>7, <1>8, <1>9, <1>10, <1>11, <1>12 DEF Execute

\* The supervisor, the watchdog and the reconcile thread.
LEMMA TypeSupervise == TypeOK /\ Supervise => TypeOK'
<1> SUFFICES ASSUME TypeOK, Supervise PROVE TypeOK'
  OBVIOUS
<1> USE DEF TypeOK, apiVars, workerVars
<1>0. ASSUME NEW u \in Task
      PROVE  q[u] \in R!Entry /\ meta[u] \in Meta /\ IsRetry(u) \in BOOLEAN
  BY DEF IsRetry, MetaIsRetry
<1>1. loop' = Free => LoopOK'
  BY DEF LoopOK, At, Free, Sections, TaskSections, WorkerSections, RecoverSections
<1>2. CASE HeartbeatAll
  <2>1. \A t \in Task : R!Heartbeat(q[t], q[t].owner) \in R!Entry
    BY <1>0, QueueTypes
  <2>2. q' \in [Task -> R!Entry]
    BY <1>0, <1>2, <2>1 DEF HeartbeatAll
  <2> QED BY <1>2, <2>2 DEF HeartbeatAll, LoopOK
<1>3. CASE CancelRelease
  <2>1. loop.t \in Task
    BY <1>3 DEF CancelRelease, LoopOK, TaskSections
  <2>2. Release(loop.t, loop.w) \in R!Entry
    BY <2>1, ReleaseType
  <2> QED BY <1>1, <1>3, <2>2 DEF CancelRelease
<1>4. CASE OrphanRequeue
  <2>1. loop.t \in Task
    BY <1>4 DEF OrphanRequeue, LoopOK, TaskSections
  <2>2. R!Requeue(q[loop.t], IsRetry(loop.t), FALSE) \in R!Entry
    BY <1>0, <2>1, QueueTypes
  <2> QED BY <1>1, <1>4, <2>2 DEF OrphanRequeue
<1>5. CASE ReconcileList
  BY <1>5 DEF ReconcileList, LoopOK
<1>6. ASSUME NEW t \in Task, ReconcileOne(t) PROVE TypeOK'
  <2>1. R!Requeue(q[t], IsRetry(t), FALSE) \in R!Entry
    BY <1>0, QueueTypes
  <2> QED BY <1>6, <2>1 DEF ReconcileOne, LoopOK
<1>7. ASSUME NEW w \in Worker, Spawn(w) PROVE TypeOK'
  <2>1. meta' \in [Task -> Meta]
    <3>1. ASSUME NEW t \in Task
          PROVE  [meta[t] EXCEPT !.worker = IF @ = w THEN Gone ELSE @] \in Meta
      BY <1>0, ZenonT(60) DEF Meta, Id
    <3> QED BY <1>7, <3>1 DEF Spawn
  <2>2. q' \in [Task -> R!Entry]
    <3>1. ASSUME NEW t \in Task
          PROVE  [q[t] EXCEPT !.owner = IF @ = w THEN Gone ELSE @] \in R!Entry
      BY <1>0 DEF R!Entry, Id
    <3> QED BY <1>7, <3>1 DEF Spawn
  <2> QED BY <1>7, <2>1, <2>2 DEF Spawn, LoopOK
<1>8. ASSUME NEW w \in Worker, Trim(w) PROVE TypeOK'
  BY <1>8 DEF Trim, LoopOK
<1>9. ASSUME NEW t \in Task, WatchStale(t) PROVE TypeOK'
  <2>1. RecordInfrastructureRetry(meta[t]) \in Meta
    BY <1>0, RetryTypes, StoreConstants
  <2>2. used' \in [Kinds -> Nat]
    BY <1>9, DisturbType DEF WatchStale, Kinds
  <2> QED BY <1>9, <2>1, <2>2 DEF WatchStale, LoopOK
<1>10. ASSUME NEW t \in Task, WatchOrphan(t) PROVE TypeOK'
  <2>1. RecordInfrastructureRetry(meta[t]) \in Meta
    BY <1>0, RetryTypes, StoreConstants
  <2>2. LoopOK'
    BY <1>10, QueueConstants
    DEF WatchOrphan, LoopOK, At, Sections, TaskSections, WorkerSections, RecoverSections
  <2> QED BY <1>10, <2>1, <2>2 DEF WatchOrphan
<1> QED BY <1>2, <1>3, <1>4, <1>5, <1>6, <1>7, <1>8, <1>9, <1>10 DEF Supervise

\* Crash, stop and start of the worker process.
LEMMA TypeLifecycle == TypeOK /\ Lifecycle => TypeOK'
<1> SUFFICES ASSUME TypeOK, Lifecycle PROVE TypeOK'
  OBVIOUS
<1> USE DEF TypeOK, apiVars, workerVars
<1>1. /\ loop' = Free => LoopOK'
      /\ loop' = At("down", NoWorker, NoTask) => LoopOK'
      /\ loop' = At("recover", Main, NoTask) => LoopOK'
      /\ loop' = At("boot", Main, NoTask) => LoopOK'
  BY DEF LoopOK, At, Free, Sections, TaskSections, WorkerSections, RecoverSections
<1>2. CASE Crash
  <2>1. used' \in [Kinds -> Nat]
    BY <1>2, DisturbType DEF Crash, Kinds
  <2>2. handoff' \in [Task -> {"none", "enqueue", "requeue"}]
    BY <1>2 DEF Crash
  <2> QED BY <1>1, <1>2, <2>1, <2>2 DEF Crash
<1>3. CASE Stop
  <2>1. used' \in [Kinds -> Nat]
    BY <1>3, DisturbType DEF Stop, Kinds
  <2>2. \A t \in Task : \A v : Release(t, v) \in R!Entry
    BY ReleaseType
  <2>3. q' \in [Task -> R!Entry]
    BY <1>3, <2>2 DEF Stop
  <2> QED BY <1>1, <1>3, <2>1, <2>3 DEF Stop
<1>4. CASE Start
  BY <1>1, <1>4 DEF Start
<1>5. CASE StartReset
  <2>1. \A t \in Task : ResetRunningTask(meta[t]) \in Meta
    BY StoreTypes
  <2> QED BY <1>1, <1>5, <2>1 DEF StartReset
<1>6. CASE StartReconcile
  <2>1. PICK due \in SUBSET {t \in Task \ Confirmed : meta[t].status = "pending" /\ handoff[t] = "none"} :
        \E forgiven \in SUBSET {t \in due : meta[t].infra > 0} :
          /\ meta' = [t \in Task |-> [meta[t] EXCEPT !.waiting = @ /\ t \notin due,
                                                    !.infra = IF t \in forgiven THEN 0 ELSE @]]
          /\ q' = [t \in Task |->
                    IF meta[t].status = "pending"
                      THEN R!Requeue(q[t], MetaIsRetry(meta'[t], t \in ManualRetry), meta'[t].waiting)
                      ELSE q[t]]
    BY <1>6 DEF StartReconcile
  <2>forgiven. PICK forgiven \in SUBSET {t \in due : meta[t].infra > 0} :
          /\ meta' = [t \in Task |-> [meta[t] EXCEPT !.waiting = @ /\ t \notin due,
                                                    !.infra = IF t \in forgiven THEN 0 ELSE @]]
          /\ q' = [t \in Task |->
                    IF meta[t].status = "pending"
                      THEN R!Requeue(q[t], MetaIsRetry(meta'[t], t \in ManualRetry), meta'[t].waiting)
                      ELSE q[t]]
    BY <2>1
  <2>2. ASSUME NEW t \in Task
        PROVE  [meta[t] EXCEPT !.waiting = @ /\ t \notin due,
                               !.infra = IF t \in forgiven THEN 0 ELSE @] \in Meta
    <3>1. meta[t] \in Meta
      OBVIOUS
    <3>2. (meta[t].waiting /\ t \notin due) \in BOOLEAN
      OBVIOUS
    <3>3. (IF t \in forgiven THEN 0 ELSE meta[t].infra) \in Nat
      BY <3>1, Counters
    <3> QED BY <3>1, <3>2, <3>3 DEF Meta
  <2>3. meta' \in [Task -> Meta]
    BY <2>forgiven, <2>2
  <2>4. q' \in [Task -> R!Entry]
    <3>1. ASSUME NEW t \in Task
          PROVE  R!Requeue(q[t], MetaIsRetry(meta'[t], t \in ManualRetry), meta'[t].waiting) \in R!Entry
      <4>1. meta'[t].waiting \in BOOLEAN
        BY <2>3 DEF Meta
      <4>2. MetaIsRetry(meta'[t], t \in ManualRetry) \in BOOLEAN
        BY DEF MetaIsRetry
      <4> QED BY <4>1, <4>2, QueueTypes
    <3> QED BY <2>forgiven, <3>1
  <2> QED BY <1>1, <1>6, <2>3, <2>4 DEF StartReconcile
<1> QED BY <1>2, <1>3, <1>4, <1>5, <1>6 DEF Lifecycle

\* Delays and leases run out.
LEMMA TypeTime == TypeOK /\ Time => TypeOK'
<1> SUFFICES ASSUME TypeOK, NEW t \in Task, Elapse(t) \/ ElapseDelayed(t) \/ LeaseExpires(t)
             PROVE  TypeOK'
  BY DEF Time
<1> USE DEF TypeOK, apiVars, workerVars
<1>1. meta[t] \in Meta /\ q[t] \in R!Entry
  OBVIOUS
<1>2. CASE Elapse(t)
  <2>1. [meta[t] EXCEPT !.waiting = FALSE] \in Meta
    BY <1>1 DEF Meta
  <2>2. used' \in [Kinds -> Nat]
    BY <1>2, DisturbType DEF Elapse, Kinds
  <2> QED BY <1>2, <2>1, <2>2 DEF Elapse, LoopOK
<1>3. CASE ElapseDelayed(t)
  <2>1. [q[t] EXCEPT !.delayed = IF @ = "future" THEN "due" ELSE @,
                     !.retryDelayed = IF @ = "future" THEN "due" ELSE @] \in R!Entry
    BY <1>1 DEF R!Entry
  <2>2. q' \in [Task -> R!Entry]
    BY <1>3, <2>1 DEF ElapseDelayed
  <2> QED BY <1>3, <2>2 DEF ElapseDelayed, LoopOK
<1>4. CASE LeaseExpires(t)
  <2>1. [q[t] EXCEPT !.lease = "expired"] \in R!Entry
    BY <1>1 DEF R!Entry
  <2>2. used' \in [Kinds -> Nat]
    BY <1>4, DisturbType DEF LeaseExpires, Kinds
  <2> QED BY <1>4, <2>1, <2>2 DEF LeaseExpires, LoopOK
<1> QED BY <1>2, <1>3, <1>4

\* A step of the event loop keeps coroutines and tasks together.
LEMMA HoldStep == TypeOK /\ HoldOK /\ Next => HoldOK'
<1> SUFFICES ASSUME TypeOK, HoldOK, Next PROVE HoldOK'
  OBVIOUS
<1> USE DEF TypeOK, apiVars, workerVars
<1>1. UNCHANGED <<loop, pc, cur>> => HoldOK'
  BY DEF HoldOK, Held
<1>2. \A w \in Worker : loop.at \in {"down", "free", "boot", "orphan"} => loop.w # w
  BY StoreConstants, QueueConstants DEF LoopOK, Id
<1>sameHolder. ASSUME UNCHANGED <<pc, cur>>, loop'.w = loop.w, loop.at # "finally", loop'.at # "finally"
      PROVE  HoldOK'
  BY <1>sameHolder DEF HoldOK, Held
<1>noHolder. ASSUME UNCHANGED <<pc, cur>>, loop.w \notin Worker, loop'.w \notin Worker
      PROVE  HoldOK'
  BY <1>noHolder DEF HoldOK, Held
<1>3. CASE Api \/ Results \/ Time
  BY <1>1, <1>3
  DEF Api, Create, CreationFails, Finalize, EnqueueNew, Expire, PauseCancel, CancelTask, Pause, Resume, ApiRestart,
      Results, ResultFinished, LateResult, ResultRetry, RequeuePending,
      Time, Elapse, ElapseDelayed, LeaseExpires
<1>4. CASE Recover
  BY <1>4 DEF Recover, RecoverTake, RecoverStatus, RecoverPush, At, HoldOK, Held
<1>5. CASE Claim
  <2>1. ASSUME NEW u \in Task, NEW retry \in BOOLEAN, ClaimMove(u, retry) PROVE HoldOK'
    BY <2>1 DEF ClaimMove, At, HoldOK, Held
  <2>2. CASE \/ ClaimPromote \/ ClaimCheck \/ ClaimMark \/ ClaimRefused \/ ClaimLease
             \/ ClaimDefer \/ ClaimDeferRelease
    <3>1. CASE ClaimPromote
      BY <1>sameHolder, <3>1 DEF ClaimPromote, At
    <3>2. CASE ClaimCheck
      <4>1. /\ UNCHANGED <<pc, cur>> /\ loop.at = "moved"
            /\ loop' = At("lmove", loop.w, NoTask) \/ loop' = At("checked", loop.w, loop.t)
        BY <3>2 DEF ClaimCheck
      <4> QED BY <1>sameHolder, <4>1 DEF At
    <3>3. CASE ClaimMark
      BY <1>sameHolder, <3>3 DEF ClaimMark, At
    <3>4. CASE ClaimRefused
      BY <1>sameHolder, <3>4 DEF ClaimRefused, At
    <3>5. CASE ClaimLease
      BY <1>sameHolder, <3>5 DEF ClaimLease, At
    <3>6. CASE ClaimDefer
      BY <1>sameHolder, <3>6 DEF ClaimDefer, At
    <3>7. CASE ClaimDeferRelease
      BY <1>sameHolder, <3>7 DEF ClaimDeferRelease, At
    <3> QED BY <2>2, <3>1, <3>2, <3>3, <3>4, <3>5, <3>6, <3>7
  <2>3. CASE ClaimEmpty
    BY <2>3, StoreConstants DEF ClaimEmpty, At, Free, HoldOK, Held
  <2>4. CASE ClaimAccept
    <3>1. loop.w \in Worker /\ loop.t \in Task
      BY <2>4 DEF ClaimAccept, LoopOK, TaskSections, WorkerSections
    <3> QED BY <2>4, <3>1, StoreConstants DEF ClaimAccept, At, Free, HoldOK, Held
  <2>5. CASE ClaimRaises
    BY <2>5, StoreConstants DEF ClaimRaises, At, Free, HoldOK, Held
  <2> QED BY <1>5, <2>1, <2>2, <2>3, <2>4, <2>5 DEF Claim
<1>6. ASSUME NEW w \in Worker, Execute(w) \/ PlatformAnswers(w) PROVE HoldOK'
  <2>1. CASE PlatformAnswers(w)
    BY <1>1, <2>1 DEF PlatformAnswers
  <2>2. CASE ClaimStart(w)
    BY <2>2 DEF ClaimStart, MayStep, At, HoldOK, Held
  <2>3. CASE \/ StartTask(w) \/ AutomationFails(w) \/ BeginSubmission(w)
             \/ ResponseAccepted(w) \/ ResponseRejected(w) \/ TransportError(w) \/ RunTimeout(w)
             \/ SubmissionReceived(w) \/ RecordOutcome(w)
    <3>1. /\ UNCHANGED <<loop, cur>> /\ loop.at = "free" /\ pc[w] \notin {"idle", "dead"}
          /\ \E x \in {"auto", "parked", "failed", "commit", "received", "settle"} : pc' = [pc EXCEPT ![w] = x]
      BY <2>3 DEF StartTask, AutomationFails, BeginSubmission, ResponseAccepted, ResponseRejected,
                  TransportError, RunTimeout, SubmissionReceived, RecordOutcome, MayStep
    <3> QED BY <1>2, <3>1 DEF HoldOK, Held
  <2>4. CASE FinallyRelease(w)
    BY <1>2, <2>4 DEF FinallyRelease, MayStep, HoldOK, Held
  <2>5. CASE DeliverCancel(w)
    BY <1>2, <2>5 DEF DeliverCancel, At, HoldOK, Held
  <2> QED BY <1>6, <2>1, <2>2, <2>3, <2>4, <2>5 DEF Execute
<1>7. CASE Supervise
  <2>1. CASE HeartbeatAll \/ ReconcileList \/ \E t \in Task : WatchStale(t) \/ ReconcileOne(t)
    BY <1>1, <2>1 DEF HeartbeatAll, ReconcileList, WatchStale, ReconcileOne
  <2>2. CASE CancelRelease
    <3>1. loop.w \in Worker
      BY <2>2 DEF CancelRelease, LoopOK, WorkerSections
    <3> QED BY <2>2, <3>1, StoreConstants DEF CancelRelease, At, Free, HoldOK, Held
  <2>3. CASE OrphanRequeue \/ \E t \in Task : WatchOrphan(t)
    <3>1. CASE OrphanRequeue
      BY <1>2, <1>noHolder, <3>1, StoreConstants DEF OrphanRequeue, At, Free
    <3>2. ASSUME NEW t \in Task, WatchOrphan(t) PROVE HoldOK'
      BY <1>2, <1>noHolder, <3>2, StoreConstants DEF WatchOrphan, At
    <3> QED BY <2>3, <3>1, <3>2
  <2>4. ASSUME NEW w \in Worker, Spawn(w) \/ Trim(w) PROVE HoldOK'
    BY <1>2, <2>4 DEF Spawn, Trim, MayStep, HoldOK, Held
  <2> QED BY <1>7, <2>1, <2>2, <2>3, <2>4 DEF Supervise
<1>8. CASE Lifecycle
  <2>1. CASE Crash \/ Stop
    BY <2>1, StoreConstants DEF Crash, Stop, At, HoldOK, Held
  <2>2. CASE Start \/ StartReset \/ StartReconcile
    <3>0. Main \notin Worker /\ NoWorker \notin Worker
      BY StoreConstants, QueueConstants DEF Id
    <3>1. CASE Start
      BY <1>2, <1>noHolder, <3>0, <3>1 DEF Start, At
    <3>2. CASE StartReset
      BY <1>noHolder, <3>0, <3>2 DEF StartReset, At
    <3>3. CASE StartReconcile
      BY <1>2, <1>noHolder, <3>0, <3>3 DEF StartReconcile, At, Free
    <3> QED BY <2>2, <3>1, <3>2, <3>3
  <2> QED BY <1>8, <2>1, <2>2 DEF Lifecycle
<1> QED BY <1>3, <1>4, <1>5, <1>6, <1>7, <1>8 DEF Next

\* The types and the hold of coroutines on tasks are preserved by every step.
LEMMA TypeStep == TypeOK /\ HoldOK /\ [Next]_vars => TypeOK' /\ HoldOK'
<1> SUFFICES ASSUME TypeOK, HoldOK, [Next]_vars PROVE TypeOK' /\ HoldOK'
  OBVIOUS
<1>1. CASE Next
  BY <1>1, TypeApi, TypeResults, TypeRecover, TypeClaim, TypeExecute, TypeSupervise, TypeLifecycle,
     TypeTime, HoldStep DEF Next
<1>2. CASE UNCHANGED vars
  BY <1>2 DEF vars, TypeOK, LoopOK, HoldOK, Held
<1> QED BY <1>1, <1>2

\* Initially no coroutine has a task.
LEMMA HoldInit == Init => HoldOK
BY StoreConstants DEF Init, HoldOK, Held, Free, At

\* Types, and who holds what, in every reachable state.
LEMMA TypeHold == Spec => [](TypeOK /\ HoldOK)
<1>1. Init => TypeOK /\ HoldOK
  BY TypeInit, HoldInit
<1> QED BY <1>1, TypeStep, PTL DEF Spec

\* In every reachable state every variable has its type: in particular no ready list
\* ever holds a negative number of entries for a task, and the section that has the
\* event loop works for a coroutine of the process or for its start-up code.
THEOREM TypeCorrect == Spec => []TypeOK
BY TypeHold, PTL

-----------------------------------------------------------------------------
(* Every step moves a record along the life cycle *)

\* The four fields that TaskLifecycle speaks of are the same in m and n.
Same(m, n) == n.status = m.status /\ n.late = m.late /\ n.retries = m.retries /\ n.infra = m.infra

\* LifeCycle!Step, said of the record before and the record after.
Moves(m, n) ==
  \/ Same(m, n)
  \/ /\ <<m.status, n.status>> \in LifeCycle!Arrow
     /\ n.late = m.late /\ n.retries = m.retries /\ n.infra = m.infra
  \/ /\ m.status = "submitted" /\ n.status = "failed" /\ n.late
     /\ n.retries = m.retries /\ n.infra = m.infra
  \/ /\ m.status = "failed" /\ m.late /\ n.status = "success" /\ ~n.late
     /\ n.retries = m.retries /\ n.infra = m.infra
  \/ /\ m.status = "failed" /\ m.late /\ n.status = "failed" /\ ~n.late
     /\ n.retries = m.retries /\ n.infra = m.infra
  \/ /\ m.status \notin Terminal
     /\ n.retries = m.retries + 1
     /\ (n.status = "pending" /\ n.retries <= RetryLimit) \/ n.status = "failed"
     /\ n.late = m.late /\ n.infra = m.infra
  \/ /\ m.status \notin Terminal
     /\ n.infra = m.infra + 1
     /\ (n.status = "pending" /\ (n.infra <= MaxInfra \/ n.infra <= RetryLimit)) \/ n.status = "failed"
     /\ n.late = m.late /\ n.retries = m.retries
  \/ /\ m.status = "pending" /\ n.status = "pending" /\ n.infra = 0
     /\ n.late = m.late /\ n.retries = m.retries

\* Each function of app/store.py moves a record along the life cycle, some of them
\* because their caller has checked the status.
LEMMA StoreMoves ==
  ASSUME NEW m \in Meta
  PROVE  /\ m.status = "none" => Moves(m, CreateTask(m))
         /\ m.status = "initializing" => Moves(m, DeleteTask(m))
         /\ m.status = "initializing" => Moves(m, FinalizeTaskCreation(m))
         /\ Moves(m, MarkPending(m))
         /\ Moves(m, DeferTask(m))
         /\ Moves(m, MarkFailed(m))
         /\ Moves(m, MarkSubmitted(m))
         /\ Moves(m, MarkSuccess(m))
         /\ m.late => Moves(m, MarkLateResultSuccess(m))
         /\ m.late /\ m.status = "failed" => Moves(m, EndLateWatch(m))
         /\ m.status = "submitted" => Moves(m, GiveUpWaiting(m))
         /\ m.status = "pending" => \A w : Moves(m, ClaimTask(m, w))
         /\ \A admin \in BOOLEAN : MayCancel(m, admin) => Moves(m, RequestTaskCancel(m))
         /\ Moves(m, ResetRunningTask(m))
<1>1. /\ m.status = "none" => Moves(m, CreateTask(m))
      /\ m.status = "initializing" => Moves(m, DeleteTask(m))
      /\ m.status = "initializing" => Moves(m, FinalizeTaskCreation(m))
      /\ m.status = "pending" => \A w : Moves(m, ClaimTask(m, w))
  BY DEF Meta, Moves, Same, LifeCycle!Arrow, CreateTask, DeleteTask, FinalizeTaskCreation, ClaimTask
<1>2. Moves(m, MarkPending(m)) /\ Moves(m, DeferTask(m))
  BY DEF Meta, Moves, Same, LifeCycle!Arrow, MarkPending, DeferTask
<1>3. Moves(m, MarkFailed(m))
  BY DEF Meta, Moves, Same, LifeCycle!Arrow, LifeCycle!Open, MarkFailed
<1>4. Moves(m, MarkSubmitted(m)) /\ Moves(m, MarkSuccess(m))
  BY DEF Meta, Moves, Same, LifeCycle!Arrow, MarkSubmitted, MarkSuccess
<1>5. /\ m.late => Moves(m, MarkLateResultSuccess(m))
      /\ m.late /\ m.status = "failed" => Moves(m, EndLateWatch(m))
  BY DEF Meta, Moves, Same, MarkLateResultSuccess, EndLateWatch
<1>6. m.status = "submitted" => Moves(m, GiveUpWaiting(m))
  BY DEF Meta, Moves, Same, GiveUpWaiting, MarkFailed
<1>7. \A admin \in BOOLEAN : MayCancel(m, admin) => Moves(m, RequestTaskCancel(m))
  BY DEF Meta, Moves, LifeCycle!Arrow, LifeCycle!Open, MayCancel, RequestTaskCancel
<1>8. Moves(m, ResetRunningTask(m))
  BY DEF Meta, Moves, Same, LifeCycle!Arrow, ResetRunningTask, MarkPending
<1> QED BY <1>1, <1>2, <1>3, <1>4, <1>5, <1>6, <1>7, <1>8

\* The same for the retries; a retry by a query is held against a limit that is at
\* most task_retry_limit().
LEMMA RetryMoves ==
  ASSUME NEW m \in Meta, NEW limit \in Nat, limit <= RetryLimit
  PROVE  /\ Moves(m, RecordRetry(m))
         /\ Moves(m, RecordInfrastructureRetry(m))
         /\ Moves(m, RetrySubmittedTask(m, limit))
         /\ Moves(m, RetryAmbiguousProxyTask(m))
         /\ Moves(m, RetryAmbiguousSubmittedTask(m))
<1>0. m.retries \in Nat /\ m.infra \in Nat /\ RetryLimit \in Nat /\ MaxInfra \in Nat
  BY Counters, StoreConstants
<1>1. /\ Moves(m, m)
      /\ m.status \notin Terminal =>
           /\ Moves(m, [m EXCEPT !.status = "failed", !.worker = NoWorker, !.retries = m.retries + 1])
           /\ Moves(m, [m EXCEPT !.status = "failed", !.worker = NoWorker, !.infra = m.infra + 1])
           /\ Moves(m, [m EXCEPT !.status = "failed", !.worker = NoWorker, !.phase = "",
                                 !.infra = m.infra + 1])
  BY DEF Meta, Moves, Same
<1>2. ASSUME m.status \notin Terminal, m.retries + 1 <= RetryLimit
      PROVE  Moves(m, [m EXCEPT !.status = "pending", !.worker = NoWorker, !.retries = m.retries + 1,
                                !.waiting = TRUE])
  BY <1>2 DEF Meta, Moves
<1>3. ASSUME m.status \notin Terminal, m.infra + 1 <= MaxInfra \/ m.infra + 1 <= RetryLimit
      PROVE  /\ Moves(m, [m EXCEPT !.status = "pending", !.worker = NoWorker, !.infra = m.infra + 1,
                                   !.waiting = TRUE])
             /\ Moves(m, [m EXCEPT !.status = "pending", !.worker = NoWorker, !.phase = "",
                                   !.infra = m.infra + 1, !.waiting = TRUE])
  BY <1>3 DEF Meta, Moves
<1> DEFINE r == m.retries + 1
           i == m.infra + 1
<1>4. /\ ~(r > limit) => r <= RetryLimit
      /\ ~(r > RetryLimit) => r <= RetryLimit
      /\ ~(i > MaxInfra) => i <= MaxInfra
      /\ ~(i > RetryLimit) => i <= RetryLimit
  BY <1>0
<1>5. m.status \notin {"success", "submitted", "failed", "canceled"} => m.status \notin Terminal
  BY DEF Terminal
<1> HIDE DEF Moves
<1>6. Moves(m, RecordRetry(m))
  BY <1>1, <1>2, <1>4, <1>5, Zenon DEF RecordRetry
<1>7. Moves(m, RecordInfrastructureRetry(m))
  BY <1>1, <1>3, <1>4, <1>5, Zenon DEF RecordInfrastructureRetry
<1>8. m.status = "submitted" => m.status \notin Terminal
  BY DEF Terminal
<1>9. Moves(m, RetrySubmittedTask(m, limit))
  BY <1>1, <1>2, <1>4, <1>8, Zenon DEF RetrySubmittedTask
<1>10. Moves(m, RetryAmbiguousSubmittedTask(m))
  BY <1>1, <1>3, <1>4, <1>8, Zenon DEF RetryAmbiguousSubmittedTask
<1>11. Moves(m, RetryAmbiguousProxyTask(m))
  BY DEF Meta, Moves, Same, LifeCycle!Arrow, RetryAmbiguousProxyTask
<1> QED BY <1>6, <1>7, <1>9, <1>10, <1>11

\* Fields outside the life cycle do not matter to Moves.
LEMMA SameMoves ==
  ASSUME NEW m, NEW n, NEW k, Moves(m, n), Same(n, k)
  PROVE  Moves(m, k)
BY DEF Moves, Same

\* Every step of the pipeline moves every record along the life cycle.
LEMMA RecordMoves ==
  ASSUME TypeOK, HoldOK, Next
  PROVE  \A t \in Task : Moves(meta[t], meta'[t])
<1> USE DEF apiVars, workerVars
<1> DEFINE Goal == \A t \in Task : Moves(meta[t], meta'[t])
<1> SUFFICES Goal
  OBVIOUS
<1>1. \A t \in Task : meta[t] \in Meta
  BY DEF TypeOK
<1>2. \A m : Moves(m, m)
  BY DEF Moves, Same
<1>3. ASSUME UNCHANGED meta PROVE Goal
  BY <1>2, <1>3
<1>4. ASSUME NEW u, NEW n, meta' = [meta EXCEPT ![u] = n], u \in Task => Moves(meta[u], n)
      PROVE  Goal
  <2>1. \A t \in Task : meta'[t] = IF t = u THEN n ELSE meta[t]
    BY <1>4 DEF TypeOK
  <2> QED BY <1>2, <1>4, <2>1
<1> HIDE DEF Goal
<1>5. CASE Api
  <2>1. ASSUME NEW t \in Task, Create(t) PROVE Goal
    BY <1>1, <1>4, <2>1, StoreMoves DEF Create
  <2>2. ASSUME NEW t \in Task, CreationFails(t) \/ Finalize(t) PROVE Goal
    BY <1>1, <1>4, <2>2, StoreMoves DEF CreationFails, Finalize
  <2>3. ASSUME NEW t \in Task, Expire(t) PROVE Goal
    BY <1>1, <1>4, <2>3, StoreMoves DEF Expire
  <2>4. ASSUME NEW t \in Task, PauseCancel(t) PROVE Goal
    <3>1. Moves(meta[t], IF MayCancel(meta[t], FALSE) THEN RequestTaskCancel(meta[t]) ELSE meta[t])
      BY <1>1, <1>2, StoreMoves
    <3> QED BY <1>4, <2>4, <3>1 DEF PauseCancel
  <2>5. ASSUME NEW t \in Task, NEW admin \in BOOLEAN, CancelTask(t, admin) PROVE Goal
    BY <1>1, <1>4, <2>5, StoreMoves DEF CancelTask
  <2>6. CASE ApiRestart
    <3>1. \A t \in Task : Moves(meta[t], MarkFailed(meta[t]))
      BY <1>1, StoreMoves
    <3> QED BY <1>2, <2>6, <3>1 DEF ApiRestart, Goal
  <2>7. CASE Pause \/ Resume \/ \E t \in Task : EnqueueNew(t)
    BY <1>3, <2>7 DEF Pause, Resume, EnqueueNew
  <2> QED BY <1>5, <2>1, <2>2, <2>3, <2>4, <2>5, <2>6, <2>7 DEF Api
<1>6. CASE Results
  <2>1. ASSUME NEW t \in Task, ResultFinished(t) PROVE Goal
    <3>1. /\ Moves(meta[t], MarkSuccess(meta[t])) /\ Moves(meta[t], MarkFailed(meta[t]))
          /\ Moves(meta[t], GiveUpWaiting(meta[t]))
      BY <1>1, <2>1, StoreMoves DEF ResultFinished
    <3>2. PICK m : Moves(meta[t], m) /\ meta' = [meta EXCEPT ![t] = m]
      BY <2>1, <3>1, Zenon DEF ResultFinished
    <3> QED BY <1>4, <3>2
  <2>2. ASSUME NEW t \in Task, LateResult(t) PROVE Goal
    <3>1. Moves(meta[t], MarkLateResultSuccess(meta[t])) /\ Moves(meta[t], EndLateWatch(meta[t]))
      BY <1>1, <2>2, StoreMoves DEF LateResult
    <3>2. PICK m : Moves(meta[t], m) /\ meta' = [meta EXCEPT ![t] = m]
      BY <2>2, <3>1, Zenon DEF LateResult
    <3> QED BY <1>4, <3>2
  <2>3. ASSUME NEW t \in Task, ResultRetry(t) PROVE Goal
    <3>1. \A limit \in {RetryLimit, PolicyLimit} : limit \in Nat /\ limit <= RetryLimit
      BY StoreConstants DEF PolicyLimit
    <3>2. \A limit \in {RetryLimit, PolicyLimit} : /\ RetrySubmittedTask(meta[t], limit) \in Meta
                                                   /\ Moves(meta[t], RetrySubmittedTask(meta[t], limit))
      BY <1>1, <3>1, RetryMoves, RetryTypes
    <3>3. /\ RetryAmbiguousProxyTask(meta[t]) \in Meta /\ RetryAmbiguousSubmittedTask(meta[t]) \in Meta
          /\ Moves(meta[t], RetryAmbiguousProxyTask(meta[t]))
          /\ Moves(meta[t], RetryAmbiguousSubmittedTask(meta[t]))
      BY <1>1, <3>1, RetryMoves, RetryTypes
    <3>4. PICK m : /\ m \in Meta /\ Moves(meta[t], m)
                   /\ meta' = [meta EXCEPT ![t] = ClearTransientResult(m, t \in Confirmed)]
      BY <2>3, <3>2, <3>3, ZenonT(60) DEF ResultRetry
    <3>5. Same(m, ClearTransientResult(m, t \in Confirmed))
      BY <3>4 DEF Same, ClearTransientResult, Meta
    <3>6. Moves(meta[t], ClearTransientResult(m, t \in Confirmed))
      BY <3>4, <3>5, SameMoves
    <3> QED BY <1>4, <3>4, <3>6
  <2>4. ASSUME NEW t \in Task, RequeuePending(t) PROVE Goal
    BY <1>3, <2>4 DEF RequeuePending
  <2> QED BY <1>6, <2>1, <2>2, <2>3, <2>4 DEF Results
<1>7. CASE Recover
  <2>1. CASE RecoverPush \/ \E t \in Task : RecoverTake(t)
    BY <1>3, <2>1 DEF RecoverPush, RecoverTake
  <2>2. CASE RecoverStatus
    <3>1. loop.t \in Task
      BY <2>2 DEF RecoverStatus, TypeOK, LoopOK, TaskSections
    <3>2. Moves(meta[loop.t], MarkSubmitted(meta[loop.t])) /\ Moves(meta[loop.t], MarkPending(meta[loop.t]))
      BY <1>1, <3>1, StoreMoves
    <3>3. Moves(meta[loop.t], IF meta[loop.t].status = "running" /\ meta[loop.t].evidence
                                THEN MarkSubmitted(meta[loop.t]) ELSE MarkPending(meta[loop.t]))
      BY <3>2
    <3> QED BY <1>4, <2>2, <3>3 DEF RecoverStatus
  <2> QED BY <1>7, <2>1, <2>2 DEF Recover
<1>8. CASE Claim
  <2>1. CASE \/ ClaimPromote \/ ClaimEmpty \/ ClaimCheck \/ ClaimRefused \/ ClaimLease \/ ClaimAccept
             \/ ClaimDeferRelease \/ ClaimRaises
             \/ \E t \in Task, retry \in BOOLEAN : ClaimMove(t, retry)
    BY <1>3, <2>1 DEF ClaimPromote, ClaimEmpty, ClaimCheck, ClaimRefused, ClaimLease, ClaimAccept,
                      ClaimDeferRelease, ClaimRaises, ClaimMove
  <2>2. CASE ClaimMark
    <3>1. loop.t \in Task => Moves(meta[loop.t], ClaimTask(meta[loop.t], loop.w))
      BY <1>1, <2>2, StoreMoves DEF ClaimMark, MayMarkRunning
    <3> QED BY <1>4, <2>2, <3>1 DEF ClaimMark
  <2>3. CASE ClaimDefer
    <3>1. loop.t \in Task => Moves(meta[loop.t], DeferTask(meta[loop.t]))
      BY <1>1, StoreMoves
    <3> QED BY <1>4, <2>3, <3>1 DEF ClaimDefer
  <2> QED BY <1>8, <2>1, <2>2, <2>3 DEF Claim
<1>9. ASSUME NEW w \in Worker, Execute(w) \/ PlatformAnswers(w) PROVE Goal
  <2> DEFINE t == cur[w]
  <2>0. ASSUME t \in Task
        PROVE  /\ Moves(meta[t], MarkFailed(meta[t])) /\ Moves(meta[t], DeferTask(meta[t]))
               /\ Moves(meta[t], MarkSubmitted(meta[t])) /\ Moves(meta[t], MarkPending(meta[t]))
               /\ Moves(meta[t], RecordRetry(meta[t])) /\ Moves(meta[t], RecordInfrastructureRetry(meta[t]))
    BY <1>1, <2>0, StoreMoves, RetryMoves, StoreConstants
  <2>1. ASSUME t \in Task
        PROVE  /\ Moves(meta[t], ClearTransientResult(meta[t], t \in Confirmed))
               /\ Moves(meta[t], BeginTaskSubmission(meta[t]))
               /\ Moves(meta[t], ReleaseTaskSubmission(meta[t]))
               /\ Moves(meta[t], [ReleaseTaskSubmission(meta[t]) EXCEPT !.evidence = TRUE])
               /\ Moves(meta[t], [meta[t] EXCEPT !.evidence = TRUE])
    BY <1>1, <2>1 DEF ClearTransientResult, BeginTaskSubmission, ReleaseTaskSubmission, Moves, Same, Meta
  <2>2. CASE \/ ClaimStart(w) \/ AutomationFails(w) \/ RunTimeout(w) \/ FinallyRelease(w)
             \/ PlatformAnswers(w)
    BY <1>3, <2>2 DEF ClaimStart, AutomationFails, RunTimeout, FinallyRelease, PlatformAnswers
  <2>3. CASE StartTask(w)
    BY <1>3, <1>4, <2>0, <2>1, <2>3 DEF StartTask
  <2>4. CASE BeginSubmission(w)
    BY <1>3, <1>4, <2>1, <2>4 DEF BeginSubmission
  <2>5. CASE ResponseAccepted(w) \/ TransportError(w)
    <3>1. PICK m : (t \in Task => Moves(meta[t], m)) /\ meta' = [meta EXCEPT ![t] = m]
      BY <1>2, <2>1, <2>5, Zenon DEF ResponseAccepted, TransportError
    <3> QED BY <1>4, <3>1
  <2>6. CASE ResponseRejected(w)
    <3>1. PICK m : (t \in Task => Moves(meta[t], m)) /\ meta' = [meta EXCEPT ![t] = m]
      BY <1>2, <2>1, <2>6, Zenon DEF ResponseRejected
    <3> QED BY <1>4, <3>1
  <2>7. CASE SubmissionReceived(w)
    BY <1>4, <2>0, <2>7 DEF SubmissionReceived
  <2>8. CASE RecordOutcome(w)
    <3>1. PICK m : (t \in Task => Moves(meta[t], m)) /\ meta' = [meta EXCEPT ![t] = m]
      BY <1>2, <2>0, <2>8, Zenon DEF RecordOutcome
    <3> QED BY <1>4, <3>1
  <2>9. CASE DeliverCancel(w)
    <3>1. t \in Task => Moves(meta[t], IF pc[w] \in {"claimed", "parked"} THEN meta[t] ELSE MarkPending(meta[t]))
      BY <1>2, <2>0
    <3> QED BY <1>3, <1>4, <2>9, <3>1 DEF DeliverCancel
  <2> QED BY <1>9, <2>2, <2>3, <2>4, <2>5, <2>6, <2>7, <2>8, <2>9 DEF Execute
<1>10. CASE Supervise
  <2>1. CASE HeartbeatAll \/ CancelRelease \/ OrphanRequeue \/ ReconcileList
    BY <1>3, <2>1 DEF HeartbeatAll, CancelRelease, OrphanRequeue, ReconcileList, workerVars
  <2>2. ASSUME NEW w \in Worker, Spawn(w) PROVE Goal
    <3>1. \A t \in Task : Moves(meta[t], [meta[t] EXCEPT !.worker = IF @ = w THEN Gone ELSE @])
      BY <1>1 DEF Moves, Same, Meta
    <3> QED BY <2>2, <3>1 DEF Spawn, Goal
  <2>3. ASSUME NEW w \in Worker, Trim(w) PROVE Goal
    BY <1>3, <2>3 DEF Trim
  <2>4. ASSUME NEW t \in Task, WatchStale(t) \/ WatchOrphan(t) PROVE Goal
    <3>1. Moves(meta[t], RecordInfrastructureRetry(meta[t]))
      BY <1>1, RetryMoves, StoreConstants
    <3> QED BY <1>4, <2>4, <3>1 DEF WatchStale, WatchOrphan
  <2>5. ASSUME NEW t \in Task, ReconcileOne(t) PROVE Goal
    BY <1>3, <2>5 DEF ReconcileOne
  <2> QED BY <1>10, <2>1, <2>2, <2>3, <2>4, <2>5 DEF Supervise
<1>11. CASE Lifecycle
  <2>1. CASE Crash \/ Stop \/ Start
    BY <1>3, <2>1 DEF Crash, Stop, Start
  <2>2. CASE StartReset
    <3>1. \A t \in Task : Moves(meta[t], ResetRunningTask(meta[t]))
      BY <1>1, StoreMoves
    <3> QED BY <2>2, <3>1 DEF StartReset, Goal
  <2>3. CASE StartReconcile
    <3>1. PICK due \in SUBSET {t \in Task \ Confirmed : meta[t].status = "pending" /\ handoff[t] = "none"} :
          \E forgiven \in SUBSET {t \in due : meta[t].infra > 0} :
            meta' = [t \in Task |-> [meta[t] EXCEPT !.waiting = @ /\ t \notin due,
                                                    !.infra = IF t \in forgiven THEN 0 ELSE @]]
      BY <2>3 DEF StartReconcile
    <3>2. PICK forgiven \in SUBSET {t \in due : meta[t].infra > 0} :
            meta' = [t \in Task |-> [meta[t] EXCEPT !.waiting = @ /\ t \notin due,
                                                    !.infra = IF t \in forgiven THEN 0 ELSE @]]
      BY <3>1
    <3>3. ASSUME NEW t \in Task PROVE Moves(meta[t], meta'[t])
      <4>1. CASE t \in forgiven
        BY <1>1, <3>1, <3>2, <4>1, ZenonT(60) DEF Moves, Meta
      <4>2. CASE t \notin forgiven
        BY <1>1, <3>2, <4>2 DEF Moves, Same, Meta
      <4> QED BY <4>1, <4>2
    <3> QED BY <3>3 DEF Goal
  <2> QED BY <1>11, <2>1, <2>2, <2>3 DEF Lifecycle
<1>12. CASE Time
  <2>1. ASSUME NEW t \in Task, Elapse(t) PROVE Goal
    <3>1. Moves(meta[t], [meta[t] EXCEPT !.waiting = FALSE])
      BY <1>1 DEF Moves, Same, Meta
    <3> QED BY <1>4, <2>1, <3>1 DEF Elapse
  <2>2. ASSUME NEW t \in Task, ElapseDelayed(t) \/ LeaseExpires(t) PROVE Goal
    BY <1>3, <2>2 DEF ElapseDelayed, LeaseExpires
  <2> QED BY <1>12, <2>1, <2>2 DEF Time
<1> QED BY <1>5, <1>6, <1>7, <1>8, <1>9, <1>10, <1>11, <1>12 DEF Next

\* A step of the pipeline is a step of the life cycle or leaves it alone.
LEMMA LifeCycleStep ==
  ASSUME TypeOK, HoldOK, [Next]_vars
  PROVE  [LifeCycle!Next]_LifeCycle!vars
<1>0. TypeOK'
  BY TypeStep
<1>1. CASE Next
  <2>1. ASSUME NEW t \in Task, Moves(meta[t], meta'[t]) PROVE LifeCycle!Step(t)
    <3> DEFINE m == meta[t]
               n == meta'[t]
    <3>1. CASE Same(m, n)
      BY <3>1 DEF Same, LifeCycle!Step, LifeCycle!Rest
    <3>2. CASE /\ <<m.status, n.status>> \in LifeCycle!Arrow
               /\ n.late = m.late /\ n.retries = m.retries /\ n.infra = m.infra
      BY <3>2 DEF LifeCycle!Step, LifeCycle!Advance
    <3>3. CASE /\ m.status = "submitted" /\ n.status = "failed" /\ n.late
               /\ n.retries = m.retries /\ n.infra = m.infra
      BY <3>3 DEF LifeCycle!Step, LifeCycle!GiveUp
    <3>4. CASE /\ m.status = "failed" /\ m.late /\ n.status = "success" /\ ~n.late
               /\ n.retries = m.retries /\ n.infra = m.infra
      BY <3>4 DEF LifeCycle!Step, LifeCycle!LateSuccess
    <3>5. CASE /\ m.status \notin Terminal
               /\ n.retries = m.retries + 1
               /\ (n.status = "pending" /\ n.retries <= RetryLimit) \/ n.status = "failed"
               /\ n.late = m.late /\ n.infra = m.infra
      BY <3>5 DEF LifeCycle!Step, LifeCycle!Retry, LifeCycle!Final, Terminal
    <3>6. CASE /\ m.status \notin Terminal
               /\ n.infra = m.infra + 1
               /\ \/ n.status = "pending" /\ (n.infra <= MaxInfra \/ n.infra <= RetryLimit)
                  \/ n.status = "failed"
               /\ n.late = m.late /\ n.retries = m.retries
      <4>1. n.infra \in Nat
        BY <1>0, <3>6, Counters DEF TypeOK
      <4>2. n.infra <= MaxInfra \/ n.infra <= RetryLimit
              => n.infra <= IF MaxInfra > RetryLimit THEN MaxInfra ELSE RetryLimit
        BY <4>1, StoreConstants
      <4> QED BY <3>6, <4>2 DEF LifeCycle!Step, LifeCycle!InfraRetry, LifeCycle!Final, Terminal
    <3>7. CASE /\ m.status = "pending" /\ n.status = "pending" /\ n.infra = 0
               /\ n.late = m.late /\ n.retries = m.retries
      BY <3>7 DEF LifeCycle!Step, LifeCycle!Forgive
    <3>8. CASE /\ m.status = "failed" /\ m.late /\ n.status = "failed" /\ ~n.late
               /\ n.retries = m.retries /\ n.infra = m.infra
      BY <3>8 DEF LifeCycle!Step, LifeCycle!LateOver
    <3> QED BY <2>1, <3>1, <3>2, <3>3, <3>4, <3>5, <3>6, <3>7, <3>8 DEF Moves
  <2> QED BY <1>1, <2>1, RecordMoves DEF LifeCycle!Next
<1>2. CASE UNCHANGED vars
  BY <1>2 DEF vars, LifeCycle!vars
<1> QED BY <1>1, <1>2

\* The pipeline implements the life cycle: whoever writes a task record, in whatever
\* order, with whatever crashes and faults, its status, its late flag and its
\* counters change as TaskLifecycle allows.
THEOREM Refinement == Spec => FollowsLifeCycle
<1>1. Init => LifeCycle!Init
  <2> SUFFICES ASSUME Init PROVE LifeCycle!Init
    OBVIOUS
  <2>1. \A t \in Task : /\ meta[t].status = "none" /\ meta[t].late = FALSE
                         /\ meta[t].retries = 0 /\ meta[t].infra = 0
    BY DEF Init, NoMeta
  <2> QED BY <2>1 DEF LifeCycle!Init
<1>2. TypeOK /\ HoldOK /\ [Next]_vars => [LifeCycle!Next]_LifeCycle!vars
  BY LifeCycleStep
<1> QED BY <1>1, <1>2, TypeHold, PTL DEF Spec, FollowsLifeCycle, LifeCycle!Spec

\* A finished task stays finished, but for the late success of a task that the result
\* watch gave up on.
THEOREM SettledForGood == Spec => SettledStays
<1> DEFINE Settled == \A t \in Task : meta[t].status \in Terminal =>
                        \/ meta'[t].status = meta[t].status
                        \/ meta[t].status = "failed" /\ meta[t].late /\ meta'[t].status = "success"
<1>1. ASSUME TypeOK, HoldOK, [Next]_vars PROVE [Settled]_vars
  <2>1. CASE Next
    <3>1. ASSUME NEW m, NEW n, Moves(m, n), m.status \in Terminal
          PROVE  \/ n.status = m.status
                 \/ m.status = "failed" /\ m.late /\ n.status = "success"
      BY <3>1 DEF Moves, Same, Terminal, LifeCycle!Arrow, LifeCycle!Open
    <3> QED BY <1>1, <2>1, <3>1, RecordMoves
  <2>2. CASE UNCHANGED vars
    BY <2>2
  <2> QED BY <1>1, <2>1, <2>2
<1> QED BY <1>1, TypeHold, PTL DEF Spec, SettledStays

-----------------------------------------------------------------------------
(* Retries *)

\* RetryBudget of one record, and what makes it inductive: a task that may still
\* succeed late failed within its budget, because only the result watch sets late.
WithinBudget(m) ==
  /\ m.status # "failed" \/ m.late => /\ m.retries <= RetryLimit
                                      /\ m.infra <= RetryLimit \/ m.infra <= MaxInfra
  /\ m.late => m.status = "failed"

\* A move along the life cycle stays within the budget.
LEMMA BudgetStep ==
  ASSUME NEW m \in Meta, NEW n \in Meta, WithinBudget(m), Moves(m, n)
  PROVE  WithinBudget(n)
<1>1. /\ m.retries \in Nat /\ m.infra \in Nat /\ n.retries \in Nat /\ n.infra \in Nat
      /\ RetryLimit \in Nat /\ MaxInfra \in Nat
  BY Counters, StoreConstants
<1> QED BY <1>1 DEF WithinBudget, Moves, Same, Terminal, LifeCycle!Arrow, LifeCycle!Open

\* A task that has used up its retries is failed and never runs again.
THEOREM BudgetKept == Spec => []RetryBudget
<1> DEFINE Inv == \A t \in Task : WithinBudget(meta[t])
<1>1. Init => Inv
  <2>1. WithinBudget(NoMeta)
    BY StoreConstants DEF NoMeta, WithinBudget
  <2> QED BY <2>1 DEF Init
<1>2. ASSUME Inv, TypeOK, HoldOK, TypeOK', [Next]_vars PROVE Inv'
  <2>1. \A t \in Task : meta[t] \in Meta /\ meta'[t] \in Meta
    BY <1>2 DEF TypeOK
  <2>2. CASE Next
    BY <1>2, <2>1, <2>2, RecordMoves, BudgetStep
  <2>3. CASE UNCHANGED vars
    BY <1>2, <2>3 DEF vars, WithinBudget
  <2> QED BY <1>2, <2>2, <2>3
<1>3. Inv => RetryBudget
  BY DEF WithinBudget, RetryBudget
<1> QED BY <1>1, <1>2, <1>3, TypeHold, PTL DEF Spec

-----------------------------------------------------------------------------
(* Leases and owners *)

\* Apart from the pipeline that closes a claim, a command leaves lease and owner as
\* they are (it may refresh or expire the lease) or removes both.
Leaves(e, f) ==
  \/ f.owner = e.owner /\ (f.lease = "none" <=> e.lease = "none")
  \/ f.owner = NoWorker /\ f.lease = "none"

\* The same for a command that lets no lease run out.
LeavesLive(e, f) == Leaves(e, f) /\ (f.lease = "expired" => e.lease = "expired")

\* Every command, pipeline and script but the one that closes a claim.
LEMMA EntryLeaves ==
  ASSUME NEW e \in R!Entry
  PROVE  /\ LeavesLive(e, e)
         /\ \A retry, future \in BOOLEAN :
              /\ LeavesLive(e, R!LPush(e, retry))
              /\ LeavesLive(e, R!Enqueue(e, retry, future))
              /\ LeavesLive(e, R!Requeue(e, retry, future))
              /\ LeavesLive(e, R!LMove(e, retry))
              /\ LeavesLive(e, R!DelayClaimed(e, retry, future))
              /\ \A w : LeavesLive(e, R!DelayOwned(e, w, retry, future))
         /\ LeavesLive(e, R!Promote(e))
         /\ LeavesLive(e, R!Ack(e))
         /\ LeavesLive(e, R!DropExpired(e))
         /\ LeavesLive(e, R!SRem(e))
         /\ \A w : LeavesLive(e, R!Heartbeat(e, w)) /\ LeavesLive(e, R!AckOwned(e, w))
<1> USE DEF Leaves, LeavesLive
<1>1. ASSUME NEW retry \in BOOLEAN, NEW future \in BOOLEAN
      PROVE  /\ LeavesLive(e, e)
             /\ LeavesLive(e, R!LPush(e, retry))
             /\ LeavesLive(e, R!LMove(e, retry))
             /\ LeavesLive(e, R!DelayClaimed(e, retry, future))
  BY DEF R!Entry, R!LPush, R!LMove, R!DelayClaimed
<1>2. ASSUME NEW retry \in BOOLEAN, NEW future \in BOOLEAN
      PROVE  LeavesLive(e, R!Enqueue(e, retry, future))
  BY DEF R!Entry, R!Enqueue, R!LPush, R!ZAdd
<1>3. ASSUME NEW retry \in BOOLEAN, NEW future \in BOOLEAN
      PROVE  LeavesLive(e, R!Requeue(e, retry, future))
  BY DEF R!NoEntry, R!Requeue, R!LPush, R!ZAdd
<1>4. ASSUME NEW retry \in BOOLEAN, NEW future \in BOOLEAN, NEW w
      PROVE  LeavesLive(e, R!DelayOwned(e, w, retry, future))
  BY DEF R!Entry, R!DelayOwned, R!ZAdd
<1>5. LeavesLive(e, R!Promote(e)) /\ LeavesLive(e, R!SRem(e))
  BY DEF R!Entry, R!Promote, R!SRem
<1>6. LeavesLive(e, R!Ack(e)) /\ LeavesLive(e, R!DropExpired(e))
  BY DEF R!Entry, R!Ack, R!NoEntry, R!DropExpired
<1>7. ASSUME NEW w PROVE LeavesLive(e, R!Heartbeat(e, w)) /\ LeavesLive(e, R!AckOwned(e, w))
  BY DEF R!Entry, R!Heartbeat, R!AckOwned
<1> HIDE DEF Leaves, LeavesLive
<1> QED BY <1>1, <1>2, <1>3, <1>4, <1>5, <1>6, <1>7

\* release() leaves lease and owner alone or removes both, and a worker that calls it
\* does not own the task any more.
LEMMA ReleaseLeaves ==
  ASSUME TypeOK, NEW t \in Task, NEW w
  PROVE  /\ LeavesLive(q[t], Release(t, w))
         /\ w \in Worker => Release(t, w).owner # w
<1>1. q[t] \in R!Entry /\ meta[t] \in Meta
  BY DEF TypeOK
<1>2. meta[t].waiting \in BOOLEAN /\ IsRetry(t) \in BOOLEAN
  BY <1>1 DEF Meta, IsRetry, MetaIsRetry
<1>3. LeavesLive(q[t], Release(t, w))
  BY <1>1, <1>2, EntryLeaves DEF Release
<1>4. ASSUME w \in Worker PROVE Release(t, w).owner # w
  <2>1. \A retry, future \in BOOLEAN : R!DelayOwned(q[t], w, retry, future).owner # w
    BY <1>1, <1>4, StoreConstants DEF R!Entry, R!DelayOwned, R!ZAdd
  <2>2. R!AckOwned(q[t], w).owner # w
    BY <1>1, <1>4, StoreConstants DEF R!Entry, R!AckOwned
  <2> QED BY <1>2, <2>1, <2>2 DEF Release
<1> QED BY <1>3, <1>4

\* Only the last pipeline of a claim gives a task an owner, and only the replacement
\* of a coroutine renames one.
LEMMA QueueLive ==
  ASSUME TypeOK, HoldOK, Next, ~ClaimLease, \A w \in Worker : ~Spawn(w),
         \A t \in Task : ~LeaseExpires(t)
  PROVE  \A t \in Task : LeavesLive(q[t], q'[t])
<1> USE DEF apiVars, workerVars
<1> DEFINE Goal == \A t \in Task : LeavesLive(q[t], q'[t])
<1> SUFFICES Goal
  OBVIOUS
<1>1. \A t \in Task : q[t] \in R!Entry /\ IsRetry(t) \in BOOLEAN /\ meta[t].waiting \in BOOLEAN
  BY DEF TypeOK, Meta, IsRetry, MetaIsRetry
<1>2. \A e : LeavesLive(e, e)
  BY DEF Leaves, LeavesLive
<1>3. ASSUME UNCHANGED q PROVE Goal
  BY <1>2, <1>3
<1>4. ASSUME NEW u, NEW f, q' = [q EXCEPT ![u] = f], u \in Task => LeavesLive(q[u], f)
      PROVE  Goal
  <2>1. \A t \in Task : q'[t] = IF t = u THEN f ELSE q[t]
    BY <1>4 DEF TypeOK
  <2> QED BY <1>2, <1>4, <2>1
<1>5. /\ loop.at \in TaskSections => loop.t \in Task
      /\ \A w \in Worker : pc[w] \in {"settle", "parked"} => cur[w] \in Task
  BY DEF TypeOK, LoopOK, HoldOK, Held
<1> HIDE DEF Goal
<1>6. CASE Api
  <2>1. ASSUME NEW t \in Task, EnqueueNew(t) PROVE Goal
    BY <1>1, <1>4, <2>1, EntryLeaves DEF EnqueueNew
  <2>2. CASE \/ Pause \/ Resume \/ ApiRestart
             \/ \E t \in Task : \/ Create(t) \/ CreationFails(t) \/ Finalize(t) \/ Expire(t) \/ PauseCancel(t)
                                \/ \E admin \in BOOLEAN : CancelTask(t, admin)
    BY <1>3, <2>2 DEF Pause, Resume, ApiRestart, Create, CreationFails, Finalize, Expire, PauseCancel,
                        CancelTask
  <2> QED BY <1>6, <2>1, <2>2 DEF Api
<1>7. CASE Results
  <2>1. ASSUME NEW t \in Task, RequeuePending(t) PROVE Goal
    <3>1. LeavesLive(q[t], IF meta[t].status = "pending"
                         THEN R!Requeue(q[t], IsRetry(t), meta[t].waiting) ELSE q[t])
      BY <1>1, EntryLeaves
    <3> QED BY <1>4, <2>1, <3>1 DEF RequeuePending
  <2>2. CASE \E t \in Task : ResultFinished(t) \/ LateResult(t) \/ ResultRetry(t)
    BY <1>3, <2>2 DEF ResultFinished, LateResult, ResultRetry
  <2> QED BY <1>7, <2>1, <2>2 DEF Results
<1>8. CASE Recover
  <2>1. ASSUME NEW t \in Task, RecoverTake(t) PROVE Goal
    BY <1>1, <1>4, <2>1, EntryLeaves DEF RecoverTake
  <2>2. CASE RecoverStatus
    <3>1. loop.t \in Task => LeavesLive(q[loop.t], IF meta[loop.t].status \in {"running", "pending"}
                                                 THEN q[loop.t] ELSE R!SRem(q[loop.t]))
      BY <1>1, EntryLeaves
    <3> QED BY <1>4, <2>2, <3>1 DEF RecoverStatus
  <2>3. CASE RecoverPush
    <3>1. loop.t \in Task => LeavesLive(q[loop.t], R!LPush(q[loop.t], IsRetry(loop.t)))
      BY <1>1, EntryLeaves
    <3> QED BY <1>4, <2>3, <3>1 DEF RecoverPush
  <2> QED BY <1>8, <2>1, <2>2, <2>3 DEF Recover
<1>9. CASE Claim
  <2>1. ASSUME NEW t \in Task, NEW retry \in BOOLEAN, ClaimMove(t, retry) PROVE Goal
    BY <1>1, <1>4, <2>1, EntryLeaves DEF ClaimMove
  <2>2. CASE ClaimPromote
    BY <1>1, <2>2, EntryLeaves DEF ClaimPromote, Goal
  <2>3. loop.t \in Task => /\ LeavesLive(q[loop.t], R!Ack(q[loop.t]))
                           /\ LeavesLive(q[loop.t], R!DelayClaimed(q[loop.t], IsRetry(loop.t), TRUE))
    BY <1>1, EntryLeaves
  <2>4. CASE ClaimCheck
    BY <1>3, <1>4, <2>3, <2>4 DEF ClaimCheck
  <2>5. CASE ClaimRefused
    <3>1. loop.t \in Task => LeavesLive(q[loop.t], IF OwnerOf[loop.t] \in limits
                                THEN R!DelayClaimed(q[loop.t], IsRetry(loop.t), TRUE)
                                ELSE R!Ack(q[loop.t]))
      BY <2>3
    <3> QED BY <1>4, <2>5, <3>1 DEF ClaimRefused
  <2>6. CASE ClaimDeferRelease
    <3>1. loop.t \in Task => LeavesLive(q[loop.t], Release(loop.t, loop.w))
      BY ReleaseLeaves
    <3> QED BY <1>4, <2>6, <3>1 DEF ClaimDeferRelease
  <2>7. CASE ClaimEmpty \/ ClaimMark \/ ClaimAccept \/ ClaimDefer \/ ClaimRaises
    BY <1>3, <2>7 DEF ClaimEmpty, ClaimMark, ClaimAccept, ClaimDefer, ClaimRaises
  <2> QED BY <1>9, <2>1, <2>2, <2>4, <2>5, <2>6, <2>7 DEF Claim
<1>10. ASSUME NEW w \in Worker, Execute(w) \/ PlatformAnswers(w) PROVE Goal
  <2>1. CASE FinallyRelease(w)
    <3>1. cur[w] \in Task => LeavesLive(q[cur[w]], Release(cur[w], w))
      BY ReleaseLeaves
    <3> QED BY <1>4, <2>1, <3>1 DEF FinallyRelease
  <2>2. CASE ~FinallyRelease(w)
    BY <1>3, <1>10, <2>2
    DEF Execute, ClaimStart, StartTask, AutomationFails, BeginSubmission, ResponseAccepted, ResponseRejected,
        TransportError, RunTimeout, SubmissionReceived, RecordOutcome, DeliverCancel, PlatformAnswers
  <2> QED BY <2>1, <2>2
<1>11. CASE Supervise
  <2>1. CASE HeartbeatAll
    <3>1. \A t \in Task : LeavesLive(q[t], R!Heartbeat(q[t], q[t].owner))
      BY <1>1, EntryLeaves
    <3> QED BY <1>2, <2>1, <3>1 DEF HeartbeatAll, Goal
  <2>2. CASE CancelRelease
    <3>1. loop.t \in Task => LeavesLive(q[loop.t], Release(loop.t, loop.w))
      BY ReleaseLeaves
    <3> QED BY <1>4, <2>2, <3>1 DEF CancelRelease
  <2>3. CASE OrphanRequeue
    <3>1. loop.t \in Task => LeavesLive(q[loop.t], IF meta[loop.t].infra <= MaxInfra
                                THEN R!Requeue(q[loop.t], IsRetry(loop.t), FALSE) ELSE q[loop.t])
      BY <1>1, EntryLeaves
    <3> QED BY <1>4, <2>3, <3>1 DEF OrphanRequeue
  <2>4. ASSUME NEW t \in Task, ReconcileOne(t) PROVE Goal
    BY <1>1, <1>4, <2>4, EntryLeaves DEF ReconcileOne
  <2>5. CASE \/ ReconcileList \/ \E w \in Worker : Trim(w)
             \/ \E t \in Task : WatchStale(t) \/ WatchOrphan(t)
    BY <1>3, <2>5 DEF ReconcileList, Trim, WatchStale, WatchOrphan
  <2> QED BY <1>11, <2>1, <2>2, <2>3, <2>4, <2>5 DEF Supervise
<1>12. CASE Lifecycle
  <2>1. CASE Crash \/ Start \/ StartReset
    BY <1>3, <2>1 DEF Crash, Start, StartReset
  <2>2. CASE Stop
    <3>1. \A t \in Task : \A v : LeavesLive(q[t], Release(t, v))
      BY ReleaseLeaves
    <3> QED BY <1>2, <2>2, <3>1 DEF Stop, Goal
  <2>3. CASE StartReconcile
    <3>1. \A t \in Task : meta'[t] \in Meta
      BY <1>12, TypeLifecycle DEF TypeOK
    <3>2. \A t \in Task : MetaIsRetry(meta'[t], t \in ManualRetry) \in BOOLEAN /\ meta'[t].waiting \in BOOLEAN
      BY <3>1 DEF MetaIsRetry, Meta
    <3>3. \A t \in Task :
            LeavesLive(q[t], R!Requeue(q[t], MetaIsRetry(meta'[t], t \in ManualRetry), meta'[t].waiting))
      BY <1>1, <3>2, EntryLeaves
    <3>4. q' = [t \in Task |->
                  IF meta[t].status = "pending"
                    THEN R!Requeue(q[t], MetaIsRetry(meta'[t], t \in ManualRetry), meta'[t].waiting)
                    ELSE q[t]]
      BY <2>3 DEF StartReconcile
    <3> QED BY <1>2, <3>3, <3>4 DEF Goal
  <2> QED BY <1>12, <2>1, <2>2, <2>3 DEF Lifecycle
<1>13. CASE Time
  <2>1. ASSUME NEW t \in Task, Elapse(t) PROVE Goal
    BY <1>3, <2>1 DEF Elapse
  <2>2. ASSUME NEW t \in Task, ElapseDelayed(t) PROVE Goal
    <3>1. \A u \in Task \ {t} : q'[u] = q[u]
      BY <2>2 DEF ElapseDelayed, TypeOK
    <3>2. q'[t].owner = q[t].owner /\ q'[t].lease = q[t].lease
      BY <1>1, <2>2 DEF ElapseDelayed, TypeOK, R!Entry
    <3> QED BY <1>2, <3>1, <3>2 DEF Leaves, LeavesLive, Goal
  <2> QED BY <1>13, <2>1, <2>2 DEF Time
<1> QED BY <1>6, <1>7, <1>8, <1>9, <1>10, <1>11, <1>12, <1>13 DEF Next

\* The same with the expiry of leases, which keeps their owners.
LEMMA QueueLeaves ==
  ASSUME TypeOK, HoldOK, Next, ~ClaimLease, \A w \in Worker : ~Spawn(w)
  PROVE  \A t \in Task : Leaves(q[t], q'[t])
<1>1. ASSUME NEW t \in Task, LeaseExpires(t) PROVE \A u \in Task : Leaves(q[u], q'[u])
  <2>1. \A u \in Task \ {t} : q'[u] = q[u]
    BY <1>1 DEF LeaseExpires, TypeOK
  <2>2. q'[t].owner = q[t].owner /\ q'[t].lease = "expired" /\ q[t].lease = "live"
    BY <1>1 DEF LeaseExpires, TypeOK, R!Entry
  <2> QED BY <2>1, <2>2 DEF Leaves
<1>2. CASE \A t \in Task : ~LeaseExpires(t)
  BY <1>2, QueueLive DEF LeavesLive
<1> QED BY <1>1, <1>2

\* The leases zset and the owners hash agree in every reachable state.
THEOREM LeasesOwned == Spec => []LeaseHasOwner
<1>1. Init => LeaseHasOwner
  BY DEF Init, LeaseHasOwner, R!NoEntry
<1>2. ASSUME LeaseHasOwner, TypeOK, HoldOK, [Next]_vars PROVE LeaseHasOwner'
  <2>1. CASE ClaimLease
    <3>1. loop.w \in Worker /\ loop.t \in Task
      BY <1>2, <2>1 DEF ClaimLease, TypeOK, LoopOK, TaskSections, WorkerSections
    <3>2. /\ q'[loop.t].owner = loop.w /\ q'[loop.t].lease = "live"
          /\ \A t \in Task \ {loop.t} : q'[t] = q[t]
      BY <1>2, <2>1, <3>1 DEF ClaimLease, TypeOK, R!Entry, R!TakeLease
    <3> QED BY <1>2, <3>1, <3>2, StoreConstants DEF LeaseHasOwner
  <2>2. ASSUME NEW w \in Worker, Spawn(w) PROVE LeaseHasOwner'
    <3>1. \A t \in Task : /\ q'[t].lease = q[t].lease
                          /\ q'[t].owner = IF q[t].owner = w THEN Gone ELSE q[t].owner
      BY <1>2, <2>2 DEF Spawn, TypeOK, R!Entry
    <3> QED BY <1>2, <3>1, StoreConstants DEF LeaseHasOwner
  <2>3. CASE Next /\ ~ClaimLease /\ \A w \in Worker : ~Spawn(w)
    BY <1>2, <2>3, QueueLeaves DEF LeaseHasOwner, Leaves
  <2>4. CASE UNCHANGED vars
    BY <1>2, <2>4 DEF vars, LeaseHasOwner
  <2> QED BY <1>2, <2>1, <2>2, <2>3, <2>4
<1> QED BY <1>1, <1>2, TypeHold, PTL DEF Spec

\* What makes LeaseNamesHolder inductive: of the sections of a claim, only those
\* after the lease was taken can name the owner of a lease.
OwnerOK ==
  \A t \in Task : \A w \in Worker : q[t].owner = w /\ pc[w] # "dead"
     => cur[w] = t \/ (loop.w = w /\ loop.t = t /\ loop.at \in {"leased", "deferred"})

\* A step that takes no task from a coroutine and brings none back to life.
LEMMA OwnerFrame ==
  ASSUME OwnerOK, \A t \in Task : Leaves(q[t], q'[t]),
         cur' = cur, \A w \in Worker : pc'[w] # "dead" => pc[w] # "dead",
         loop' = loop \/ loop.at \notin {"leased", "deferred"}
  PROVE  OwnerOK'
<1> SUFFICES ASSUME NEW t \in Task, NEW w \in Worker, q'[t].owner = w, pc'[w] # "dead"
             PROVE  \/ cur'[w] = t
                    \/ loop'.w = w /\ loop'.t = t /\ loop'.at \in {"leased", "deferred"}
  BY DEF OwnerOK
<1>1. q[t].owner = w
  BY StoreConstants DEF Leaves
<1>2. cur[w] = t \/ (loop.w = w /\ loop.t = t /\ loop.at \in {"leased", "deferred"})
  BY <1>1 DEF OwnerOK
<1> QED BY <1>2

\* Every step keeps the owners hash truthful.
LEMMA OwnerStep ==
  ASSUME OwnerOK, TypeOK, HoldOK, [Next]_vars
  PROVE  OwnerOK'
<1> USE DEF apiVars, workerVars
<1> SUFFICES ASSUME Next PROVE OwnerOK'
  BY DEF vars, OwnerOK
<1>1. CASE ClaimLease
  <2>1. loop.w \in Worker /\ loop.t \in Task
    BY <1>1 DEF ClaimLease, TypeOK, LoopOK, TaskSections, WorkerSections
  <2>2. q'[loop.t].owner = loop.w /\ \A t \in Task \ {loop.t} : q'[t] = q[t]
    BY <1>1, <2>1 DEF ClaimLease, TypeOK, R!Entry, R!TakeLease
  <2>3. /\ loop.at = "marked" /\ pc' = pc /\ cur' = cur
        /\ loop'.w = loop.w /\ loop'.t = loop.t /\ loop'.at = "leased"
    BY <1>1 DEF ClaimLease, At
  <2> QED BY <2>1, <2>2, <2>3 DEF OwnerOK
<1>2. ASSUME NEW v \in Worker, Spawn(v) PROVE OwnerOK'
  <2>1. \A t \in Task : q'[t].owner = IF q[t].owner = v THEN Gone ELSE q[t].owner
    BY <1>2 DEF Spawn, TypeOK, R!Entry
  <2>2. loop' = loop /\ cur' = cur /\ \A w \in Worker \ {v} : pc'[w] = pc[w]
    BY <1>2 DEF Spawn, TypeOK
  <2> QED BY <2>1, <2>2, StoreConstants DEF OwnerOK
<1>3. CASE ~ClaimLease /\ \A v \in Worker : ~Spawn(v)
  <2>0. \A t \in Task : Leaves(q[t], q'[t])
    BY <1>3, QueueLeaves
  <2>1. \A t \in Task, w \in Worker : q'[t].owner = w => q[t].owner = w
    BY <2>0, StoreConstants DEF Leaves
  <2>2. CASE Api \/ Results \/ Time
    <3>1. UNCHANGED <<loop, pc, cur>>
      BY <2>2 DEF Api, Create, CreationFails, Finalize, EnqueueNew, Expire, PauseCancel, CancelTask, Pause, Resume,
         ApiRestart, Results, ResultFinished, LateResult, ResultRetry, RequeuePending, Time, Elapse,
         ElapseDelayed, LeaseExpires
    <3> QED BY <2>0, <3>1, OwnerFrame
  <2>3. CASE Recover
    BY <2>0, <2>3, OwnerFrame DEF Recover, RecoverTake, RecoverStatus, RecoverPush
  <2>4. CASE Claim
    <3>1. CASE \/ ClaimPromote \/ ClaimEmpty \/ ClaimCheck \/ ClaimMark \/ ClaimRefused
               \/ \E t \in Task, retry \in BOOLEAN : ClaimMove(t, retry)
      BY <2>0, <3>1, OwnerFrame
      DEF ClaimPromote, ClaimEmpty, ClaimCheck, ClaimMark, ClaimRefused, ClaimMove
    <3>2. ASSUME loop.at \in {"leased", "deferred"}
          PROVE  /\ loop.w \in Worker /\ loop.t \in Task
                 /\ cur[loop.w] = NoTask /\ pc[loop.w] = "idle"
      BY <3>2 DEF TypeOK, LoopOK, TaskSections, WorkerSections, HoldOK, Held
    <3>3. CASE ClaimAccept
      BY <2>1, <3>2, <3>3, QueueConstants DEF ClaimAccept, OwnerOK, TypeOK
    <3>4. CASE ClaimDefer
      BY <2>1, <3>4 DEF ClaimDefer, At, OwnerOK
    <3>5. CASE ClaimDeferRelease
      <4>1. q'[loop.t].owner # loop.w
        BY <3>2, <3>5, ReleaseLeaves DEF ClaimDeferRelease, TypeOK
      <4> QED BY <2>1, <3>2, <3>5, <4>1, QueueConstants DEF ClaimDeferRelease, OwnerOK
    <3>6. CASE ClaimRaises
      BY <2>1, <3>6 DEF ClaimRaises, OwnerOK, TypeOK
    <3> QED BY <1>3, <2>4, <3>1, <3>3, <3>4, <3>5, <3>6 DEF Claim
  <2>5. ASSUME NEW v \in Worker, Execute(v) \/ PlatformAnswers(v) PROVE OwnerOK'
    <3>1. CASE FinallyRelease(v)
      <4>1. cur[v] \in Task /\ loop.at = "free" /\ UNCHANGED loop
        BY <3>1 DEF FinallyRelease, MayStep, HoldOK, Held
      <4>2. q'[cur[v]].owner # v
        BY <3>1, <4>1, ReleaseLeaves DEF FinallyRelease, TypeOK
      <4>3. \A w \in Worker \ {v} : pc'[w] = pc[w] /\ cur'[w] = cur[w]
        BY <3>1 DEF FinallyRelease, TypeOK
      <4>4. pc[v] # "dead"
        BY <3>1 DEF FinallyRelease
      <4> QED BY <2>1, <4>1, <4>2, <4>3, <4>4 DEF OwnerOK
    <3>2. CASE PlatformAnswers(v)
      BY <2>0, <3>2, OwnerFrame DEF PlatformAnswers
    <3>3. CASE ClaimStart(v)
      BY <2>0, <3>3, OwnerFrame DEF ClaimStart, MayStep
    <3>4. CASE DeliverCancel(v)
      <4>1. \A w \in Worker : pc'[w] # "dead" => pc[w] # "dead"
        BY <3>4 DEF DeliverCancel, TypeOK
      <4> QED BY <2>0, <3>4, <4>1, OwnerFrame DEF DeliverCancel
    <3>5. CASE \/ StartTask(v) \/ AutomationFails(v) \/ BeginSubmission(v)
               \/ ResponseAccepted(v) \/ ResponseRejected(v) \/ TransportError(v) \/ RunTimeout(v)
               \/ SubmissionReceived(v) \/ RecordOutcome(v)
      <4>1. /\ UNCHANGED <<loop, cur>> /\ pc[v] # "dead"
            /\ \E x : pc' = [pc EXCEPT ![v] = x]
        BY <3>5 DEF StartTask, AutomationFails, BeginSubmission, ResponseAccepted, ResponseRejected,
                    TransportError, RunTimeout, SubmissionReceived, RecordOutcome
      <4>2. \A w \in Worker : pc'[w] # "dead" => pc[w] # "dead"
        BY <4>1 DEF TypeOK
      <4> QED BY <2>0, <4>1, <4>2, OwnerFrame
    <3> QED BY <2>5, <3>1, <3>2, <3>3, <3>4, <3>5 DEF Execute
  <2>6. CASE Supervise
    <3>1. CASE HeartbeatAll \/ ReconcileList \/ \E t \in Task : WatchStale(t) \/ WatchOrphan(t) \/ ReconcileOne(t)
      BY <2>0, <3>1, OwnerFrame DEF HeartbeatAll, ReconcileList, WatchStale, WatchOrphan, ReconcileOne
    <3>2. CASE OrphanRequeue
      BY <2>0, <3>2, OwnerFrame DEF OrphanRequeue
    <3>3. CASE CancelRelease
      <4>1. loop.w \in Worker /\ pc[loop.w] = "dead"
        BY <3>3 DEF CancelRelease, TypeOK, LoopOK, WorkerSections, HoldOK
      <4>2. pc' = pc /\ \A w \in Worker \ {loop.w} : cur'[w] = cur[w]
        BY <3>3 DEF CancelRelease, TypeOK
      <4> QED BY <2>1, <3>3, <4>1, <4>2 DEF CancelRelease, OwnerOK
    <3>4. ASSUME NEW v \in Worker, Trim(v) PROVE OwnerOK'
      <4>1. \A w \in Worker : pc'[w] # "dead" => pc[w] # "dead"
        BY <3>4 DEF Trim, TypeOK
      <4> QED BY <2>0, <3>4, <4>1, OwnerFrame DEF Trim
    <3> QED BY <1>3, <2>6, <3>1, <3>2, <3>3, <3>4 DEF Supervise
  <2>7. CASE Lifecycle
    <3>1. CASE Crash \/ Stop
      BY <3>1 DEF Crash, Stop, OwnerOK
    <3>2. CASE Start \/ StartReset \/ StartReconcile
      BY <2>0, <3>2, OwnerFrame DEF Start, StartReset, StartReconcile
    <3> QED BY <2>7, <3>1, <3>2 DEF Lifecycle
  <2> QED BY <2>2, <2>3, <2>4, <2>5, <2>6, <2>7 DEF Next
<1> QED BY <1>1, <1>2, <1>3

\* A coroutine that is alive and named as the owner of a task has that task: its
\* lease is one the supervisor refreshes, and a lease nobody works under expires.
THEOREM OwnersTruthful == Spec => []LeaseNamesHolder
<1>1. Init => OwnerOK
  BY StoreConstants DEF Init, OwnerOK, R!NoEntry
<1>2. OwnerOK => LeaseNamesHolder
  BY DEF OwnerOK, LeaseNamesHolder
<1> QED BY <1>1, <1>2, OwnerStep, TypeHold, PTL DEF Spec
-----------------------------------------------------------------------------
(* Owners and their limits *)

\* A write that does not start the task.
NotStarted(m, n) == n.status = "running" => m.status = "running"

\* claim_task is the only function of app/store.py that makes a task running.
LEMMA StoreStarts ==
  ASSUME NEW m \in Meta
  PROVE  /\ NotStarted(m, CreateTask(m))
         /\ NotStarted(m, DeleteTask(m))
         /\ NotStarted(m, FinalizeTaskCreation(m))
         /\ NotStarted(m, MarkPending(m))
         /\ NotStarted(m, DeferTask(m))
         /\ NotStarted(m, MarkFailed(m))
         /\ NotStarted(m, MarkSubmitted(m))
         /\ NotStarted(m, MarkSuccess(m))
         /\ NotStarted(m, MarkLateResultSuccess(m))
         /\ NotStarted(m, EndLateWatch(m))
         /\ NotStarted(m, GiveUpWaiting(m))
         /\ NotStarted(m, RequestTaskCancel(m))
         /\ NotStarted(m, ResetRunningTask(m))
         /\ NotStarted(m, RecordRetry(m))
         /\ NotStarted(m, RecordInfrastructureRetry(m))
         /\ \A limit : NotStarted(m, RetrySubmittedTask(m, limit))
         /\ NotStarted(m, RetryAmbiguousProxyTask(m))
         /\ NotStarted(m, RetryAmbiguousSubmittedTask(m))
<1>1. /\ NotStarted(m, CreateTask(m)) /\ NotStarted(m, DeleteTask(m))
      /\ NotStarted(m, FinalizeTaskCreation(m)) /\ NotStarted(m, RequestTaskCancel(m))
  BY DEF Meta, NotStarted, CreateTask, DeleteTask, FinalizeTaskCreation, RequestTaskCancel
<1>2. /\ NotStarted(m, MarkPending(m)) /\ NotStarted(m, DeferTask(m))
      /\ NotStarted(m, MarkFailed(m)) /\ NotStarted(m, MarkSubmitted(m))
  BY DEF Meta, NotStarted, MarkPending, DeferTask, MarkFailed, MarkSubmitted
<1>3. /\ NotStarted(m, MarkSuccess(m)) /\ NotStarted(m, MarkLateResultSuccess(m))
      /\ NotStarted(m, EndLateWatch(m)) /\ NotStarted(m, GiveUpWaiting(m))
  BY DEF Meta, NotStarted, MarkSuccess, MarkLateResultSuccess, EndLateWatch, GiveUpWaiting, MarkFailed
<1>4. NotStarted(m, ResetRunningTask(m))
  BY DEF Meta, NotStarted, ResetRunningTask, MarkPending
<1>5. \A x, y : /\ NotStarted(m, [m EXCEPT !.status = "failed", !.worker = NoWorker, !.retries = x])
                /\ NotStarted(m, [m EXCEPT !.status = "pending", !.worker = NoWorker, !.retries = x,
                                           !.waiting = TRUE])
                /\ NotStarted(m, [m EXCEPT !.status = "failed", !.worker = NoWorker, !.infra = y])
                /\ NotStarted(m, [m EXCEPT !.status = "pending", !.worker = NoWorker, !.infra = y,
                                           !.waiting = TRUE])
                /\ NotStarted(m, [m EXCEPT !.status = "failed", !.worker = NoWorker, !.phase = "",
                                           !.infra = y])
                /\ NotStarted(m, [m EXCEPT !.status = "pending", !.worker = NoWorker, !.phase = "",
                                           !.infra = y, !.waiting = TRUE])
                /\ NotStarted(m, [m EXCEPT !.status = "pending", !.worker = NoWorker, !.phase = "",
                                           !.waiting = TRUE])
  BY DEF Meta, NotStarted
<1>6. NotStarted(m, m)
  BY DEF NotStarted
<1> HIDE DEF NotStarted
<1>7. NotStarted(m, RecordRetry(m)) /\ \A limit : NotStarted(m, RetrySubmittedTask(m, limit))
  BY <1>5, <1>6, Zenon DEF RecordRetry, RetrySubmittedTask
<1>8. NotStarted(m, RecordInfrastructureRetry(m)) /\ NotStarted(m, RetryAmbiguousSubmittedTask(m))
  BY <1>5, <1>6, Zenon DEF RecordInfrastructureRetry, RetryAmbiguousSubmittedTask
<1>9. NotStarted(m, RetryAmbiguousProxyTask(m))
  BY <1>5, <1>6, Zenon DEF RetryAmbiguousProxyTask
<1> QED BY <1>1, <1>2, <1>3, <1>4, <1>7, <1>8, <1>9

\* No step but the transaction of claim_task makes a task running.
LEMMA OnlyClaimStarts ==
  ASSUME TypeOK, Next, ~ClaimMark
  PROVE  \A t \in Task : NotStarted(meta[t], meta'[t])
<1> USE DEF apiVars, workerVars
<1> DEFINE Goal == \A t \in Task : NotStarted(meta[t], meta'[t])
<1> SUFFICES Goal
  OBVIOUS
<1>1. \A t \in Task : meta[t] \in Meta
  BY DEF TypeOK
<1>2. \A m : NotStarted(m, m)
  BY DEF NotStarted
<1>3. ASSUME UNCHANGED meta PROVE Goal
  BY <1>2, <1>3
<1>4. ASSUME NEW u, NEW n, meta' = [meta EXCEPT ![u] = n], u \in Task => NotStarted(meta[u], n)
      PROVE  Goal
  <2>1. \A t \in Task : meta'[t] = IF t = u THEN n ELSE meta[t]
    BY <1>4 DEF TypeOK
  <2> QED BY <1>2, <1>4, <2>1
<1> HIDE DEF Goal
<1>5. CASE Api
  <2>1. ASSUME NEW t \in Task, Create(t) PROVE Goal
    BY <1>1, <1>4, <2>1, StoreStarts DEF Create
  <2>2. ASSUME NEW t \in Task, CreationFails(t) \/ Finalize(t) PROVE Goal
    BY <1>1, <1>4, <2>2, StoreStarts DEF CreationFails, Finalize
  <2>3. ASSUME NEW t \in Task, Expire(t) PROVE Goal
    BY <1>1, <1>4, <2>3, StoreStarts DEF Expire
  <2>4. ASSUME NEW t \in Task, PauseCancel(t) PROVE Goal
    <3>1. NotStarted(meta[t], IF MayCancel(meta[t], FALSE) THEN RequestTaskCancel(meta[t]) ELSE meta[t])
      BY <1>1, <1>2, StoreStarts
    <3> QED BY <1>4, <2>4, <3>1 DEF PauseCancel
  <2>5. ASSUME NEW t \in Task, NEW admin \in BOOLEAN, CancelTask(t, admin) PROVE Goal
    BY <1>1, <1>4, <2>5, StoreStarts DEF CancelTask
  <2>6. CASE ApiRestart
    <3>1. \A t \in Task : NotStarted(meta[t], MarkFailed(meta[t]))
      BY <1>1, StoreStarts
    <3> QED BY <1>2, <2>6, <3>1 DEF ApiRestart, Goal
  <2>7. CASE Pause \/ Resume \/ \E t \in Task : EnqueueNew(t)
    BY <1>3, <2>7 DEF Pause, Resume, EnqueueNew
  <2> QED BY <1>5, <2>1, <2>2, <2>3, <2>4, <2>5, <2>6, <2>7 DEF Api
<1>6. CASE Results
  <2>1. ASSUME NEW t \in Task, ResultFinished(t) PROVE Goal
    <3>1. /\ NotStarted(meta[t], MarkSuccess(meta[t])) /\ NotStarted(meta[t], MarkFailed(meta[t]))
          /\ NotStarted(meta[t], GiveUpWaiting(meta[t]))
      BY <1>1, <2>1, StoreStarts DEF ResultFinished
    <3>2. PICK m : NotStarted(meta[t], m) /\ meta' = [meta EXCEPT ![t] = m]
      BY <2>1, <3>1, Zenon DEF ResultFinished
    <3> QED BY <1>4, <3>2
  <2>2. ASSUME NEW t \in Task, LateResult(t) PROVE Goal
    <3>1. NotStarted(meta[t], MarkLateResultSuccess(meta[t])) /\ NotStarted(meta[t], EndLateWatch(meta[t]))
      BY <1>1, <2>2, StoreStarts DEF LateResult
    <3>2. PICK m : NotStarted(meta[t], m) /\ meta' = [meta EXCEPT ![t] = m]
      BY <2>2, <3>1, Zenon DEF LateResult
    <3> QED BY <1>4, <3>2
  <2>3. ASSUME NEW t \in Task, ResultRetry(t) PROVE Goal
    <3>1. \A limit \in {RetryLimit, PolicyLimit} : limit \in Nat /\ limit <= RetryLimit
      BY StoreConstants DEF PolicyLimit
    <3>2. \A limit \in {RetryLimit, PolicyLimit} : /\ RetrySubmittedTask(meta[t], limit) \in Meta
                                                   /\ NotStarted(meta[t], RetrySubmittedTask(meta[t], limit))
      BY <1>1, <3>1, StoreStarts, RetryTypes
    <3>3. /\ RetryAmbiguousProxyTask(meta[t]) \in Meta /\ RetryAmbiguousSubmittedTask(meta[t]) \in Meta
          /\ NotStarted(meta[t], RetryAmbiguousProxyTask(meta[t]))
          /\ NotStarted(meta[t], RetryAmbiguousSubmittedTask(meta[t]))
      BY <1>1, <3>1, StoreStarts, RetryTypes
    <3>4. PICK m : /\ m \in Meta /\ NotStarted(meta[t], m)
                   /\ meta' = [meta EXCEPT ![t] = ClearTransientResult(m, t \in Confirmed)]
      BY <2>3, <3>2, <3>3, ZenonT(60) DEF ResultRetry
    <3>6. NotStarted(meta[t], ClearTransientResult(m, t \in Confirmed))
      BY <3>4 DEF NotStarted, ClearTransientResult, Meta
    <3> QED BY <1>4, <3>4, <3>6
  <2>4. ASSUME NEW t \in Task, RequeuePending(t) PROVE Goal
    BY <1>3, <2>4 DEF RequeuePending
  <2> QED BY <1>6, <2>1, <2>2, <2>3, <2>4 DEF Results
<1>7. CASE Recover
  <2>1. CASE RecoverPush \/ \E t \in Task : RecoverTake(t)
    BY <1>3, <2>1 DEF RecoverPush, RecoverTake
  <2>2. CASE RecoverStatus
    <3>1. loop.t \in Task
      BY <2>2 DEF RecoverStatus, TypeOK, LoopOK, TaskSections
    <3>2. NotStarted(meta[loop.t], MarkSubmitted(meta[loop.t])) /\ NotStarted(meta[loop.t], MarkPending(meta[loop.t]))
      BY <1>1, <3>1, StoreStarts
    <3>3. NotStarted(meta[loop.t], IF meta[loop.t].status = "running" /\ meta[loop.t].evidence
                                THEN MarkSubmitted(meta[loop.t]) ELSE MarkPending(meta[loop.t]))
      BY <3>2
    <3> QED BY <1>4, <2>2, <3>3 DEF RecoverStatus
  <2> QED BY <1>7, <2>1, <2>2 DEF Recover
<1>8. CASE Claim
  <2>1. CASE \/ ClaimPromote \/ ClaimEmpty \/ ClaimCheck \/ ClaimRefused \/ ClaimLease \/ ClaimAccept
             \/ ClaimDeferRelease \/ ClaimRaises
             \/ \E t \in Task, retry \in BOOLEAN : ClaimMove(t, retry)
    BY <1>3, <2>1 DEF ClaimPromote, ClaimEmpty, ClaimCheck, ClaimRefused, ClaimLease, ClaimAccept,
                      ClaimDeferRelease, ClaimRaises, ClaimMove
  <2>2. ~ClaimMark
    OBVIOUS
  <2>3. CASE ClaimDefer
    <3>1. loop.t \in Task => NotStarted(meta[loop.t], DeferTask(meta[loop.t]))
      BY <1>1, StoreStarts
    <3> QED BY <1>4, <2>3, <3>1 DEF ClaimDefer
  <2> QED BY <1>8, <2>1, <2>2, <2>3 DEF Claim
<1>9. ASSUME NEW w \in Worker, Execute(w) \/ PlatformAnswers(w) PROVE Goal
  <2> DEFINE t == cur[w]
  <2>0. ASSUME t \in Task
        PROVE  /\ NotStarted(meta[t], MarkFailed(meta[t])) /\ NotStarted(meta[t], DeferTask(meta[t]))
               /\ NotStarted(meta[t], MarkSubmitted(meta[t])) /\ NotStarted(meta[t], MarkPending(meta[t]))
               /\ NotStarted(meta[t], RecordRetry(meta[t])) /\ NotStarted(meta[t], RecordInfrastructureRetry(meta[t]))
    BY <1>1, <2>0, StoreStarts
  <2>1. ASSUME t \in Task
        PROVE  /\ NotStarted(meta[t], ClearTransientResult(meta[t], t \in Confirmed))
               /\ NotStarted(meta[t], BeginTaskSubmission(meta[t]))
               /\ NotStarted(meta[t], ReleaseTaskSubmission(meta[t]))
               /\ NotStarted(meta[t], [ReleaseTaskSubmission(meta[t]) EXCEPT !.evidence = TRUE])
               /\ NotStarted(meta[t], [meta[t] EXCEPT !.evidence = TRUE])
    BY <1>1, <2>1 DEF ClearTransientResult, BeginTaskSubmission, ReleaseTaskSubmission, NotStarted, Meta
  <2>2. CASE \/ ClaimStart(w) \/ AutomationFails(w) \/ RunTimeout(w) \/ FinallyRelease(w)
             \/ PlatformAnswers(w)
    BY <1>3, <2>2 DEF ClaimStart, AutomationFails, RunTimeout, FinallyRelease, PlatformAnswers
  <2>3. CASE StartTask(w)
    BY <1>3, <1>4, <2>0, <2>1, <2>3 DEF StartTask
  <2>4. CASE BeginSubmission(w)
    BY <1>3, <1>4, <2>1, <2>4 DEF BeginSubmission
  <2>5. CASE ResponseAccepted(w) \/ TransportError(w)
    <3>1. PICK m : (t \in Task => NotStarted(meta[t], m)) /\ meta' = [meta EXCEPT ![t] = m]
      BY <1>2, <2>1, <2>5, Zenon DEF ResponseAccepted, TransportError
    <3> QED BY <1>4, <3>1
  <2>6. CASE ResponseRejected(w)
    <3>1. PICK m : (t \in Task => NotStarted(meta[t], m)) /\ meta' = [meta EXCEPT ![t] = m]
      BY <1>2, <2>1, <2>6, Zenon DEF ResponseRejected
    <3> QED BY <1>4, <3>1
  <2>7. CASE SubmissionReceived(w)
    BY <1>4, <2>0, <2>7 DEF SubmissionReceived
  <2>8. CASE RecordOutcome(w)
    <3>1. PICK m : (t \in Task => NotStarted(meta[t], m)) /\ meta' = [meta EXCEPT ![t] = m]
      BY <1>2, <2>0, <2>8, Zenon DEF RecordOutcome
    <3> QED BY <1>4, <3>1
  <2>9. CASE DeliverCancel(w)
    <3>1. t \in Task => NotStarted(meta[t], IF pc[w] \in {"claimed", "parked"} THEN meta[t] ELSE MarkPending(meta[t]))
      BY <1>2, <2>0
    <3> QED BY <1>3, <1>4, <2>9, <3>1 DEF DeliverCancel
  <2> QED BY <1>9, <2>2, <2>3, <2>4, <2>5, <2>6, <2>7, <2>8, <2>9 DEF Execute
<1>10. CASE Supervise
  <2>1. CASE HeartbeatAll \/ CancelRelease \/ OrphanRequeue \/ ReconcileList
    BY <1>3, <2>1 DEF HeartbeatAll, CancelRelease, OrphanRequeue, ReconcileList, workerVars
  <2>2. ASSUME NEW w \in Worker, Spawn(w) PROVE Goal
    <3>1. \A t \in Task : NotStarted(meta[t], [meta[t] EXCEPT !.worker = IF @ = w THEN Gone ELSE @])
      BY <1>1 DEF NotStarted, Meta
    <3> QED BY <2>2, <3>1 DEF Spawn, Goal
  <2>3. ASSUME NEW w \in Worker, Trim(w) PROVE Goal
    BY <1>3, <2>3 DEF Trim
  <2>4. ASSUME NEW t \in Task, WatchStale(t) \/ WatchOrphan(t) PROVE Goal
    <3>1. NotStarted(meta[t], RecordInfrastructureRetry(meta[t]))
      BY <1>1, StoreStarts
    <3> QED BY <1>4, <2>4, <3>1 DEF WatchStale, WatchOrphan
  <2>5. ASSUME NEW t \in Task, ReconcileOne(t) PROVE Goal
    BY <1>3, <2>5 DEF ReconcileOne
  <2> QED BY <1>10, <2>1, <2>2, <2>3, <2>4, <2>5 DEF Supervise
<1>11. CASE Lifecycle
  <2>1. CASE Crash \/ Stop \/ Start
    BY <1>3, <2>1 DEF Crash, Stop, Start
  <2>2. CASE StartReset
    <3>1. \A t \in Task : NotStarted(meta[t], ResetRunningTask(meta[t]))
      BY <1>1, StoreStarts
    <3> QED BY <2>2, <3>1 DEF StartReset, Goal
  <2>3. CASE StartReconcile
    <3>1. PICK due \in SUBSET {t \in Task \ Confirmed : meta[t].status = "pending" /\ handoff[t] = "none"} :
          \E forgiven \in SUBSET {t \in due : meta[t].infra > 0} :
            meta' = [t \in Task |-> [meta[t] EXCEPT !.waiting = @ /\ t \notin due,
                                                    !.infra = IF t \in forgiven THEN 0 ELSE @]]
      BY <2>3 DEF StartReconcile
    <3>2. PICK forgiven \in SUBSET {t \in due : meta[t].infra > 0} :
            meta' = [t \in Task |-> [meta[t] EXCEPT !.waiting = @ /\ t \notin due,
                                                    !.infra = IF t \in forgiven THEN 0 ELSE @]]
      BY <3>1
    <3>3. ASSUME NEW t \in Task PROVE NotStarted(meta[t], meta'[t])
      <4>1. CASE t \in forgiven
        BY <1>1, <3>1, <3>2, <4>1, ZenonT(60) DEF NotStarted, Meta
      <4>2. CASE t \notin forgiven
        BY <1>1, <3>2, <4>2 DEF NotStarted, Meta
      <4> QED BY <4>1, <4>2
    <3> QED BY <3>3 DEF Goal
  <2> QED BY <1>11, <2>1, <2>2, <2>3 DEF Lifecycle
<1>12. CASE Time
  <2>1. ASSUME NEW t \in Task, Elapse(t) PROVE Goal
    <3>1. NotStarted(meta[t], [meta[t] EXCEPT !.waiting = FALSE])
      BY <1>1 DEF NotStarted, Meta
    <3> QED BY <1>4, <2>1, <3>1 DEF Elapse
  <2>2. ASSUME NEW t \in Task, ElapseDelayed(t) \/ LeaseExpires(t) PROVE Goal
    BY <1>3, <2>2 DEF ElapseDelayed, LeaseExpires
  <2> QED BY <1>12, <2>1, <2>2 DEF Time
<1> QED BY <1>5, <1>6, <1>7, <1>8, <1>9, <1>10, <1>11, <1>12 DEF Next
\* An owner's running tasks are finitely many, and a claim adds one to them.
LEMMA RunningTasks ==
  ASSUME NEW o, TypeOK
  PROVE  /\ IsFiniteSet(Running(o)) /\ Cardinality(Running(o)) \in Nat
         /\ IsFiniteSet(Running(o)') /\ Cardinality(Running(o)') \in Nat
         /\ Running(o)' \subseteq Running(o) => Cardinality(Running(o)') <= Cardinality(Running(o))
         /\ \A t \in Task : Running(o)' \subseteq Running(o) \cup {t}
                              => Cardinality(Running(o)') <= Cardinality(Running(o)) + 1
<1>1. IsFiniteSet(Task) /\ Running(o) \subseteq Task /\ Running(o)' \subseteq Task
  BY QueueConstants DEF Running
<1>2. IsFiniteSet(Running(o)) /\ IsFiniteSet(Running(o)')
  BY <1>1, FS_Subset
<1>3. Cardinality(Running(o)) \in Nat /\ Cardinality(Running(o)') \in Nat
  BY <1>2, FS_CardinalityType
<1>4. Running(o)' \subseteq Running(o) => Cardinality(Running(o)') <= Cardinality(Running(o))
  BY <1>2, FS_Subset
<1>5. ASSUME NEW t \in Task, Running(o)' \subseteq Running(o) \cup {t}
      PROVE  Cardinality(Running(o)') <= Cardinality(Running(o)) + 1
  <2> DEFINE more == Running(o) \cup {t}
  <2>1. /\ IsFiniteSet(more)
        /\ Cardinality(more) = Cardinality(Running(o)) \/ Cardinality(more) = Cardinality(Running(o)) + 1
    BY <1>2, FS_AddElement
  <2>2. Cardinality(Running(o)') <= Cardinality(more)
    BY <1>5, <2>1, FS_Subset
  <2> HIDE DEF more
  <2> QED BY <1>3, <2>1, <2>2, FS_CardinalityType
<1> QED BY <1>2, <1>3, <1>4, <1>5

\* An owner whose limit the worker process knows is never taken beyond it: the
\* transaction that starts a task counts the running ones.
LEMMA LimitStep ==
  ASSUME NEW o \in Limited, TypeOK, o \in limits, [Next]_vars,
         Cardinality(Running(o)) <= Capacity(o)
  PROVE  Cardinality(Running(o)') <= Capacity(o)
<1>0. Capacity(o) \in Nat /\ Cardinality(Running(o)) \in Nat /\ Cardinality(Running(o)') \in Nat
  BY RunningTasks, QueueConstants DEF Capacity
<1>1. CASE Running(o)' \subseteq Running(o)
  BY <1>0, <1>1, RunningTasks
<1>2. CASE Next /\ ~ClaimMark
  <2>1. \A t \in Task : NotStarted(meta[t], meta'[t])
    BY <1>2, OnlyClaimStarts
  <2> QED BY <1>1, <2>1 DEF NotStarted, Running
<1>3. CASE ClaimMark
  <2> DEFINE u == loop.t
  <2>1. ~AtCapacity(OwnerOf[u]) /\ meta' = [meta EXCEPT ![u] = ClaimTask(@, loop.w)]
    BY <1>3 DEF ClaimMark, MayMarkRunning
  <2>2. \A t \in Task \ {u} : meta'[t] = meta[t]
    BY <2>1 DEF TypeOK
  <2>3. CASE u \in Task /\ OwnerOf[u] = o
    <3>1. Cardinality(Running(o)) < Capacity(o)
      BY <1>0, <2>1, <2>3 DEF AtCapacity
    <3>2. Running(o)' \subseteq Running(o) \cup {u}
      BY <2>2 DEF Running
    <3>3. Cardinality(Running(o)') <= Cardinality(Running(o)) + 1
      BY <2>3, <3>2, RunningTasks
    <3> QED BY <1>0, <3>1, <3>3
  <2>4. CASE ~(u \in Task /\ OwnerOf[u] = o)
    <3>1. Running(o)' \subseteq Running(o)
      BY <2>2, <2>4 DEF Running
    <3> QED BY <1>1, <3>1
  <2> QED BY <2>3, <2>4
<1>4. CASE UNCHANGED vars
  BY <1>1, <1>4 DEF vars, Running
<1> QED BY <1>2, <1>3, <1>4

\* Initially nothing runs.
LEMMA LimitInit == Init => \A o \in Limited : Cardinality(Running(o)) <= Capacity(o)
<1>1. ASSUME Init, NEW o \in Limited PROVE Cardinality(Running(o)) <= Capacity(o)
  <2>1. Running(o) = {}
    BY <1>1 DEF Init, Running, NoMeta
  <2> QED BY <2>1, FS_EmptySet, QueueConstants DEF Capacity
<1> QED BY <1>1

\* While the cached limits are complete, no owner runs more tasks than its limit.
\* (The code refreshes the cache with the limits of contending owners only, so an
\* owner that became active within the last second may be missing from it.)
THEOREM LimitsKept == Spec /\ [](Limited \subseteq limits) => []OwnerLimit
<1>1. Init => OwnerLimit
  BY LimitInit DEF OwnerLimit
<1>2. ASSUME OwnerLimit, TypeOK, Limited \subseteq limits, [Next]_vars PROVE OwnerLimit'
  BY <1>2, LimitStep DEF OwnerLimit, Capacity
<1> QED BY <1>1, <1>2, TypeCorrect, PTL DEF Spec

\* One owner alone is never missing: every refresh of the cache keeps it.
LEMMA OneOwnerCached ==
  ASSUME \A o, p \in Limited : o = p
  PROVE  Limited \subseteq limits /\ [Next]_vars => (Limited \subseteq limits)'
<1> SUFFICES ASSUME Limited \subseteq limits, [Next]_vars PROVE Limited \subseteq limits'
  OBVIOUS
<1>1. ASSUME UNCHANGED limits PROVE Limited \subseteq limits'
  BY <1>1
<1>2. Limited \subseteq FreshLimits
  BY DEF FreshLimits
<1>3. ASSUME NEW w \in Worker, ClaimStart(w) PROVE Limited \subseteq limits'
  BY <1>2, <1>3 DEF ClaimStart
<1>4. CASE Api \/ Results \/ Recover \/ Time
  BY <1>1, <1>4 DEF Api, Results, Recover, Time, workerVars, Create, CreationFails, Finalize, EnqueueNew,
                    Expire, PauseCancel, CancelTask, Pause, Resume, ApiRestart, ResultFinished, LateResult,
                    ResultRetry, RequeuePending, RecoverTake, RecoverStatus, RecoverPush, Elapse,
                    ElapseDelayed, LeaseExpires
<1>5. CASE Claim
  BY <1>1, <1>5 DEF Claim, ClaimMove, ClaimPromote, ClaimEmpty, ClaimCheck, ClaimMark, ClaimRefused,
                    ClaimLease, ClaimAccept, ClaimDefer, ClaimDeferRelease, ClaimRaises
<1>6. CASE Supervise \/ Lifecycle
  BY <1>1, <1>6 DEF Supervise, Lifecycle, workerVars, HeartbeatAll, CancelRelease, OrphanRequeue,
                    ReconcileList, Spawn, Trim, WatchStale, WatchOrphan, ReconcileOne, Crash, Stop, Start,
                    StartReset, StartReconcile
<1>7. ASSUME NEW w \in Worker, Execute(w) \/ PlatformAnswers(w), ~ClaimStart(w)
      PROVE  Limited \subseteq limits'
  BY <1>1, <1>7 DEF Execute, PlatformAnswers, workerVars, StartTask, AutomationFails, BeginSubmission,
                    ResponseAccepted, ResponseRejected, TransportError, RunTimeout, SubmissionReceived,
                    RecordOutcome, FinallyRelease, DeliverCancel
<1>8. CASE UNCHANGED vars
  BY <1>1, <1>8 DEF vars
<1> QED BY <1>3, <1>4, <1>5, <1>6, <1>7, <1>8 DEF Next

\* Where one owner has a limit, its running tasks never exceed it, whatever claims,
\* retries, recovery and restarts do.
THEOREM OneLimitedOwner ==
  ASSUME \A o, p \in Limited : o = p
  PROVE  Spec => []OwnerLimit
<1>1. Init => Limited \subseteq limits
  BY DEF Init
<1>2. Limited \subseteq limits /\ [Next]_vars => (Limited \subseteq limits)'
  BY OneOwnerCached
<1>3. Spec => [](Limited \subseteq limits)
  BY <1>1, <1>2, PTL DEF Spec
<1> QED BY <1>3, LimitsKept, PTL
-----------------------------------------------------------------------------
(* One coroutine per task, and the submission barrier *)

\* Coroutine w has task t: it runs it, or its claim is past the transaction that
\* started the task.
Engaged(w, t) ==
  \/ cur[w] = t /\ pc[w] \in {"claimed", "auto", "commit", "received", "failed"}
  \/ loop.at \in {"marked", "leased"} /\ loop.w = w /\ loop.t = t

Mine(m, w) == m.status = "running" /\ m.worker = w
Over(m) == m.status \in Terminal
Kept(e, w) == e.lease # "expired" /\ e.owner \in {w, NoWorker}

\* The watchdog has canceled no coroutine and no lease of a live one ran out.
Calm == canceling = {} /\ used["lapse"] = 0

\* A coroutine that has a task is the worker named in the record, or the task is
\* over; and the lease is its own, or nobody's.
EngagedOwns ==
  \A w \in Worker, t \in Task : Engaged(w, t) =>
    /\ Over(meta[t]) \/ Mine(meta[t], w)
    /\ Kept(q[t], w) \/ (loop.at = "marked" /\ loop.t = t)
EngagedAlone == \A v, w \in Worker, t \in Task : Engaged(v, t) /\ Engaged(w, t) => v = w
\* What recover() took from the queue nobody works on.
RecoveredFree == loop.at = "recovered" => \A w \in Worker : ~Engaged(w, loop.t)
BootDead == InBoot => \A w \in Worker : pc[w] = "dead"
\* A request that is out keeps the task in the committing phase.
CommitMarked == \A w \in Worker : pc[w] = "commit" => meta[cur[w]].phase = "committing"

WorkInv == EngagedOwns /\ EngagedAlone /\ RecoveredFree /\ BootDead /\ CommitMarked

\* Only the transaction of a claim gives a coroutine a task.
LEMMA OnlyClaimEngages ==
  ASSUME TypeOK, HoldOK, Next, NEW w \in Worker, NEW t \in Task, Engaged(w, t)', ~Engaged(w, t)
  PROVE  ClaimMark /\ w = loop.w /\ t = loop.t
<1> USE DEF apiVars, workerVars
<1> DEFINE Held5 == {"claimed", "auto", "commit", "received", "failed"}
<1>1. ASSUME UNCHANGED <<loop, pc, cur>> PROVE FALSE
  BY <1>1 DEF Engaged
<1>2. ASSUME loop'.at \notin {"marked", "leased"}, UNCHANGED <<pc, cur>> PROVE FALSE
  BY <1>2 DEF Engaged
<1>3. CASE Api \/ Results \/ Time
  BY <1>1, <1>3
  DEF Api, Create, CreationFails, Finalize, EnqueueNew, Expire, PauseCancel, CancelTask, Pause, Resume, ApiRestart,
      Results, ResultFinished, LateResult, ResultRetry, RequeuePending,
      Time, Elapse, ElapseDelayed, LeaseExpires
<1>4. CASE Recover
  <2>1. ASSUME NEW u \in Task, RecoverTake(u) PROVE FALSE
    BY <1>2, <2>1 DEF RecoverTake, At
  <2>2. CASE RecoverStatus
    <3>1. loop'.at \in {"push", "recover"} /\ UNCHANGED <<pc, cur>>
      BY <2>2 DEF RecoverStatus, At
    <3> QED BY <1>2, <3>1
  <2>3. CASE RecoverPush
    BY <1>2, <2>3 DEF RecoverPush, At
  <2> QED BY <1>4, <2>1, <2>2, <2>3 DEF Recover
<1>5. CASE Claim
  <2>1. ASSUME NEW u \in Task, NEW retry \in BOOLEAN, ClaimMove(u, retry) PROVE FALSE
    BY <1>2, <2>1 DEF ClaimMove, At
  <2>2. CASE ClaimPromote
    BY <1>2, <2>2 DEF ClaimPromote, At
  <2>3. CASE ClaimEmpty
    BY <1>2, <2>3 DEF ClaimEmpty, At, Free
  <2>4. CASE ClaimCheck
    <3>1. /\ loop' = At("lmove", loop.w, NoTask) \/ loop' = At("checked", loop.w, loop.t)
          /\ UNCHANGED <<pc, cur>>
      BY <2>4 DEF ClaimCheck
    <3>2. loop'.at \in {"lmove", "checked"}
      BY <3>1 DEF At
    <3> QED BY <1>2, <3>1, <3>2
  <2>5. CASE ClaimMark
    BY <2>5 DEF ClaimMark, At, Engaged
  <2>6. CASE ClaimRefused
    BY <1>2, <2>6 DEF ClaimRefused, At
  <2>7. CASE ClaimLease
    BY <2>7 DEF ClaimLease, At, Engaged
  <2>8. CASE ClaimAccept
    <3>1. loop.at = "leased" /\ loop'.at = "free"
      BY <2>8 DEF ClaimAccept, Free, At
    <3>2. \A v \in Worker \ {loop.w} : pc'[v] = pc[v] /\ cur'[v] = cur[v]
      BY <2>8 DEF ClaimAccept, TypeOK
    <3>3. cur'[loop.w] = loop.t \/ loop.w \notin Worker
      BY <2>8 DEF ClaimAccept, TypeOK
    <3> QED BY <3>1, <3>2, <3>3 DEF Engaged
  <2>9. CASE ClaimDefer
    BY <1>2, <2>9 DEF ClaimDefer, At
  <2>10. CASE ClaimDeferRelease
    BY <1>2, <2>10 DEF ClaimDeferRelease, At
  <2>11. CASE ClaimRaises
    <3>1. loop'.at = "free" /\ cur' = cur /\ \A v \in Worker : pc'[v] # "dead" => pc'[v] = pc[v]
      BY <2>11 DEF ClaimRaises, Free, At, TypeOK
    <3> QED BY <3>1 DEF Engaged
  <2> QED BY <1>5, <2>1, <2>2, <2>3, <2>4, <2>5, <2>6, <2>7, <2>8, <2>9, <2>10, <2>11 DEF Claim
<1>6. ASSUME NEW v \in Worker, Execute(v) \/ PlatformAnswers(v) PROVE FALSE
  <2>1. CASE PlatformAnswers(v)
    BY <1>1, <2>1 DEF PlatformAnswers
  <2>2. CASE ClaimStart(v)
    BY <1>2, <2>2 DEF ClaimStart, At
  <2>3. CASE \/ StartTask(v) \/ AutomationFails(v) \/ BeginSubmission(v)
             \/ ResponseAccepted(v) \/ ResponseRejected(v) \/ TransportError(v) \/ RunTimeout(v)
             \/ SubmissionReceived(v) \/ RecordOutcome(v)
    <3>1. UNCHANGED <<loop, cur>> /\ pc[v] \in Held5 /\ \E x : pc' = [pc EXCEPT ![v] = x]
      BY <2>3 DEF StartTask, AutomationFails, BeginSubmission, ResponseAccepted, ResponseRejected,
                  TransportError, RunTimeout, SubmissionReceived, RecordOutcome
    <3>2. \A u \in Worker : pc'[u] = pc[u] \/ pc[u] \in Held5
      BY <3>1 DEF TypeOK
    <3> QED BY <3>1, <3>2 DEF Engaged
  <2>4. CASE FinallyRelease(v)
    <3>1. loop' = loop /\ \A u \in Worker \ {v} : pc'[u] = pc[u] /\ cur'[u] = cur[u]
      BY <2>4 DEF FinallyRelease, TypeOK
    <3>2. pc'[v] = "idle"
      BY <2>4 DEF FinallyRelease, TypeOK
    <3> QED BY <3>1, <3>2 DEF Engaged
  <2>5. CASE DeliverCancel(v)
    <3>1. loop.at = "free" /\ (loop' = loop \/ loop'.at = "finally") /\ cur' = cur
      BY <2>5 DEF DeliverCancel, At
    <3>2. \A u \in Worker : pc'[u] # "dead" => pc'[u] = pc[u]
      BY <2>5 DEF DeliverCancel, TypeOK
    <3> QED BY <3>1, <3>2 DEF Engaged
  <2> QED BY <1>6, <2>1, <2>2, <2>3, <2>4, <2>5 DEF Execute
<1>7. CASE Supervise
  <2>1. CASE HeartbeatAll \/ ReconcileList \/ \E u \in Task : WatchStale(u) \/ ReconcileOne(u)
    BY <1>1, <2>1 DEF HeartbeatAll, ReconcileList, WatchStale, ReconcileOne
  <2>2. CASE CancelRelease
    <3>1. loop'.at = "free" /\ pc' = pc /\ loop.w \in Worker /\ pc[loop.w] = "dead"
      BY <2>2 DEF CancelRelease, Free, At, TypeOK, LoopOK, WorkerSections, HoldOK
    <3>2. \A u \in Worker \ {loop.w} : cur'[u] = cur[u]
      BY <2>2 DEF CancelRelease, TypeOK
    <3> QED BY <3>1, <3>2 DEF Engaged
  <2>3. CASE OrphanRequeue
    BY <1>2, <2>3 DEF OrphanRequeue, Free, At
  <2>4. ASSUME NEW u \in Task, WatchOrphan(u) PROVE FALSE
    BY <1>2, <2>4 DEF WatchOrphan, At
  <2>5. ASSUME NEW v \in Worker, Spawn(v) \/ Trim(v) PROVE FALSE
    <3>1. UNCHANGED <<loop, cur>> /\ \A u \in Worker : pc'[u] = pc[u] \/ pc'[u] \in {"idle", "dead"}
      BY <2>5 DEF Spawn, Trim, TypeOK
    <3> QED BY <3>1 DEF Engaged
  <2> QED BY <1>7, <2>1, <2>2, <2>3, <2>4, <2>5 DEF Supervise
<1>8. CASE Lifecycle
  <2>1. CASE Crash \/ Stop
    <3>1. loop'.at = "down" /\ \A u \in Worker : pc'[u] = "dead"
      BY <2>1 DEF Crash, Stop, At
    <3> QED BY <3>1 DEF Engaged
  <2>2. CASE Start
    BY <1>2, <2>2 DEF Start, At
  <2>3. CASE StartReset
    BY <1>2, <2>3 DEF StartReset, At
  <2>4. CASE StartReconcile
    BY <1>2, <2>4 DEF StartReconcile, At, Free
  <2> QED BY <1>8, <2>1, <2>2, <2>3, <2>4 DEF Lifecycle
<1> QED BY <1>3, <1>4, <1>5, <1>6, <1>7, <1>8 DEF Next
\* Whatever others do, the record of a task that a coroutine has stays the coroutine's
\* or is closed, and its submission phase stays as it is.
LEMMA EngagedRecord ==
  ASSUME WorkInv, TypeOK, HoldOK, Next, canceling = {}, canceling' = {},
         NEW w \in Worker, NEW t \in Task, Engaged(w, t), Engaged(w, t)', ~Execute(w)
  PROVE  meta'[t].phase = meta[t].phase /\ (Over(meta'[t]) \/ Mine(meta'[t], w))
<1> USE DEF apiVars, workerVars
<1> DEFINE Goal == meta'[t].phase = meta[t].phase /\ (Over(meta'[t]) \/ Mine(meta'[t], w))
<1> SUFFICES Goal
  OBVIOUS
<1>0. meta[t] \in Meta /\ meta \in [Task -> Meta]
  BY DEF TypeOK
<1>1. Over(meta[t]) \/ Mine(meta[t], w)
  BY DEF WorkInv, EngagedOwns
<1>2. meta[t].status \in {"running", "success", "failed", "canceled"}
  BY <1>1 DEF Over, Mine, Terminal
<1>3. ASSUME meta'[t] = meta[t] PROVE Goal
  BY <1>1, <1>3
<1>4. ASSUME UNCHANGED meta PROVE Goal
  BY <1>3, <1>4
<1>5. ASSUME NEW u, NEW n, meta' = [meta EXCEPT ![u] = n],
             u = t => n.phase = meta[t].phase /\ (Over(n) \/ Mine(n, w))
      PROVE  Goal
  BY <1>0, <1>1, <1>5
<1>6. meta[t].status \in Terminal => Over(meta[t])
  BY DEF Over
<1> HIDE DEF Goal
<1>7. CASE Api
  <2>1. ASSUME NEW u \in Task, Create(u) \/ CreationFails(u) \/ Finalize(u) PROVE Goal
    <3>1. u # t /\ \E n : meta' = [meta EXCEPT ![u] = n]
      BY <1>2, <2>1 DEF Create, CreationFails, Finalize
    <3> QED BY <1>5, <3>1
  <2>2. ASSUME NEW u \in Task, Expire(u) PROVE Goal
    <3>1. meta[t].status = "running" => Over(MarkFailed(meta[t])) /\ MarkFailed(meta[t]).phase = meta[t].phase
      BY <1>0 DEF Over, MarkFailed, Meta, Terminal
    <3> QED BY <1>2, <1>5, <2>2, <3>1 DEF Expire
  <2>3. Over(RequestTaskCancel(meta[t])) /\ RequestTaskCancel(meta[t]).phase = meta[t].phase
    BY <1>0 DEF Over, RequestTaskCancel, Meta, Terminal
  <2>4. ASSUME NEW u \in Task, PauseCancel(u) PROVE Goal
    <3>1. PICK n : meta' = [meta EXCEPT ![u] = n] /\ n \in {RequestTaskCancel(meta[u]), meta[u]}
      BY <2>4, Zenon DEF PauseCancel
    <3> QED BY <1>1, <1>5, <2>3, <3>1
  <2>5. ASSUME NEW u \in Task, NEW admin \in BOOLEAN, CancelTask(u, admin) PROVE Goal
    BY <1>5, <2>3, <2>5 DEF CancelTask
  <2>6. CASE ApiRestart
    <3>1. meta'[t] = meta[t]
      BY <1>2, <2>6 DEF ApiRestart
    <3> QED BY <1>3, <3>1
  <2>7. CASE Pause \/ Resume \/ \E u \in Task : EnqueueNew(u)
    BY <1>4, <2>7 DEF Pause, Resume, EnqueueNew
  <2> QED BY <1>7, <2>1, <2>2, <2>4, <2>5, <2>6, <2>7 DEF Api
<1>8. CASE Results
  <2>1. ASSUME NEW u \in Task, ResultFinished(u) \/ ResultRetry(u) PROVE Goal
    <3>1. u # t /\ \E n : meta' = [meta EXCEPT ![u] = n]
      BY <1>2, <2>1, Zenon DEF ResultFinished, ResultRetry
    <3> QED BY <1>5, <3>1
  <2>2. ASSUME NEW u \in Task, LateResult(u) PROVE Goal
    <3>1. PICK n : /\ meta' = [meta EXCEPT ![u] = n]
                   /\ n \in {MarkLateResultSuccess(meta[u]), EndLateWatch(meta[u])}
                   /\ meta[u].status = "failed"
      BY <2>2, Zenon DEF LateResult
    <3>2. meta[t].status = "failed" =>
            /\ Over(MarkLateResultSuccess(meta[t])) /\ MarkLateResultSuccess(meta[t]).phase = meta[t].phase
            /\ Over(EndLateWatch(meta[t])) /\ EndLateWatch(meta[t]).phase = meta[t].phase
      BY <1>0 DEF Over, MarkLateResultSuccess, EndLateWatch, Meta, Terminal
    <3> QED BY <1>5, <3>1, <3>2
  <2>3. ASSUME NEW u \in Task, RequeuePending(u) PROVE Goal
    BY <1>4, <2>3 DEF RequeuePending
  <2> QED BY <1>8, <2>1, <2>2, <2>3 DEF Results
<1>9. CASE Recover
  <2>1. CASE RecoverPush \/ \E u \in Task : RecoverTake(u)
    BY <1>4, <2>1 DEF RecoverPush, RecoverTake
  <2>2. CASE RecoverStatus
    <3>1. loop.t # t /\ \E n : meta' = [meta EXCEPT ![loop.t] = n]
      BY <2>2 DEF RecoverStatus, WorkInv, RecoveredFree
    <3> QED BY <1>5, <3>1
  <2> QED BY <1>9, <2>1, <2>2 DEF Recover
<1>10. CASE Claim
  <2>1. CASE \/ ClaimPromote \/ ClaimEmpty \/ ClaimCheck \/ ClaimRefused \/ ClaimLease \/ ClaimAccept
             \/ ClaimDeferRelease \/ ClaimRaises
             \/ \E u \in Task, retry \in BOOLEAN : ClaimMove(u, retry)
    BY <1>4, <2>1 DEF ClaimPromote, ClaimEmpty, ClaimCheck, ClaimRefused, ClaimLease, ClaimAccept,
                      ClaimDeferRelease, ClaimRaises, ClaimMove
  <2>2. CASE ClaimMark
    <3>1. loop.t # t /\ \E n : meta' = [meta EXCEPT ![loop.t] = n]
      BY <1>2, <2>2 DEF ClaimMark, MayMarkRunning
    <3> QED BY <1>5, <3>1
  <2>3. CASE ClaimDefer
    <3>1. loop.w \in Worker /\ pc[loop.w] = "idle" /\ loop.at = "leased" /\ loop'.at = "deferred"
      BY <2>3 DEF ClaimDefer, At, TypeOK, LoopOK, WorkerSections, HoldOK
    <3>2. loop.t # t
      <4>1. ASSUME loop.t = t PROVE FALSE
        <5>1. Engaged(loop.w, t)
          BY <3>1, <4>1 DEF Engaged
        <5>2. w = loop.w
          BY <3>1, <5>1 DEF WorkInv, EngagedAlone
        <5> QED BY <2>3, <3>1, <5>2 DEF ClaimDefer, Engaged
      <4> QED BY <4>1
    <3>3. \E n : meta' = [meta EXCEPT ![loop.t] = n]
      BY <2>3 DEF ClaimDefer
    <3> QED BY <1>5, <3>2, <3>3
  <2> QED BY <1>10, <2>1, <2>2, <2>3 DEF Claim
<1>11. ASSUME NEW v \in Worker, Execute(v) \/ PlatformAnswers(v) PROVE Goal
  <2>1. CASE \/ ClaimStart(v) \/ AutomationFails(v) \/ RunTimeout(v) \/ FinallyRelease(v)
             \/ PlatformAnswers(v)
    BY <1>4, <2>1 DEF ClaimStart, AutomationFails, RunTimeout, FinallyRelease, PlatformAnswers
  <2>2. ~DeliverCancel(v)
    BY DEF DeliverCancel
  <2>3. CASE \/ StartTask(v) \/ BeginSubmission(v) \/ ResponseAccepted(v) \/ ResponseRejected(v)
             \/ TransportError(v) \/ SubmissionReceived(v) \/ RecordOutcome(v)
    <3>1. pc[v] \in {"claimed", "auto", "commit", "received", "failed"} /\ Execute(v)
      BY <2>3 DEF Execute, StartTask, BeginSubmission, ResponseAccepted, ResponseRejected,
                  TransportError, SubmissionReceived, RecordOutcome
    <3>2. cur[v] # t
      BY <3>1 DEF WorkInv, EngagedAlone, Engaged
    <3>3. \/ UNCHANGED meta
          \/ \E n : meta' = [meta EXCEPT ![cur[v]] = n]
      <4>1. CASE StartTask(v)
        BY <4>1 DEF StartTask
      <4>2. CASE BeginSubmission(v)
        BY <4>2 DEF BeginSubmission
      <4>3. CASE ResponseRejected(v)
        BY <4>3, Zenon DEF ResponseRejected
      <4>4. CASE TransportError(v)
        BY <4>4, Zenon DEF TransportError
      <4>5. CASE RecordOutcome(v)
        BY <4>5, Zenon DEF RecordOutcome
      <4>6. CASE ResponseAccepted(v)
        BY <4>6, Zenon DEF ResponseAccepted
      <4>7. CASE SubmissionReceived(v)
        BY <4>7, Zenon DEF SubmissionReceived
      <4> QED BY <2>3, <4>1, <4>2, <4>3, <4>4, <4>5, <4>6, <4>7
    <3> QED BY <1>4, <1>5, <3>2, <3>3
  <2> QED BY <1>11, <2>1, <2>2, <2>3 DEF Execute
<1>12. CASE Supervise
  <2>1. CASE HeartbeatAll \/ CancelRelease \/ OrphanRequeue \/ ReconcileList
    BY <1>4, <2>1 DEF HeartbeatAll, CancelRelease, OrphanRequeue, ReconcileList
  <2>2. ASSUME NEW v \in Worker, Spawn(v) PROVE Goal
    <3>1. w # v
      BY <2>2 DEF Spawn, Engaged
    <3>2. meta'[t] = [meta[t] EXCEPT !.worker = IF @ = v THEN Gone ELSE @]
      BY <2>2 DEF Spawn
    <3>3. meta'[t].phase = meta[t].phase /\ meta'[t].status = meta[t].status
          /\ (meta[t].worker = w => meta'[t].worker = w)
      BY <1>0, <3>1, <3>2 DEF Meta
    <3> QED BY <1>1, <3>3 DEF Goal, Over, Mine
  <2>3. ASSUME NEW v \in Worker, Trim(v) PROVE Goal
    BY <1>4, <2>3 DEF Trim
  <2>4. ASSUME NEW u \in Task PROVE ~WatchStale(u)
    BY DEF WatchStale
  <2>5. ASSUME NEW u \in Task, WatchOrphan(u) PROVE Goal
    <3>1. u # t
      <4>1. ASSUME u = t PROVE FALSE
        <5>1. Mine(meta[t], w) /\ pc[w] # "dead"
          BY <1>1, <2>5, <4>1 DEF WatchOrphan, Over, Terminal, Engaged
        <5> QED BY <2>5, <4>1, <5>1 DEF WatchOrphan, OwnerGone, Mine
      <4> QED BY <4>1
    <3>2. \E n : meta' = [meta EXCEPT ![u] = n]
      BY <2>5 DEF WatchOrphan
    <3> QED BY <1>5, <3>1, <3>2
  <2>6. ASSUME NEW u \in Task, ReconcileOne(u) PROVE Goal
    BY <1>4, <2>6 DEF ReconcileOne
  <2> QED BY <1>12, <2>1, <2>2, <2>3, <2>4, <2>5, <2>6 DEF Supervise
<1>13. CASE Lifecycle
  <2>1. CASE Crash \/ Stop \/ Start
    BY <1>4, <2>1 DEF Crash, Stop, Start
  <2>2. CASE StartReset \/ StartReconcile
    <3>1. InBoot /\ loop.at \notin {"marked", "leased"}
      BY <2>2 DEF StartReset, StartReconcile, InBoot
    <3> QED BY <3>1 DEF WorkInv, BootDead, Engaged
  <2> QED BY <1>13, <2>1, <2>2 DEF Lifecycle
<1>14. CASE Time
  <2>1. ASSUME NEW u \in Task, Elapse(u) PROVE Goal
    <3>1. meta'[t] = meta[t] \/ meta'[t] = [meta[t] EXCEPT !.waiting = FALSE]
      BY <1>0, <2>1 DEF Elapse
    <3>2. /\ meta'[t].phase = meta[t].phase /\ meta'[t].status = meta[t].status
          /\ meta'[t].worker = meta[t].worker
      BY <1>0, <3>1 DEF Meta
    <3> QED BY <1>1, <3>2 DEF Goal, Over, Mine
  <2>2. ASSUME NEW u \in Task, ElapseDelayed(u) \/ LeaseExpires(u) PROVE Goal
    BY <1>4, <2>2 DEF ElapseDelayed, LeaseExpires
  <2> QED BY <1>14, <2>1, <2>2 DEF Time
<1> QED BY <1>7, <1>8, <1>9, <1>10, <1>11, <1>12, <1>13, <1>14 DEF Next
\* What its own steps do to the record of a coroutine's task.
LEMMA EngagedOwn ==
  ASSUME TypeOK, HoldOK, canceling = {},
         NEW w \in Worker, NEW t \in Task, Engaged(w, t), Engaged(w, t)', Execute(w)
  PROVE  /\ meta'[t].status = meta[t].status /\ meta'[t].worker = meta[t].worker
         /\ pc'[w] = "commit" => meta'[t].phase = "committing"
<1> USE DEF apiVars, workerVars
<1> DEFINE Goal == /\ meta'[t].status = meta[t].status /\ meta'[t].worker = meta[t].worker
                   /\ pc'[w] = "commit" => meta'[t].phase = "committing"
<1> SUFFICES Goal
  OBVIOUS
<1>0. meta[t] \in Meta /\ meta \in [Task -> Meta]
  BY DEF TypeOK
<1>1. loop.at = "free"
  BY DEF Execute, ClaimStart, StartTask, AutomationFails, BeginSubmission, ResponseAccepted, ResponseRejected,
         TransportError, RunTimeout, SubmissionReceived, RecordOutcome, FinallyRelease, DeliverCancel, MayStep
<1>2. cur[w] = t /\ pc[w] \in {"claimed", "auto", "commit", "received", "failed"}
  BY <1>1 DEF Engaged
<1>3. ASSUME loop' = loop PROVE pc'[w] \in {"claimed", "auto", "commit", "received", "failed"}
  BY <1>1, <1>3 DEF Engaged
<1>4. ASSUME UNCHANGED meta, pc'[w] # "commit" PROVE Goal
  BY <1>4
<1>5. ASSUME NEW n, meta' = [meta EXCEPT ![t] = n], n.status = meta[t].status, n.worker = meta[t].worker,
             pc'[w] = "commit" => n.phase = "committing"
      PROVE  Goal
  BY <1>0, <1>5 DEF TypeOK
<1>6. ASSUME NEW x, pc' = [pc EXCEPT ![w] = x] PROVE pc'[w] = x
  BY <1>6 DEF TypeOK
<1> HIDE DEF Goal
<1>7. ~ClaimStart(w) /\ ~FinallyRelease(w) /\ ~DeliverCancel(w)
  BY <1>2 DEF ClaimStart, FinallyRelease, DeliverCancel
<1>8. CASE StartTask(w)
  <2>1. pc'[w] # "parked" /\ loop' = loop
    BY <1>3, <1>8 DEF StartTask
  <2>2. meta' = [meta EXCEPT ![t] = ClearTransientResult(@, t \in Confirmed)] /\ pc' = [pc EXCEPT ![w] = "auto"]
    BY <1>2, <1>6, <1>8, <2>1 DEF StartTask
  <2>3. /\ ClearTransientResult(meta[t], t \in Confirmed).status = meta[t].status
        /\ ClearTransientResult(meta[t], t \in Confirmed).worker = meta[t].worker
    BY <1>0 DEF ClearTransientResult, Meta, TypeOK
  <2> QED BY <1>5, <1>6, <2>2, <2>3
<1>9. CASE AutomationFails(w)
  <2>1. UNCHANGED meta /\ pc' = [pc EXCEPT ![w] = "failed"]
    BY <1>9 DEF AutomationFails
  <2> QED BY <1>4, <1>6, <2>1
<1>10. CASE BeginSubmission(w)
  <2>1. CASE MayBeginSubmission(meta[t])
    <3>1. meta' = [meta EXCEPT ![t] = BeginTaskSubmission(@)]
      BY <1>2, <1>10, <2>1 DEF BeginSubmission
    <3>2. /\ BeginTaskSubmission(meta[t]).status = meta[t].status
          /\ BeginTaskSubmission(meta[t]).worker = meta[t].worker
          /\ BeginTaskSubmission(meta[t]).phase = "committing"
      BY DEF BeginTaskSubmission, Meta, TypeOK
    <3> QED BY <1>5, <3>1, <3>2
  <2>2. CASE ~MayBeginSubmission(meta[t])
    <3>1. UNCHANGED meta /\ pc' = [pc EXCEPT ![w] = "failed"]
      BY <1>2, <1>10, <2>2 DEF BeginSubmission
    <3> QED BY <1>4, <1>6, <3>1
  <2> QED BY <2>1, <2>2
<1>11. /\ ReleaseTaskSubmission(meta[t]).status = meta[t].status
       /\ ReleaseTaskSubmission(meta[t]).worker = meta[t].worker
       /\ [ReleaseTaskSubmission(meta[t]) EXCEPT !.evidence = TRUE].status = meta[t].status
       /\ [ReleaseTaskSubmission(meta[t]) EXCEPT !.evidence = TRUE].worker = meta[t].worker
       /\ [meta[t] EXCEPT !.evidence = TRUE].status = meta[t].status
       /\ [meta[t] EXCEPT !.evidence = TRUE].worker = meta[t].worker
  BY DEF ReleaseTaskSubmission, Meta, TypeOK
<1>12. CASE ResponseAccepted(w)
  <2>1. meta' = [meta EXCEPT ![t] = [meta[t] EXCEPT !.evidence = TRUE]] /\ pc' = [pc EXCEPT ![w] = "received"]
    BY <1>2, <1>12 DEF ResponseAccepted
  <2> QED BY <1>5, <1>6, <1>11, <2>1
<1>13. CASE ResponseRejected(w)
  <2>1. PICK n : /\ meta' = [meta EXCEPT ![t] = n]
                 /\ n \in {meta[t], ReleaseTaskSubmission(meta[t]),
                           [ReleaseTaskSubmission(meta[t]) EXCEPT !.evidence = TRUE]}
    BY <1>2, <1>13, Zenon DEF ResponseRejected
  <2>2. pc' = [pc EXCEPT ![w] = "failed"]
    BY <1>13 DEF ResponseRejected
  <2>3. pc'[w] # "commit"
    BY <1>6, <2>2
  <2>4. n.status = meta[t].status /\ n.worker = meta[t].worker
    BY <1>11, <2>1
  <2> QED BY <1>5, <2>1, <2>3, <2>4
<1>14. CASE TransportError(w)
  <2>1. PICK n : /\ meta' = [meta EXCEPT ![t] = n]
                 /\ n \in {meta[t], ReleaseTaskSubmission(meta[t]), [meta[t] EXCEPT !.evidence = TRUE]}
    BY <1>2, <1>14, Zenon DEF TransportError
  <2>2. \E x \in {"received", "failed"} : pc' = [pc EXCEPT ![w] = x]
    BY <1>14, Zenon DEF TransportError
  <2>3. pc'[w] # "commit"
    BY <1>6, <2>2
  <2>4. n.status = meta[t].status /\ n.worker = meta[t].worker
    BY <1>11, <2>1
  <2> QED BY <1>5, <2>1, <2>3, <2>4
<1>15. CASE RunTimeout(w)
  <2>1. UNCHANGED meta /\ pc' = [pc EXCEPT ![w] = "failed"]
    BY <1>15 DEF RunTimeout
  <2> QED BY <1>4, <1>6, <2>1
<1>16. ~SubmissionReceived(w) /\ ~RecordOutcome(w)
  <2>1. ASSUME pc' = [pc EXCEPT ![w] = "settle"], loop' = loop PROVE FALSE
    BY <1>3, <1>6, <2>1
  <2> QED BY <2>1 DEF SubmissionReceived, RecordOutcome
<1> QED BY <1>7, <1>8, <1>9, <1>10, <1>12, <1>13, <1>14, <1>15, <1>16 DEF Execute

\* The lease of a coroutine's task is its own or nobody's, and never runs out calmly.
LEMMA EngagedLease ==
  ASSUME WorkInv, TypeOK, HoldOK, LeaseHasOwner, Next, used["lapse"] = 0, used'["lapse"] = 0,
         NEW w \in Worker, NEW t \in Task, Engaged(w, t), ~(loop.at = "marked" /\ loop.t = t)
  PROVE  Kept(q'[t], w)
<1>0. Kept(q[t], w)
  BY DEF WorkInv, EngagedOwns
<1>1. CASE ClaimLease
  <2>1. q'[t] = q[t]
    BY <1>1 DEF ClaimLease, TypeOK
  <2> QED BY <1>0, <2>1
<1>2. ASSUME NEW v \in Worker, Spawn(v) PROVE Kept(q'[t], w)
  <2>1. v # w
    BY <1>2 DEF Spawn, Engaged
  <2>2. q'[t].lease = q[t].lease /\ q'[t].owner = IF q[t].owner = v THEN Gone ELSE q[t].owner
    BY <1>2 DEF Spawn, TypeOK, R!Entry
  <2> QED BY <1>0, <2>1, <2>2, StoreConstants DEF Kept
<1>3. ASSUME NEW u \in Task, LeaseExpires(u) PROVE Kept(q'[t], w)
  <2>1. CASE u = t
    <3>1. q[t].lease = "live" /\ q[t].owner = w
      BY <1>0, <1>3, <2>1 DEF LeaseExpires, LeaseHasOwner, Kept
    <3>2. cur[w] = t \/ loop.w = w
      BY DEF Engaged
    <3>3. Disturb("lapse")
      BY <1>3, <2>1, <3>1, <3>2 DEF LeaseExpires
    <3>4. used'["lapse"] = 1
      BY <3>3 DEF Disturb, TypeOK, Kinds
    <3> QED BY <3>4
  <2>2. CASE u # t
    <3>1. q'[t] = q[t]
      BY <1>3, <2>2 DEF LeaseExpires, TypeOK
    <3> QED BY <1>0, <3>1
  <2> QED BY <2>1, <2>2
<1>4. CASE ~ClaimLease /\ (\A v \in Worker : ~Spawn(v)) /\ \A u \in Task : ~LeaseExpires(u)
  <2>1. LeavesLive(q[t], q'[t])
    BY <1>4, QueueLive
  <2> QED BY <1>0, <2>1 DEF LeavesLive, Leaves, Kept
<1> QED BY <1>1, <1>2, <1>3, <1>4
\* How the event loop comes to boot, to a task of recover() and past the transaction
\* of a claim, and a coroutine to a request.
LoopMoves ==
  /\ InBoot' => (\A w \in Worker : pc'[w] = "dead") \/ (InBoot /\ pc' = pc)
  /\ loop'.at = "recovered" => loop' = loop \/ \E t \in Task : RecoverTake(t) /\ loop'.t = t
  /\ loop.at = "marked" => \/ loop' = loop \/ ClaimLease
                           \/ pc'[loop.w] = "dead" /\ loop'.at \in {"free", "down"}
  /\ \A w \in Worker : pc'[w] = "commit" /\ ~Execute(w) => pc[w] = "commit"

LEMMA LoopStep == TypeOK /\ HoldOK /\ Next => LoopMoves
<1> SUFFICES ASSUME TypeOK, HoldOK, Next PROVE LoopMoves
  OBVIOUS
<1> USE DEF apiVars, workerVars
<1>0. Main # NoWorker /\ Main \notin Worker
  BY QueueConstants, StoreConstants DEF Id
<1>1. loop.at = "free" => loop.w = NoWorker /\ ~InBoot
  BY <1>0 DEF TypeOK, LoopOK, InBoot
<1>2. ASSUME loop' = loop, pc' = pc PROVE LoopMoves
  BY <1>2 DEF LoopMoves, InBoot
<1>3. ASSUME loop'.at \notin {"down", "boot", "recovered"}, loop'.w = loop.w \/ loop'.w # Main,
             loop.at # "marked", pc' = pc
      PROVE  LoopMoves
  BY <1>3 DEF LoopMoves, InBoot
<1>4. ASSUME loop.at = "free", loop' = loop, \A w \in Worker : pc'[w] = "commit" /\ ~Execute(w) => pc[w] = "commit"
      PROVE  LoopMoves
  BY <1>1, <1>4 DEF LoopMoves, InBoot
<1>5. CASE Api \/ Results \/ Time
  BY <1>2, <1>5
  DEF Api, Create, CreationFails, Finalize, EnqueueNew, Expire, PauseCancel, CancelTask, Pause, Resume, ApiRestart,
      Results, ResultFinished, LateResult, ResultRetry, RequeuePending,
      Time, Elapse, ElapseDelayed, LeaseExpires
<1>6. CASE Recover
  <2>1. ASSUME NEW t \in Task, RecoverTake(t) PROVE LoopMoves
    BY <2>1 DEF RecoverTake, At, LoopMoves, InBoot
  <2>2. CASE RecoverStatus
    <3>1. /\ loop' = At("push", loop.w, loop.t) \/ loop' = At("recover", loop.w, NoTask)
          /\ loop.at = "recovered" /\ pc' = pc
      BY <2>2, Zenon DEF RecoverStatus
    <3> QED BY <1>3, <3>1 DEF At
  <2>3. CASE RecoverPush
    BY <1>3, <2>3 DEF RecoverPush, At
  <2> QED BY <1>6, <2>1, <2>2, <2>3 DEF Recover
<1>7. CASE Claim
  <2>1. ASSUME NEW u \in Task, NEW retry \in BOOLEAN, ClaimMove(u, retry) PROVE LoopMoves
    BY <1>3, <2>1 DEF ClaimMove, At
  <2>2. CASE ClaimPromote
    BY <1>3, <2>2 DEF ClaimPromote, At
  <2>3. CASE ClaimEmpty
    BY <1>0, <1>3, <2>3 DEF ClaimEmpty, At, Free
  <2>4. CASE ClaimCheck
    <3>1. /\ loop' = At("lmove", loop.w, NoTask) \/ loop' = At("checked", loop.w, loop.t)
          /\ loop.at = "moved" /\ pc' = pc
      BY <2>4 DEF ClaimCheck
    <3> QED BY <1>3, <3>1 DEF At
  <2>5. CASE ClaimMark
    BY <1>3, <2>5 DEF ClaimMark, At
  <2>6. CASE ClaimRefused
    BY <1>3, <2>6 DEF ClaimRefused, At
  <2>7. CASE ClaimLease
    BY <2>7 DEF ClaimLease, At, LoopMoves, InBoot
  <2>8. CASE ClaimAccept
    <3>1. loop.at = "leased" /\ loop'.at = "free" /\ loop'.w = NoWorker
      BY <2>8 DEF ClaimAccept, Free, At
    <3>2. \A v \in Worker : pc'[v] = "commit" => pc[v] = "commit"
      BY <2>8 DEF ClaimAccept, TypeOK
    <3> QED BY <1>0, <3>1, <3>2 DEF LoopMoves, InBoot
  <2>9. CASE ClaimDefer
    BY <1>3, <2>9 DEF ClaimDefer, At
  <2>10. CASE ClaimDeferRelease
    BY <1>3, <2>10 DEF ClaimDeferRelease, At
  <2>11. CASE ClaimRaises
    <3>1. loop.w \in Worker /\ loop'.at = "free" /\ loop'.w = NoWorker
      BY <2>11 DEF ClaimRaises, Free, At
    <3>2. pc'[loop.w] = "dead" /\ \A v \in Worker : pc'[v] = "commit" => pc[v] = "commit"
      BY <2>11, <3>1 DEF ClaimRaises, TypeOK
    <3> QED BY <1>0, <3>1, <3>2 DEF LoopMoves, InBoot
  <2> QED BY <1>7, <2>1, <2>2, <2>3, <2>4, <2>5, <2>6, <2>7, <2>8, <2>9, <2>10, <2>11 DEF Claim
<1>8. ASSUME NEW v \in Worker, Execute(v) \/ PlatformAnswers(v) PROVE LoopMoves
  <2>1. CASE PlatformAnswers(v)
    BY <1>2, <2>1 DEF PlatformAnswers
  <2>2. CASE ClaimStart(v)
    BY <1>0, <1>3, <2>2 DEF ClaimStart, MayStep, At
  <2>3. CASE \/ StartTask(v) \/ AutomationFails(v) \/ BeginSubmission(v)
             \/ ResponseAccepted(v) \/ ResponseRejected(v) \/ TransportError(v) \/ RunTimeout(v)
             \/ SubmissionReceived(v) \/ RecordOutcome(v) \/ FinallyRelease(v)
    <3>1. loop.at = "free" /\ loop' = loop /\ \E x : pc' = [pc EXCEPT ![v] = x]
      BY <2>3 DEF StartTask, AutomationFails, BeginSubmission, ResponseAccepted, ResponseRejected,
                  TransportError, RunTimeout, SubmissionReceived, RecordOutcome, FinallyRelease, MayStep
    <3>2. Execute(v) /\ \A u \in Worker \ {v} : pc'[u] = pc[u]
      BY <2>3, <3>1 DEF Execute, TypeOK
    <3> QED BY <1>4, <3>1, <3>2
  <2>4. CASE DeliverCancel(v)
    <3>1. loop.at = "free" /\ (loop' = loop \/ (loop'.at = "finally" /\ loop'.w = v))
      BY <2>4 DEF DeliverCancel, At
    <3>2. \A u \in Worker : pc'[u] = "commit" => pc[u] = "commit"
      BY <2>4 DEF DeliverCancel, TypeOK
    <3> QED BY <1>0, <1>1, <3>1, <3>2 DEF LoopMoves, InBoot
  <2> QED BY <1>8, <2>1, <2>2, <2>3, <2>4 DEF Execute
<1>9. CASE Supervise
  <2>1. CASE HeartbeatAll \/ ReconcileList \/ \E u \in Task : WatchStale(u) \/ ReconcileOne(u)
    BY <1>2, <2>1 DEF HeartbeatAll, ReconcileList, WatchStale, ReconcileOne
  <2>2. CASE CancelRelease
    BY <1>0, <1>3, <2>2 DEF CancelRelease, Free, At
  <2>3. CASE OrphanRequeue
    BY <1>0, <1>3, <2>3 DEF OrphanRequeue, Free, At
  <2>4. ASSUME NEW u \in Task, WatchOrphan(u) PROVE LoopMoves
    BY <1>0, <1>3, <2>4 DEF WatchOrphan, At
  <2>5. ASSUME NEW v \in Worker, Spawn(v) \/ Trim(v) PROVE LoopMoves
    <3>1. loop.at = "free" /\ loop' = loop /\ \A u \in Worker : pc'[u] = "commit" => pc[u] = "commit"
      BY <2>5 DEF Spawn, Trim, MayStep, TypeOK
    <3> QED BY <1>4, <3>1
  <2> QED BY <1>9, <2>1, <2>2, <2>3, <2>4, <2>5 DEF Supervise
<1>10. CASE Lifecycle
  <2>1. CASE Crash \/ Stop
    <3>1. loop'.at = "down" /\ \A u \in Worker : pc'[u] = "dead"
      BY <2>1 DEF Crash, Stop, At
    <3>2. loop.at = "marked" => loop.w \in Worker
      BY DEF TypeOK, LoopOK, WorkerSections
    <3> QED BY <3>1, <3>2 DEF LoopMoves
  <2>2. CASE Start
    BY <2>2 DEF Start, At, LoopMoves, InBoot
  <2>3. CASE StartReset
    BY <2>3 DEF StartReset, At, LoopMoves, InBoot
  <2>4. CASE StartReconcile
    BY <1>0, <1>3, <2>4 DEF StartReconcile, At, Free
  <2> QED BY <1>10, <2>1, <2>2, <2>3, <2>4 DEF Lifecycle
<1> QED BY <1>5, <1>6, <1>7, <1>8, <1>9, <1>10 DEF Next
\* A calm step keeps the inductive invariant.
LEMMA WorkStep ==
  ASSUME WorkInv, TypeOK, HoldOK, TypeOK', HoldOK', LeaseHasOwner, Next, Calm, Calm'
  PROVE  WorkInv'
<1>0. LoopMoves
  BY LoopStep
<1>1. \A w \in Worker, t \in Task : Engaged(w, t)' /\ ~Engaged(w, t) => ClaimMark /\ w = loop.w /\ t = loop.t
  BY OnlyClaimEngages
<1>2. ASSUME ClaimMark
      PROVE  /\ loop.t \in Task /\ meta[loop.t].status = "pending" /\ pc' = pc
             /\ loop'.at = "marked" /\ loop'.t = loop.t /\ Mine(meta'[loop.t], loop.w)
  <2>1. loop.t \in Task /\ meta[loop.t] \in Meta
    BY <1>2 DEF ClaimMark, TypeOK, LoopOK, TaskSections
  <2>2. meta'[loop.t] = ClaimTask(meta[loop.t], loop.w)
    BY <1>2, <2>1 DEF ClaimMark, TypeOK
  <2>3. Mine(meta'[loop.t], loop.w)
    BY <2>1, <2>2 DEF ClaimTask, Mine, Meta
  <2> QED BY <1>2, <2>1, <2>3 DEF ClaimMark, MayMarkRunning, At
<1>3. \A w \in Worker, t \in Task : Engaged(w, t) => meta[t].status # "pending"
  BY DEF WorkInv, EngagedOwns, Over, Mine, Terminal
<1>4. EngagedAlone'
  <2> SUFFICES ASSUME NEW v \in Worker, NEW w \in Worker, NEW t \in Task, Engaged(v, t)', Engaged(w, t)'
               PROVE  v = w
    BY DEF EngagedAlone
  <2>1. CASE Engaged(v, t) /\ Engaged(w, t)
    BY <2>1 DEF WorkInv, EngagedAlone
  <2>2. CASE ~Engaged(v, t) \/ ~Engaged(w, t)
    BY <1>1, <1>2, <1>3, <2>2
  <2> QED BY <2>1, <2>2
<1>5. EngagedOwns'
  <2> SUFFICES ASSUME NEW w \in Worker, NEW t \in Task, Engaged(w, t)'
               PROVE  /\ Over(meta'[t]) \/ Mine(meta'[t], w)
                      /\ Kept(q'[t], w) \/ (loop'.at = "marked" /\ loop'.t = t)
    BY DEF EngagedOwns, Over, Mine, Kept
  <2>1. CASE ~Engaged(w, t)
    BY <1>1, <1>2, <2>1
  <2>2. CASE Engaged(w, t)
    <3>1. Over(meta'[t]) \/ Mine(meta'[t], w)
      <4>1. CASE Execute(w)
        <5>1. meta'[t].status = meta[t].status /\ meta'[t].worker = meta[t].worker
          BY <2>2, <4>1, EngagedOwn DEF Calm
        <5> QED BY <2>2, <5>1 DEF WorkInv, EngagedOwns, Over, Mine
      <4>2. CASE ~Execute(w)
        BY <2>2, <4>2, EngagedRecord DEF Calm
      <4> QED BY <4>1, <4>2
    <3>2. CASE ~(loop.at = "marked" /\ loop.t = t)
      BY <2>2, <3>1, <3>2, EngagedLease DEF Calm
    <3>3. CASE loop.at = "marked" /\ loop.t = t
      <4>1. w = loop.w
        <5>1. loop.w \in Worker
          BY <3>3 DEF TypeOK, LoopOK, WorkerSections
        <5>2. Engaged(loop.w, t)
          BY <3>3 DEF Engaged
        <5> QED BY <2>2, <5>1, <5>2 DEF WorkInv, EngagedAlone
      <4>2. CASE loop' = loop
        BY <3>1, <3>3, <4>2
      <4>3. CASE ClaimLease
        <5>1. q'[t] = R!TakeLease(q[t], w) /\ q[t] \in R!Entry
          BY <3>3, <4>1, <4>3 DEF ClaimLease, TypeOK
        <5>2. Kept(q'[t], w)
          BY <5>1 DEF R!TakeLease, R!Entry, Kept
        <5> QED BY <3>1, <5>2
      <4>4. CASE pc'[loop.w] = "dead" /\ loop'.at \in {"free", "down"}
        BY <4>1, <4>4 DEF Engaged
      <4> QED BY <1>0, <3>3, <4>2, <4>3, <4>4 DEF LoopMoves
    <3> QED BY <3>2, <3>3
  <2> QED BY <2>1, <2>2
<1>6. RecoveredFree'
  <2> SUFFICES ASSUME loop'.at = "recovered", NEW w \in Worker, Engaged(w, loop.t)' PROVE FALSE
    BY DEF RecoveredFree
  <2> DEFINE t == loop'.t
  <2>0. t \in Task
    BY DEF TypeOK, LoopOK, TaskSections
  <2>1. Engaged(w, t)
    BY <1>1, <1>2, <2>0 DEF Engaged
  <2>2. CASE loop' = loop
    BY <2>1, <2>2 DEF WorkInv, RecoveredFree
  <2>3. CASE RecoverTake(t)
    BY <2>0, <2>1, <2>3 DEF RecoverTake, WorkInv, EngagedOwns, Kept
  <2> QED BY <1>0, <2>2, <2>3 DEF LoopMoves
<1>7. BootDead'
  BY <1>0 DEF LoopMoves, WorkInv, BootDead
<1>8. CommitMarked'
  <2> SUFFICES ASSUME NEW w \in Worker, pc'[w] = "commit" PROVE meta'[cur'[w]].phase = "committing"
    BY DEF CommitMarked
  <2>0. cur'[w] \in Task
    BY DEF HoldOK, Held
  <2>1. PICK t \in Task : t = cur'[w]
    BY <2>0
  <2>5. Engaged(w, t)'
    BY <2>1 DEF Engaged
  <2>2. Engaged(w, t)
    <3>1. CASE ClaimMark
      <4>1. loop.w # w
        BY <1>2, <3>1 DEF HoldOK, ClaimMark
      <4> QED BY <1>1, <2>5, <4>1
    <3> QED BY <1>1, <2>5, <3>1
  <2>3. CASE Execute(w)
    BY <2>1, <2>2, <2>3, <2>5, EngagedOwn DEF Calm
  <2>4. CASE ~Execute(w)
    <3>1. pc[w] = "commit"
      BY <1>0, <2>4 DEF LoopMoves
    <3>2. cur[w] = t
      BY <2>2, <3>1 DEF Engaged, HoldOK
    <3>3. meta[t].phase = "committing"
      BY <3>1, <3>2 DEF WorkInv, CommitMarked
    <3>4. meta'[t].phase = meta[t].phase
      BY <2>2, <2>4, <2>5, EngagedRecord DEF Calm
    <3> QED BY <2>1, <3>3, <3>4
  <2> QED BY <2>3, <2>4
<1> QED BY <1>4, <1>5, <1>6, <1>7, <1>8 DEF WorkInv

\* The inductive invariant holds as long as all is calm.
LEMMA CalmWork == Spec /\ []Calm => []WorkInv
<1>1. Init => WorkInv
  <2> SUFFICES ASSUME Init PROVE WorkInv
    OBVIOUS
  <2>1. loop.at = "free" /\ loop.w = NoWorker /\ \A w \in Worker : pc[w] = "idle"
    BY DEF Init, Free, At
  <2>2. NoWorker # Main
    BY QueueConstants, StoreConstants DEF Id
  <2> QED BY <2>1, <2>2 DEF WorkInv, EngagedOwns, EngagedAlone, RecoveredFree, BootDead, CommitMarked,
                           Engaged, InBoot
<1>2. ASSUME WorkInv, TypeOK, HoldOK, TypeOK', HoldOK', LeaseHasOwner, [Next]_vars, Calm, Calm'
      PROVE  WorkInv'
  <2>1. CASE Next
    BY <1>2, <2>1, WorkStep
  <2>2. CASE UNCHANGED vars
    BY <1>2, <2>2 DEF vars, WorkInv, EngagedOwns, EngagedAlone, RecoveredFree, BootDead, CommitMarked,
                      Engaged, InBoot, Over, Mine, Kept
  <2> QED BY <1>2, <2>1, <2>2
<1> QED BY <1>1, <1>2, TypeHold, LeasesOwned, PTL DEF Spec

\* As long as the watchdog cancels no coroutine and no lease of a live one runs out,
\* two coroutines never run one task: neither crashes, failing calls, recovery, the
\* reconcile thread, the watchdog's orphans nor pauses hand it out twice.
THEOREM OneWorkerWhileCalm == Spec /\ []Calm => []OneWorker
<1>1. WorkInv => OneWorker
  BY DEF WorkInv, EngagedAlone, Engaged, OneWorker, Working
<1> QED BY <1>1, CalmWork, PTL

\* As long as all is calm, the platform answers no request of a task whose cancel
\* went through outside its submission.
THEOREM CancelBarrierWhileCalm == Spec /\ []Calm => CancelBarrier
<1> DEFINE Barrier == \A t \in Task : meta[t].status = "canceled" /\ meta[t].phase # "committing"
                         => upstream'[t] = upstream[t]
<1>1. ASSUME WorkInv, TypeOK, HoldOK, [Next]_vars PROVE [Barrier]_vars
  <2> SUFFICES ASSUME Next, NEW t \in Task, meta[t].status = "canceled", meta[t].phase # "committing"
               PROVE  upstream'[t] = upstream[t]
    BY <1>1
  <2> USE DEF apiVars, workerVars
  <2>0. upstream \in [Task -> {"none", "accepted", "rejected"}]
    BY <1>1 DEF TypeOK
  <2>1. ASSUME NEW w \in Worker, PlatformAnswers(w) PROVE upstream'[t] = upstream[t]
    <3>1. cur[w] # t
      BY <1>1, <2>1 DEF PlatformAnswers, WorkInv, CommitMarked
    <3>2. \E x : upstream' = [upstream EXCEPT ![cur[w]] = x]
      BY <2>1, Zenon DEF PlatformAnswers
    <3> QED BY <2>0, <3>1, <3>2
  <2>2. CASE ClaimMark
    <3>1. loop.t # t /\ upstream' = [upstream EXCEPT ![loop.t] = "none"]
      BY <2>2 DEF ClaimMark, MayMarkRunning
    <3> QED BY <2>0, <3>1
  <2>3. ASSUME NEW u \in Task, ResultRetry(u) PROVE upstream'[t] = upstream[t]
    <3>1. u # t /\ upstream' = [upstream EXCEPT ![u] = "none"]
      BY <2>3 DEF ResultRetry
    <3> QED BY <2>0, <3>1
  <2>4. CASE Api \/ Recover \/ Time \/ \E u \in Task : ResultFinished(u) \/ LateResult(u) \/ RequeuePending(u)
    BY <2>4 DEF Api, Recover, Time, Create, CreationFails, Finalize, EnqueueNew, Expire, PauseCancel,
                CancelTask, Pause, Resume, ApiRestart, ResultFinished, LateResult, RequeuePending, RecoverTake,
                RecoverStatus, RecoverPush, Elapse, ElapseDelayed, LeaseExpires
  <2>5. CASE Claim /\ ~ClaimMark
    BY <2>5 DEF Claim, ClaimMove, ClaimPromote, ClaimEmpty, ClaimCheck, ClaimRefused, ClaimLease,
                ClaimAccept, ClaimDefer, ClaimDeferRelease, ClaimRaises
  <2>6. ASSUME NEW w \in Worker, Execute(w) PROVE upstream'[t] = upstream[t]
    BY <2>6 DEF Execute, ClaimStart, StartTask, AutomationFails, BeginSubmission, ResponseAccepted,
                ResponseRejected, TransportError, RunTimeout, SubmissionReceived, RecordOutcome,
                FinallyRelease, DeliverCancel
  <2>7. CASE Supervise \/ Lifecycle
    BY <2>7 DEF Supervise, Lifecycle, HeartbeatAll, CancelRelease, OrphanRequeue, ReconcileList, Spawn, Trim,
                WatchStale, WatchOrphan, ReconcileOne, Crash, Stop, Start, StartReset, StartReconcile
  <2> QED BY <2>1, <2>2, <2>3, <2>4, <2>5, <2>6, <2>7 DEF Next, Results
<1> QED BY <1>1, CalmWork, TypeHold, PTL DEF Spec, CancelBarrier

-----------------------------------------------------------------------------
(* A pending task is found *)

\* No API restart, no lapse of a lease under a live holder, no failing call in the
\* claim section and no pause so far.
Undisturbed == \A k \in {"restart", "lapse", "fault", "pause"} : used[k] = 0

Counted(t) == meta[t].retries + meta[t].infra > 0
\* A first attempt that waits or runs.
First(t) == meta[t].status \in {"pending", "running"} /\ ~Counted(t)

\* In how many places the queue has a task that recover or a claim would take.
Flag(b) == IF b THEN 1 ELSE 0
Places(e) == e.ready + e.retryReady + Flag(e.delayed # "no") + Flag(e.retryDelayed # "no")
               + Flag(e.lease # "none")

\* The sections that have taken the task of the event loop out of its place, and
\* those that work on it under a lease.
InHand == {"recovered", "push", "moved", "checked", "marked"}
UnderLease == {"leased", "deferred", "finally"}

\* Coroutine w holds the lease of task t, or is closing the claim of it.
Holds(w, t) == cur[w] = t \/ (loop.t = t /\ loop.w = w /\ loop.at \in UnderLease)
Leased(w, t) == q[t].owner = w /\ q[t].lease = "live"

\* Nobody has heard of a task that is not yet pending.
Unseen(t) ==
  meta[t].status \in {"none", "initializing"} =>
    /\ q[t] = R!NoEntry /\ handoff[t] = "none" /\ loop.t # t /\ t \notin scan
    /\ \A w \in Worker : cur[w] # t

\* Whoever rewrites an entry whatever it holds does so to a retry only.
OnlyCounted(t) ==
  t \in scan \/ handoff[t] = "requeue" \/ (loop.at = "orphan" /\ loop.t = t) => Counted(t)

\* A first attempt is in one place at most: in a list, under a lease, or in hand.
OnePlace(t) ==
  /\ Places(q[t]) <= 1 /\ (Places(q[t]) = 1 => q[t].known)
  /\ loop.t = t /\ loop.at \in InHand => Places(q[t]) = 0 /\ q[t].known
  /\ \A w \in Worker : Holds(w, t) => Leased(w, t)
  /\ loop.t = t /\ loop.at # "finally" => \A w \in Worker : cur[w] # t

\* And while it is pending it is in one, or somebody is about to bring it there.
Awaited(t) ==
  meta[t].status = "pending" =>
    InBoot \/ loop.t = t \/ Places(q[t]) = 1 \/ (handoff[t] = "enqueue" /\ ~q[t].known)

Found(t) == Unseen(t) /\ (t \in Confirmed => OnlyCounted(t) /\ (First(t) => OnePlace(t) /\ Awaited(t)))

FoundInv == ~paused /\ BootDead /\ \A t \in Task : Found(t)

\* A write of a record that makes a first attempt of nothing else, forgets no retry
\* and takes no row back.
Tame(m, n) ==
  /\ n.status \in {"pending", "running"} /\ ~(n.retries + n.infra > 0)
       => m.status \in {"pending", "running"} /\ ~(m.retries + m.infra > 0)
  /\ m.retries + m.infra > 0 => n.retries + n.infra > 0
  /\ n.status \in {"none", "initializing"} => m.status \in {"none", "initializing"}

\* The functions of app/store.py but the one that makes a task pending and the two
\* retries without a count; a coroutine claims pending tasks only.
LEMMA StoreTame ==
  ASSUME NEW m \in Meta
  PROVE  /\ m.status = "none" => Tame(m, CreateTask(m))
         /\ m.status = "initializing" => Tame(m, DeleteTask(m))
         /\ Tame(m, MarkPending(m)) /\ Tame(m, DeferTask(m)) /\ Tame(m, MarkFailed(m))
         /\ Tame(m, MarkSubmitted(m)) /\ Tame(m, MarkSuccess(m)) /\ Tame(m, MarkLateResultSuccess(m))
         /\ Tame(m, EndLateWatch(m)) /\ Tame(m, GiveUpWaiting(m))
         /\ m.status = "pending" => \A w : Tame(m, ClaimTask(m, w))
         /\ Tame(m, BeginTaskSubmission(m)) /\ Tame(m, ReleaseTaskSubmission(m))
         /\ Tame(m, [ReleaseTaskSubmission(m) EXCEPT !.evidence = TRUE])
         /\ Tame(m, RequestTaskCancel(m)) /\ Tame(m, ResetRunningTask(m))
         /\ \A sticky : Tame(m, ClearTransientResult(m, sticky))
         /\ Tame(m, RecordRetry(m)) /\ Tame(m, RecordInfrastructureRetry(m))
<1>0. m.retries \in Nat /\ m.infra \in Nat /\ m.status \in Status
  BY DEF Meta
<1>counts. /\ m.retries + 1 \in Nat /\ (m.retries + 1) + m.infra > 0
           /\ m.infra + 1 \in Nat /\ m.retries + (m.infra + 1) > 0
  BY <1>0, SMT
<1> USE DEF Tame, Meta
<1>1. /\ m.status = "none" => Tame(m, CreateTask(m))
      /\ m.status = "initializing" => Tame(m, DeleteTask(m))
      /\ m.status = "pending" => \A w : Tame(m, ClaimTask(m, w))
  BY <1>0 DEF CreateTask, DeleteTask, ClaimTask
<1>2. Tame(m, MarkPending(m)) /\ Tame(m, DeferTask(m))
  BY <1>0 DEF MarkPending, DeferTask
<1>3. Tame(m, MarkFailed(m)) /\ Tame(m, MarkSubmitted(m)) /\ Tame(m, MarkSuccess(m))
  BY <1>0 DEF MarkFailed, MarkSubmitted, MarkSuccess
<1>4. Tame(m, MarkLateResultSuccess(m)) /\ Tame(m, EndLateWatch(m))
  BY <1>0 DEF MarkLateResultSuccess, EndLateWatch
<1>5. Tame(m, GiveUpWaiting(m))
  BY <1>0 DEF GiveUpWaiting, MarkFailed
<1>6. Tame(m, BeginTaskSubmission(m)) /\ Tame(m, ReleaseTaskSubmission(m)) /\ Tame(m, RequestTaskCancel(m))
  BY <1>0 DEF BeginTaskSubmission, ReleaseTaskSubmission, RequestTaskCancel
<1>7. Tame(m, [ReleaseTaskSubmission(m) EXCEPT !.evidence = TRUE])
  BY <1>0 DEF ReleaseTaskSubmission
<1>8. Tame(m, ResetRunningTask(m))
  BY <1>0 DEF ResetRunningTask, MarkPending
<1>9. \A sticky : Tame(m, ClearTransientResult(m, sticky))
  BY <1>0 DEF ClearTransientResult
<1> DEFINE r == m.retries + 1
           i == m.infra + 1
<1>10. r \in Nat /\ i \in Nat /\ r + m.infra > 0 /\ m.retries + i > 0
  BY <1>counts
<1> HIDE DEF r, i
<1>11. /\ Tame(m, m)
       /\ Tame(m, [m EXCEPT !.status = "failed", !.worker = NoWorker, !.retries = r])
       /\ Tame(m, [m EXCEPT !.status = "pending", !.worker = NoWorker, !.retries = r, !.waiting = TRUE])
       /\ Tame(m, [m EXCEPT !.status = "failed", !.worker = NoWorker, !.infra = i])
       /\ Tame(m, [m EXCEPT !.status = "pending", !.worker = NoWorker, !.infra = i, !.waiting = TRUE])
  BY <1>0, <1>10
<1> HIDE DEF Tame, Meta
<1>12. Tame(m, RecordRetry(m)) /\ Tame(m, RecordInfrastructureRetry(m))
  BY <1>11 DEF RecordRetry, RecordInfrastructureRetry, r, i
<1> QED BY <1>1, <1>2, <1>3, <1>4, <1>5, <1>6, <1>7, <1>8, <1>9, <1>12

\* Records that differ in no counter and no status.
LEMMA SameTame ==
  ASSUME NEW m, NEW n, n.status = m.status, n.retries = m.retries, n.infra = m.infra
  PROVE  Tame(m, n)
BY DEF Tame

\* What the commands make of the places of a task.
LEMMA QueuePlaces ==
  ASSUME NEW e \in R!Entry
  PROVE  /\ Places(e) \in Nat /\ (e.lease # "none" => Places(e) > 0)
         /\ \A retry \in BOOLEAN :
              /\ Places(R!LPush(e, retry)) = Places(e) + 1
              /\ R!LPush(e, retry).known = e.known
              /\ (IF retry THEN e.retryReady > 0 ELSE e.ready > 0) /\ Places(e) <= 1
                   => /\ Places(e) = 1 /\ e.lease = "none" /\ Places(R!LMove(e, retry)) = 0
                      /\ R!LMove(e, retry).known = e.known
         /\ \A retry, future \in BOOLEAN :
              /\ Places(R!Requeue(e, retry, future)) = 1 /\ R!Requeue(e, retry, future).known
              /\ ~e.known /\ Places(e) = 0
                   => Places(R!Enqueue(e, retry, future)) = 1 /\ R!Enqueue(e, retry, future).known
              /\ e.known => R!Enqueue(e, retry, future) = e
              /\ e.lease = "live" /\ Places(e) = 1
                   => /\ Places(R!DelayOwned(e, e.owner, retry, future)) = 1
                      /\ R!DelayOwned(e, e.owner, retry, future).known = e.known
         /\ e.lease = "live" /\ Places(e) = 1 => Places(R!AckOwned(e, e.owner)) = 0
         /\ e.lease = "expired" /\ Places(e) = 1
              => Places(R!DropExpired(e)) = 0 /\ R!DropExpired(e).known = e.known
         /\ Places(e) = 0 => \A w : /\ Places(R!TakeLease(e, w)) = 1 /\ R!TakeLease(e, w).known = e.known
                                    /\ R!TakeLease(e, w).owner = w /\ R!TakeLease(e, w).lease = "live"
         /\ Places(R!NoEntry) = 0
<1> USE DEF Places, Flag
<1>0. /\ e.ready \in Nat /\ e.retryReady \in Nat
      /\ e.lease \in {"none", "live", "expired"} /\ e.known \in BOOLEAN
      /\ e.delayed \in {"no", "future", "due"} /\ e.retryDelayed \in {"no", "future", "due"}
  BY DEF R!Entry
<1>1. Places(e) \in Nat /\ (e.lease # "none" => Places(e) > 0)
  BY <1>0
<1>2. ASSUME NEW retry \in BOOLEAN
      PROVE  Places(R!LPush(e, retry)) = Places(e) + 1 /\ R!LPush(e, retry).known = e.known
  BY <1>0 DEF R!Entry, R!LPush
<1>3. ASSUME NEW retry \in BOOLEAN, IF retry THEN e.retryReady > 0 ELSE e.ready > 0, Places(e) <= 1
      PROVE  /\ Places(e) = 1 /\ e.lease = "none" /\ Places(R!LMove(e, retry)) = 0
             /\ R!LMove(e, retry).known = e.known
  BY <1>0, <1>3 DEF R!Entry, R!LMove
<1>4. ASSUME NEW retry \in BOOLEAN, NEW future \in BOOLEAN
      PROVE  Places(R!Requeue(e, retry, future)) = 1 /\ R!Requeue(e, retry, future).known
  BY DEF R!NoEntry, R!Requeue, R!LPush, R!ZAdd, R!When
<1>5. ASSUME NEW retry \in BOOLEAN, NEW future \in BOOLEAN, ~e.known, Places(e) = 0
      PROVE  Places(R!Enqueue(e, retry, future)) = 1 /\ R!Enqueue(e, retry, future).known
  BY <1>0, <1>5 DEF R!Entry, R!Enqueue, R!LPush, R!ZAdd, R!When
<1>7. ASSUME NEW retry \in BOOLEAN, NEW future \in BOOLEAN, e.lease = "live", Places(e) = 1
      PROVE  /\ Places(R!DelayOwned(e, e.owner, retry, future)) = 1
             /\ R!DelayOwned(e, e.owner, retry, future).known = e.known
  BY <1>0, <1>7 DEF R!Entry, R!DelayOwned, R!ZAdd, R!When
<1>8. e.lease = "live" /\ Places(e) = 1 => Places(R!AckOwned(e, e.owner)) = 0
  BY <1>0 DEF R!Entry, R!AckOwned
<1>9. e.lease = "expired" /\ Places(e) = 1
        => Places(R!DropExpired(e)) = 0 /\ R!DropExpired(e).known = e.known
  BY <1>0 DEF R!Entry, R!DropExpired
<1>10. ASSUME Places(e) = 0, NEW w
       PROVE  /\ Places(R!TakeLease(e, w)) = 1 /\ R!TakeLease(e, w).known = e.known
              /\ R!TakeLease(e, w).owner = w /\ R!TakeLease(e, w).lease = "live"
  BY <1>0, <1>10 DEF R!Entry, R!TakeLease
<1>11. Places(R!NoEntry) = 0
  BY DEF R!NoEntry
<1>12. \A retry, future \in BOOLEAN : e.known => R!Enqueue(e, retry, future) = e
  BY DEF R!Enqueue
<1> HIDE DEF Places
<1> QED BY <1>1, <1>2, <1>3, <1>4, <1>5, <1>7, <1>8, <1>9, <1>10, <1>11, <1>12

\* The entry of task t holds it as before: in as many places, known or not, and its
\* holder's lease is still its holder's.
Likened(t) ==
  /\ Places(q'[t]) = Places(q[t]) /\ q'[t].known = q[t].known
  /\ q[t] = R!NoEntry => q'[t] = R!NoEntry
  /\ \A w \in Worker : Holds(w, t) /\ Leased(w, t) => q'[t].owner = w /\ q'[t].lease = "live"

\* A step that, of task t, touches the record at most.
Aside(t) ==
  /\ Tame(meta[t], meta'[t]) /\ Likened(t) /\ handoff'[t] = handoff[t]
  /\ t \in scan' => t \in scan \/ (Counted(t) /\ meta[t].status = "pending")
  /\ \A w \in Worker : cur'[w] = t => cur[w] = t
  /\ loop' = loop \/ (loop.t # t /\ loop'.t # t /\ (InBoot => InBoot'))
  /\ t \in Confirmed /\ First(t)' /\ meta'[t].status = "pending" /\ meta[t].status # "pending"
       => Places(q[t]) = 1 \/ loop'.t = t \/ InBoot'

\* Such a step leaves task t found.
LEMMA FoundKept ==
  ASSUME NEW t \in Task, Found(t), Aside(t)
  PROVE  Found(t)'
<1> USE DEF Aside
<1>1. Unseen(t)'
  BY DEF Found, Unseen, Tame, Likened
<1>2. First(t)' => First(t)
  BY DEF First, Counted, Tame
<1>3. t \in Confirmed => OnlyCounted(t)'
  BY DEF Found, OnlyCounted, Counted, Tame
<1>4. \A w \in Worker : Holds(w, t)' => Holds(w, t)
  BY DEF Holds
<1>5. ASSUME OnePlace(t) PROVE OnePlace(t)'
  <2>1. \A w \in Worker : Holds(w, t)' => Leased(w, t)'
    BY <1>4, <1>5 DEF OnePlace, Likened, Leased
  <2> QED BY <1>5, <2>1 DEF OnePlace, Likened
<1>6. ASSUME t \in Confirmed, First(t)', Awaited(t) PROVE Awaited(t)'
  BY <1>6 DEF Awaited, Likened, InBoot
<1> QED BY <1>1, <1>2, <1>3, <1>5, <1>6 DEF Found

\* A step that touches nothing of task t at all.
LEMMA FoundUntouched ==
  ASSUME TypeOK, NEW t \in Task, Found(t), meta'[t] = meta[t], q'[t] = q[t], handoff'[t] = handoff[t],
         t \in scan' => t \in scan, \A w \in Worker : cur'[w] = t => cur[w] = t,
         loop' = loop \/ (loop.t # t /\ loop'.t # t /\ (InBoot => InBoot'))
  PROVE  Found(t)'
<1>1. Tame(meta[t], meta'[t])
  BY SameTame
<1>2. Likened(t)
  BY DEF Likened, Leased
<1> QED BY <1>1, <1>2, FoundKept DEF Aside

\* A step that only writes one record, and makes a task pending only if it is that of
\* a coroutine, or if it counts a retry.
LEMMA FoundWritten ==
  ASSUME TypeOK, NEW t \in Task, Found(t), UNCHANGED <<q, loop, cur, scan, handoff>>,
         NEW u, NEW m, meta' = [meta EXCEPT ![u] = m], u \in Task => Tame(meta[u], m),
         m.status = "pending" => \/ meta[u].status = "pending" \/ m.retries + m.infra > 0
                                 \/ \E w \in Worker : cur[w] = u
  PROVE  Found(t)'
<1>1. CASE u # t
  <2>1. meta'[t] = meta[t]
    BY <1>1 DEF TypeOK
  <2> QED BY <2>1, FoundUntouched
<1>2. CASE u = t
  <2>1. meta'[t] = m
    BY <1>2 DEF TypeOK
  <2>2. Likened(t)
    BY DEF Likened, Leased
  <2>3. ASSUME t \in Confirmed, First(t), NEW w \in Worker, cur[w] = t PROVE Places(q[t]) = 1
    <3>1. Places(q[t]) \in Nat /\ Places(q[t]) <= 1 /\ q[t].lease = "live"
      BY <2>3, QueuePlaces DEF Found, OnePlace, Holds, Leased, TypeOK
    <3>2. Places(q[t]) > 0
      BY <3>1, QueuePlaces DEF TypeOK
    <3> QED BY <3>1, <3>2
  <2>4. First(t)' => First(t) /\ ~(m.retries + m.infra > 0)
    BY <1>2, <2>1 DEF First, Counted, Tame
  <2>5. Aside(t)
    BY <1>2, <2>1, <2>2, <2>3, <2>4 DEF Aside
  <2> QED BY <2>5, FoundKept
<1> QED BY <1>1, <1>2

\* A step on task t itself.
LEMMA FoundMoved ==
  ASSUME NEW t \in Task, Found(t), Tame(meta[t], meta'[t]),
         meta[t].status \notin {"none", "initializing"},
         handoff'[t] \in {handoff[t], "none"}, t \in scan' => t \in scan,
         loop'.at = "orphan" /\ loop'.t = t => loop' = loop,
         t \in Confirmed /\ First(t) /\ First(t)' => OnePlace(t)' /\ Awaited(t)'
  PROVE  Found(t)'
<1>1. Unseen(t)'
  BY DEF Unseen, Tame
<1>2. First(t)' => First(t)
  BY DEF First, Counted, Tame
<1>3. t \in Confirmed => OnlyCounted(t)'
  BY DEF Found, OnlyCounted, Counted, Tame
<1> QED BY <1>1, <1>2, <1>3 DEF Found

\* A first attempt with a live lease is nowhere else, and one in a list has none.
LEMMA OneLease ==
  ASSUME TypeOK, NEW t \in Task, OnePlace(t), q[t].lease # "none"
  PROVE  Places(q[t]) = 1 /\ q[t].known
<1>1. Places(q[t]) \in Nat /\ Places(q[t]) > 0 /\ Places(q[t]) <= 1
  BY QueuePlaces DEF OnePlace, TypeOK
<1> QED BY <1>1 DEF OnePlace

\* recover() takes a first attempt out of its lease and puts it into a list.
LEMMA FoundRecover ==
  ASSUME FoundInv, TypeOK, HoldOK, Recover, NEW t \in Task
  PROVE  Found(t)'
<1> USE DEF apiVars
<1>0. /\ Found(t) /\ q[t] \in R!Entry /\ meta[t] \in Meta
      /\ t # NoTask /\ (loop.at = "recover" => loop.t # t)
  BY QueueConstants DEF FoundInv, TypeOK, LoopOK, TaskSections
<1>1. ASSUME NEW u \in Task, RecoverTake(u) PROVE Found(t)'
  <2>1. /\ loop' = At("recovered", loop.w, u) /\ loop.at = "recover" /\ q[u].lease = "expired"
        /\ meta' = meta /\ handoff' = handoff /\ scan' = scan /\ cur' = cur
        /\ q' = [q EXCEPT ![u] = R!DropExpired(@)]
    BY <1>1 DEF RecoverTake
  <2>2. CASE u # t
    <3>1. q'[t] = q[t]
      BY <2>1, <2>2 DEF TypeOK
    <3> QED BY <1>0, <2>1, <2>2, <3>1, FoundUntouched DEF InBoot, At
  <2>3. CASE u = t
    <3>1. q'[t] = R!DropExpired(q[t])
      BY <2>1, <2>3 DEF TypeOK
    <3>2. meta[t].status \notin {"none", "initializing"}
      BY <1>0, <2>1, <2>3 DEF Found, Unseen, R!NoEntry
    <3>3. ASSUME t \in Confirmed, First(t) PROVE OnePlace(t)' /\ Awaited(t)'
      <4>1. OnePlace(t)
        BY <1>0, <3>3 DEF Found
      <4>2. Places(q'[t]) = 0 /\ q'[t].known
        BY <1>0, <2>1, <2>3, <3>1, <4>1, OneLease, QueuePlaces
      <4>3. \A w \in Worker : cur'[w] # t
        BY <2>1, <2>3, <4>1 DEF OnePlace, Holds, Leased
      <4>4. OnePlace(t)'
        BY <2>1, <4>2, <4>3 DEF OnePlace, Holds, UnderLease, At
      <4> QED BY <2>1, <2>3, <4>4 DEF Awaited, At
    <3>4. Tame(meta[t], meta'[t])
      BY <2>1, SameTame
    <3> QED BY <1>0, <2>1, <3>2, <3>3, <3>4, FoundMoved DEF At
  <2> QED BY <2>2, <2>3
<1>2. CASE RecoverStatus
  <2> DEFINE m == meta[loop.t]
             n == IF m.status = "running" /\ m.evidence THEN MarkSubmitted(m) ELSE MarkPending(m)
             e == IF m.status \in {"running", "pending"} THEN q[loop.t] ELSE R!SRem(q[loop.t])
  <2>1. /\ loop.at = "recovered" /\ handoff' = handoff /\ scan' = scan /\ cur' = cur
        /\ meta' = [meta EXCEPT ![loop.t] = n] /\ q' = [q EXCEPT ![loop.t] = e]
        /\ loop' = IF n.status = "pending" THEN At("push", loop.w, loop.t) ELSE At("recover", loop.w, NoTask)
    BY <1>2 DEF RecoverStatus
  <2>2. CASE loop.t # t
    <3>1. meta'[t] = meta[t] /\ q'[t] = q[t]
      BY <2>1, <2>2 DEF TypeOK
    <3> HIDE DEF n
    <3>2. loop'.t # t /\ (InBoot => InBoot')
      BY <1>0, <2>1, <2>2 DEF InBoot, At
    <3> QED BY <1>0, <2>1, <2>2, <3>1, <3>2, FoundUntouched
  <2>3. CASE loop.t = t
    <3>1. meta'[t] = n /\ q'[t] = e
      BY <2>1, <2>3 DEF TypeOK
    <3>2. Tame(meta[t], n)
      BY <1>0, <2>3, StoreTame
    <3>3. meta[t].status \notin {"none", "initializing"}
      BY <1>0, <2>3 DEF Found, Unseen
    <3>4. n.status # "pending" => n.status # "running"
      BY <1>0, <2>3 DEF MarkSubmitted, MarkPending, Meta
    <3> HIDE DEF n
    <3>5. ASSUME t \in Confirmed, First(t), First(t)' PROVE OnePlace(t)' /\ Awaited(t)'
      <4>1. OnePlace(t) /\ q'[t] = q[t]
        BY <1>0, <2>3, <3>1, <3>5 DEF Found, First
      <4>2. loop' = At("push", loop.w, t)
        BY <2>1, <2>3, <3>1, <3>4, <3>5 DEF First
      <4>3. OnePlace(t)'
        BY <2>1, <2>3, <4>1, <4>2 DEF OnePlace, Holds, InHand, UnderLease, At
      <4> QED BY <4>2, <4>3 DEF Awaited, At
    <3>6. loop'.at # "orphan"
      BY <2>1 DEF At
    <3> QED BY <1>0, <2>1, <3>1, <3>2, <3>3, <3>5, <3>6, FoundMoved
  <2> QED BY <2>2, <2>3
<1>3. CASE RecoverPush
  <2>1. /\ loop.at = "push" /\ loop' = At("recover", loop.w, NoTask)
        /\ meta' = meta /\ handoff' = handoff /\ scan' = scan /\ cur' = cur
        /\ q' = [q EXCEPT ![loop.t] = R!LPush(@, IsRetry(loop.t))]
    BY <1>3 DEF RecoverPush
  <2>2. CASE loop.t # t
    <3>1. q'[t] = q[t]
      BY <2>1, <2>2 DEF TypeOK
    <3> QED BY <1>0, <2>1, <2>2, <3>1, FoundUntouched DEF InBoot, At
  <2>3. CASE loop.t = t
    <3>1. q'[t] = R!LPush(q[t], IsRetry(t)) /\ IsRetry(t) \in BOOLEAN
      BY <2>1, <2>3 DEF TypeOK, IsRetry, MetaIsRetry
    <3>2. meta[t].status \notin {"none", "initializing"}
      BY <1>0, <2>3 DEF Found, Unseen
    <3>3. ASSUME t \in Confirmed, First(t) PROVE OnePlace(t)' /\ Awaited(t)'
      <4>1. OnePlace(t)
        BY <1>0, <3>3 DEF Found
      <4>2. Places(q[t]) = 0 /\ q[t].known /\ \A w \in Worker : cur[w] # t
        BY <2>1, <2>3, <4>1 DEF OnePlace, InHand
      <4>3. Places(q'[t]) = 1 /\ q'[t].known
        BY <1>0, <3>1, <4>2, QueuePlaces
      <4> QED BY <1>0, <2>1, <4>2, <4>3 DEF OnePlace, Awaited, Holds, At
    <3>4. Tame(meta[t], meta'[t])
      BY <2>1, SameTame
    <3> QED BY <1>0, <2>1, <3>2, <3>3, <3>4, FoundMoved DEF At
  <2> QED BY <2>2, <2>3
<1> QED BY <1>1, <1>2, <1>3 DEF Recover

\* release() of the live lease of a first attempt leaves it in one place, or, when it
\* is not pending any more, in none.
LEMMA ReleasePlaces ==
  ASSUME TypeOK, NEW t \in Task, OnePlace(t), q[t].lease = "live", NEW w, q[t].owner = w
  PROVE  /\ Places(Release(t, w)) <= 1 /\ (Places(Release(t, w)) = 1 => Release(t, w).known)
         /\ meta[t].status = "pending" => Places(Release(t, w)) = 1
<1>1. Places(q[t]) = 1 /\ q[t].known /\ q[t] \in R!Entry
  BY OneLease DEF TypeOK
<1>2. IsRetry(t) \in BOOLEAN /\ meta[t].waiting \in BOOLEAN
  BY DEF IsRetry, MetaIsRetry, TypeOK, Meta
<1>3. /\ Places(R!DelayOwned(q[t], w, IsRetry(t), meta[t].waiting)) = 1
      /\ R!DelayOwned(q[t], w, IsRetry(t), meta[t].waiting).known
  BY <1>1, <1>2, QueuePlaces
<1>4. Places(R!AckOwned(q[t], w)) = 0
  BY <1>1, QueuePlaces
<1> QED BY <1>3, <1>4 DEF Release

\* The section of a claim takes a first attempt from a list into a lease, or puts it
\* back, or forgets one that is not pending.
LEMMA FoundClaim ==
  ASSUME FoundInv, Undisturbed', TypeOK, HoldOK, Claim, NEW t \in Task
  PROVE  Found(t)'
<1> USE DEF apiVars
<1>0. /\ Found(t) /\ q[t] \in R!Entry /\ meta[t] \in Meta /\ ~paused
      /\ t # NoTask /\ Main \notin Worker
      /\ (loop.at \in {"recover", "lmove"} => loop.t # t)
      /\ (loop.at \in {"moved", "checked", "marked", "leased", "deferred"} => loop.w \in Worker)
  BY QueueConstants DEF FoundInv, TypeOK, LoopOK, TaskSections, WorkerSections, Id
<1>seen. loop.t = t => meta[t].status \notin {"none", "initializing"}
  BY <1>0 DEF Found, Unseen
<1>same. meta'[t] = meta[t] => Tame(meta[t], meta'[t])
  BY SameTame
\* A section that writes the entry of its task, and then lets go of it or goes on.
<1>entry. ASSUME NEW e, q' = [q EXCEPT ![loop.t] = e], UNCHANGED <<meta, handoff, scan, cur>>,
                 loop.w \in Worker, loop.at \notin {"down", "boot"}, loop'.at # "orphan",
                 loop'.t \in {loop.t, NoTask},
                 loop.t = t /\ t \in Confirmed /\ First(t) /\ OnePlace(t)
                   => (OnePlace(t)' /\ Awaited(t)')
          PROVE  Found(t)'
  <2>1. CASE loop.t # t
    <3>1. q'[t] = q[t] /\ ~InBoot
      BY <1>0, <1>entry, <2>1 DEF TypeOK, InBoot
    <3> QED BY <1>0, <1>entry, <2>1, <3>1, FoundUntouched
  <2>2. CASE loop.t = t
    <3>1. t \in Confirmed /\ First(t) => OnePlace(t)
      BY <1>0 DEF Found
    <3> QED BY <1>0, <1>seen, <1>same, <1>entry, <2>2, <3>1, FoundMoved
  <2> QED BY <2>1, <2>2
\* And one that lets go of it with the entry in a list, or with none when it is not
\* pending.
<1>gone. ASSUME UNCHANGED <<meta, cur>>, loop.t = t, loop.at \in InHand, loop'.t = NoTask, OnePlace(t),
                \/ Places(q'[t]) = 1 /\ q'[t].known
                \/ Places(q'[t]) = 0 /\ meta[t].status # "pending"
         PROVE  OnePlace(t)' /\ Awaited(t)'
  <2>1. loop'.t # t /\ \A w \in Worker : cur'[w] # t
    BY <1>0, <1>gone DEF OnePlace, InHand
  <2>2. OnePlace(t)'
    BY <1>gone, <2>1 DEF OnePlace, Holds
  <2> QED BY <1>gone, <2>2 DEF Awaited
<1>delay. ASSUME loop.t = t, loop.at \in InHand, OnePlace(t)
          PROVE  /\ Places(R!DelayClaimed(q[t], IsRetry(t), TRUE)) = 1
                 /\ R!DelayClaimed(q[t], IsRetry(t), TRUE).known
  <2>1. Places(q[t]) = 0 /\ q[t].known
    BY <1>delay DEF OnePlace
  <2>2. ASSUME NEW retry \in BOOLEAN, NEW future \in BOOLEAN
        PROVE  Places(R!DelayClaimed(q[t], retry, future)) = 1 /\ R!DelayClaimed(q[t], retry, future).known
    BY <1>0, <2>1 DEF Places, Flag, R!Entry, R!DelayClaimed, R!When
  <2>3. IsRetry(t) \in BOOLEAN /\ TRUE \in BOOLEAN
    BY DEF IsRetry, MetaIsRetry
  <2> QED BY <2>2, <2>3, Zenon
<1>1. ASSUME NEW u \in Task, NEW retry \in BOOLEAN, ClaimMove(u, retry) PROVE Found(t)'
  <2>1. /\ loop' = At("moved", loop.w, u) /\ loop.at = "lmove"
        /\ IF retry THEN q[u].retryReady > 0 ELSE q[u].ready > 0
        /\ meta' = meta /\ handoff' = handoff /\ scan' = scan /\ cur' = cur
        /\ q' = [q EXCEPT ![u] = R!LMove(@, retry)]
    BY <1>1 DEF ClaimMove
  <2>2. CASE u # t
    <3>1. q'[t] = q[t] /\ loop'.t # t /\ (InBoot => InBoot')
      BY <2>1, <2>2 DEF TypeOK, InBoot, At
    <3> QED BY <1>0, <2>1, <2>2, <3>1, FoundUntouched
  <2>3. CASE u = t
    <3>1. q'[t] = R!LMove(q[t], retry) /\ loop'.t = t /\ loop'.at = "moved"
      BY <2>1, <2>3 DEF TypeOK, At
    <3>2. meta[t].status \notin {"none", "initializing"}
      BY <1>0, <2>1, <2>3 DEF Found, Unseen, R!NoEntry
    <3>3. ASSUME t \in Confirmed, First(t) PROVE OnePlace(t)' /\ Awaited(t)'
      <4>1. OnePlace(t)
        BY <1>0, <3>3 DEF Found
      <4>2. /\ Places(q[t]) = 1 /\ q[t].lease = "none" /\ q[t].known
            /\ Places(q'[t]) = 0 /\ q'[t].known
        BY <1>0, <2>1, <2>3, <3>1, <4>1, QueuePlaces DEF OnePlace
      <4>3. \A w \in Worker : cur'[w] # t
        BY <2>1, <4>1, <4>2 DEF OnePlace, Holds, Leased
      <4>4. OnePlace(t)'
        BY <3>1, <4>2, <4>3 DEF OnePlace, Holds, UnderLease
      <4> QED BY <3>1, <4>4 DEF Awaited
    <3> QED BY <1>0, <1>same, <2>1, <3>1, <3>2, <3>3, FoundMoved
  <2> QED BY <2>2, <2>3
<1>2. CASE ClaimPromote
  <2>1. /\ loop' = At("lmove", loop.w, NoTask) /\ loop.at = "recover" /\ loop.w # Main
        /\ meta' = meta /\ handoff' = handoff /\ scan' = scan /\ cur' = cur
        /\ q'[t] = R!Promote(q[t])
    BY <1>2 DEF ClaimPromote
  <2>2. /\ Places(q'[t]) = Places(q[t]) /\ q'[t].known = q[t].known
        /\ q'[t].owner = q[t].owner /\ q'[t].lease = q[t].lease
    BY <1>0, <2>1 DEF R!Entry, R!Promote, Places, Flag
  <2>3. q[t] = R!NoEntry => q'[t] = R!NoEntry
    <3>1. R!Promote(R!NoEntry) = R!NoEntry
      BY DEF R!NoEntry, R!Promote
    <3> QED BY <2>1, <3>1
  <2>4. Likened(t) /\ ~InBoot /\ loop'.t # t
    BY <1>0, <2>1, <2>2, <2>3 DEF Likened, Leased, InBoot, At
  <2>5. Aside(t)
    BY <1>0, <1>same, <2>1, <2>4 DEF Aside
  <2> QED BY <1>0, <2>5, FoundKept
<1>3. CASE ClaimEmpty
  <2>1. loop' = Free /\ loop.at = "lmove" /\ loop.w \in Worker
    BY <1>3 DEF ClaimEmpty, TypeOK, LoopOK, WorkerSections
  <2>2. loop'.t # t /\ ~InBoot
    BY <1>0, <2>1 DEF InBoot, Free, At
  <2> QED BY <1>0, <1>3, <2>1, <2>2, FoundUntouched DEF ClaimEmpty
<1>4. CASE ClaimCheck
  <2>1. /\ loop.at = "moved" /\ UNCHANGED <<meta, handoff, scan, cur>>
        /\ \/ /\ meta[loop.t].status # "pending" /\ q' = [q EXCEPT ![loop.t] = R!Ack(@)]
              /\ loop' = At("lmove", loop.w, NoTask)
           \/ /\ q' = [q EXCEPT ![loop.t] = R!DelayClaimed(@, IsRetry(loop.t), TRUE)]
              /\ loop' = At("lmove", loop.w, NoTask)
           \/ q' = q /\ loop' = At("checked", loop.w, loop.t)
    BY <1>4 DEF ClaimCheck
  <2>2. CASE meta[loop.t].status # "pending" /\ q' = [q EXCEPT ![loop.t] = R!Ack(@)]
             /\ loop' = At("lmove", loop.w, NoTask)
    <3>1. ASSUME loop.t = t, t \in Confirmed, First(t), OnePlace(t) PROVE OnePlace(t)' /\ Awaited(t)'
      <4>1. Places(q'[t]) = 0
        BY <1>0, <2>2, <3>1, QueuePlaces DEF TypeOK, R!Ack
      <4> QED BY <1>gone, <2>1, <2>2, <3>1, <4>1 DEF At, InHand
    <3> QED BY <1>0, <1>entry, <2>1, <2>2, <3>1 DEF At
  <2>3. CASE q' = [q EXCEPT ![loop.t] = R!DelayClaimed(@, IsRetry(loop.t), TRUE)]
             /\ loop' = At("lmove", loop.w, NoTask)
    <3>1. ASSUME loop.t = t, t \in Confirmed, First(t), OnePlace(t) PROVE OnePlace(t)' /\ Awaited(t)'
      <4>1. q'[t] = R!DelayClaimed(q[t], IsRetry(t), TRUE)
        BY <2>3, <3>1 DEF TypeOK
      <4>2. loop.at \in InHand /\ loop'.t = NoTask
        BY <2>1, <2>3 DEF InHand, At
      <4> QED BY <1>gone, <1>delay, <2>1, <3>1, <4>1, <4>2
    <3> QED BY <1>0, <1>entry, <2>1, <2>3, <3>1 DEF At
  <2>4. CASE q' = q /\ loop' = At("checked", loop.w, loop.t)
    <3>1. ASSUME loop.t = t, t \in Confirmed, First(t), OnePlace(t) PROVE OnePlace(t)' /\ Awaited(t)'
      <4>1. Places(q[t]) = 0 /\ q[t].known /\ \A w \in Worker : cur[w] # t
        BY <2>1, <3>1 DEF OnePlace, InHand
      <4> QED BY <2>1, <2>4, <3>1, <4>1 DEF OnePlace, Awaited, Holds, UnderLease, At
    <3>2. q' = [q EXCEPT ![loop.t] = q[loop.t]]
      BY <2>4 DEF TypeOK
    <3> QED BY <1>0, <1>entry, <2>1, <2>4, <3>1, <3>2 DEF At
  <2> QED BY <2>1, <2>2, <2>3, <2>4
<1>5. CASE ClaimMark
  <2>1. /\ loop.at = "checked" /\ meta[loop.t].status = "pending" /\ UNCHANGED <<q, handoff, scan, cur>>
        /\ meta' = [meta EXCEPT ![loop.t] = ClaimTask(@, loop.w)] /\ loop' = At("marked", loop.w, loop.t)
    BY <1>5 DEF ClaimMark, MayMarkRunning
  <2>2. CASE loop.t # t
    <3>1. meta'[t] = meta[t] /\ ~InBoot
      BY <1>0, <2>1, <2>2 DEF TypeOK, InBoot
    <3> QED BY <1>0, <2>1, <2>2, <3>1, FoundUntouched DEF At
  <2>3. CASE loop.t = t
    <3>1. meta'[t] = ClaimTask(meta[t], loop.w) /\ Tame(meta[t], meta'[t])
      BY <1>0, <2>1, <2>3, StoreTame DEF TypeOK
    <3>2. ASSUME t \in Confirmed, First(t) PROVE OnePlace(t)' /\ Awaited(t)'
      <4>1. OnePlace(t)
        BY <1>0, <3>2 DEF Found
      <4> QED BY <2>1, <2>3, <4>1 DEF OnePlace, Awaited, Holds, InHand, UnderLease, At
    <3> QED BY <1>0, <1>seen, <2>1, <2>3, <3>1, <3>2, FoundMoved DEF At
  <2> QED BY <2>2, <2>3
<1>6. CASE ClaimRefused
  <2> DEFINE e == IF OwnerOf[loop.t] \in limits THEN R!DelayClaimed(q[loop.t], IsRetry(loop.t), TRUE)
                                                ELSE R!Ack(q[loop.t])
  <2>1. /\ loop.at = "checked" /\ ~MayMarkRunning(loop.t) /\ UNCHANGED <<meta, handoff, scan, cur>>
        /\ q' = [q EXCEPT ![loop.t] = e] /\ loop' = At("lmove", loop.w, NoTask)
    BY <1>6 DEF ClaimRefused
  <2>2. ASSUME loop.t = t, t \in Confirmed, First(t), OnePlace(t) PROVE OnePlace(t)' /\ Awaited(t)'
    <3>1. loop.at \in InHand /\ loop'.t = NoTask /\ q'[t] = e
      BY <2>1, <2>2 DEF TypeOK, InHand, At
    <3>2. CASE OwnerOf[t] \in limits
      <4>1. q'[t] = R!DelayClaimed(q[t], IsRetry(t), TRUE)
        BY <2>2, <3>1, <3>2
      <4> QED BY <1>gone, <1>delay, <2>1, <2>2, <3>1, <4>1
    <3>3. CASE OwnerOf[t] \notin limits
      <4>1. meta[t].status # "pending"
        BY <1>0, <2>1, <2>2, <3>3 DEF MayMarkRunning, AtCapacity
      <4>2. Places(q'[t]) = 0
        BY <1>0, <2>2, <3>1, <3>3, QueuePlaces DEF R!Ack
      <4> QED BY <1>gone, <2>1, <2>2, <3>1, <4>1, <4>2
    <3> QED BY <3>2, <3>3
  <2> HIDE DEF e
  <2> QED BY <1>0, <1>entry, <2>1, <2>2 DEF At
<1>7. CASE ClaimLease
  <2>1. /\ loop.at = "marked" /\ UNCHANGED <<meta, handoff, scan, cur>>
        /\ q' = [q EXCEPT ![loop.t] = R!TakeLease(@, loop.w)] /\ loop' = At("leased", loop.w, loop.t)
    BY <1>7 DEF ClaimLease
  <2>2. ASSUME loop.t = t, t \in Confirmed, First(t), OnePlace(t) PROVE OnePlace(t)' /\ Awaited(t)'
    <3>1. Places(q[t]) = 0 /\ q[t].known /\ \A w \in Worker : cur[w] # t
      BY <2>1, <2>2 DEF OnePlace, InHand
    <3>2. q'[t] = R!TakeLease(q[t], loop.w)
      BY <2>1, <2>2 DEF TypeOK
    <3>3. Places(q'[t]) = 1 /\ q'[t].known /\ q'[t].owner = loop.w /\ q'[t].lease = "live"
      BY <1>0, <3>1, <3>2, QueuePlaces
    <3> QED BY <2>1, <2>2, <3>1, <3>3 DEF OnePlace, Awaited, Holds, Leased, InHand, At
  <2> QED BY <1>0, <1>entry, <2>1, <2>2 DEF At
<1>8. CASE ClaimAccept
  <2>1. /\ loop.at = "leased" /\ UNCHANGED <<meta, q, handoff, scan>>
        /\ cur' = [cur EXCEPT ![loop.w] = loop.t] /\ loop' = Free
    BY <1>8 DEF ClaimAccept
  <2>2. CASE loop.t # t
    <3>1. loop'.t # t /\ ~InBoot /\ \A w \in Worker : cur'[w] = t => cur[w] = t
      BY <1>0, <2>1, <2>2 DEF TypeOK, InBoot, Free, At
    <3> QED BY <1>0, <2>1, <2>2, <3>1, FoundUntouched
  <2>3. CASE loop.t = t
    <3>1. ASSUME t \in Confirmed, First(t) PROVE OnePlace(t)' /\ Awaited(t)'
      <4>1. OnePlace(t) /\ Leased(loop.w, t)
        BY <1>0, <2>1, <2>3, <3>1 DEF Found, OnePlace, Holds, UnderLease
      <4>2. Places(q[t]) = 1 /\ q[t].known
        BY <4>1, OneLease DEF Leased
      <4>3. \A w \in Worker : cur'[w] = t => w = loop.w
        BY <2>1, <2>3, <4>1 DEF TypeOK, OnePlace
      <4> QED BY <1>0, <2>1, <4>1, <4>2, <4>3 DEF OnePlace, Awaited, Holds, Leased, Free, At
    <3> QED BY <1>0, <1>seen, <1>same, <2>1, <2>3, <3>1, FoundMoved DEF Free, At
  <2> QED BY <2>2, <2>3
<1>9. CASE ClaimDefer
  <2>1. /\ loop.at = "leased" /\ UNCHANGED <<q, handoff, scan, cur>>
        /\ meta' = [meta EXCEPT ![loop.t] = DeferTask(@)] /\ loop' = At("deferred", loop.w, loop.t)
    BY <1>9 DEF ClaimDefer
  <2>2. CASE loop.t # t
    <3>1. meta'[t] = meta[t] /\ ~InBoot
      BY <1>0, <2>1, <2>2 DEF TypeOK, InBoot
    <3> QED BY <1>0, <2>1, <2>2, <3>1, FoundUntouched DEF At
  <2>3. CASE loop.t = t
    <3>1. meta'[t] = DeferTask(meta[t]) /\ Tame(meta[t], meta'[t])
      BY <1>0, <2>1, <2>3, StoreTame DEF TypeOK
    <3>2. ASSUME t \in Confirmed, First(t) PROVE OnePlace(t)' /\ Awaited(t)'
      <4>1. OnePlace(t)
        BY <1>0, <3>2 DEF Found
      <4> QED BY <2>1, <2>3, <4>1 DEF OnePlace, Awaited, Holds, Leased, InHand, UnderLease, At
    <3> QED BY <1>0, <1>seen, <2>1, <2>3, <3>1, <3>2, FoundMoved DEF At
  <2> QED BY <2>2, <2>3
<1>10. CASE ClaimDeferRelease
  <2>1. /\ loop.at = "deferred" /\ UNCHANGED <<meta, handoff, scan, cur>>
        /\ q' = [q EXCEPT ![loop.t] = Release(loop.t, loop.w)] /\ loop' = At("recover", loop.w, NoTask)
    BY <1>10 DEF ClaimDeferRelease
  <2>2. ASSUME loop.t = t, t \in Confirmed, First(t), OnePlace(t) PROVE OnePlace(t)' /\ Awaited(t)'
    <3>1. Leased(loop.w, t) /\ \A w \in Worker : cur[w] # t
      BY <1>0, <2>1, <2>2 DEF OnePlace, Holds, UnderLease
    <3>2. q'[t] = Release(t, loop.w)
      BY <2>1, <2>2 DEF TypeOK
    <3>3. /\ Places(q'[t]) <= 1 /\ (Places(q'[t]) = 1 => q'[t].known)
          /\ meta[t].status = "pending" => Places(q'[t]) = 1
      BY <2>2, <3>1, <3>2, ReleasePlaces DEF Leased
    <3> QED BY <1>0, <2>1, <3>1, <3>3 DEF OnePlace, Awaited, Holds, At
  <2> QED BY <1>0, <1>entry, <2>1, <2>2 DEF At
<1>11. CASE ClaimRaises
  BY <1>11 DEF ClaimRaises, Disturb, Undisturbed, TypeOK, Kinds
<1> QED BY <1>1, <1>2, <1>3, <1>4, <1>5, <1>6, <1>7, <1>8, <1>9, <1>10, <1>11 DEF Claim

\* The API process: a task becomes pending with its enqueue under way.
LEMMA FoundApi ==
  ASSUME FoundInv, Undisturbed', TypeOK, HoldOK, Api, NEW t \in Task
  PROVE  Found(t)'
<1> USE DEF apiVars, workerVars
<1>0. Found(t) /\ q[t] \in R!Entry /\ meta[t] \in Meta /\ ~paused
  BY DEF FoundInv, TypeOK
<1>1. ASSUME NEW u \in Task, Create(u) \/ CreationFails(u) \/ Expire(u) \/ PauseCancel(u)
                            \/ \E admin \in BOOLEAN : CancelTask(u, admin)
      PROVE  Found(t)'
  <2> DEFINE r == meta[u]
  <2>0. r \in Meta
    BY DEF TypeOK
  <2>1. CASE Create(u)
    <3>1. Tame(r, CreateTask(r)) /\ CreateTask(r).status # "pending"
      BY <2>0, <2>1, StoreTame DEF Create, CreateTask, Meta
    <3> QED BY <1>0, <2>1, <3>1, FoundWritten DEF Create
  <2>2. CASE CreationFails(u)
    <3>1. Tame(r, DeleteTask(r)) /\ DeleteTask(r).status # "pending"
      BY <2>0, <2>2, StoreTame DEF CreationFails, DeleteTask, Meta
    <3> QED BY <1>0, <2>2, <3>1, FoundWritten DEF CreationFails
  <2>3. CASE Expire(u)
    <3>1. Tame(r, MarkFailed(r)) /\ MarkFailed(r).status # "pending"
      BY <2>0, <2>3, StoreTame DEF Expire, MarkFailed, Meta
    <3> QED BY <1>0, <2>3, <3>1, FoundWritten DEF Expire
  <2>4. Tame(r, r) /\ Tame(r, RequestTaskCancel(r)) /\ RequestTaskCancel(r).status # "pending"
    BY <2>0, SameTame, StoreTame DEF RequestTaskCancel, Meta
  <2>5. CASE PauseCancel(u)
    <3>1. PICK m : /\ meta' = [meta EXCEPT ![u] = m] /\ m \in {r, RequestTaskCancel(r)}
      BY <2>5, Zenon DEF PauseCancel
    <3>2. UNCHANGED <<q, loop, cur, scan, handoff>>
      BY <2>5 DEF PauseCancel
    <3> HIDE DEF r
    <3>3. Tame(r, m) /\ (m.status = "pending" => r.status = "pending")
      BY <2>4, <3>1
    <3> QED BY <1>0, <3>1, <3>2, <3>3, FoundWritten DEF r
  <2>6. ASSUME NEW admin \in BOOLEAN, CancelTask(u, admin) PROVE Found(t)'
    BY <1>0, <2>4, <2>6, FoundWritten DEF CancelTask
  <2> QED BY <1>1, <2>1, <2>2, <2>3, <2>5, <2>6
<1>2. ASSUME NEW u \in Task, Finalize(u) PROVE Found(t)'
  <2>1. /\ meta[u].status = "initializing" /\ UNCHANGED <<q, loop, cur, scan>>
        /\ meta' = [meta EXCEPT ![u] = FinalizeTaskCreation(@)] /\ handoff' = [handoff EXCEPT ![u] = "enqueue"]
    BY <1>2 DEF Finalize
  <2>2. CASE u # t
    <3>1. meta'[t] = meta[t] /\ handoff'[t] = handoff[t]
      BY <2>1, <2>2 DEF TypeOK
    <3> QED BY <1>0, <2>1, <3>1, FoundUntouched
  <2>3. CASE u = t
    <3>1. meta'[t].status = "pending" /\ handoff'[t] = "enqueue"
      BY <1>0, <2>1, <2>3 DEF TypeOK, FinalizeTaskCreation, Meta
    <3>2. /\ q'[t] = R!NoEntry /\ loop'.t # t /\ t \notin scan'
          /\ \A w \in Worker : cur'[w] # t
      BY <1>0, <2>1, <2>3 DEF Found, Unseen
    <3>3. Places(q'[t]) = 0 /\ ~q'[t].known
      <4>1. Places(R!NoEntry) = 0
        BY <1>0, QueuePlaces
      <4>2. ~R!NoEntry.known
        BY DEF R!NoEntry
      <4> QED BY <3>2, <4>1, <4>2
    <3>4. OnePlace(t)' /\ Awaited(t)'
      BY <3>1, <3>2, <3>3 DEF OnePlace, Awaited, Holds
    <3>5. OnlyCounted(t)'
      BY <3>1, <3>2 DEF OnlyCounted
    <3> QED BY <3>1, <3>4, <3>5 DEF Found, Unseen
  <2> QED BY <2>2, <2>3
<1>3. ASSUME NEW u \in Task, EnqueueNew(u) PROVE Found(t)'
  <2>1. /\ handoff[u] = "enqueue" /\ handoff' = [handoff EXCEPT ![u] = "none"] /\ UNCHANGED <<meta, loop, cur, scan>>
        /\ q' = [q EXCEPT ![u] = R!Enqueue(@, IsRetry(u), meta[u].waiting)]
    BY <1>3 DEF EnqueueNew
  <2>2. CASE u # t
    <3>1. q'[t] = q[t] /\ handoff'[t] = handoff[t]
      BY <2>1, <2>2 DEF TypeOK
    <3> QED BY <1>0, <2>1, <3>1, FoundUntouched
  <2>3. CASE u = t
    <3>1. q'[t] = R!Enqueue(q[t], IsRetry(t), meta[t].waiting) /\ handoff'[t] = "none"
      BY <2>1, <2>3 DEF TypeOK
    <3>2. IsRetry(t) \in BOOLEAN /\ meta[t].waiting \in BOOLEAN
      BY <1>0 DEF IsRetry, MetaIsRetry, Meta
    <3>3. meta[t].status \notin {"none", "initializing"}
      BY <1>0, <2>1, <2>3 DEF Found, Unseen
    <3>4. ASSUME t \in Confirmed, First(t) PROVE OnePlace(t)' /\ Awaited(t)'
      <4>1. OnePlace(t) /\ Awaited(t) /\ OnlyCounted(t)
        BY <1>0, <3>4 DEF Found
      <4>2. CASE q[t].known
        <5>1. q'[t] = q[t]
          BY <1>0, <3>1, <3>2, <4>2, QueuePlaces
        <5>2. OnePlace(t)'
          BY <2>1, <4>1, <5>1 DEF OnePlace, Holds, Leased
        <5>3. Awaited(t)'
          BY <2>1, <4>1, <4>2, <5>1 DEF Awaited, InBoot
        <5> QED BY <5>2, <5>3
      <4>3. CASE ~q[t].known
        <5>1. Places(q[t]) = 0 /\ q[t].lease = "none"
          BY <1>0, <4>1, <4>3, QueuePlaces, OneLease DEF OnePlace
        <5>2. Places(q'[t]) = 1 /\ q'[t].known
          BY <1>0, <3>1, <3>2, <4>3, <5>1, QueuePlaces
        <5>3. ~(loop.t = t /\ loop.at \in InHand) /\ \A w \in Worker : ~Holds(w, t)
          BY <4>1, <4>3, <5>1 DEF OnePlace, Leased
        <5> QED BY <2>1, <4>1, <5>2, <5>3 DEF OnePlace, Awaited, Holds
      <4> QED BY <4>2, <4>3
    <3>5. Tame(meta[t], meta'[t])
      BY <2>1, SameTame
    <3> QED BY <1>0, <2>1, <3>1, <3>3, <3>4, <3>5, FoundMoved
  <2> QED BY <2>2, <2>3
<1>4. CASE Pause \/ ApiRestart
  BY <1>4 DEF Pause, ApiRestart, Disturb, Undisturbed, TypeOK, Kinds
<1>5. CASE Resume
  BY <1>0, <1>5 DEF Resume
<1> QED BY <1>1, <1>2, <1>3, <1>4, <1>5 DEF Api

\* Queries: a task of doubao or qianwen that goes back to pending has been counted.
LEMMA FoundResults ==
  ASSUME FoundInv, TypeOK, HoldOK, Results, NEW t \in Task
  PROVE  Found(t)'
<1> USE DEF apiVars, workerVars
<1>0. Found(t) /\ q[t] \in R!Entry /\ meta[t] \in Meta
  BY DEF FoundInv, TypeOK
<1> SUFFICES ASSUME NEW u \in Task, ResultFinished(u) \/ LateResult(u) \/ ResultRetry(u) \/ RequeuePending(u)
             PROVE  Found(t)'
  BY DEF Results
<1> DEFINE r == meta[u]
<1>r. r \in Meta
  BY DEF TypeOK
<1>1. CASE ResultFinished(u)
  <2>1. \A m \in {MarkSuccess(r), MarkFailed(r), GiveUpWaiting(r)} : Tame(r, m) /\ m.status # "pending"
    <3>1. Tame(r, MarkSuccess(r)) /\ Tame(r, MarkFailed(r)) /\ Tame(r, GiveUpWaiting(r))
      BY <1>r, StoreTame
    <3>2. MarkSuccess(r).status # "pending" /\ MarkFailed(r).status # "pending" /\ GiveUpWaiting(r).status # "pending"
      BY <1>r, <1>1 DEF ResultFinished, MarkSuccess, MarkFailed, GiveUpWaiting, Meta
    <3> QED BY <3>1, <3>2
  <2>2. PICK m \in {MarkSuccess(r), MarkFailed(r), GiveUpWaiting(r)} : meta' = [meta EXCEPT ![u] = m]
    BY <1>1, Zenon DEF ResultFinished
  <2>3. Tame(r, m) /\ m.status # "pending"
    BY <2>1, <2>2
  <2> QED BY <1>0, <1>1, <2>2, <2>3, FoundWritten DEF ResultFinished
<1>2. CASE LateResult(u)
  <2>1. \A m \in {MarkLateResultSuccess(r), EndLateWatch(r)} : Tame(r, m) /\ m.status # "pending"
    <3>1. Tame(r, MarkLateResultSuccess(r)) /\ Tame(r, EndLateWatch(r))
      BY <1>r, StoreTame
    <3>2. MarkLateResultSuccess(r).status # "pending" /\ EndLateWatch(r).status # "pending"
      BY <1>r, <1>2 DEF LateResult, MarkLateResultSuccess, EndLateWatch, Meta
    <3> QED BY <3>1, <3>2
  <2>2. PICK m \in {MarkLateResultSuccess(r), EndLateWatch(r)} : meta' = [meta EXCEPT ![u] = m]
    BY <1>2, Zenon DEF LateResult
  <2>3. Tame(r, m) /\ m.status # "pending"
    BY <2>1, <2>2
  <2> QED BY <1>0, <1>2, <2>2, <2>3, FoundWritten DEF LateResult
<1>3. CASE ResultRetry(u)
  <2>1. PICK m : /\ m \in {RetrySubmittedTask(r, limit) : limit \in {RetryLimit, PolicyLimit}}
                            \cup (IF u \in Confirmed THEN {}
                                  ELSE {RetryAmbiguousProxyTask(r), RetryAmbiguousSubmittedTask(r)})
                 /\ meta' = [meta EXCEPT ![u] = ClearTransientResult(m, u \in Confirmed)]
                 /\ handoff' = [handoff EXCEPT ![u] = IF m.status = "pending" THEN "requeue" ELSE @]
    BY <1>3, Zenon DEF ResultRetry
  <2>2. r.status = "submitted" /\ UNCHANGED <<q, loop, cur, scan>>
    BY <1>3 DEF ResultRetry
  <2>3. CASE u # t
    <3>1. meta'[t] = meta[t] /\ handoff'[t] = handoff[t]
      BY <2>1, <2>3 DEF TypeOK
    <3> QED BY <1>0, <2>2, <3>1, FoundUntouched
  <2>4. CASE u = t
    <3>1. meta'[t] = ClearTransientResult(m, t \in Confirmed)
      BY <2>1, <2>4 DEF TypeOK
    <3>2. \A limit \in {RetryLimit, PolicyLimit} : limit \in Nat
      BY StoreConstants DEF PolicyLimit
    <3>3. m \in Meta
      BY <1>r, <2>1, <3>2, RetryTypes
    <3>4. m.status \in {"pending", "failed"}
      BY <1>r, <2>1, <2>2 DEF RetrySubmittedTask, RetryAmbiguousProxyTask, RetryAmbiguousSubmittedTask, Meta
    <3>5. meta'[t].status = m.status /\ meta'[t].retries = m.retries /\ meta'[t].infra = m.infra
      BY <3>1, <3>3 DEF ClearTransientResult, Meta
    <3>6. ASSUME t \in Confirmed PROVE OnlyCounted(t)' /\ ~First(t)'
      <4>1. PICK limit \in Nat : m = RetrySubmittedTask(r, limit)
        BY <2>1, <2>4, <3>2, <3>6
      <4>2. m.retries = r.retries + 1 /\ m.infra = r.infra
        BY <1>r, <2>2, <4>1 DEF RetrySubmittedTask, Meta
      <4>3. r.retries \in Nat /\ r.infra \in Nat
        BY <1>r DEF Meta
      <4>4. m.retries + m.infra > 0
        BY <4>2, <4>3
      <4> QED BY <3>5, <4>4 DEF OnlyCounted, First, Counted
    <3>7. Unseen(t)'
      BY <3>4, <3>5 DEF Unseen
    <3> QED BY <3>6, <3>7 DEF Found
  <2> QED BY <2>3, <2>4
<1>4. CASE RequeuePending(u)
  <2>1. /\ handoff[u] = "requeue" /\ handoff' = [handoff EXCEPT ![u] = "none"] /\ UNCHANGED <<meta, loop, cur, scan>>
        /\ \E e : q' = [q EXCEPT ![u] = e]
    BY <1>4, Zenon DEF RequeuePending
  <2>2. CASE u # t
    <3>1. q'[t] = q[t] /\ handoff'[t] = handoff[t]
      BY <2>1, <2>2 DEF TypeOK
    <3> QED BY <1>0, <2>1, <3>1, FoundUntouched
  <2>3. CASE u = t
    <3>1. meta[t].status \notin {"none", "initializing"} /\ handoff'[t] = "none"
      BY <1>0, <2>1, <2>3 DEF Found, Unseen, TypeOK
    <3>2. ~(t \in Confirmed /\ First(t))
      BY <1>0, <2>1, <2>3 DEF Found, OnlyCounted, First
    <3>3. Tame(meta[t], meta'[t])
      BY <2>1, SameTame
    <3> QED BY <1>0, <2>1, <3>1, <3>2, <3>3, FoundMoved
  <2> QED BY <2>2, <2>3
<1> QED BY <1>1, <1>2, <1>3, <1>4

\* Time: no lease of a live holder runs out.
LEMMA FoundTime ==
  ASSUME FoundInv, Undisturbed', TypeOK, HoldOK, Time, NEW t \in Task
  PROVE  Found(t)'
<1> USE DEF apiVars, workerVars
<1>0. Found(t) /\ q[t] \in R!Entry /\ meta[t] \in Meta
  BY DEF FoundInv, TypeOK
<1>same. meta'[t] = meta[t] => Tame(meta[t], meta'[t])
  BY SameTame
<1>1. ASSUME NEW u \in Task, Elapse(u) PROVE Found(t)'
  <2> DEFINE m == [meta[u] EXCEPT !.waiting = FALSE]
  <2>1. meta' = [meta EXCEPT ![u] = m] /\ UNCHANGED <<q, loop, cur, scan, handoff>>
    BY <1>1 DEF Elapse
  <2>2. meta[u] \in Meta
    BY DEF TypeOK
  <2>3. m.status = meta[u].status /\ m.retries = meta[u].retries /\ m.infra = meta[u].infra
    BY <2>2 DEF Meta
  <2> HIDE DEF m
  <2>4. Tame(meta[u], m)
    BY <2>3, SameTame
  <2> QED BY <1>0, <2>1, <2>3, <2>4, FoundWritten
<1>2. ASSUME NEW u \in Task, ElapseDelayed(u) PROVE Found(t)'
  <2> DEFINE e == [q[u] EXCEPT !.delayed = IF @ = "future" THEN "due" ELSE @,
                              !.retryDelayed = IF @ = "future" THEN "due" ELSE @]
  <2>1. /\ q' = [q EXCEPT ![u] = e] /\ UNCHANGED <<meta, loop, cur, scan, handoff>>
        /\ "future" \in {q[u].delayed, q[u].retryDelayed}
    BY <1>2 DEF ElapseDelayed
  <2>2. CASE u # t
    <3>1. q'[t] = q[t]
      BY <2>1, <2>2 DEF TypeOK
    <3> QED BY <1>0, <2>1, <3>1, FoundUntouched
  <2>3. CASE u = t
    <3>1. q'[t] = e
      BY <2>1, <2>3 DEF TypeOK
    <3>2. /\ Places(e) = Places(q[t]) /\ e.known = q[t].known
          /\ e.owner = q[t].owner /\ e.lease = q[t].lease /\ q[t] # R!NoEntry
      BY <1>0, <2>1, <2>3 DEF R!Entry, R!NoEntry, Places, Flag
    <3> HIDE DEF e
    <3>3. Likened(t)
      BY <3>1, <3>2 DEF Likened, Leased
    <3> QED BY <1>0, <1>same, <2>1, <3>3, FoundKept DEF Aside
  <2> QED BY <2>2, <2>3
<1>3. ASSUME NEW u \in Task, LeaseExpires(u) PROVE Found(t)'
  <2>1. /\ q' = [q EXCEPT ![u].lease = "expired"] /\ UNCHANGED <<meta, loop, cur, scan, handoff>>
        /\ q[u].lease = "live"
    BY <1>3 DEF LeaseExpires
  <2>2. CASE u # t
    <3>1. q'[t] = q[t]
      BY <2>1, <2>2 DEF TypeOK
    <3> QED BY <1>0, <2>1, <3>1, FoundUntouched
  <2>3. CASE u = t
    <3>1. /\ Places(q'[t]) = Places(q[t]) /\ q'[t].known = q[t].known /\ q[t] # R!NoEntry
      BY <1>0, <2>1, <2>3 DEF TypeOK, R!Entry, R!NoEntry, Places, Flag
    <3>2. \A w \in Worker : ~(Holds(w, t) /\ Leased(w, t))
      <4>1. ~Disturb("lapse")
        BY DEF Disturb, Undisturbed, TypeOK, Kinds
      <4> QED BY <1>3, <2>3, <4>1 DEF LeaseExpires, Holds, Leased
    <3>3. Likened(t)
      BY <3>1, <3>2 DEF Likened
    <3> QED BY <1>0, <1>same, <2>1, <3>3, FoundKept DEF Aside
  <2> QED BY <2>2, <2>3
<1> QED BY <1>1, <1>2, <1>3 DEF Time

\* A coroutine with a task writes its record, and lets go of it in one place.
LEMMA FoundExecute ==
  ASSUME FoundInv, TypeOK, HoldOK, NEW w \in Worker, Execute(w) \/ PlatformAnswers(w), NEW t \in Task
  PROVE  Found(t)'
<1> USE DEF apiVars, workerVars
<1> DEFINE u == cur[w]
           r == meta[u]
<1>0. /\ Found(t) /\ q[t] \in R!Entry /\ meta[t] \in Meta /\ t # NoTask
      /\ (loop.at = "free" => loop.t = NoTask /\ ~InBoot)
      /\ (Held(w) => u \in Task /\ r \in Meta)
  BY QueueConstants, StoreConstants DEF FoundInv, TypeOK, LoopOK, TaskSections, InBoot, HoldOK, Id
<1>seen. u = t => meta[t].status \notin {"none", "initializing"}
  BY <1>0 DEF Found, Unseen
<1> DEFINE Outcomes ==
      {r, [r EXCEPT !.evidence = TRUE], [r EXCEPT !.evidence = FALSE], MarkFailed(r), DeferTask(r),
       BeginTaskSubmission(r), ReleaseTaskSubmission(r), [ReleaseTaskSubmission(r) EXCEPT !.evidence = TRUE],
       MarkSubmitted(r), RecordRetry(r), RecordInfrastructureRetry(r)}
<1>tame. ASSUME Held(w), NEW m \in Outcomes PROVE Tame(r, m)
  <2>1. r \in Meta
    BY <1>0, <1>tame
  <2>2. Tame(r, r) /\ Tame(r, [r EXCEPT !.evidence = TRUE]) /\ Tame(r, [r EXCEPT !.evidence = FALSE])
    BY <2>1 DEF Meta, Tame
  <2> QED BY <1>tame, <2>1, <2>2, StoreTame
<1> HIDE DEF r
<1>written. ASSUME Held(w), NEW m \in Outcomes, meta' = [meta EXCEPT ![u] = m],
                   UNCHANGED <<q, loop, cur, scan, handoff>>
            PROVE  Found(t)'
  <2>1. Tame(meta[u], m)
    BY <1>tame, <1>written DEF r
  <2> HIDE DEF Outcomes
  <2> QED BY <1>0, <1>written, <2>1, FoundWritten
<1>same. UNCHANGED <<meta, q, loop, cur, scan, handoff>> => Found(t)'
  BY <1>0, FoundUntouched
<1>rewritten. UNCHANGED meta => meta' = [meta EXCEPT ![u] = r]
  BY DEF TypeOK, r
<1>1. CASE ClaimStart(w)
  <2>1. loop' = At("recover", w, NoTask) /\ loop.at = "free" /\ UNCHANGED <<meta, q, cur, scan, handoff>>
    BY <1>1 DEF ClaimStart, MayStep
  <2> QED BY <1>0, <2>1, FoundUntouched DEF At
<1>2. CASE StartTask(w)
  <2>1. Held(w) /\ UNCHANGED <<q, loop, cur, scan, handoff>>
    BY <1>2 DEF StartTask, Held
  <2>2. \A sticky : ClearTransientResult(r, sticky) \in {r, [r EXCEPT !.evidence = FALSE]}
    BY DEF ClearTransientResult
  <2>3. \E m \in Outcomes : meta' = [meta EXCEPT ![u] = m]
    BY <1>2, <1>rewritten, <2>2, Zenon DEF StartTask, r
  <2> QED BY <1>written, <2>1, <2>3
<1>3. CASE BeginSubmission(w)
  <2>1. Held(w) /\ UNCHANGED <<q, loop, cur, scan, handoff>>
    BY <1>3 DEF BeginSubmission, Held
  <2>2. \E m \in Outcomes : meta' = [meta EXCEPT ![u] = m]
    BY <1>3, <1>rewritten, Zenon DEF BeginSubmission, r
  <2> QED BY <1>written, <2>1, <2>2
<1>4. CASE ResponseAccepted(w)
  <2>1. Held(w) /\ UNCHANGED <<q, loop, cur, scan, handoff>>
    BY <1>4 DEF ResponseAccepted, Held
  <2>2. \E m \in Outcomes : meta' = [meta EXCEPT ![u] = m]
    BY <1>4 DEF ResponseAccepted, r
  <2> QED BY <1>written, <2>1, <2>2
<1>5. CASE ResponseRejected(w)
  <2>1. Held(w) /\ UNCHANGED <<q, loop, cur, scan, handoff>>
    BY <1>5 DEF ResponseRejected, Held
  <2>2. \E m \in Outcomes : meta' = [meta EXCEPT ![u] = m]
    BY <1>5 DEF ResponseRejected, r
  <2> QED BY <1>written, <2>1, <2>2
<1>6. CASE TransportError(w)
  <2>1. Held(w) /\ UNCHANGED <<q, loop, cur, scan, handoff>>
    BY <1>6 DEF TransportError, Held
  <2>2. \E m \in Outcomes : meta' = [meta EXCEPT ![u] = m]
    BY <1>6 DEF TransportError, r
  <2> QED BY <1>written, <2>1, <2>2
<1>7. CASE SubmissionReceived(w)
  <2>1. Held(w) /\ UNCHANGED <<q, loop, cur, scan, handoff>>
    BY <1>7 DEF SubmissionReceived, Held
  <2>2. \E m \in Outcomes : meta' = [meta EXCEPT ![u] = m]
    BY <1>7 DEF SubmissionReceived, r
  <2> QED BY <1>written, <2>1, <2>2
<1>8. CASE RecordOutcome(w)
  <2>1. Held(w) /\ UNCHANGED <<q, loop, cur, scan, handoff>>
    BY <1>8 DEF RecordOutcome, Held
  <2>2. \E m \in Outcomes : meta' = [meta EXCEPT ![u] = m]
    BY <1>8 DEF RecordOutcome, r
  <2> QED BY <1>written, <2>1, <2>2
<1>9. CASE AutomationFails(w) \/ RunTimeout(w) \/ PlatformAnswers(w)
  BY <1>same, <1>9 DEF AutomationFails, RunTimeout, PlatformAnswers
<1>10. CASE FinallyRelease(w)
  <2>1. /\ Held(w) /\ loop.at = "free" /\ UNCHANGED <<meta, loop, scan, handoff>>
        /\ q' = [q EXCEPT ![u] = Release(u, w)] /\ cur' = [cur EXCEPT ![w] = NoTask]
    BY <1>10 DEF FinallyRelease, MayStep, Held
  <2>2. \A v \in Worker : cur'[v] = t => cur[v] = t /\ v # w
    BY <1>0, <2>1 DEF TypeOK
  <2>3. CASE u # t
    <3>1. q'[t] = q[t]
      BY <2>1, <2>3 DEF TypeOK
    <3> QED BY <1>0, <2>1, <2>2, <3>1, FoundUntouched
  <2>4. CASE u = t
    <3>1. q'[t] = Release(t, w)
      BY <2>1, <2>4 DEF TypeOK
    <3>2. ASSUME t \in Confirmed, First(t) PROVE OnePlace(t)' /\ Awaited(t)'
      <4>1. OnePlace(t) /\ Leased(w, t)
        BY <1>0, <2>4, <3>2 DEF Found, OnePlace, Holds
      <4>2. \A v \in Worker : cur'[v] # t
        BY <2>2, <4>1 DEF OnePlace, Holds, Leased
      <4>3. /\ Places(q'[t]) <= 1 /\ (Places(q'[t]) = 1 => q'[t].known)
            /\ meta[t].status = "pending" => Places(q'[t]) = 1
        BY <3>1, <4>1, ReleasePlaces DEF Leased
      <4> QED BY <1>0, <2>1, <4>2, <4>3 DEF OnePlace, Awaited, Holds
    <3>3. Tame(meta[t], meta'[t])
      BY <2>1, SameTame
    <3> QED BY <1>0, <1>seen, <2>1, <2>4, <3>2, <3>3, FoundMoved
  <2> QED BY <2>3, <2>4
<1>11. CASE DeliverCancel(w)
  <2>1. CASE ~Held(w)
    BY <1>11, <1>same, <2>1 DEF DeliverCancel
  <2>2. CASE Held(w)
    <3>1. /\ loop.at = "free" /\ loop' = At("finally", w, u) /\ UNCHANGED <<q, cur, scan, handoff>>
          /\ \E m \in {r, MarkPending(r)} : meta' = [meta EXCEPT ![u] = m]
      BY <1>11, <2>2 DEF DeliverCancel, r
    <3>2. CASE u # t
      <4>1. meta'[t] = meta[t]
        BY <3>1, <3>2 DEF TypeOK
      <4> QED BY <1>0, <3>1, <3>2, <4>1, FoundUntouched DEF At
    <3>3. CASE u = t
      <4>1. Tame(meta[t], meta'[t])
        <5>1. meta'[t] \in {meta[t], MarkPending(meta[t])}
          BY <3>1, <3>3 DEF TypeOK, r
        <5>2. Tame(meta[t], meta[t]) /\ Tame(meta[t], MarkPending(meta[t]))
          BY <1>0, SameTame, StoreTame
        <5> QED BY <5>1, <5>2
      <4>2. ASSUME t \in Confirmed, First(t) PROVE OnePlace(t)' /\ Awaited(t)'
        <5>1. OnePlace(t)
          BY <1>0, <4>2 DEF Found
        <5>2. \A v \in Worker : Holds(v, t)' => Holds(v, t)
          BY <3>1, <3>3 DEF Holds, At
        <5> QED BY <3>1, <3>3, <5>1, <5>2 DEF OnePlace, Awaited, Leased, InHand, At
      <4> QED BY <1>0, <1>seen, <3>1, <3>3, <4>1, <4>2, FoundMoved DEF At
    <3> QED BY <3>2, <3>3
  <2> QED BY <2>1, <2>2
<1> QED BY <1>1, <1>2, <1>3, <1>4, <1>5, <1>6, <1>7, <1>8, <1>9, <1>10, <1>11 DEF Execute

\* Supervisor, watchdog and reconcile thread: they rewrite the entries of counted
\* retries only.
LEMMA FoundSupervise ==
  ASSUME FoundInv, TypeOK, HoldOK, Supervise, NEW t \in Task
  PROVE  Found(t)'
<1> USE DEF apiVars, workerVars
<1>0. /\ Found(t) /\ q[t] \in R!Entry /\ meta[t] \in Meta /\ t # NoTask
      /\ (loop.at = "free" => loop.t = NoTask)
      /\ (loop.at \in {"free", "orphan", "finally"} => ~InBoot)
      /\ NoWorker \notin Worker
  BY QueueConstants, StoreConstants
  DEF FoundInv, TypeOK, LoopOK, TaskSections, WorkerSections, InBoot, Id
<1>same. meta'[t] = meta[t] => Tame(meta[t], meta'[t]) /\ (First(t)' <=> First(t))
  BY SameTame DEF First, Counted
<1>1. CASE HeartbeatAll
  <2>1. /\ UNCHANGED <<meta, loop, cur, scan, handoff>>
        /\ q'[t] \in {q[t], R!Heartbeat(q[t], q[t].owner)}
    BY <1>1 DEF HeartbeatAll
  <2>2. R!Heartbeat(q[t], q[t].owner) = IF q[t].lease # "none" THEN [q[t] EXCEPT !.lease = "live"] ELSE q[t]
    BY DEF R!Heartbeat
  <2>3. /\ q'[t].ready = q[t].ready /\ q'[t].retryReady = q[t].retryReady /\ q'[t].delayed = q[t].delayed
        /\ q'[t].retryDelayed = q[t].retryDelayed /\ q'[t].known = q[t].known /\ q'[t].owner = q[t].owner
        /\ (q[t].lease = "none" <=> q'[t].lease = "none") /\ (q[t].lease = "live" => q'[t].lease = "live")
        /\ (q[t].lease = "none" => q'[t] = q[t])
    BY <1>0, <2>1, <2>2 DEF R!Entry
  <2>4. Likened(t)
    BY <2>3 DEF Likened, Places, Flag, Leased, R!NoEntry
  <2> QED BY <1>0, <1>same, <2>1, <2>4, FoundKept DEF Aside
<1>2. CASE CancelRelease
  <2>1. /\ loop.at = "finally" /\ loop' = Free /\ UNCHANGED <<meta, scan, handoff>>
        /\ q' = [q EXCEPT ![loop.t] = Release(loop.t, loop.w)] /\ cur' = [cur EXCEPT ![loop.w] = NoTask]
        /\ loop.w \in Worker
    BY <1>2 DEF CancelRelease, TypeOK, LoopOK, WorkerSections
  <2>2. \A v \in Worker : cur'[v] = t => cur[v] = t /\ v # loop.w
    BY <1>0, <2>1 DEF TypeOK
  <2>3. CASE loop.t # t
    <3>1. q'[t] = q[t]
      BY <2>1, <2>3 DEF TypeOK
    <3> QED BY <1>0, <2>1, <2>2, <2>3, <3>1, FoundUntouched DEF Free, At
  <2>4. CASE loop.t = t
    <3>1. q'[t] = Release(t, loop.w) /\ meta[t].status \notin {"none", "initializing"}
      BY <1>0, <2>1, <2>4 DEF TypeOK, Found, Unseen
    <3>2. ASSUME t \in Confirmed, First(t) PROVE OnePlace(t)' /\ Awaited(t)'
      <4>1. OnePlace(t) /\ Leased(loop.w, t)
        BY <1>0, <2>1, <2>4, <3>2 DEF Found, OnePlace, Holds, UnderLease
      <4>2. \A v \in Worker : cur'[v] # t
        BY <2>2, <4>1 DEF OnePlace, Holds, Leased
      <4>3. /\ Places(q'[t]) <= 1 /\ (Places(q'[t]) = 1 => q'[t].known)
            /\ meta[t].status = "pending" => Places(q'[t]) = 1
        BY <3>1, <4>1, ReleasePlaces DEF Leased
      <4> QED BY <1>0, <2>1, <4>2, <4>3 DEF OnePlace, Awaited, Holds, Free, At
    <3> QED BY <1>0, <1>same, <2>1, <3>1, <3>2, FoundMoved DEF Free, At
  <2> QED BY <2>3, <2>4
<1>3. CASE OrphanRequeue
  <2>1. /\ loop.at = "orphan" /\ loop' = Free /\ UNCHANGED <<meta, cur, scan, handoff>>
        /\ \E e : q' = [q EXCEPT ![loop.t] = e]
    BY <1>3, Zenon DEF OrphanRequeue
  <2>2. CASE loop.t # t
    <3>1. q'[t] = q[t]
      BY <2>1, <2>2 DEF TypeOK
    <3> QED BY <1>0, <2>1, <2>2, <3>1, FoundUntouched DEF Free, At
  <2>3. CASE loop.t = t
    <3>1. meta[t].status \notin {"none", "initializing"} /\ ~(t \in Confirmed /\ First(t))
      BY <1>0, <2>1, <2>3 DEF Found, Unseen, OnlyCounted, First
    <3> QED BY <1>0, <1>same, <2>1, <3>1, FoundMoved DEF Free, At
  <2> QED BY <2>2, <2>3
<1>4. CASE ReconcileList
  <2>1. /\ UNCHANGED <<meta, q, loop, cur, handoff>>
        /\ t \in scan' => meta[t].status = "pending" /\ Counted(t)
    BY <1>4 DEF ReconcileList, Counted
  <2>2. Likened(t)
    BY <2>1 DEF Likened, Leased
  <2> QED BY <1>0, <1>same, <2>1, <2>2, FoundKept DEF Aside
<1>5. ASSUME NEW u \in Task, ReconcileOne(u) PROVE Found(t)'
  <2>1. /\ u \in scan /\ scan' = scan \ {u} /\ UNCHANGED <<meta, loop, cur, handoff>>
        /\ \E e : q' = [q EXCEPT ![u] = e]
    BY <1>5, Zenon DEF ReconcileOne
  <2>2. CASE u # t
    <3>1. q'[t] = q[t]
      BY <2>1, <2>2 DEF TypeOK
    <3> QED BY <1>0, <2>1, <3>1, FoundUntouched
  <2>3. CASE u = t
    <3>1. meta[t].status \notin {"none", "initializing"} /\ ~(t \in Confirmed /\ First(t))
      BY <1>0, <2>1, <2>3 DEF Found, Unseen, OnlyCounted, First
    <3> QED BY <1>0, <1>same, <2>1, <3>1, FoundMoved
  <2> QED BY <2>2, <2>3
<1>6. ASSUME NEW v \in Worker, Spawn(v) PROVE Found(t)'
  <2>1. /\ loop.at = "free" /\ pc[v] = "dead" /\ UNCHANGED <<loop, cur, scan, handoff>>
        /\ meta'[t] = [meta[t] EXCEPT !.worker = IF @ = v THEN Gone ELSE @]
        /\ q'[t] = [q[t] EXCEPT !.owner = IF @ = v THEN Gone ELSE @]
    BY <1>6 DEF Spawn
  <2>2. meta'[t].status = meta[t].status /\ meta'[t].retries = meta[t].retries /\ meta'[t].infra = meta[t].infra
    BY <1>0, <2>1 DEF Meta
  <2>3. Tame(meta[t], meta'[t])
    BY <2>2, SameTame
  <2>4. /\ q'[t].ready = q[t].ready /\ q'[t].retryReady = q[t].retryReady /\ q'[t].delayed = q[t].delayed
        /\ q'[t].retryDelayed = q[t].retryDelayed /\ q'[t].known = q[t].known /\ q'[t].lease = q[t].lease
        /\ (q[t].owner # v => q'[t] = q[t])
    BY <1>0, <2>1 DEF R!Entry
  <2>5. ~Holds(v, t)
    BY <1>0, <2>1 DEF Holds, HoldOK, Held
  <2>6. Likened(t)
    <3>1. Places(q'[t]) = Places(q[t])
      BY <2>4 DEF Places
    <3>2. q[t] = R!NoEntry => q'[t] = q[t]
      BY <1>0, <2>4 DEF R!NoEntry
    <3>3. \A w \in Worker : Holds(w, t) /\ Leased(w, t) => q'[t] = q[t]
      BY <2>4, <2>5 DEF Leased
    <3> QED BY <2>4, <3>1, <3>2, <3>3 DEF Likened, Leased
  <2> QED BY <1>0, <2>1, <2>2, <2>3, <2>6, FoundKept DEF Aside
<1>7. ASSUME NEW v \in Worker, Trim(v) PROVE Found(t)'
  BY <1>0, <1>7, FoundUntouched DEF Trim
<1>8. ASSUME NEW u \in Task, WatchStale(u) \/ WatchOrphan(u) PROVE Found(t)'
  <2> DEFINE m == RecordInfrastructureRetry(meta[u])
  <2>0. meta[u] \in Meta /\ meta[u].status = "running" /\ meta' = [meta EXCEPT ![u] = m]
    BY <1>8 DEF TypeOK, WatchStale, WatchOrphan
  <2>1. /\ Tame(meta[u], m)
        /\ m.status \in {"pending", "failed"} /\ m.retries + m.infra > 0
    <3>1. m.status \in {"pending", "failed"} /\ m.retries = meta[u].retries /\ m.infra = meta[u].infra + 1
      BY <2>0 DEF RecordInfrastructureRetry, Meta
    <3>2. meta[u].retries \in Nat /\ meta[u].infra \in Nat
      BY <2>0 DEF Meta
    <3> HIDE DEF m
    <3>3. m.retries + m.infra > 0
      BY <3>1, <3>2
    <3> QED BY <2>0, <3>1, <3>3, StoreTame DEF m
  <2> HIDE DEF m
  <2>2. CASE WatchStale(u)
    BY <1>0, <2>0, <2>1, <2>2, FoundWritten DEF WatchStale
  <2>3. CASE WatchOrphan(u)
    <3>1. loop.at = "free" /\ loop' = At("orphan", NoWorker, u) /\ UNCHANGED <<q, cur, scan, handoff>>
      BY <2>3 DEF WatchOrphan
    <3>2. CASE u # t
      <4>1. meta'[t] = meta[t]
        BY <2>0, <3>2 DEF TypeOK
      <4> QED BY <1>0, <3>1, <3>2, <4>1, FoundUntouched DEF At
    <3>3. CASE u = t
      <4>1. meta'[t] = m
        BY <2>0, <3>3 DEF TypeOK
      <4> QED BY <2>1, <4>1 DEF Found, Unseen, OnlyCounted, First, Counted
    <3> QED BY <3>2, <3>3
  <2> QED BY <1>8, <2>2, <2>3
<1> QED BY <1>1, <1>2, <1>3, <1>4, <1>5, <1>6, <1>7, <1>8 DEF Supervise

\* A step that ends in start-up with no coroutine at a task leaves all tasks found.
LEMMA FoundBoot ==
  ASSUME TypeOK, NEW t \in Task, Found(t), Tame(meta[t], meta'[t]), InBoot',
         loop'.t # t, loop'.at # "orphan", \A w \in Worker : cur'[w] # t,
         handoff'[t] \in {handoff[t], "none"}, t \in scan' => t \in scan,
         meta[t].status \in {"none", "initializing"} => q'[t] = q[t],
         OnePlace(t) => Places(q'[t]) <= 1 /\ (Places(q'[t]) = 1 => q'[t].known)
  PROVE  Found(t)'
<1>1. Unseen(t)'
  BY DEF Found, Unseen, Tame
<1>2. First(t)' => First(t)
  BY DEF First, Counted, Tame
<1>3. t \in Confirmed => OnlyCounted(t)'
  BY DEF Found, OnlyCounted, Counted, Tame
<1>4. OnePlace(t) => OnePlace(t)' /\ Awaited(t)'
  BY DEF OnePlace, Awaited, Holds
<1> QED BY <1>1, <1>2, <1>3, <1>4 DEF Found

\* A crash, a stop and a start: the start-up section is left only after reconcile has
\* put every pending task into one place.
LEMMA FoundLifecycle ==
  ASSUME FoundInv, TypeOK, HoldOK, Lifecycle, NEW t \in Task
  PROVE  Found(t)'
<1> USE DEF apiVars, workerVars
<1>0. /\ Found(t) /\ q[t] \in R!Entry /\ meta[t] \in Meta /\ t # NoTask
      /\ (loop.at \in {"free", "boot", "down", "recover"} => loop.t = NoTask)
  BY QueueConstants DEF FoundInv, TypeOK, LoopOK, TaskSections
<1>same. meta'[t] = meta[t] => Tame(meta[t], meta'[t])
  BY SameTame
<1>boot. InBoot => \A w \in Worker : cur[w] # t \/ (loop.at = "finally" /\ loop.w = w)
  BY <1>0 DEF FoundInv, BootDead, HoldOK, Held
<1>1. CASE Crash
  <2>1. /\ loop' = At("down", NoWorker, NoTask) /\ UNCHANGED <<meta, q>> /\ scan' = {}
        /\ cur' = [w \in Worker |-> NoTask] /\ handoff'[t] \in {handoff[t], "none"}
    BY <1>1 DEF Crash
  <2> QED BY <1>0, <1>same, <2>1, FoundBoot DEF OnePlace, InBoot, At
<1>2. CASE Stop
  <2> DEFINE holders == {w \in Worker : Held(w) /\ cur[w] = t}
             owner == IF q[t].owner \in holders THEN q[t].owner ELSE Main
  <2>1. /\ loop' = At("down", NoWorker, NoTask) /\ UNCHANGED <<meta, handoff>> /\ scan' = {}
        /\ cur' = [w \in Worker |-> NoTask]
        /\ q'[t] = IF holders = {} THEN q[t] ELSE Release(t, owner)
    BY <1>2 DEF Stop
  <2>2. meta[t].status \in {"none", "initializing"} => holders = {}
    BY <1>0 DEF Found, Unseen
  <2>3. ASSUME OnePlace(t), holders # {}
        PROVE  Places(q'[t]) <= 1 /\ (Places(q'[t]) = 1 => q'[t].known)
    <3>1. PICK w \in Worker : w \in holders
      BY <2>3
    <3>2. Leased(w, t) /\ owner = w
      BY <2>3, <3>1 DEF OnePlace, Holds, Leased
    <3> QED BY <2>1, <2>3, <3>2, ReleasePlaces DEF Leased
  <2> HIDE DEF holders, owner
  <2> QED BY <1>0, <1>same, <2>1, <2>2, <2>3, FoundBoot DEF OnePlace, InBoot, At
<1>3. CASE Start
  <2>1. /\ loop.at = "down" /\ loop' = At("recover", Main, NoTask) /\ UNCHANGED <<meta, q, cur, scan, handoff>>
    BY <1>3 DEF Start
  <2>2. \A w \in Worker : cur'[w] # t
    BY <1>boot, <2>1 DEF InBoot
  <2> QED BY <1>0, <1>same, <2>1, <2>2, FoundBoot DEF OnePlace, InBoot, At
<1>4. CASE StartReset
  <2>1. /\ loop.at = "recover" /\ loop.w = Main /\ loop' = At("boot", Main, NoTask)
        /\ meta'[t] = ResetRunningTask(meta[t]) /\ UNCHANGED <<q, cur, scan, handoff>>
    BY <1>4 DEF StartReset
  <2>2. \A w \in Worker : cur'[w] # t
    BY <1>boot, <2>1 DEF InBoot
  <2>3. Tame(meta[t], meta'[t])
    BY <1>0, <2>1, StoreTame
  <2> QED BY <1>0, <2>1, <2>2, <2>3, FoundBoot DEF OnePlace, InBoot, At
<1>5. CASE StartReconcile
  <2>1. loop.at = "boot" /\ loop' = Free /\ UNCHANGED <<cur, scan, handoff>>
    BY <1>5 DEF StartReconcile
  <2>2. loop'.t # t /\ loop'.at = "free" /\ \A w \in Worker : cur'[w] # t
    BY <1>0, <1>boot, <2>1 DEF InBoot, Free, At
  <2>3. PICK due \in SUBSET {u \in Task \ Confirmed : meta[u].status = "pending" /\ handoff[u] = "none"} :
        \E forgiven \in SUBSET {u \in due : meta[u].infra > 0} :
           /\ meta' = [u \in Task |-> [meta[u] EXCEPT !.waiting = @ /\ u \notin due,
                                                     !.infra = IF u \in forgiven THEN 0 ELSE @]]
           /\ q' = [u \in Task |->
                       IF meta[u].status = "pending"
                         THEN R!Requeue(q[u], MetaIsRetry(meta'[u], u \in ManualRetry), meta'[u].waiting)
                         ELSE q[u]]
    BY <1>5, Zenon DEF StartReconcile
  <2>4. PICK forgiven \in SUBSET {u \in due : meta[u].infra > 0} :
           /\ meta'[t] = [meta[t] EXCEPT !.waiting = @ /\ t \notin due,
                                         !.infra = IF t \in forgiven THEN 0 ELSE @]
           /\ q'[t] = IF meta[t].status = "pending"
                        THEN R!Requeue(q[t], MetaIsRetry(meta'[t], t \in ManualRetry), meta'[t].waiting)
                        ELSE q[t]
    BY <2>3
  <2>5. /\ meta'[t].status = meta[t].status /\ meta'[t].waiting \in BOOLEAN
        /\ t \in Confirmed => meta'[t].retries = meta[t].retries /\ meta'[t].infra = meta[t].infra
    BY <1>0, <2>3, <2>4 DEF Meta
  <2>6. meta[t].status = "pending" => Places(q'[t]) = 1 /\ q'[t].known
    <3> DEFINE retry == MetaIsRetry(meta'[t], t \in ManualRetry)
    <3>1. retry \in BOOLEAN
      BY DEF MetaIsRetry
    <3>2. \A r, future \in BOOLEAN : Places(R!Requeue(q[t], r, future)) = 1 /\ R!Requeue(q[t], r, future).known
      BY <1>0, QueuePlaces
    <3>3. meta[t].status = "pending" => q'[t] = R!Requeue(q[t], retry, meta'[t].waiting)
      BY <2>4
    <3> HIDE DEF retry
    <3> QED BY <2>5, <3>1, <3>2, <3>3
  <2>7. Unseen(t)'
    BY <1>0, <2>1, <2>2, <2>4, <2>5 DEF Found, Unseen
  <2>8. ASSUME t \in Confirmed PROVE OnlyCounted(t)' /\ (First(t)' => OnePlace(t)' /\ Awaited(t)')
    <3>1. OnlyCounted(t)' /\ (First(t)' => OnePlace(t))
      BY <1>0, <2>1, <2>2, <2>5, <2>8 DEF Found, OnlyCounted, First, Counted
    <3>2. OnePlace(t) => Places(q'[t]) <= 1 /\ (Places(q'[t]) = 1 => q'[t].known)
      BY <2>4, <2>6 DEF OnePlace
    <3> QED BY <2>2, <2>5, <2>6, <3>1, <3>2 DEF OnePlace, Awaited, Holds
  <2> QED BY <2>7, <2>8 DEF Found
<1> QED BY <1>1, <1>2, <1>3, <1>4, <1>5 DEF Lifecycle

\* No step of an undisturbed run leaves a task unfound.
LEMMA FoundStep ==
  ASSUME FoundInv, Undisturbed', TypeOK, HoldOK, Next
  PROVE  FoundInv'
<1>1. ASSUME NEW t \in Task PROVE Found(t)'
  BY FoundApi, FoundResults, FoundRecover, FoundClaim, FoundExecute, FoundSupervise, FoundLifecycle, FoundTime
  DEF Next
<1>2. BootDead'
  BY LoopStep DEF FoundInv, BootDead, LoopMoves
<1>3. ~paused'
  <2> USE DEF FoundInv, apiVars
  <2>1. CASE Api
    <3>1. ~Pause
      BY DEF Pause, Disturb, Undisturbed, TypeOK, Kinds
    <3> QED BY <2>1, <3>1 DEF Api, Create, CreationFails, Finalize, EnqueueNew, Expire, PauseCancel, CancelTask,
                             Resume, ApiRestart
  <2>2. CASE Results \/ Recover \/ Time
    BY <2>2 DEF Results, ResultFinished, LateResult, ResultRetry, RequeuePending,
                Recover, RecoverTake, RecoverStatus, RecoverPush, Time, Elapse, ElapseDelayed, LeaseExpires
  <2>3. CASE Claim
    BY <2>3 DEF Claim, ClaimMove, ClaimPromote, ClaimEmpty, ClaimCheck, ClaimMark, ClaimRefused, ClaimLease,
                ClaimAccept, ClaimDefer, ClaimDeferRelease, ClaimRaises
  <2>4. ASSUME NEW w \in Worker, Execute(w) \/ PlatformAnswers(w) PROVE ~paused'
    BY <2>4 DEF PlatformAnswers, Execute, ClaimStart, StartTask, AutomationFails, BeginSubmission, ResponseAccepted,
                ResponseRejected, TransportError, RunTimeout, SubmissionReceived, RecordOutcome, FinallyRelease,
                DeliverCancel
  <2>5. CASE Supervise
    BY <2>5 DEF Supervise, HeartbeatAll, CancelRelease, OrphanRequeue, ReconcileList, Spawn, Trim, WatchStale,
                WatchOrphan, ReconcileOne
  <2>6. CASE Lifecycle
    BY <2>6 DEF Lifecycle, Crash, Stop, Start, StartReset, StartReconcile
  <2> QED BY <2>1, <2>2, <2>3, <2>4, <2>5, <2>6 DEF Next
<1> QED BY <1>1, <1>2, <1>3 DEF FoundInv

\* Disturbances are never forgotten.
LEMMA UndisturbedBefore == TypeOK /\ [Next]_vars /\ Undisturbed' => Undisturbed
<1> SUFFICES ASSUME TypeOK, [Next]_vars, Undisturbed' PROVE Undisturbed
  OBVIOUS
<1> USE DEF apiVars, workerVars
<1>0. UNCHANGED used => Undisturbed
  BY DEF Undisturbed
<1>1. ASSUME NEW kind \in Kinds, Disturb(kind) PROVE Undisturbed
  BY <1>1 DEF Disturb, Undisturbed, TypeOK, Kinds
<1>2. CASE Api \/ Results \/ Recover \/ Time
  BY <1>0, <1>1, <1>2
  DEF Api, Create, CreationFails, Finalize, EnqueueNew, Expire, PauseCancel, CancelTask, Pause, Resume, ApiRestart,
      Results, ResultFinished, LateResult, ResultRetry, RequeuePending,
      Recover, RecoverTake, RecoverStatus, RecoverPush, Time, Elapse, ElapseDelayed, LeaseExpires, Kinds
<1>3. CASE Claim
  BY <1>0, <1>1, <1>3
  DEF Claim, ClaimMove, ClaimPromote, ClaimEmpty, ClaimCheck, ClaimMark, ClaimRefused, ClaimLease,
      ClaimAccept, ClaimDefer, ClaimDeferRelease, ClaimRaises, Kinds
<1>4. ASSUME NEW w \in Worker, Execute(w) \/ PlatformAnswers(w) PROVE Undisturbed
  BY <1>0, <1>4
  DEF PlatformAnswers, Execute, ClaimStart, StartTask, AutomationFails, BeginSubmission, ResponseAccepted,
      ResponseRejected, TransportError, RunTimeout, SubmissionReceived, RecordOutcome, FinallyRelease, DeliverCancel
<1>5. CASE Supervise
  BY <1>0, <1>1, <1>5
  DEF Supervise, HeartbeatAll, CancelRelease, OrphanRequeue, ReconcileList, Spawn, Trim, WatchStale,
      WatchOrphan, ReconcileOne, Kinds
<1>6. CASE Lifecycle
  BY <1>0, <1>1, <1>6 DEF Lifecycle, Crash, Stop, Start, StartReset, StartReconcile, Kinds
<1>7. CASE UNCHANGED vars
  BY <1>0, <1>7 DEF vars
<1> QED BY <1>2, <1>3, <1>4, <1>5, <1>6, <1>7 DEF Next

\* A task of doubao or qianwen is never lost while the API process is not restarted,
\* no lease lapses under a live coroutine, no call of a claim fails and nobody pauses
\* the service: until its first counted retry it is in one place of the queue, in the
\* hands of one coroutine or on its way to the queue, and nobody else writes its
\* entry; a retry the reconcile thread looks for.
THEOREM NothingStranded == Spec => [](Undisturbed => NoStranded)
<1>1. Init => FoundInv
  <2> SUFFICES ASSUME Init PROVE FoundInv
    OBVIOUS
  <2>1. loop.at = "free" /\ loop.w = NoWorker /\ loop.t = NoTask /\ ~paused
    BY DEF Init, Free, At
  <2>2. NoWorker # Main /\ NoTask \notin Task
    BY QueueConstants, StoreConstants DEF Id
  <2>3. BootDead
    BY <2>1, <2>2 DEF BootDead, InBoot
  <2>4. ASSUME NEW t \in Task PROVE Unseen(t) /\ OnlyCounted(t) /\ ~First(t)
    BY <2>1, <2>2 DEF Init, NoMeta, Unseen, OnlyCounted, First
  <2> QED BY <2>1, <2>3, <2>4 DEF FoundInv, Found
<1>2. ASSUME Undisturbed => FoundInv, TypeOK, HoldOK, [Next]_vars
      PROVE  (Undisturbed => FoundInv)'
  <2> SUFFICES ASSUME Undisturbed' PROVE FoundInv'
    OBVIOUS
  <2>1. FoundInv
    BY <1>2, UndisturbedBefore
  <2>2. CASE Next
    BY <1>2, <2>1, <2>2, FoundStep
  <2>3. CASE UNCHANGED vars
    BY <2>1, <2>3 DEF vars, FoundInv, BootDead, InBoot, Found, Unseen, OnlyCounted, First, Counted, OnePlace, Holds,
                      Leased, Awaited
  <2> QED BY <1>2, <2>2, <2>3
<1>3. ASSUME FoundInv, TypeOK PROVE NoStranded
  <2> SUFFICES ASSUME NEW t \in Task \cap Confirmed, meta[t].status = "pending", ~Counted(t)
               PROVE  Findable(t)
    BY DEF NoStranded, Counted, Findable
  <2>1. Awaited(t) /\ q[t] \in R!Entry
    BY <1>3 DEF FoundInv, Found, First, TypeOK
  <2>2. Places(q[t]) = 1 => R!Queued(q[t]) \/ q[t].lease # "none"
    BY <2>1 DEF Places, Flag, R!Queued, R!Entry
  <2> QED BY <2>1, <2>2 DEF Awaited, Findable
<1> QED BY <1>1, <1>2, <1>3, TypeHold, PTL DEF Spec
=============================================================================
