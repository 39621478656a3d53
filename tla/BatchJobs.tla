------------------------------ MODULE BatchJobs ------------------------------
(* One persistent batch job (app/batch_jobs.py): its rows, the scheduler tick   *)
(* of the API process that creates a task for one row at a time (app/main.py),  *)
(* and the requests that upload assets, poll the status and cancel the job.     *)
(* Every change of a job is one row-locked read-modify-write (_mutate_job), an  *)
(* operator from the job before to the job after.  The creation of a task is a  *)
(* sequence of awaited storage calls; everything else happens between them, and *)
(* the process can die there.                                                   *)
EXTENDS Naturals, FiniteSets

CONSTANTS
  N,            \* number of rows
  Lazy,         \* the rows with images, uploaded only when the row is due
  Task,         \* task ids
  NoTask,       \* task_id = ""
  Slots,        \* active tasks the owner and the service allow
  MaxAttempts,  \* creations of a row before it fails
  MaxUploads,   \* bound: uploads of one row under way at a time
  Budget        \* Kinds -> how often each disturbance may happen

Row == 1..N

\* The API process dies; a call to PostgreSQL, Redis or the file system raises.
Kinds == {"crash", "fault"}

ASSUME BatchConstants ==
  /\ N \in Nat \ {0}
  /\ Lazy \subseteq Row
  /\ NoTask \notin Task
  /\ Slots \in Nat
  /\ MaxAttempts \in Nat \ {0}
  /\ MaxUploads \in Nat
  /\ Budget \in [Kinds -> Nat]

VARIABLES
  job,      \* PostgreSQL: the job with its rows
  task,     \* PostgreSQL: task id -> status of the record, row of its idempotency key
  charge,   \* the owner's token: task id -> status of its reservation
  tick,     \* API process: where the scheduler's creation of a task is
  uploads,  \* API process: row -> upload requests past their first check
  up,       \* API process: TRUE while it is running
  refunds,  \* API process: start-up refunds still to be made
  used      \* Kinds -> disturbances so far

vars == <<job, task, charge, tick, uploads, up, refunds, used>>

ActiveJob == {"queued", "running", "canceling"}
TerminalJob == {"completed", "canceled"}
TerminalRow == {"completed", "failed", "canceled"}
RowStatus == {"queued", "awaiting_assets", "creating", "running"} \cup TerminalRow

\* delayed: next_attempt_at lies ahead.  MaxAttempts stands for any larger count.
RowRecord == [status   : RowStatus,
              task     : Task \cup {NoTask},
              attempts : 0..MaxAttempts,
              ready    : BOOLEAN,
              delayed  : BOOLEAN]
Job == [status : ActiveJob \cup TerminalJob, canceled : BOOLEAN, row : [Row -> RowRecord]]

\* "live" stands for pending, running and submitted (module TaskQueue).
TaskRecord == [status : {"none", "initializing", "live", "success", "failed", "canceled"},
               key    : Row \cup {0}]
NoRecord == [status |-> "none", key |-> 0]

Steps == {"idle", "start", "find", "reserve", "charged", "saved", "checked", "attach",
          "refund", "delete", "fail"}
Tick == [at : Steps, row : Row \cup {0}, task : Task \cup {NoTask}, retry : BOOLEAN]
Idle == [at |-> "idle", row |-> 0, task |-> NoTask, retry |-> FALSE]

\* Every variable has its type, and a creation has its row, and its task from the
\* moment the record exists until it is undone.
TypeOK ==
  /\ job \in Job
  /\ task \in [Task -> TaskRecord]
  /\ charge \in [Task -> {"none", "reserved", "refunded"}]
  /\ tick \in Tick
  /\ tick.at # "idle" => tick.row \in Row
  /\ tick.at \notin {"idle", "start", "find", "fail"} => tick.task \in Task
  /\ uploads \in [Row -> 0..MaxUploads]
  /\ up \in BOOLEAN
  /\ refunds \subseteq Task
  /\ used \in [Kinds -> Nat]

\* create_job
Init ==
  /\ job = [status |-> "queued", canceled |-> FALSE,
            row |-> [r \in Row |-> [status |-> "queued", task |-> NoTask, attempts |-> 0,
                                    ready |-> r \notin Lazy, delayed |-> FALSE]]]
  /\ task = [t \in Task |-> NoRecord]
  /\ charge = [t \in Task |-> "none"]
  /\ tick = Idle
  /\ uploads = [r \in Row |-> 0]
  /\ up = TRUE
  /\ refunds = {}
  /\ used = [k \in Kinds |-> 0]

-----------------------------------------------------------------------------
(* Changes of a job *)

\* _finish_job_if_terminal.  The job of a canceled row that is still running goes
\* from canceling back to running; canceled_at keeps it from being claimed.
FinishJobIfTerminal(j) ==
  LET all(S) == \A r \in Row : j.row[r].status \in S
  IN [j EXCEPT !.status =
        IF all(TerminalRow) THEN IF j.canceled /\ all({"canceled"}) THEN "canceled" ELSE "completed"
        ELSE IF \E r \in Row : j.row[r].status \in {"creating", "running"} THEN "running"
        ELSE "queued"]

\* cancel_job: rows without a task are canceled, rows with one run on.
CancelJob(j) ==
  LET rows == [r \in Row |->
                IF /\ j.row[r].status \in {"queued", "awaiting_assets", "creating"}
                   /\ j.row[r].task = NoTask
                  THEN [j.row[r] EXCEPT !.status = "canceled"] ELSE j.row[r]]
  IN [status   |-> IF \E r \in Row : rows[r].status = "running" THEN "canceling" ELSE "canceled",
      canceled |-> TRUE,
      row      |-> rows]

\* Mutant: a row whose creation died with the process is left as it is.
RecoverNothing(j, S) == j

\* recover_stale_creating_rows, for the rows S that have been creating for too long.
RecoverStaleCreatingRows(j, S) ==
  [j EXCEPT !.row = [r \in Row |-> IF r \in S THEN [j.row[r] EXCEPT !.status = "queued"] ELSE j.row[r]]]

\* claim_next_row: a row that is due is claimed, or asked for its images.
ClaimRow(j, r) ==
  [j EXCEPT !.status = "running", !.row[r].status = "creating", !.row[r].delayed = FALSE]
RequestAssets(j, r) ==
  [j EXCEPT !.status = "running", !.row[r].status = "awaiting_assets"]

\* mark_row_assets_ready.  The status of the row is not looked at again.
MarkRowAssetsReady(j, r) ==
  IF j.canceled \/ j.row[r].task # NoTask THEN j
  ELSE [j EXCEPT !.status = "running", !.row[r].status = "queued", !.row[r].ready = TRUE]

\* Mutant: a row that was canceled meanwhile stays canceled.
FinishUncanceledRow(j, r, t) ==
  IF j.row[r].status = "canceled" THEN j
  ELSE [j EXCEPT !.status = IF j.canceled THEN "canceling" ELSE "running",
                 !.row[r].status = "running", !.row[r].task = t]

\* finish_row_creation: the task exists, so the row runs, canceled or not.
FinishRowCreation(j, r, t) ==
  [j EXCEPT !.status = IF j.canceled THEN "canceling" ELSE "running",
            !.row[r].status = "running", !.row[r].task = t]

NextAttempt(n) == IF n < MaxAttempts THEN n + 1 ELSE MaxAttempts

\* Mutant: the row keeps the task id.
FailOpenRowKeepsTask(j, r, retry) ==
  [j EXCEPT !.row[r].status = IF retry THEN "queued" ELSE "failed",
            !.row[r].attempts = NextAttempt(@)]

\* What fail_or_requeue_row makes of an open row.
FailOpenRow(j, r, retry) ==
  LET n == NextAttempt(j.row[r].attempts)
      again == retry /\ n < MaxAttempts /\ ~j.canceled
  IN [j EXCEPT !.row[r] = [j.row[r] EXCEPT !.status = IF again THEN "queued" ELSE "failed",
                                           !.task = NoTask, !.attempts = n,
                                           !.delayed = again \/ j.row[r].delayed]]

\* Mutant: the row's status is not looked at.
FailAnyRow(j, r, retry) == FinishJobIfTerminal(FailOpenRow(j, r, retry))

\* Mutant: the job is not finished with its last row.
FailRowOnly(j, r, retry) ==
  IF j.row[r].status \in TerminalRow THEN j ELSE FailOpenRow(j, r, retry)

FailOrRequeueRow(j, r, retry) ==
  IF j.row[r].status \in TerminalRow THEN j ELSE FinishJobIfTerminal(FailOpenRow(j, r, retry))

\* What the state of a task makes of its row.
Outcome(s) ==
  CASE s = "success" -> "completed"
    [] s \in {"failed", "canceled"} -> s
    [] OTHER -> "running"

\* reconcile_job with the task states of the rows S.
ReconcileJob(j, S) ==
  LET known(r) == /\ r \in S /\ j.row[r].task # NoTask /\ j.row[r].status \notin TerminalRow
                  /\ task[j.row[r].task].status # "none"
  IN FinishJobIfTerminal(
       [j EXCEPT !.row = [r \in Row |->
          IF known(r) THEN [j.row[r] EXCEPT !.status = Outcome(task[j.row[r].task].status)]
                      ELSE j.row[r]]])

-----------------------------------------------------------------------------
(* Requests *)

Disturb(kind) == used[kind] < Budget[kind] /\ used' = [used EXCEPT ![kind] = @ + 1]

\* lifespan has done its start-up work.
Serving == up /\ refunds = {}

\* POST /batch-prompts/{id}/cancel
CancelBatch ==
  /\ Serving
  /\ job' = CancelJob(job)
  /\ UNCHANGED <<task, charge, tick, uploads, up, refunds, used>>

\* POST .../rows/{index}/assets: the row is checked, the images are received ...
UploadCheck(r) ==
  /\ Serving /\ r \in Lazy /\ uploads[r] < MaxUploads
  /\ job.row[r].status = "awaiting_assets"
  /\ uploads' = [uploads EXCEPT ![r] = @ + 1]
  /\ UNCHANGED <<job, task, charge, tick, up, refunds, used>>

\* ... and the row is marked ready, or the upload breaks off.
UploadEnds(r) ==
  /\ Serving /\ uploads[r] > 0
  /\ uploads' = [uploads EXCEPT ![r] = @ - 1]
  /\ job' \in {job, MarkRowAssetsReady(job, r)}
  /\ UNCHANGED <<task, charge, tick, up, refunds, used>>

\* Rows whose task is still being waited for.
Waiting == {r \in Row : job.row[r].task # NoTask /\ job.row[r].status \notin TerminalRow}

\* GET .../jobs/{id}: the states of the tasks are read and then written to the rows;
\* a task that has ended in between is not among those S, and none may be left.
PollStatus(S) ==
  /\ Serving /\ (\E t \in Task : task[t].key # 0) /\ S \subseteq Waiting
  /\ job' = ReconcileJob(job, S)
  /\ UNCHANGED <<task, charge, tick, uploads, up, refunds, used>>

-----------------------------------------------------------------------------
(* The scheduler: batch_scheduler_tick *)

Live == {t \in Task : task[t].status = "live"}
\* Mutant: only tasks that a row names are counted.
LiveOfRows == {t \in Live : \E r \in Row : job.row[r].task = t}
\* list_task_metas_by_statuses and active_task_count_for_owner
ActiveTasks == Live

Sched == Serving /\ tick.at = "idle"

\* recover_stale_creating_rows: nobody creates a row while the tick is idle.
TickRecover(S) ==
  /\ Sched /\ job.status \in ActiveJob
  /\ S # {} /\ \A r \in S : job.row[r].status = "creating" /\ job.row[r].task = NoTask
  /\ job' = RecoverStaleCreatingRows(job, S)
  /\ UNCHANGED <<task, charge, tick, uploads, up, refunds, used>>

\* _reconcile_persistent_batch_jobs: only when a task has ended.
TickReconcile(S) ==
  /\ Sched /\ job.status \in ActiveJob
  /\ S # {} /\ S \subseteq Waiting
  /\ \A r \in S : task[job.row[r].task].status \in {"success", "failed", "canceled"}
  /\ job' = ReconcileJob(job, S)
  /\ UNCHANGED <<task, charge, tick, uploads, up, refunds, used>>

Due == {r \in Row : job.row[r].status = "queued" /\ ~job.row[r].delayed}
IsFirst(r, S) == r \in S /\ \A s \in S : r <= s

\* A slot is free and a row is due: the first one with its images, or, when all of
\* them miss theirs, the first one is asked for them.
TickClaim ==
  LET ready == {r \in Due : job.row[r].ready}
  IN /\ Sched /\ job.status \in {"queued", "running"} /\ ~job.canceled
     /\ Cardinality(ActiveTasks) < Slots
     /\ \/ \E r \in Row : /\ IsFirst(r, ready)
                          /\ job' = ClaimRow(job, r)
                          /\ tick' = [Idle EXCEPT !.at = "start", !.row = r]
        \/ \E r \in Row : /\ ready = {} /\ IsFirst(r, Due)
                          /\ job' = RequestAssets(job, r)
                          /\ UNCHANGED tick
     /\ UNCHANGED <<task, charge, uploads, up, refunds, used>>

-----------------------------------------------------------------------------
(* The scheduler: _create_scheduled_batch_task and what follows it *)

Go(step) == tick' = [tick EXCEPT !.at = step]
Raise(step, retry) == tick' = [tick EXCEPT !.at = step, !.retry = retry]

\* _batch_job_is_active
Active == job.status \in {"queued", "running"} /\ ~job.canceled

\* The owner, the job and the parameters are checked (409 or ValueError: the row
\* fails), then the admission of the service (503: the row is tried again).
CreateStart ==
  /\ tick.at = "start"
  /\ \/ Active /\ Go("find")
     \/ Raise("fail", FALSE)
     \/ Active /\ Raise("fail", TRUE)
  /\ UNCHANGED <<job, task, charge, uploads, up, refunds, used>>

\* Mutant: only a creation under way is found again.
UnfinishedTasks(r) == {t \in Task : task[t].key = r /\ task[t].status = "initializing"}
\* The tasks with the idempotency key of row r.
KeyedTasks(r) == {t \in Task : task[t].key = r}

\* A new record, under an id not in use: one whose record was deleted stands for a
\* new one.
Insert(t, r) ==
  /\ task[t].status = "none"
  /\ task' = [task EXCEPT ![t] = [status |-> "initializing", key |-> r]]
  /\ charge' = [charge EXCEPT ![t] = "none"]

\* find_or_create_task: the task of the row's key, or a new one.
CreateFind ==
  /\ tick.at = "find"
  /\ \/ \E t \in KeyedTasks(tick.row) :
          /\ tick' = [tick EXCEPT !.task = t,
                                  !.at = IF task[t].status = "initializing" THEN "reserve" ELSE "attach"]
          /\ UNCHANGED <<task, charge>>
     \/ /\ KeyedTasks(tick.row) = {}
        /\ \E t \in Task :
             /\ Insert(t, tick.row)
             /\ tick' = [tick EXCEPT !.task = t, !.at = "reserve"]
  /\ UNCHANGED <<job, uploads, up, refunds, used>>

\* reserve_temp_quota: once per task id, and never again after a refund.
CreateReserve ==
  LET t == tick.task IN
  /\ tick.at = "reserve"
  /\ \/ /\ charge[t] \in {"none", "reserved"}
        /\ charge' = [charge EXCEPT ![t] = "reserved"]
        /\ Go("charged")
     \/ /\ charge[t] # "reserved"
        /\ Raise("refund", FALSE)
        /\ UNCHANGED charge
  /\ UNCHANGED <<job, task, uploads, up, refunds, used>>

\* The job is looked at again after the charge, and after the images were copied.
CreateCheck ==
  /\ tick.at \in {"charged", "saved"}
  /\ IF Active THEN Go(IF tick.at = "charged" THEN "saved" ELSE "checked") ELSE Raise("refund", FALSE)
  /\ UNCHANGED <<job, task, charge, uploads, up, refunds, used>>

\* finalize_task_creation
CreateFinalize ==
  /\ tick.at = "checked"
  /\ IF task[tick.task].status = "initializing"
       THEN task' = [task EXCEPT ![tick.task].status = "live"] /\ Go("attach")
       ELSE Raise("refund", TRUE) /\ UNCHANGED task
  /\ UNCHANGED <<job, charge, uploads, up, refunds, used>>

\* finish_row_creation, and the row's uploaded files are deleted.
CreateAttach ==
  /\ tick.at = "attach"
  /\ job' = FinishRowCreation(job, tick.row, tick.task)
  /\ tick' = Idle
  /\ UNCHANGED <<task, charge, uploads, up, refunds, used>>

\* Mutant: the charge is left to somebody else.
KeepCharge(t) == charge
\* refund_temp_quota_hash
Refunded(t) == [charge EXCEPT ![t] = IF @ = "reserved" THEN "refunded" ELSE @]

\* The except blocks: refund ...
CreateRefund ==
  /\ tick.at = "refund"
  /\ charge' = Refunded(tick.task)
  /\ Go("delete")
  /\ UNCHANGED <<job, task, uploads, up, refunds, used>>

\* ... and delete_task.
CreateDelete ==
  /\ tick.at = "delete"
  /\ task' = [task EXCEPT ![tick.task] = NoRecord]
  /\ tick' = [tick EXCEPT !.at = "fail", !.task = NoTask]
  /\ UNCHANGED <<job, charge, uploads, up, refunds, used>>

CreateFail ==
  /\ tick.at = "fail"
  /\ job' = FailOrRequeueRow(job, tick.row, tick.retry)
  /\ tick' = Idle
  /\ UNCHANGED <<task, charge, uploads, up, refunds, used>>

\* A call raises, before or after it did its work.  Before the record exists the row
\* is tried again; after it the creation is undone first; a fault in the undoing ends
\* it; a fault after the task is live unties the row from it; a fault in the handler
\* leaves the row as it is.
CreateRaises ==
  /\ tick.at # "idle" /\ Disturb("fault")
  /\ \/ /\ tick.at \in {"start", "find", "attach"}
        /\ Raise("fail", TRUE) /\ UNCHANGED <<job, task, charge>>
     \/ /\ tick.at = "find" /\ KeyedTasks(tick.row) = {}
        /\ \E t \in Task : Insert(t, tick.row)
        /\ Raise("fail", TRUE) /\ UNCHANGED job
     \/ /\ tick.at \in {"reserve", "charged", "saved", "checked"}
        /\ Raise("refund", TRUE) /\ UNCHANGED <<job, task, charge>>
     \/ /\ tick.at = "checked" /\ task[tick.task].status = "initializing"
        /\ task' = [task EXCEPT ![tick.task].status = "live"]
        /\ Raise("refund", TRUE) /\ UNCHANGED <<job, charge>>
     \/ /\ tick.at = "attach"
        /\ job' = FinishRowCreation(job, tick.row, tick.task)
        /\ Raise("fail", TRUE) /\ UNCHANGED <<task, charge>>
     \/ /\ tick.at \in {"refund", "delete"}
        /\ Raise("fail", TRUE) /\ UNCHANGED <<job, task, charge>>
     \/ /\ tick.at = "delete"
        /\ task' = [task EXCEPT ![tick.task] = NoRecord]
        /\ Raise("fail", TRUE) /\ UNCHANGED <<job, charge>>
     \/ /\ tick.at = "fail"
        /\ tick' = Idle /\ UNCHANGED <<job, task, charge>>
  /\ UNCHANGED <<uploads, up, refunds>>

-----------------------------------------------------------------------------
(* The process, the workers and time *)

Crash ==
  /\ up /\ Disturb("crash")
  /\ up' = FALSE
  /\ tick' = Idle
  /\ uploads' = [r \in Row |-> 0]
  /\ refunds' = {}
  /\ UNCHANGED <<job, task, charge>>

\* lifespan: fail_initializing_tasks, then the refunds one by one.
Start ==
  /\ ~up
  /\ up' = TRUE
  /\ refunds' = {t \in Task : task[t].status = "initializing"}
  /\ task' = [t \in Task |-> IF task[t].status = "initializing"
                                THEN [task[t] EXCEPT !.status = "failed"] ELSE task[t]]
  /\ UNCHANGED <<job, charge, tick, uploads, used>>

StartRefund(t) ==
  /\ up /\ t \in refunds
  /\ charge' = Refunded(t)
  /\ refunds' = refunds \ {t}
  /\ UNCHANGED <<job, task, tick, uploads, up, used>>

\* Module TaskQueue: a live task ends, and is refunded unless it has a video.
TaskEnds(t) ==
  /\ task[t].status = "live"
  /\ \E s \in {"success", "failed", "canceled"} :
        /\ task' = [task EXCEPT ![t].status = s]
        /\ charge' = IF s = "success" THEN charge ELSE Refunded(t)
  /\ UNCHANGED <<job, tick, uploads, up, refunds, used>>

\* next_attempt_at is reached.
Elapse(r) ==
  /\ job.row[r].delayed
  /\ job' = [job EXCEPT !.row[r].delayed = FALSE]
  /\ UNCHANGED <<task, charge, tick, uploads, up, refunds, used>>

Requests == \/ CancelBatch
            \/ \E r \in Row : UploadCheck(r) \/ UploadEnds(r)
            \/ \E S \in SUBSET Row : PollStatus(S)
Schedule == TickClaim \/ \E S \in SUBSET Row : TickRecover(S) \/ TickReconcile(S)
Create == \/ CreateStart \/ CreateFind \/ CreateReserve \/ CreateCheck \/ CreateFinalize
          \/ CreateAttach \/ CreateRefund \/ CreateDelete \/ CreateFail
Process == Crash \/ Start \/ \E t \in Task : StartRefund(t) \/ TaskEnds(t)

Next == \/ Requests \/ Schedule \/ Create \/ CreateRaises \/ Process
        \/ \E r \in Row : Elapse(r)

Spec == Init /\ [][Next]_vars

(* Fairness.  The scheduler loop ticks every second, looks for stale rows every 30 *)
(* seconds, and a creation it has begun goes on; compose restarts the process; a    *)
(* task ends (PickedUp and RunEnds of TaskQueue, and its expiry); time passes.      *)
(* Nothing is assumed of the user: uploads, polls and cancels may never come.       *)
Fairness ==
  /\ WF_vars(Create) /\ WF_vars(TickClaim) /\ WF_vars(Start)
  /\ WF_vars(\E S \in SUBSET Row : TickRecover(S))
  /\ \A r \in Row : WF_vars(Elapse(r)) /\ WF_vars(TickReconcile({r}))
  /\ \A t \in Task : WF_vars(StartRefund(t)) /\ WF_vars(TaskEnds(t))

FairSpec == Spec /\ Fairness

-----------------------------------------------------------------------------
(* Properties *)

\* However often a row is claimed, crashed on, recovered and tried again, it has one
\* task: the idempotency key finds the task that an earlier try left behind.
OneTaskPerRow == \A s, t \in Task : task[s].key = task[t].key /\ task[s].key # 0 => s = t

\* A reservation is backed by a task: the owner is never left charged for a creation
\* that was undone or that the start-up clean-up has failed.
ChargesBacked ==
  \A t \in Task : charge[t] = "reserved" =>
     task[t].status \in {"initializing", "live", "success"} \/ t \in refunds

\* The status of the job tells the state of its rows: it is final exactly when every
\* row is.  The scheduler looks at active jobs only, so a job that is called final
\* too early would never run its other rows, and one called active never ends.
StatusTruthful ==
  job.status \in TerminalJob <=> \A r \in Row : job.row[r].status \in TerminalRow

\* A row that runs has its own task, and a row that waits has none.
RowsTied ==
  \A r \in Row : LET t == job.row[r].task IN
     /\ t # NoTask => task[t].key = r /\ job.row[r].status \in {"running"} \cup TerminalRow
     /\ job.row[r].status \in {"running", "completed"} => t # NoTask

\* Without crashes and faults no task goes on behind the user's back: when the
\* scheduler is between two creations, a row that is called failed or canceled has no
\* live task, although a cancel can overtake the creation of its task.
NoGhost ==
  used = [k \in Kinds |-> 0] /\ tick.at = "idle" =>
     \A t \in Live : job.row[task[t].key].status = "running"

\* README: a row without a free slot is not created.  Tasks whose row does not name
\* them yet (after a crash) count too.
SlotLimit == Cardinality(Live) <= Slots

\* A row that has ended with its task is never opened again, by late uploads, polls,
\* a cancel of the ended job, or a creation whose last call failed.
SettledRows ==
  [][\A r \in Row : job.row[r].status \in TerminalRow /\ job.row[r].task # NoTask
        => job'.row[r] = job.row[r]]_vars

\* A job ends, or it waits for its user to upload images.
JobEnds ==
  job.status \in ActiveJob ~>
     job.status \in TerminalJob \/ \E r \in Row : job.row[r].status = "awaiting_assets"
=============================================================================
