-------------------------- MODULE BatchJobs_proofs --------------------------
(* Proofs about BatchJobs for any rows, tasks, slots, attempts and budgets. *)
EXTENDS BatchJobs, FiniteSetTheorems, TLAPS

\* The status of job j is final exactly when all its rows are.
Truthful(j) == j.status \in TerminalJob <=> \A r \in Row : j.row[r].status \in TerminalRow

\* Row x, the r-th of the job, is tied to its task; a delayed row has none.
RowOK(x, r) ==
  /\ x.task # NoTask => task[x.task].key = r /\ x.status \in {"running"} \cup TerminalRow
  /\ x.status \in {"running", "completed"} => x.task # NoTask
  /\ x.delayed => x.task = NoTask

\* A change of the job that keeps every row free that could be under creation.
KeepsFree(j, k) ==
  \A r \in Row : j.row[r].task = NoTask /\ ~j.row[r].delayed
                    => k.row[r].task = NoTask /\ ~k.row[r].delayed

\* A change of the job that leaves the rows alone that ended with their task.
KeepsSettled(j, k) ==
  \A r \in Row : j.row[r].status \in TerminalRow /\ j.row[r].task # NoTask => k.row[r] = j.row[r]

\* A record has a key, and only a record has one.
Keyed == \A t \in Task : task[t].status = "none" <=> task[t].key = 0

\* The row under creation is free, and the task that is created for it has its key.
Creating ==
  /\ tick.at \notin {"idle", "fail"}
        => job.row[tick.row].task = NoTask /\ ~job.row[tick.row].delayed
  /\ tick.at \notin {"idle", "start", "find", "fail"} => task[tick.task].key = tick.row

\* Two states of the task records with the same keys.
SameKeys(f, g) == \A t \in Task : g[t].key = f[t].key /\ (g[t].status = "none" <=> f[t].status = "none")

\* The inductive invariant.
BatchInv ==
  /\ TypeOK
  /\ Truthful(job)
  /\ \A r \in Row : RowOK(job.row[r], r)
  /\ Keyed
  /\ Creating
  /\ OneTaskPerRow

-----------------------------------------------------------------------------
(* What the changes of a job do *)

\* _finish_job_if_terminal makes the status truthful and leaves the rows alone.
LEMMA FinishFacts ==
  ASSUME NEW j \in Job
  PROVE  /\ FinishJobIfTerminal(j) \in Job
         /\ FinishJobIfTerminal(j).row = j.row
         /\ Truthful(FinishJobIfTerminal(j))
<1> DEFINE f == FinishJobIfTerminal(j)
<1>1. f.row = j.row /\ f.canceled = j.canceled
  BY DEF FinishJobIfTerminal, Job
<1>2. f.status \in {"canceled", "completed", "running", "queued"}
  BY DEF FinishJobIfTerminal, Job
<1>3. f \in Job
  BY <1>1, <1>2 DEF FinishJobIfTerminal, Job, ActiveJob, TerminalJob
<1>4. Truthful(f)
  <2>1. CASE \A r \in Row : j.row[r].status \in TerminalRow
    BY <1>1, <2>1 DEF FinishJobIfTerminal, Truthful, TerminalJob, Job
  <2>2. CASE ~ \A r \in Row : j.row[r].status \in TerminalRow
    BY <1>1, <2>2 DEF FinishJobIfTerminal, Truthful, TerminalJob, Job
  <2> QED BY <2>1, <2>2
<1> QED BY <1>1, <1>3, <1>4

\* cancel_job ends the rows without a task, and the job unless a row runs.
LEMMA CancelFacts ==
  ASSUME NEW j \in Job, \A r \in Row : RowOK(j.row[r], r)
  PROVE  LET k == CancelJob(j) IN
         /\ k \in Job /\ Truthful(k) /\ KeepsFree(j, k) /\ KeepsSettled(j, k)
         /\ \A r \in Row : RowOK(k.row[r], r)
<1> DEFINE k == CancelJob(j)
<1>1. ASSUME NEW r \in Row
      PROVE  /\ k.row[r] \in RowRecord
             /\ k.row[r].task = j.row[r].task /\ k.row[r].delayed = j.row[r].delayed
             /\ k.row[r].status = IF j.row[r].status \in {"running"} \cup TerminalRow
                                    THEN j.row[r].status ELSE "canceled"
             /\ j.row[r].status \in TerminalRow => k.row[r] = j.row[r]
  <2>1. j.row[r] \in RowRecord
    BY DEF Job
  <2>2. CASE j.row[r].status \in {"running"} \cup TerminalRow
    BY <2>1, <2>2 DEF CancelJob, TerminalRow
  <2>3. CASE j.row[r].status \notin {"running"} \cup TerminalRow
    <3>1. j.row[r].status \in {"queued", "awaiting_assets", "creating"} /\ j.row[r].task = NoTask
      BY <2>1, <2>3 DEF RowOK, RowRecord, RowStatus
    <3> QED BY <2>1, <2>3, <3>1 DEF CancelJob, RowRecord, RowStatus, TerminalRow
  <2> QED BY <2>2, <2>3
<1>2. /\ k.status \in {"canceling", "canceled"} /\ k.canceled = TRUE
      /\ k.status = "canceling" <=> \E r \in Row : k.row[r].status = "running"
  BY DEF CancelJob
<1>3. k \in Job
  <2>1. k.row \in [Row -> RowRecord]
    BY <1>1 DEF CancelJob
  <2> QED BY <1>2, <2>1 DEF CancelJob, Job, ActiveJob, TerminalJob
<1>4. Truthful(k)
  BY <1>1, <1>2 DEF Truthful, TerminalJob, TerminalRow
<1>5. \A r \in Row : RowOK(k.row[r], r)
  BY <1>1 DEF RowOK, TerminalRow
<1> QED BY <1>1, <1>3, <1>4, <1>5 DEF KeepsFree, KeepsSettled

\* recover_stale_creating_rows opens rows of an open job.
LEMMA RecoverFacts ==
  ASSUME NEW j \in Job, Truthful(j), \A r \in Row : RowOK(j.row[r], r),
         NEW S \in SUBSET Row, S # {},
         \A r \in S : j.row[r].status = "creating" /\ j.row[r].task = NoTask
  PROVE  LET k == RecoverStaleCreatingRows(j, S) IN
         /\ k \in Job /\ Truthful(k) /\ KeepsFree(j, k) /\ KeepsSettled(j, k)
         /\ \A r \in Row : RowOK(k.row[r], r)
<1> DEFINE k == RecoverStaleCreatingRows(j, S)
<1>1. k.status = j.status /\ k.canceled = j.canceled
  BY DEF RecoverStaleCreatingRows, Job
<1>2. ASSUME NEW r \in Row
      PROVE  /\ k.row[r] \in RowRecord
             /\ r \notin S => k.row[r] = j.row[r]
             /\ r \in S => k.row[r].status = "queued" /\ k.row[r].task = NoTask
             /\ k.row[r].delayed = j.row[r].delayed
  <2>1. j.row[r] \in RowRecord
    BY DEF Job
  <2> QED BY <2>1 DEF RecoverStaleCreatingRows, Job, RowRecord, RowStatus
<1>3. k \in Job
  <2>1. k.row \in [Row -> RowRecord]
    BY <1>2 DEF RecoverStaleCreatingRows, Job
  <2> QED BY <1>1, <2>1 DEF RecoverStaleCreatingRows, Job
<1>4. Truthful(k)
  BY <1>1, <1>2 DEF Truthful, TerminalRow
<1>5. \A r \in Row : RowOK(k.row[r], r)
  BY <1>2 DEF RowOK
<1> QED BY <1>2, <1>3, <1>4, <1>5 DEF KeepsFree, KeepsSettled, TerminalRow

\* claim_next_row takes up a free row, or asks for its images.
LEMMA ClaimFacts ==
  ASSUME NEW j \in Job, \A r \in Row : RowOK(j.row[r], r),
         NEW c \in Row, j.row[c].status = "queued",
         NEW k \in {ClaimRow(j, c), RequestAssets(j, c)}
  PROVE  /\ k \in Job /\ Truthful(k) /\ KeepsFree(j, k) /\ KeepsSettled(j, k)
         /\ \A r \in Row : RowOK(k.row[r], r)
<1>1. j.row \in [Row -> RowRecord] /\ j.row[c] \in RowRecord /\ j.row[c].task = NoTask
  BY DEF Job, RowOK, TerminalRow
<1>2. /\ k.status = "running" /\ k.canceled = j.canceled
      /\ k.row[c] \in RowRecord /\ k.row[c].status \in {"creating", "awaiting_assets"}
      /\ k.row[c].task = NoTask /\ k.row[c].delayed \in {FALSE, j.row[c].delayed}
      /\ \A r \in Row : r # c => k.row[r] = j.row[r]
  <2>1. CASE k = ClaimRow(j, c)
    BY <1>1, <2>1 DEF ClaimRow, Job, RowRecord, RowStatus
  <2>2. CASE k = RequestAssets(j, c)
    BY <1>1, <2>2 DEF RequestAssets, Job, RowRecord, RowStatus
  <2> QED BY <2>1, <2>2
<1>3. k \in Job
  <2>1. CASE k = ClaimRow(j, c)
    BY <1>1, <1>2, <2>1, ZenonT(60) DEF ClaimRow, Job, ActiveJob, RowRecord, RowStatus
  <2>2. CASE k = RequestAssets(j, c)
    BY <1>1, <1>2, <2>2 DEF RequestAssets, Job, ActiveJob, RowRecord, RowStatus
  <2> QED BY <2>1, <2>2
<1>4. Truthful(k)
  BY <1>2 DEF Truthful, TerminalJob, TerminalRow
<1>5. \A r \in Row : RowOK(k.row[r], r)
  BY <1>2 DEF RowOK
<1> QED BY <1>1, <1>2, <1>3, <1>4, <1>5 DEF KeepsFree, KeepsSettled, TerminalRow

\* mark_row_assets_ready opens a row without a task.
LEMMA MarkFacts ==
  ASSUME NEW j \in Job, Truthful(j), \A r \in Row : RowOK(j.row[r], r), NEW c \in Row
  PROVE  LET k == MarkRowAssetsReady(j, c) IN
         /\ k \in Job /\ Truthful(k) /\ KeepsFree(j, k) /\ KeepsSettled(j, k)
         /\ \A r \in Row : RowOK(k.row[r], r)
<1> DEFINE k == MarkRowAssetsReady(j, c)
<1>1. CASE j.canceled \/ j.row[c].task # NoTask
  BY <1>1 DEF MarkRowAssetsReady, KeepsFree, KeepsSettled
<1>2. CASE ~(j.canceled \/ j.row[c].task # NoTask)
  <2>1. j.row \in [Row -> RowRecord] /\ j.row[c] \in RowRecord /\ j.row[c].task = NoTask
    BY <1>2 DEF Job
  <2>2. /\ k.status = "running" /\ k.canceled = j.canceled
        /\ k.row[c].status = "queued" /\ k.row[c].task = NoTask
        /\ k.row[c].delayed = j.row[c].delayed
        /\ \A r \in Row : r # c => k.row[r] = j.row[r]
    BY <1>2, <2>1 DEF MarkRowAssetsReady, Job, RowRecord
  <2>3. k \in Job
    BY <1>2, <2>1, <2>2 DEF MarkRowAssetsReady, Job, ActiveJob, RowRecord, RowStatus
  <2>4. Truthful(k)
    BY <2>2 DEF Truthful, TerminalJob, TerminalRow
  <2>5. \A r \in Row : RowOK(k.row[r], r)
    BY <2>2 DEF RowOK
  <2> QED BY <2>1, <2>2, <2>3, <2>4, <2>5 DEF KeepsFree, KeepsSettled, TerminalRow
<1> QED BY <1>1, <1>2

\* finish_row_creation ties a free row to the task with its key.
LEMMA AttachFacts ==
  ASSUME NEW j \in Job, \A r \in Row : RowOK(j.row[r], r), NEW c \in Row, NEW t \in Task,
         j.row[c].task = NoTask, ~j.row[c].delayed, task[t].key = c
  PROVE  LET k == FinishRowCreation(j, c, t) IN
         /\ k \in Job /\ Truthful(k) /\ KeepsSettled(j, k)
         /\ \A r \in Row : RowOK(k.row[r], r)
<1> DEFINE k == FinishRowCreation(j, c, t)
<1>0. t # NoTask
  BY BatchConstants
<1>1. j.row \in [Row -> RowRecord] /\ j.row[c] \in RowRecord
  BY DEF Job
<1>2. /\ k.status \in {"running", "canceling"} /\ k.canceled = j.canceled
      /\ k.row[c].status = "running" /\ k.row[c].task = t /\ k.row[c].delayed = j.row[c].delayed
      /\ \A r \in Row : r # c => k.row[r] = j.row[r]
  BY <1>1 DEF FinishRowCreation, Job, RowRecord
<1>3. k \in Job
  BY <1>1, <1>2 DEF FinishRowCreation, Job, ActiveJob, RowRecord, RowStatus
<1>4. Truthful(k)
  BY <1>2 DEF Truthful, TerminalJob, TerminalRow
<1>5. \A r \in Row : RowOK(k.row[r], r)
  BY <1>0, <1>2 DEF RowOK
<1> QED BY <1>2, <1>3, <1>4, <1>5 DEF KeepsSettled

\* fail_or_requeue_row unties an open row and leaves an ended one alone.
LEMMA FailFacts ==
  ASSUME NEW j \in Job, Truthful(j), \A r \in Row : RowOK(j.row[r], r),
         NEW c \in Row, NEW retry \in BOOLEAN
  PROVE  LET k == FailOrRequeueRow(j, c, retry) IN
         /\ k \in Job /\ Truthful(k) /\ KeepsSettled(j, k)
         /\ \A r \in Row : RowOK(k.row[r], r)
<1> DEFINE k == FailOrRequeueRow(j, c, retry)
           o == FailOpenRow(j, c, retry)
<1>1. CASE j.row[c].status \in TerminalRow
  BY <1>1 DEF FailOrRequeueRow, KeepsSettled
<1>2. CASE j.row[c].status \notin TerminalRow
  <2>1. j.row \in [Row -> RowRecord] /\ j.row[c] \in RowRecord
    BY DEF Job
  <2>2. NextAttempt(j.row[c].attempts) \in 0..MaxAttempts
    BY <2>1, BatchConstants DEF NextAttempt, RowRecord
  <2>3. /\ o.row[c].status \in {"queued", "failed"} /\ o.row[c].task = NoTask
        /\ \A r \in Row : r # c => o.row[r] = j.row[r]
    BY <2>1 DEF FailOpenRow, Job, RowRecord
  <2>4. o \in Job
    BY <2>1, <2>2 DEF FailOpenRow, Job, RowRecord, RowStatus, TerminalRow
  <2>5. k \in Job /\ Truthful(k) /\ k.row = o.row
    BY <1>2, <2>4, FinishFacts DEF FailOrRequeueRow
  <2>6. \A r \in Row : RowOK(k.row[r], r)
    BY <2>3, <2>5 DEF RowOK
  <2> QED BY <1>2, <2>3, <2>5, <2>6 DEF KeepsSettled
<1> QED BY <1>1, <1>2

\* reconcile_job ends open rows with their tasks, and the job with its last row.
LEMMA ReconcileFacts ==
  ASSUME NEW j \in Job, task \in [Task -> TaskRecord],
         \A r \in Row : RowOK(j.row[r], r), NEW S \in SUBSET Row
  PROVE  LET k == ReconcileJob(j, S) IN
         /\ k \in Job /\ Truthful(k) /\ KeepsFree(j, k) /\ KeepsSettled(j, k)
         /\ \A r \in Row : RowOK(k.row[r], r)
<1> DEFINE k == ReconcileJob(j, S)
           known(r) == /\ r \in S /\ j.row[r].task # NoTask /\ j.row[r].status \notin TerminalRow
                       /\ task[j.row[r].task].status # "none"
           rows == [r \in Row |->
                      IF known(r) THEN [j.row[r] EXCEPT !.status = Outcome(task[j.row[r].task].status)]
                                  ELSE j.row[r]]
           m == [j EXCEPT !.row = rows]
<1>1. ASSUME NEW r \in Row
      PROVE  /\ rows[r] \in RowRecord
             /\ rows[r].task = j.row[r].task /\ rows[r].delayed = j.row[r].delayed
             /\ ~known(r) => rows[r] = j.row[r]
             /\ known(r) => rows[r].status \in {"running"} \cup TerminalRow
  <2>1. j.row[r] \in RowRecord
    BY DEF Job
  <2>2. \A s : Outcome(s) \in {"completed", "failed", "canceled", "running"}
    BY DEF Outcome
  <2>3. CASE known(r)
    BY <2>1, <2>2, <2>3 DEF RowRecord, RowStatus, TerminalRow
  <2>4. CASE ~known(r)
    BY <2>1, <2>4
  <2> QED BY <2>3, <2>4
<1>2. m \in Job /\ m.row = rows
  <2>1. rows \in [Row -> RowRecord]
    BY <1>1
  <2> QED BY <2>1 DEF Job
<1>3. k = FinishJobIfTerminal(m)
  BY DEF ReconcileJob
<1>4. k \in Job /\ Truthful(k) /\ k.row = rows
  BY <1>2, <1>3, FinishFacts
<1>5. ASSUME NEW r \in Row PROVE RowOK(k.row[r], r)
  <2>1. k.row[r] = rows[r] /\ RowOK(j.row[r], r)
    BY <1>4
  <2>2. CASE known(r)
    <3>1. j.row[r].task # NoTask /\ rows[r].status \in {"running"} \cup TerminalRow
      BY <1>1, <2>2
    <3> HIDE DEF k, rows, known
    <3> QED BY <1>1, <2>1, <3>1 DEF RowOK
  <2>3. CASE ~known(r)
    <3>1. rows[r] = j.row[r]
      BY <1>1, <2>3
    <3> HIDE DEF k, rows
    <3> QED BY <2>1, <3>1
  <2> QED BY <2>2, <2>3
<1> QED BY <1>1, <1>4, <1>5 DEF KeepsFree, KeepsSettled

-----------------------------------------------------------------------------
(* The invariant is inductive *)

\* A job starts open, with all its rows free.
LEMMA BatchInit == Init => BatchInv
<1> SUFFICES ASSUME Init PROVE BatchInv
  OBVIOUS
<1> USE BatchConstants
<1>1. /\ \A r \in Row : job.row[r] = [status |-> "queued", task |-> NoTask, attempts |-> 0,
                                      ready |-> r \notin Lazy, delayed |-> FALSE]
      /\ job.status = "queued" /\ Row # {}
  <2>1. 1 \in Row
    BY DEF Row
  <2> QED BY <2>1 DEF Init
<1>2. job \in Job
  <2>1. \A r \in Row : [status |-> "queued", task |-> NoTask, attempts |-> 0,
                        ready |-> r \notin Lazy, delayed |-> FALSE] \in RowRecord
    BY DEF RowRecord, RowStatus
  <2> QED BY <2>1 DEF Init, Job, ActiveJob
<1>3. task \in [Task -> TaskRecord] /\ \A t \in Task : task[t] = NoRecord
  BY DEF Init, TaskRecord, NoRecord
<1>4. tick \in Tick /\ tick.at = "idle"
  BY DEF Init, Idle, Tick, Steps
<1>5. TypeOK
  <2>1. uploads \in [Row -> 0..MaxUploads] /\ used \in [Kinds -> Nat]
    BY DEF Init
  <2> QED BY <1>2, <1>3, <1>4, <2>1 DEF Init, TypeOK
<1>0. \A r \in Row : /\ job.row[r].status = "queued" /\ job.row[r].task = NoTask
                     /\ ~job.row[r].delayed
  BY DEF Init
<1>6. Truthful(job)
  BY <1>0, <1>1 DEF Truthful, TerminalJob, TerminalRow
<1>7. \A r \in Row : RowOK(job.row[r], r)
  BY <1>0 DEF RowOK
<1>8. Keyed /\ OneTaskPerRow
  BY <1>3 DEF Keyed, OneTaskPerRow, NoRecord
<1>9. Creating
  BY <1>4 DEF Creating
<1> QED BY <1>5, <1>6, <1>7, <1>8, <1>9 DEF BatchInv

\* A change of the job alone, beside a creation, keeps the invariant.
LEMMA JobStep ==
  ASSUME BatchInv, job' \in Job, Truthful(job'), KeepsFree(job, job'),
         \A r \in Row : RowOK(job'.row[r], r),
         uploads' \in [Row -> 0..MaxUploads],
         UNCHANGED <<task, charge, tick, up, refunds, used>>
  PROVE  BatchInv'
<1>1. TypeOK'
  BY DEF BatchInv, TypeOK
<1>2. Truthful(job)' /\ Keyed' /\ OneTaskPerRow'
  BY DEF BatchInv, Truthful, Keyed, OneTaskPerRow
<1>3. (\A r \in Row : RowOK(job.row[r], r))'
  BY DEF RowOK
<1>4. Creating'
  BY DEF BatchInv, TypeOK, Creating, KeepsFree
<1> QED BY <1>1, <1>2, <1>3, <1>4 DEF BatchInv

\* A change of the job that ends a creation keeps the invariant.
LEMMA JobStepIdle ==
  ASSUME BatchInv, job' \in Job, Truthful(job'),
         \A r \in Row : RowOK(job'.row[r], r),
         tick' \in Tick, tick'.at \in {"idle", "fail"}, tick'.at = "fail" => tick'.row \in Row,
         used' \in [Kinds -> Nat],
         UNCHANGED <<task, charge, uploads, up, refunds>>
  PROVE  BatchInv'
<1>1. TypeOK'
  BY DEF BatchInv, TypeOK
<1>2. Truthful(job)' /\ Keyed' /\ OneTaskPerRow'
  BY DEF BatchInv, Truthful, Keyed, OneTaskPerRow
<1>3. (\A r \in Row : RowOK(job.row[r], r))'
  BY DEF RowOK
<1>4. Creating'
  BY DEF Creating
<1> QED BY <1>1, <1>2, <1>3, <1>4 DEF BatchInv

\* A step that leaves the job alone and keeps every key keeps the invariant.
LEMMA KeysKept ==
  ASSUME BatchInv, TypeOK', Creating', job' = job,
         SameKeys(task, task')
  PROVE  BatchInv'
<1>1. Truthful(job)' /\ Keyed' /\ OneTaskPerRow'
  BY DEF BatchInv, Truthful, Keyed, OneTaskPerRow, SameKeys
<1>2. (\A r \in Row : RowOK(job.row[r], r))'
  <2>1. \A r \in Row : job.row[r].task # NoTask => job.row[r].task \in Task
    BY DEF BatchInv, TypeOK, Job, RowRecord
  <2> QED BY <2>1 DEF BatchInv, RowOK, SameKeys
<1> QED BY <1>1, <1>2 DEF BatchInv

\* The requests of the user.
LEMMA RequestStep ==
  ASSUME BatchInv, Requests PROVE BatchInv' /\ KeepsSettled(job, job')
<1>0. /\ job \in Job /\ Truthful(job) /\ task \in [Task -> TaskRecord]
      /\ uploads \in [Row -> 0..MaxUploads]
      /\ \A r \in Row : RowOK(job.row[r], r)
  BY DEF BatchInv, TypeOK
<1>1. CASE CancelBatch
  BY <1>0, <1>1, CancelFacts, JobStep DEF CancelBatch
<1>2. ASSUME NEW r \in Row, UploadCheck(r) PROVE BatchInv' /\ KeepsSettled(job, job')
  <2>1. uploads' \in [Row -> 0..MaxUploads]
    BY <1>0, <1>2, BatchConstants DEF UploadCheck
  <2>2. job' = job /\ UNCHANGED <<task, charge, tick, up, refunds, used>>
    BY <1>2 DEF UploadCheck
  <2>3. job' \in Job /\ Truthful(job') /\ KeepsFree(job, job') /\ KeepsSettled(job, job')
        /\ \A s \in Row : RowOK(job'.row[s], s)
    BY <1>0, <2>2 DEF KeepsFree, KeepsSettled
  <2> QED BY <2>1, <2>2, <2>3, JobStep
<1>3. ASSUME NEW r \in Row, UploadEnds(r) PROVE BatchInv' /\ KeepsSettled(job, job')
  <2>1. uploads' \in [Row -> 0..MaxUploads]
    BY <1>0, <1>3, BatchConstants DEF UploadEnds
  <2>2. job' \in {job, MarkRowAssetsReady(job, r)} /\ UNCHANGED <<task, charge, tick, up, refunds, used>>
    BY <1>3 DEF UploadEnds
  <2>3. job' \in Job /\ Truthful(job') /\ KeepsFree(job, job') /\ KeepsSettled(job, job')
        /\ \A s \in Row : RowOK(job'.row[s], s)
    <3>1. CASE job' = job
      BY <1>0, <3>1 DEF KeepsFree, KeepsSettled
    <3>2. CASE job' = MarkRowAssetsReady(job, r)
      BY <1>0, <3>2, MarkFacts
    <3> QED BY <2>2, <3>1, <3>2
  <2> QED BY <2>1, <2>2, <2>3, JobStep
<1>4. ASSUME NEW S \in SUBSET Row, PollStatus(S) PROVE BatchInv' /\ KeepsSettled(job, job')
  BY <1>0, <1>4, ReconcileFacts, JobStep DEF PollStatus
<1> QED BY <1>1, <1>2, <1>3, <1>4 DEF Requests

\* The scheduler between two creations.
LEMMA ScheduleStep ==
  ASSUME BatchInv, Schedule PROVE BatchInv' /\ KeepsSettled(job, job')
<1>0. /\ job \in Job /\ Truthful(job) /\ task \in [Task -> TaskRecord]
      /\ uploads \in [Row -> 0..MaxUploads]
      /\ \A r \in Row : RowOK(job.row[r], r)
  BY DEF BatchInv, TypeOK
<1>1. ASSUME NEW S \in SUBSET Row, TickRecover(S) PROVE BatchInv' /\ KeepsSettled(job, job')
  BY <1>0, <1>1, RecoverFacts, JobStep DEF TickRecover
<1>2. ASSUME NEW S \in SUBSET Row, TickReconcile(S) PROVE BatchInv' /\ KeepsSettled(job, job')
  BY <1>0, <1>2, ReconcileFacts, JobStep DEF TickReconcile
<1>3. ASSUME NEW r \in Due, job' = ClaimRow(job, r), tick' = [Idle EXCEPT !.at = "start", !.row = r],
             UNCHANGED <<task, charge, uploads, up, refunds, used>>
      PROVE  BatchInv' /\ KeepsSettled(job, job')
  <2>1. r \in Row /\ job.row[r].status = "queued" /\ ~job.row[r].delayed /\ job.row[r].task = NoTask
    BY <1>0 DEF Due, RowOK, TerminalRow
  <2>2. /\ job' \in Job /\ Truthful(job') /\ KeepsFree(job, job') /\ KeepsSettled(job, job')
        /\ \A s \in Row : RowOK(job'.row[s], s)
    BY <1>0, <1>3, <2>1, ClaimFacts
  <2>3. tick' \in Tick /\ tick'.at = "start" /\ tick'.row = r
    BY <1>3, <2>1 DEF Idle, Tick, Steps
  <2>4. TypeOK'
    BY <1>3, <2>1, <2>2, <2>3 DEF BatchInv, TypeOK
  <2>5. Truthful(job)' /\ Keyed' /\ OneTaskPerRow'
    BY <1>3, <2>2 DEF BatchInv, Truthful, Keyed, OneTaskPerRow
  <2>6. (\A s \in Row : RowOK(job.row[s], s))'
    BY <1>3, <2>2 DEF RowOK
  <2>7. Creating'
    BY <2>1, <2>2, <2>3 DEF Creating, KeepsFree
  <2> QED BY <2>2, <2>4, <2>5, <2>6, <2>7 DEF BatchInv
<1>4. ASSUME NEW r \in Due, job' = RequestAssets(job, r),
             UNCHANGED <<task, charge, tick, uploads, up, refunds, used>>
      PROVE  BatchInv' /\ KeepsSettled(job, job')
  <2>1. r \in Row /\ job.row[r].status = "queued"
    BY DEF Due
  <2>2. /\ job' \in Job /\ Truthful(job') /\ KeepsFree(job, job') /\ KeepsSettled(job, job')
        /\ \A s \in Row : RowOK(job'.row[s], s)
    BY <1>0, <1>4, <2>1, ClaimFacts
  <2> QED BY <1>0, <1>4, <2>2, JobStep
<1>5. CASE TickClaim
  BY <1>3, <1>4, <1>5 DEF TickClaim, IsFirst
<1> QED BY <1>1, <1>2, <1>5 DEF Schedule

\* A change of the status of a record keeps the keys.
LEMMA SetStatus ==
  ASSUME NEW f \in [Task -> TaskRecord], NEW t \in Task, f[t].status # "none",
         NEW s \in {"live", "success", "failed", "canceled"}
  PROVE  /\ [f EXCEPT ![t].status = s] \in [Task -> TaskRecord]
         /\ SameKeys(f, [f EXCEPT ![t].status = s])
<1> DEFINE g == [f EXCEPT ![t].status = s]
<1>1. f[t] \in TaskRecord
  OBVIOUS
<1>2. g[t] = [f[t] EXCEPT !.status = s] /\ \A u \in Task : u # t => g[u] = f[u]
  OBVIOUS
<1>3. g[t] \in TaskRecord /\ g[t].key = f[t].key /\ g[t].status = s
  BY <1>1, <1>2 DEF TaskRecord
<1>4. g \in [Task -> TaskRecord]
  BY <1>2, <1>3
<1> QED BY <1>2, <1>3, <1>4 DEF SameKeys

\* A new record has the only key of its row.
LEMMA InsertFacts ==
  ASSUME BatchInv, tick.at = "find", KeyedTasks(tick.row) = {},
         NEW t \in Task, Insert(t, tick.row),
         tick' \in Tick, tick'.row = tick.row,
         \/ tick'.at = "fail"
         \/ tick'.at = "reserve" /\ tick'.task = t,
         used' \in [Kinds -> Nat],
         UNCHANGED <<job, uploads, up, refunds>>
  PROVE  BatchInv'
<1>1. tick.row \in Row /\ tick.row # 0
  BY BatchConstants DEF BatchInv, TypeOK, Row
<1>2. /\ task' \in [Task -> TaskRecord]
      /\ task'[t].key = tick.row /\ task'[t].status = "initializing"
      /\ task[t].status = "none"
      /\ \A s \in Task : s # t => task'[s] = task[s]
      /\ charge' \in [Task -> {"none", "reserved", "refunded"}]
  BY <1>1 DEF BatchInv, TypeOK, TaskRecord, Insert
<1>3. TypeOK'
  BY <1>1, <1>2 DEF BatchInv, TypeOK
<1>4. Truthful(job)'
  BY DEF BatchInv, Truthful
<1>5. Keyed'
  BY <1>1, <1>2 DEF BatchInv, Keyed
<1>6. OneTaskPerRow'
  BY <1>1, <1>2 DEF BatchInv, OneTaskPerRow, KeyedTasks
<1>7. (\A r \in Row : RowOK(job.row[r], r))'
  <2>1. ASSUME NEW r \in Row, job.row[r].task # NoTask
        PROVE  job.row[r].task \in Task /\ job.row[r].task # t
    <3>1. job.row[r].task \in Task /\ task[job.row[r].task].key = r
      BY <2>1 DEF BatchInv, TypeOK, Job, RowRecord, RowOK
    <3>2. r # 0
      BY BatchConstants DEF Row
    <3> QED BY <1>2, <3>1, <3>2 DEF BatchInv, Keyed
  <2> QED BY <1>2, <2>1 DEF BatchInv, RowOK
<1>8. Creating'
  BY <1>2 DEF BatchInv, Creating
<1> QED BY <1>3, <1>4, <1>5, <1>6, <1>7, <1>8 DEF BatchInv

\* No row names the task whose creation is undone.
LEMMA DeleteFacts ==
  ASSUME BatchInv, tick.at = "delete",
         task' = [task EXCEPT ![tick.task] = NoRecord],
         tick' \in Tick, tick'.row = tick.row, tick'.at = "fail",
         used' \in [Kinds -> Nat],
         UNCHANGED <<job, charge, uploads, up, refunds>>
  PROVE  BatchInv'
<1>1. /\ tick.row \in Row /\ tick.task \in Task /\ task[tick.task].key = tick.row
      /\ job.row[tick.row].task = NoTask
  BY DEF BatchInv, TypeOK, Creating
<1>2. /\ task' \in [Task -> TaskRecord]
      /\ task'[tick.task].key = 0 /\ task'[tick.task].status = "none"
      /\ \A s \in Task : s # tick.task => task'[s] = task[s]
  BY <1>1 DEF BatchInv, TypeOK, TaskRecord, NoRecord
<1>3. TypeOK'
  BY <1>1, <1>2 DEF BatchInv, TypeOK
<1>4. Truthful(job)'
  BY DEF BatchInv, Truthful
<1>5. Keyed' /\ OneTaskPerRow'
  BY <1>1, <1>2 DEF BatchInv, Keyed, OneTaskPerRow
<1>6. (\A r \in Row : RowOK(job.row[r], r))'
  <2>1. ASSUME NEW r \in Row, job.row[r].task # NoTask
        PROVE  job.row[r].task \in Task /\ job.row[r].task # tick.task
    BY <1>1, <2>1 DEF BatchInv, TypeOK, Job, RowRecord, RowOK
  <2> QED BY <1>2, <2>1 DEF BatchInv, RowOK
<1>7. Creating'
  BY DEF Creating
<1> QED BY <1>3, <1>4, <1>5, <1>6, <1>7 DEF BatchInv

\* The creation goes to another step, of the same row and task.
LEMMA GoFacts ==
  ASSUME tick \in Tick, NEW s \in Steps, Go(s)
  PROVE  tick' \in Tick /\ tick'.at = s /\ tick'.row = tick.row /\ tick'.task = tick.task
BY DEF Go, Tick

\* The same, with the word whether the row is to be tried again.
LEMMA RaiseFacts ==
  ASSUME tick \in Tick, NEW s \in Steps, NEW retry \in BOOLEAN, Raise(s, retry)
  PROVE  tick' \in Tick /\ tick'.at = s /\ tick'.row = tick.row /\ tick'.task = tick.task
BY DEF Raise, Tick

\* The steps of a creation.
LEMMA CreateStep ==
  ASSUME BatchInv, Create PROVE BatchInv' /\ KeepsSettled(job, job')
<1>0. /\ job \in Job /\ Truthful(job) /\ task \in [Task -> TaskRecord] /\ tick \in Tick
      /\ charge \in [Task -> {"none", "reserved", "refunded"}]
      /\ \A r \in Row : RowOK(job.row[r], r)
      /\ TypeOK /\ Creating
  BY DEF BatchInv, TypeOK
<1>1. /\ job' = job => KeepsSettled(job, job')
      /\ task' = task => SameKeys(task, task')
  BY DEF KeepsSettled, SameKeys
<1>2. CASE CreateStart
  <2>1. tick' \in Tick /\ tick'.row = tick.row /\ tick'.at \in {"find", "fail"}
    BY <1>0, <1>2 DEF CreateStart, Go, Raise, Tick, Steps
  <2>2. tick.at = "start" /\ UNCHANGED <<job, task, charge, uploads, up, refunds, used>>
    BY <1>2 DEF CreateStart
  <2>3. TypeOK' /\ Creating'
    BY <1>0, <2>1, <2>2 DEF TypeOK, Creating
  <2> QED BY <1>1, <2>2, <2>3, KeysKept
<1>3. CASE CreateFind
  <2>0. /\ tick.at = "find" /\ tick.row \in Row /\ UNCHANGED <<job, uploads, up, refunds, used>>
    BY <1>0, <1>3 DEF CreateFind, TypeOK
  <2>1. ASSUME NEW t \in KeyedTasks(tick.row), UNCHANGED <<task, charge>>,
               tick' = [tick EXCEPT !.task = t,
                          !.at = IF task[t].status = "initializing" THEN "reserve" ELSE "attach"]
        PROVE  BatchInv'
    <3>1. t \in Task /\ task[t].key = tick.row
      BY DEF KeyedTasks
    <3>2. tick' \in Tick /\ tick'.row = tick.row /\ tick'.task = t /\ tick'.at \in {"reserve", "attach"}
      BY <1>0, <2>1, <3>1 DEF Tick, Steps
    <3>3. TypeOK' /\ Creating'
      BY <1>0, <2>0, <2>1, <3>1, <3>2 DEF TypeOK, Creating
    <3> QED BY <1>1, <2>0, <2>1, <3>3, KeysKept
  <2>2. ASSUME KeyedTasks(tick.row) = {}, NEW t \in Task, Insert(t, tick.row),
               tick' = [tick EXCEPT !.task = t, !.at = "reserve"]
        PROVE  BatchInv'
    <3>1. tick' \in Tick /\ tick'.row = tick.row /\ tick'.task = t /\ tick'.at = "reserve"
      BY <1>0, <2>2 DEF Tick, Steps
    <3> QED BY <1>0, <2>0, <2>2, <3>1, InsertFacts DEF TypeOK, Creating
  <2> QED BY <1>1, <1>3, <2>0, <2>1, <2>2 DEF CreateFind
<1>4. CASE CreateReserve \/ CreateCheck \/ CreateRefund
  <2>1. /\ tick.at \in {"reserve", "charged", "saved", "refund"}
        /\ tick' \in Tick /\ tick'.row = tick.row /\ tick'.task = tick.task
        /\ tick'.at \in {"charged", "saved", "checked", "refund", "delete"}
        /\ charge' \in [Task -> {"none", "reserved", "refunded"}]
        /\ UNCHANGED <<job, task, uploads, up, refunds, used>>
    <3>1. CASE CreateReserve
      BY <1>0, <3>1 DEF CreateReserve, Go, Raise, Tick, Steps
    <3>2. CASE CreateCheck
      <4>1. Go("saved") \/ Go("checked") \/ Raise("refund", FALSE)
        BY <3>2 DEF CreateCheck
      <4> QED BY <1>0, <3>2, <4>1, GoFacts, RaiseFacts DEF CreateCheck, Steps
    <3>3. CASE CreateRefund
      BY <1>0, <3>3 DEF CreateRefund, Refunded, Go, Tick, Steps
    <3> QED BY <1>4, <3>1, <3>2, <3>3
  <2>2. TypeOK' /\ Creating'
    BY <1>0, <2>1 DEF TypeOK, Creating
  <2> QED BY <1>1, <2>1, <2>2, KeysKept
<1>5. CASE CreateFinalize
  <2>1. /\ tick.at = "checked" /\ tick.task \in Task
        /\ tick' \in Tick /\ tick'.row = tick.row /\ tick'.task = tick.task
        /\ tick'.at \in {"attach", "refund"}
        /\ UNCHANGED <<job, charge, uploads, up, refunds, used>>
    BY <1>0, <1>5, ZenonT(60) DEF CreateFinalize, Go, Raise, Tick, Steps, TypeOK
  <2>2. task' \in [Task -> TaskRecord] /\ SameKeys(task, task')
    <3>1. CASE task[tick.task].status = "initializing"
      <4>1. task' = [task EXCEPT ![tick.task].status = "live"]
        BY <1>5, <3>1 DEF CreateFinalize
      <4>2. task[tick.task].status # "none"
        BY <3>1
      <4> QED BY <1>0, <2>1, <4>1, <4>2, SetStatus
    <3>2. CASE task[tick.task].status # "initializing"
      BY <1>0, <1>5, <3>2 DEF CreateFinalize, SameKeys
    <3> QED BY <3>1, <3>2
  <2>3. TypeOK' /\ Creating'
    BY <1>0, <2>1, <2>2 DEF TypeOK, Creating, SameKeys
  <2> QED BY <1>1, <2>1, <2>2, <2>3, KeysKept
<1>6. CASE CreateAttach
  <2>1. /\ tick.row \in Row /\ tick.task \in Task /\ task[tick.task].key = tick.row
        /\ job.row[tick.row].task = NoTask /\ ~job.row[tick.row].delayed
    BY <1>0, <1>6 DEF CreateAttach, TypeOK, Creating
  <2>2. /\ job' \in Job /\ Truthful(job') /\ KeepsSettled(job, job')
        /\ \A r \in Row : RowOK(job'.row[r], r)
    BY <1>0, <1>6, <2>1, AttachFacts DEF CreateAttach
  <2>3. tick' \in Tick /\ tick'.at = "idle"
    BY <1>6 DEF CreateAttach, Idle, Tick, Steps
  <2> QED BY <1>0, <1>6, <2>2, <2>3, JobStepIdle DEF CreateAttach, TypeOK
<1>7. CASE CreateDelete
  <2>1. /\ tick.at = "delete" /\ tick.task \in Task /\ tick.row \in Row
        /\ tick' \in Tick /\ tick'.row = tick.row /\ tick'.at = "fail"
        /\ task' = [task EXCEPT ![tick.task] = NoRecord]
        /\ UNCHANGED <<job, charge, uploads, up, refunds, used>>
    BY <1>0, <1>7 DEF CreateDelete, Tick, Steps, TypeOK
  <2> QED BY <1>0, <1>1, <2>1, DeleteFacts DEF TypeOK
<1>8. CASE CreateFail
  <2>1. tick.row \in Row /\ tick.retry \in BOOLEAN
    BY <1>0, <1>8 DEF CreateFail, TypeOK, Tick
  <2>2. /\ job' \in Job /\ Truthful(job') /\ KeepsSettled(job, job')
        /\ \A r \in Row : RowOK(job'.row[r], r)
    BY <1>0, <1>8, <2>1, FailFacts DEF CreateFail
  <2>3. tick' \in Tick /\ tick'.at = "idle"
    BY <1>8 DEF CreateFail, Idle, Tick, Steps
  <2> QED BY <1>0, <1>8, <2>2, <2>3, JobStepIdle DEF CreateFail, TypeOK
<1> QED BY <1>2, <1>3, <1>4, <1>5, <1>6, <1>7, <1>8 DEF Create

\* A call of the creation raises.
LEMMA RaisesStep ==
  ASSUME BatchInv, CreateRaises PROVE BatchInv' /\ KeepsSettled(job, job')
<1>0. /\ job \in Job /\ Truthful(job) /\ task \in [Task -> TaskRecord] /\ tick \in Tick
      /\ \A r \in Row : RowOK(job.row[r], r)
      /\ TypeOK /\ Creating
  BY DEF BatchInv, TypeOK
<1>1. /\ job' = job => KeepsSettled(job, job')
      /\ task' = task => SameKeys(task, task')
  BY DEF KeepsSettled, SameKeys
<1>2. used' \in [Kinds -> Nat] /\ UNCHANGED <<uploads, up, refunds>> /\ tick.row \in Row
  BY <1>0 DEF CreateRaises, Disturb, Kinds, TypeOK
<1>3. Raise("fail", TRUE) => tick' \in Tick /\ tick'.at = "fail" /\ tick'.row = tick.row
  BY <1>0, RaiseFacts DEF Steps
<1>4. Raise("refund", TRUE) => /\ tick' \in Tick /\ tick'.at = "refund"
                               /\ tick'.row = tick.row /\ tick'.task = tick.task
  BY <1>0, RaiseFacts DEF Steps
<1>5. CASE Raise("fail", TRUE) /\ UNCHANGED <<job, task, charge>>
  <2>1. TypeOK' /\ Creating'
    BY <1>0, <1>2, <1>3, <1>5 DEF TypeOK, Creating
  <2> QED BY <1>1, <1>5, <2>1, KeysKept
<1>6. ASSUME tick.at = "find", KeyedTasks(tick.row) = {}, NEW t \in Task, Insert(t, tick.row),
             Raise("fail", TRUE), job' = job
      PROVE  BatchInv' /\ KeepsSettled(job, job')
  BY <1>1, <1>2, <1>3, <1>6, InsertFacts
<1>7. CASE /\ tick.at \in {"reserve", "charged", "saved", "checked"}
           /\ Raise("refund", TRUE) /\ UNCHANGED <<job, task, charge>>
  <2>1. TypeOK' /\ Creating'
    BY <1>0, <1>2, <1>4, <1>7 DEF TypeOK, Creating
  <2> QED BY <1>1, <1>7, <2>1, KeysKept
<1>8. CASE /\ tick.at = "checked" /\ task[tick.task].status = "initializing"
           /\ task' = [task EXCEPT ![tick.task].status = "live"]
           /\ Raise("refund", TRUE) /\ UNCHANGED <<job, charge>>
  <2>1. tick.task \in Task /\ task[tick.task].status # "none"
    BY <1>0, <1>8 DEF TypeOK
  <2>2. task' \in [Task -> TaskRecord] /\ SameKeys(task, task')
    BY <1>0, <1>8, <2>1, SetStatus
  <2>3. TypeOK' /\ Creating'
    BY <1>0, <1>2, <1>4, <1>8, <2>1, <2>2 DEF TypeOK, Creating, SameKeys
  <2> QED BY <1>1, <1>8, <2>2, <2>3, KeysKept
<1>9. CASE /\ tick.at = "attach"
           /\ job' = FinishRowCreation(job, tick.row, tick.task)
           /\ Raise("fail", TRUE) /\ UNCHANGED <<task, charge>>
  <2>1. /\ tick.task \in Task /\ task[tick.task].key = tick.row
        /\ job.row[tick.row].task = NoTask /\ ~job.row[tick.row].delayed
    BY <1>0, <1>9 DEF TypeOK, Creating
  <2>2. /\ job' \in Job /\ Truthful(job') /\ KeepsSettled(job, job')
        /\ \A r \in Row : RowOK(job'.row[r], r)
    BY <1>0, <1>2, <1>9, <2>1, AttachFacts
  <2> QED BY <1>2, <1>3, <1>9, <2>2, JobStepIdle
<1>10. CASE /\ tick.at = "delete" /\ task' = [task EXCEPT ![tick.task] = NoRecord]
            /\ Raise("fail", TRUE) /\ UNCHANGED <<job, charge>>
  BY <1>1, <1>2, <1>3, <1>10, DeleteFacts
<1>11. CASE tick' = Idle /\ UNCHANGED <<job, task, charge>>
  <2>1. tick' \in Tick /\ tick'.at = "idle"
    BY <1>11 DEF Idle, Tick, Steps
  <2>2. TypeOK' /\ Creating'
    BY <1>0, <1>2, <1>11, <2>1 DEF TypeOK, Creating
  <2> QED BY <1>1, <1>11, <2>2, KeysKept
<1> QED BY <1>5, <1>6, <1>7, <1>8, <1>9, <1>10, <1>11 DEF CreateRaises

\* The process and the workers.
LEMMA ProcessStep ==
  ASSUME BatchInv, Process PROVE BatchInv' /\ KeepsSettled(job, job')
<1>0. task \in [Task -> TaskRecord] /\ TypeOK /\ Creating
  BY DEF BatchInv, TypeOK
<1>1. /\ job' = job => KeepsSettled(job, job')
      /\ task' = task => SameKeys(task, task')
  BY DEF KeepsSettled, SameKeys
<1>2. CASE Crash
  <2>1. tick' \in Tick /\ tick'.at = "idle"
    BY <1>2 DEF Crash, Idle, Tick, Steps
  <2>2. used' \in [Kinds -> Nat] /\ uploads' \in [Row -> 0..MaxUploads]
    BY <1>0, <1>2, BatchConstants DEF Crash, Disturb, Kinds, TypeOK
  <2>3. TypeOK' /\ Creating'
    BY <1>0, <1>2, <2>1, <2>2 DEF Crash, TypeOK, Creating
  <2> QED BY <1>1, <1>2, <2>3, KeysKept DEF Crash
<1>3. CASE Start
  <2>1. \A t \in Task :
          /\ task'[t] \in TaskRecord /\ task'[t].key = task[t].key
          /\ task'[t].status = IF task[t].status = "initializing" THEN "failed" ELSE task[t].status
    <3> SUFFICES ASSUME NEW t \in Task
                 PROVE  /\ task'[t] \in TaskRecord /\ task'[t].key = task[t].key
                        /\ task'[t].status = IF task[t].status = "initializing" THEN "failed"
                                                                                ELSE task[t].status
      OBVIOUS
    <3>1. task[t] \in TaskRecord
      BY <1>0
    <3>2. task'[t] = IF task[t].status = "initializing" THEN [task[t] EXCEPT !.status = "failed"]
                                                        ELSE task[t]
      BY <1>3 DEF Start
    <3> QED BY <3>1, <3>2 DEF TaskRecord
  <2>2. task' \in [Task -> TaskRecord]
    BY <1>3, <2>1 DEF Start
  <2>3. SameKeys(task, task')
    BY <2>1 DEF SameKeys
  <2>4. refunds' \subseteq Task /\ UNCHANGED <<job, charge, tick, uploads, used>> /\ up' = TRUE
    BY <1>3 DEF Start
  <2>5. TypeOK' /\ Creating'
    BY <1>0, <2>2, <2>3, <2>4 DEF TypeOK, Creating, SameKeys
  <2> QED BY <1>1, <2>3, <2>4, <2>5, KeysKept
<1>4. ASSUME NEW t \in Task, StartRefund(t) PROVE BatchInv' /\ KeepsSettled(job, job')
  <2>1. charge' \in [Task -> {"none", "reserved", "refunded"}]
    BY <1>0, <1>4 DEF StartRefund, Refunded, TypeOK
  <2>2. refunds' \subseteq Task /\ UNCHANGED <<job, task, tick, uploads, up, used>>
    BY <1>0, <1>4 DEF StartRefund, TypeOK
  <2>3. TypeOK' /\ Creating'
    BY <1>0, <2>1, <2>2 DEF TypeOK, Creating
  <2> QED BY <1>1, <2>2, <2>3, KeysKept
<1>5. ASSUME NEW t \in Task, TaskEnds(t) PROVE BatchInv' /\ KeepsSettled(job, job')
  <2>1. PICK s \in {"success", "failed", "canceled"} :
          /\ task' = [task EXCEPT ![t].status = s]
          /\ charge' = IF s = "success" THEN charge ELSE Refunded(t)
    BY <1>5 DEF TaskEnds
  <2>2. task[t].status # "none" /\ UNCHANGED <<job, tick, uploads, up, refunds, used>>
    BY <1>5 DEF TaskEnds
  <2>3. task' \in [Task -> TaskRecord] /\ SameKeys(task, task')
    BY <1>0, <2>1, <2>2, SetStatus
  <2>4. charge' \in [Task -> {"none", "reserved", "refunded"}]
    BY <1>0, <2>1 DEF Refunded, TypeOK
  <2>5. TypeOK' /\ Creating'
    BY <1>0, <2>2, <2>3, <2>4 DEF TypeOK, Creating, SameKeys
  <2> QED BY <1>1, <2>2, <2>3, <2>5, KeysKept
<1> QED BY <1>2, <1>3, <1>4, <1>5 DEF Process

\* The time of a delayed row comes.
LEMMA ElapseStep ==
  ASSUME BatchInv, NEW c \in Row, Elapse(c) PROVE BatchInv' /\ KeepsSettled(job, job')
<1>1. /\ job \in Job /\ Truthful(job) /\ \A r \in Row : RowOK(job.row[r], r)
      /\ job.row \in [Row -> RowRecord] /\ job.row[c] \in RowRecord
      /\ uploads \in [Row -> 0..MaxUploads]
  BY DEF BatchInv, TypeOK, Job
<1>2. job.row[c].task = NoTask
  BY <1>1 DEF Elapse, RowOK
<1>3. /\ job'.status = job.status
      /\ job'.row[c].status = job.row[c].status /\ job'.row[c].task = NoTask /\ ~job'.row[c].delayed
      /\ \A r \in Row : r # c => job'.row[r] = job.row[r]
  BY <1>1, <1>2 DEF Elapse, Job, RowRecord
<1>4. job' \in Job
  BY <1>1 DEF Elapse, Job, RowRecord
<1>5. Truthful(job') /\ KeepsFree(job, job') /\ KeepsSettled(job, job')
  BY <1>1, <1>2, <1>3 DEF Truthful, KeepsFree, KeepsSettled
<1>6. \A r \in Row : RowOK(job'.row[r], r)
  BY <1>1, <1>2, <1>3 DEF RowOK
<1> QED BY <1>1, <1>4, <1>5, <1>6, JobStep DEF Elapse

\* Every step keeps the invariant and leaves settled rows alone.
LEMMA BatchStep ==
  ASSUME BatchInv, [Next]_vars
  PROVE  BatchInv' /\ KeepsSettled(job, job')
<1>1. CASE UNCHANGED vars
  <2>1. TypeOK' /\ Creating' /\ job' = job /\ SameKeys(task, task')
    BY <1>1 DEF vars, BatchInv, TypeOK, Creating, SameKeys
  <2>2. KeepsSettled(job, job')
    BY <2>1 DEF KeepsSettled
  <2> QED BY <2>1, <2>2, KeysKept
<1> QED BY <1>1, RequestStep, ScheduleStep, CreateStep, RaisesStep, ProcessStep, ElapseStep DEF Next

\* The invariant holds in every reachable state.
THEOREM BatchInvariant == Spec => []BatchInv
<1>1. BatchInv /\ [Next]_vars => BatchInv'
  BY BatchStep
<1> QED BY <1>1, BatchInit, PTL DEF Spec

\* Every reachable state is well typed.
THEOREM BatchTypes == Spec => []TypeOK
<1>1. BatchInv => TypeOK
  BY DEF BatchInv
<1> QED BY <1>1, BatchInvariant, PTL

\* The status of a job is final exactly when its rows are, whatever crashes, faults,
\* uploads, polls and cancels come in between.
THEOREM TruthfulStatus == Spec => []StatusTruthful
<1>1. BatchInv => StatusTruthful
  BY DEF BatchInv, Truthful, StatusTruthful
<1> QED BY <1>1, BatchInvariant, PTL

\* A row is tied to the one task that has its key.
THEOREM RowsAreTied == Spec => [](RowsTied /\ OneTaskPerRow)
<1>1. BatchInv => RowsTied /\ OneTaskPerRow
  BY DEF BatchInv, RowOK, RowsTied
<1> QED BY <1>1, BatchInvariant, PTL

\* However often a row is claimed and crashed on, one task carries its key.
THEOREM RowHasOneTask == Spec => []OneTaskPerRow
<1> QED BY RowsAreTied, PTL

\* A row that ended with its task is never opened again.
THEOREM RowsStaySettled == Spec => SettledRows
<1>1. BatchInv /\ [Next]_vars =>
        [\A r \in Row : job.row[r].status \in TerminalRow /\ job.row[r].task # NoTask
           => job'.row[r] = job.row[r]]_vars
  BY BatchStep DEF KeepsSettled
<1> QED BY <1>1, BatchInvariant, PTL DEF Spec, SettledRows

-----------------------------------------------------------------------------
(* Slots *)

\* The steps at which a creation may still bring a task to life.
Opening == {"start", "find", "reserve", "charged", "saved", "checked"}

\* A creation was begun because a slot was free, and nothing else fills it.
SlotInv ==
  /\ IsFiniteSet(Live)
  /\ Cardinality(Live) <= Slots
  /\ tick.at \in Opening => Cardinality(Live) < Slots

\* A step with no new live task.
Quiet == Live' \subseteq Live /\ (tick'.at \in Opening => tick.at \in Opening \/ Cardinality(Live) < Slots)

\* A step with one, which ends the creation that had the slot.
Opens == tick.at \in Opening /\ tick'.at \notin Opening /\ \E t \in Task : Live' \subseteq Live \cup {t}

\* Neither takes more slots than there are.
LEMMA SlotStepInv ==
  ASSUME SlotInv, Quiet \/ Opens PROVE SlotInv'
<1>1. Slots \in Nat /\ Cardinality(Live) \in Nat /\ IsFiniteSet(Live)
  BY BatchConstants, FS_CardinalityType DEF SlotInv
<1>2. CASE Quiet
  <2>1. IsFiniteSet(Live') /\ Cardinality(Live') <= Cardinality(Live) /\ Cardinality(Live') \in Nat
    BY <1>1, <1>2, FS_Subset, FS_CardinalityType DEF Quiet
  <2> QED BY <1>1, <1>2, <2>1 DEF SlotInv, Quiet
<1>3. CASE Opens
  <2>1. PICK t \in Task : Live' \subseteq Live \cup {t}
    BY <1>3 DEF Opens
  <2>2. IsFiniteSet(Live \cup {t}) /\ Cardinality(Live \cup {t}) <= Cardinality(Live) + 1
    BY <1>1, FS_AddElement
  <2>3. /\ IsFiniteSet(Live') /\ Cardinality(Live') <= Cardinality(Live \cup {t})
        /\ Cardinality(Live') \in Nat /\ Cardinality(Live \cup {t}) \in Nat
    BY <2>1, <2>2, FS_Subset, FS_CardinalityType
  <2>4. Cardinality(Live) < Slots
    BY <1>3 DEF SlotInv, Opens
  <2> QED BY <1>1, <1>3, <2>2, <2>3, <2>4 DEF SlotInv, Opens
<1> QED BY <1>2, <1>3

\* The records of live tasks are what the records are.
LEMMA SameLive == ASSUME task' = task PROVE Live' = Live
BY DEF Live

\* No record comes to life.
LEMMA FewerLive ==
  ASSUME \A t \in Task : task'[t].status = "live" => task[t].status = "live" PROVE Live' \subseteq Live
BY DEF Live

\* Only the record of t may.
LEMMA OneLive ==
  ASSUME NEW t \in Task, \A s \in Task : s # t => task'[s] = task[s] PROVE Live' \subseteq Live \cup {t}
BY DEF Live

\* A new record is not live yet.
LEMMA InsertLive ==
  ASSUME task \in [Task -> TaskRecord], NEW t \in Task, NEW r, Insert(t, r) PROVE Live' \subseteq Live
<1>1. task'[t].status = "initializing" /\ \A s \in Task : s # t => task'[s] = task[s]
  BY DEF Insert
<1> QED BY <1>1, FewerLive

\* Every step of a creation.
LEMMA CreateLive ==
  ASSUME BatchInv, Create PROVE Quiet \/ Opens
<1>0. task \in [Task -> TaskRecord] /\ tick \in Tick /\ TypeOK
  BY DEF BatchInv, TypeOK
<1> USE DEF Opening
<1>1. CASE CreateStart \/ CreateReserve \/ CreateCheck \/ CreateRefund \/ CreateAttach \/ CreateFail
  <2>1. task' = task
    BY <1>1 DEF CreateStart, CreateReserve, CreateCheck, CreateRefund, CreateAttach, CreateFail
  <2>2. tick'.at \in Opening => tick.at \in Opening
    <3>1. CASE CreateStart
      BY <1>0, <3>1 DEF CreateStart, Go, Raise, Tick
    <3>2. CASE CreateReserve
      BY <1>0, <3>2 DEF CreateReserve, Go, Raise, Tick
    <3>3. CASE CreateCheck
      BY <1>0, <3>3 DEF CreateCheck, Go, Raise, Tick
    <3>4. CASE CreateRefund
      BY <1>0, <3>4 DEF CreateRefund, Go, Raise, Tick
    <3>5. CASE CreateAttach \/ CreateFail
      BY <3>5 DEF CreateAttach, CreateFail, Idle
    <3> QED BY <1>1, <3>1, <3>2, <3>3, <3>4, <3>5
  <2> QED BY <2>1, <2>2, SameLive DEF Quiet
<1>2. CASE CreateFind
  <2>1. Live' \subseteq Live
    BY <1>0, <1>2, SameLive, InsertLive DEF CreateFind
  <2>2. tick.at \in Opening
    BY <1>2 DEF CreateFind
  <2> QED BY <2>1, <2>2 DEF Quiet
<1>3. CASE CreateFinalize
  <2>1. tick.at = "checked" /\ tick.task \in Task
    BY <1>0, <1>3 DEF CreateFinalize, TypeOK
  <2>2. tick'.at \in {"attach", "refund"}
    BY <1>0, <1>3 DEF CreateFinalize, Go, Raise, Tick
  <2>3. task' = [task EXCEPT ![tick.task].status = "live"] \/ task' = task
    BY <1>3 DEF CreateFinalize
  <2>4. \A s \in Task : s # tick.task => task'[s] = task[s]
    BY <1>0, <2>3
  <2> QED BY <2>1, <2>2, <2>4, OneLive DEF Opens
<1>4. CASE CreateDelete
  <2>1. tick.task \in Task /\ task' = [task EXCEPT ![tick.task] = NoRecord] /\ tick'.at = "fail"
    BY <1>0, <1>4 DEF CreateDelete, TypeOK, Tick
  <2>2. \A s \in Task : task'[s].status = "live" => task[s].status = "live"
    BY <1>0, <2>1 DEF NoRecord
  <2> QED BY <2>1, <2>2, FewerLive DEF Quiet
<1> QED BY <1>1, <1>2, <1>3, <1>4 DEF Create

\* A call of it raises.
LEMMA RaisesLive ==
  ASSUME BatchInv, CreateRaises PROVE Quiet \/ Opens
<1>0. task \in [Task -> TaskRecord] /\ tick \in Tick /\ TypeOK
  BY DEF BatchInv, TypeOK
<1>1. /\ Raise("fail", TRUE) => tick'.at = "fail"
      /\ Raise("refund", TRUE) => tick'.at = "refund"
      /\ tick' = Idle => tick'.at = "idle"
  <2>1. "fail" \in Steps /\ "refund" \in Steps /\ TRUE \in BOOLEAN /\ Idle.at = "idle"
    BY DEF Steps, Idle
  <2> QED BY <1>0, <2>1, RaiseFacts
<1>2. tick'.at \in {"fail", "refund", "idle"}
  BY <1>1 DEF CreateRaises
<1>3. CASE task' = task
  BY <1>2, <1>3, SameLive DEF Quiet, Opening
<1>4. ASSUME NEW t \in Task, Insert(t, tick.row) PROVE Quiet
  BY <1>0, <1>2, <1>4, InsertLive DEF Quiet, Opening
<1>5. CASE tick.at = "checked" /\ task' = [task EXCEPT ![tick.task].status = "live"]
  <2>1. tick.task \in Task
    BY <1>0, <1>5 DEF TypeOK
  <2>2. \A s \in Task : s # tick.task => task'[s] = task[s]
    BY <1>5
  <2> QED BY <1>2, <1>5, <2>1, <2>2, OneLive DEF Opens, Opening
<1>6. CASE tick.at = "delete" /\ task' = [task EXCEPT ![tick.task] = NoRecord]
  <2>1. tick.task \in Task
    BY <1>0, <1>6 DEF TypeOK
  <2>2. \A s \in Task : task'[s].status = "live" => task[s].status = "live"
    BY <1>0, <1>6, <2>1 DEF NoRecord
  <2> QED BY <1>2, <2>2, FewerLive DEF Quiet, Opening
<1> QED BY <1>3, <1>4, <1>5, <1>6 DEF CreateRaises

\* The process, the workers, the user and the clock.
LEMMA OthersLive ==
  ASSUME BatchInv, Requests \/ Schedule \/ Process \/ \E r \in Row : Elapse(r) PROVE Quiet
<1>0. task \in [Task -> TaskRecord] /\ tick \in Tick
  BY DEF BatchInv, TypeOK
<1>1. CASE Requests
  <2>1. task' = task /\ tick' = tick
    BY <1>1 DEF Requests, CancelBatch, UploadCheck, UploadEnds, PollStatus
  <2> QED BY <2>1, SameLive DEF Quiet
<1>2. CASE Schedule
  <2>1. CASE TickClaim
    BY <2>1, SameLive DEF TickClaim, ActiveTasks, Quiet
  <2>2. ASSUME NEW S \in SUBSET Row, TickRecover(S) \/ TickReconcile(S) PROVE Quiet
    <3>1. task' = task /\ tick' = tick
      BY <2>2 DEF TickRecover, TickReconcile
    <3> QED BY <3>1, SameLive DEF Quiet
  <2> QED BY <1>2, <2>1, <2>2 DEF Schedule
<1>3. CASE Crash
  BY <1>3, SameLive DEF Crash, Quiet, Idle, Opening
<1>4. CASE Start
  <2>1. \A t \in Task : task'[t].status = "live" => task[t].status = "live"
    <3> SUFFICES ASSUME NEW t \in Task, task'[t].status = "live" PROVE task[t].status = "live"
      OBVIOUS
    <3>1. task'[t] = IF task[t].status = "initializing" THEN [task[t] EXCEPT !.status = "failed"]
                                                        ELSE task[t]
      BY <1>4 DEF Start
    <3> QED BY <1>0, <3>1 DEF TaskRecord
  <2>2. tick' = tick
    BY <1>4 DEF Start
  <2> QED BY <2>1, <2>2, FewerLive DEF Quiet
<1>5. ASSUME NEW t \in Task, StartRefund(t) PROVE Quiet
  BY <1>5, SameLive DEF StartRefund, Quiet
<1>6. ASSUME NEW t \in Task, TaskEnds(t) PROVE Quiet
  <2>1. PICK s \in {"success", "failed", "canceled"} : task' = [task EXCEPT ![t].status = s]
    BY <1>6 DEF TaskEnds
  <2>2. \A u \in Task : task'[u].status = "live" => task[u].status = "live"
    BY <1>0, <2>1 DEF TaskRecord
  <2>3. tick' = tick
    BY <1>6 DEF TaskEnds
  <2> QED BY <2>2, <2>3, FewerLive DEF Quiet
<1>7. ASSUME NEW r \in Row, Elapse(r) PROVE Quiet
  BY <1>7, SameLive DEF Elapse, Quiet
<1> QED BY <1>1, <1>2, <1>3, <1>4, <1>5, <1>6, <1>7 DEF Process

\* The job and single creations never have more live tasks than slots, whatever
\* crashes and faults leave behind: the tick counts live tasks when it begins a
\* creation (count_active_tasks_for_owner), and it begins one at a time.
THEOREM SlotsKept == Spec => []SlotLimit
<1>1. Init => SlotInv
  <2> SUFFICES ASSUME Init PROVE SlotInv
    OBVIOUS
  <2>1. Live = {} /\ tick.at = "idle"
    BY DEF Init, Live, NoRecord, Idle
  <2> QED BY <2>1, BatchConstants, FS_EmptySet DEF SlotInv, Opening
<1>2. BatchInv /\ SlotInv /\ [Next]_vars => SlotInv'
  <2> SUFFICES ASSUME BatchInv, SlotInv, [Next]_vars PROVE SlotInv'
    OBVIOUS
  <2>1. CASE UNCHANGED vars
    BY <2>1 DEF vars, SlotInv, Live
  <2>2. CASE Next
    BY <2>2, CreateLive, RaisesLive, OthersLive, SlotStepInv DEF Next
  <2> QED BY <2>1, <2>2
<1>3. SlotInv => SlotLimit
  BY DEF SlotInv, SlotLimit
<1> QED BY <1>1, <1>2, <1>3, BatchInvariant, PTL DEF Spec

-----------------------------------------------------------------------------
(* Charges *)

\* The steps between the charge and the end of the creation.
Charging == {"reserve", "charged", "saved", "checked"}

\* Start-up is the only one that fails a record under creation, and a first crash
\* finds no refunds of an earlier one.
ChargeInv ==
  /\ ~up => tick.at = "idle" /\ refunds = {}
  /\ tick.at \in Charging => task[tick.task].status = "initializing"
  /\ tick.at = "delete" => charge[tick.task] # "reserved"
  /\ used["crash"] = 0 => up /\ refunds = {}
  /\ used["crash"] <= 1 => ChargesBacked

\* A step that neither changes a record nor a charge, nor begins to charge.
LEMMA NoChargeStep ==
  ASSUME ChargeInv, UNCHANGED <<task, charge, up, refunds>>, used'["crash"] = used["crash"],
         tick'.at = "idle" \/ up,
         tick'.at \in Charging \cup {"delete"}
           => /\ tick.at \in Charging \/ tick'.at = "delete"
              /\ tick'.at = "delete" => tick.at = "delete"
              /\ tick'.task = tick.task
  PROVE  ChargeInv'
BY DEF ChargeInv, ChargesBacked, Charging

\* A refund leaves no reservation of t, and touches no other.
LEMMA RefundedFacts ==
  ASSUME charge \in [Task -> {"none", "reserved", "refunded"}], NEW t \in Task
  PROVE  /\ Refunded(t)[t] # "reserved"
         /\ \A s \in Task : s # t => Refunded(t)[s] = charge[s]
BY DEF Refunded

\* What is typed.
LEMMA ChargeTypes ==
  ASSUME BatchInv
  PROVE  /\ task \in [Task -> TaskRecord] /\ tick \in Tick
         /\ charge \in [Task -> {"none", "reserved", "refunded"}]
         /\ tick.at \notin {"idle", "start", "find", "fail"} => tick.task \in Task
         /\ used["crash"] \in Nat /\ refunds \subseteq Task
BY DEF BatchInv, TypeOK, Kinds

\* A new record is under creation and has no reservation.
LEMMA InsertCharge ==
  ASSUME BatchInv, ChargeInv, up, NEW t \in Task, NEW r, Insert(t, r),
         UNCHANGED <<up, refunds>>, used'["crash"] = used["crash"],
         tick'.at = "fail" \/ (tick'.at = "reserve" /\ tick'.task = t)
  PROVE  ChargeInv'
<1>1. /\ task'[t].status = "initializing" /\ charge'[t] = "none"
      /\ \A s \in Task : s # t => task'[s] = task[s] /\ charge'[s] = charge[s]
  BY ChargeTypes DEF Insert
<1>2. ChargesBacked => ChargesBacked'
  BY <1>1 DEF ChargesBacked
<1> QED BY <1>1, <1>2 DEF ChargeInv, Charging

\* The record of a creation that was refunded goes.
LEMMA DeleteCharge ==
  ASSUME BatchInv, ChargeInv, tick.at = "delete", task' = [task EXCEPT ![tick.task] = NoRecord],
         UNCHANGED <<charge, up, refunds>>, used'["crash"] = used["crash"], tick'.at = "fail"
  PROVE  ChargeInv'
<1>1. tick.task \in Task /\ charge[tick.task] # "reserved"
  BY ChargeTypes DEF ChargeInv
<1>2. \A s \in Task : s # tick.task => task'[s] = task[s]
  BY ChargeTypes
<1>3. ChargesBacked => ChargesBacked'
  BY <1>1, <1>2 DEF ChargesBacked
<1> QED BY <1>3 DEF ChargeInv, Charging

\* The record becomes live.
LEMMA FinalizeCharge ==
  ASSUME BatchInv, ChargeInv, tick.at = "checked",
         task' = [task EXCEPT ![tick.task].status = "live"],
         UNCHANGED <<charge, up, refunds>>, used'["crash"] = used["crash"],
         tick'.at \in {"attach", "refund"}
  PROVE  ChargeInv'
<1>1. tick.task \in Task
  BY ChargeTypes
<1>2. /\ task'[tick.task].status = "live"
      /\ \A s \in Task : s # tick.task => task'[s] = task[s]
  BY <1>1, ChargeTypes DEF TaskRecord
<1>3. ChargesBacked => ChargesBacked'
  BY <1>2 DEF ChargesBacked
<1> QED BY <1>3 DEF ChargeInv, Charging

\* The steps of a creation.
LEMMA CreateCharge ==
  ASSUME BatchInv, ChargeInv, Create PROVE ChargeInv'
<1>0. /\ task \in [Task -> TaskRecord] /\ tick \in Tick
      /\ charge \in [Task -> {"none", "reserved", "refunded"}]
      /\ tick.at \notin {"idle", "start", "find", "fail"} => tick.task \in Task
  BY ChargeTypes
<1>1. up /\ UNCHANGED <<up, refunds>> /\ used'["crash"] = used["crash"]
  BY DEF ChargeInv, Create, CreateStart, CreateFind, CreateReserve, CreateCheck, CreateFinalize,
         CreateAttach, CreateRefund, CreateDelete, CreateFail
<1>2. CASE CreateStart \/ CreateCheck
  <2>1. UNCHANGED <<task, charge>>
    BY <1>2 DEF CreateStart, CreateCheck
  <2>2. /\ tick'.at \in {"find", "fail", "saved", "checked", "refund"} /\ tick'.task = tick.task
        /\ tick'.at \in {"saved", "checked"} => tick.at \in {"charged", "saved"}
    <3>1. CASE CreateStart
      BY <1>0, <3>1 DEF CreateStart, Go, Raise, Tick
    <3>2. CASE CreateCheck
      BY <1>0, <3>2 DEF CreateCheck, Go, Raise, Tick
    <3> QED BY <1>2, <3>1, <3>2
  <2> QED BY <1>1, <2>1, <2>2, NoChargeStep DEF Charging
<1>3. CASE CreateFind
  <2>1. ASSUME NEW t \in KeyedTasks(tick.row), UNCHANGED <<task, charge>>,
               tick' = [tick EXCEPT !.task = t,
                          !.at = IF task[t].status = "initializing" THEN "reserve" ELSE "attach"]
        PROVE  ChargeInv'
    <3>1. tick'.task = t /\ tick'.at \in {"reserve", "attach"}
          /\ (tick'.at = "reserve" => task[t].status = "initializing")
      BY <1>0, <2>1 DEF Tick
    <3> QED BY <1>1, <2>1, <3>1 DEF ChargeInv, ChargesBacked, Charging
  <2>2. ASSUME NEW t \in Task, Insert(t, tick.row), tick' = [tick EXCEPT !.task = t, !.at = "reserve"]
        PROVE  ChargeInv'
    <3>1. tick'.task = t /\ tick'.at = "reserve"
      BY <1>0, <2>2 DEF Tick
    <3> QED BY <1>1, <2>2, <3>1, InsertCharge
  <2> QED BY <1>3, <2>1, <2>2 DEF CreateFind
<1>4. CASE CreateReserve
  <2>1. /\ tick.at = "reserve" /\ tick.task \in Task /\ task' = task
        /\ tick'.at \in {"charged", "refund"} /\ tick'.task = tick.task
        /\ \A s \in Task : s # tick.task => charge'[s] = charge[s]
    BY <1>0, <1>4 DEF CreateReserve, Go, Raise, Tick
  <2>2. task[tick.task].status = "initializing"
    BY <2>1 DEF ChargeInv, Charging
  <2>3. ChargesBacked => ChargesBacked'
    BY <1>1, <2>1, <2>2 DEF ChargesBacked
  <2> QED BY <1>1, <2>1, <2>2, <2>3 DEF ChargeInv, Charging
<1>5. CASE CreateFinalize
  <2>1. CASE task[tick.task].status = "initializing"
    <3>1. /\ tick.at = "checked" /\ task' = [task EXCEPT ![tick.task].status = "live"]
          /\ tick'.at = "attach" /\ charge' = charge
      BY <1>0, <1>5, <2>1 DEF CreateFinalize, Go, Tick
    <3> QED BY <1>1, <3>1, FinalizeCharge
  <2>2. CASE task[tick.task].status # "initializing"
    BY <1>5, <2>2 DEF CreateFinalize, ChargeInv, Charging
  <2> QED BY <2>1, <2>2
<1>6. CASE CreateAttach \/ CreateFail
  <2>1. UNCHANGED <<task, charge>> /\ tick'.at = "idle"
    BY <1>6 DEF CreateAttach, CreateFail, Idle
  <2> QED BY <1>1, <2>1, NoChargeStep DEF Charging
<1>7. CASE CreateRefund
  <2>1. /\ tick.task \in Task /\ task' = task /\ charge' = Refunded(tick.task)
        /\ tick'.at = "delete" /\ tick'.task = tick.task
    BY <1>0, <1>7 DEF CreateRefund, Go, Tick
  <2>2. charge'[tick.task] # "reserved" /\ \A s \in Task : s # tick.task => charge'[s] = charge[s]
    BY <1>0, <2>1, RefundedFacts
  <2>3. ChargesBacked => ChargesBacked'
    BY <1>1, <2>1, <2>2 DEF ChargesBacked
  <2> QED BY <1>1, <2>1, <2>2, <2>3 DEF ChargeInv, Charging
<1>8. CASE CreateDelete
  <2>1. /\ tick.at = "delete" /\ task' = [task EXCEPT ![tick.task] = NoRecord] /\ tick'.at = "fail"
        /\ charge' = charge
    BY <1>0, <1>8 DEF CreateDelete, Tick
  <2> QED BY <1>1, <2>1, DeleteCharge
<1> QED BY <1>2, <1>3, <1>4, <1>5, <1>6, <1>7, <1>8 DEF Create

\* A call of it raises.
LEMMA RaisesCharge ==
  ASSUME BatchInv, ChargeInv, CreateRaises PROVE ChargeInv'
<1>0. tick \in Tick /\ used \in [Kinds -> Nat]
  BY DEF BatchInv, TypeOK
<1>1. up /\ UNCHANGED <<up, refunds>> /\ used'["crash"] = used["crash"]
  BY <1>0 DEF ChargeInv, CreateRaises, Disturb, Kinds
<1>2. /\ Raise("fail", TRUE) => tick'.at = "fail"
      /\ Raise("refund", TRUE) => tick'.at = "refund"
      /\ tick' = Idle => tick'.at = "idle"
  <2>1. "fail" \in Steps /\ "refund" \in Steps /\ TRUE \in BOOLEAN /\ Idle.at = "idle"
    BY DEF Steps, Idle
  <2> QED BY <1>0, <2>1, RaiseFacts
<1>3. tick'.at \in {"fail", "refund", "idle"}
  BY <1>2 DEF CreateRaises
<1>4. CASE UNCHANGED <<task, charge>>
  BY <1>1, <1>3, <1>4, NoChargeStep DEF Charging
<1>5. ASSUME NEW t \in Task, Insert(t, tick.row), Raise("fail", TRUE) PROVE ChargeInv'
  <2>1. tick'.at = "fail"
    BY <1>2, <1>5
  <2> QED BY <1>1, <1>5, <2>1, InsertCharge
<1>6. CASE /\ tick.at = "checked" /\ task' = [task EXCEPT ![tick.task].status = "live"]
           /\ Raise("refund", TRUE) /\ UNCHANGED charge
  BY <1>1, <1>2, <1>6, FinalizeCharge
<1>7. CASE /\ tick.at = "delete" /\ task' = [task EXCEPT ![tick.task] = NoRecord]
           /\ Raise("fail", TRUE) /\ UNCHANGED charge
  BY <1>1, <1>2, <1>7, DeleteCharge
<1> QED BY <1>4, <1>5, <1>6, <1>7 DEF CreateRaises

\* The process and the workers.
LEMMA ProcessCharge ==
  ASSUME BatchInv, ChargeInv, Process PROVE ChargeInv'
<1>0. /\ task \in [Task -> TaskRecord] /\ tick \in Tick
      /\ charge \in [Task -> {"none", "reserved", "refunded"}]
      /\ tick.at \notin {"idle", "start", "find", "fail"} => tick.task \in Task
      /\ used \in [Kinds -> Nat] /\ used["crash"] \in Nat
  BY ChargeTypes DEF BatchInv, TypeOK
<1>1. CASE Crash
  <2>1. /\ tick'.at = "idle" /\ refunds' = {} /\ up' = FALSE /\ UNCHANGED <<task, charge>>
        /\ used'["crash"] = used["crash"] + 1
    BY <1>0, <1>1 DEF Crash, Disturb, Idle, Kinds
  <2>2. used'["crash"] <= 1 => used["crash"] = 0
    BY <1>0, <2>1
  <2>3. used["crash"] = 0 => ChargesBacked'
    BY <2>1 DEF ChargeInv, ChargesBacked
  <2>4. used'["crash"] # 0
    BY <1>0, <2>1
  <2> QED BY <2>1, <2>2, <2>3, <2>4 DEF ChargeInv, Charging
<1>2. CASE Start
  <2>1. /\ tick.at = "idle" /\ used["crash"] # 0
    BY <1>2 DEF Start, ChargeInv
  <2>2. /\ UNCHANGED <<charge, tick, used>> /\ up' = TRUE
        /\ refunds' = {t \in Task : task[t].status = "initializing"}
    BY <1>2 DEF Start
  <2>3. \A t \in Task : task[t].status # "initializing" => task'[t] = task[t]
    BY <1>2 DEF Start
  <2>4. refunds = {}
    BY <1>2 DEF Start, ChargeInv
  <2>5. ChargesBacked => ChargesBacked'
    BY <2>2, <2>3, <2>4 DEF ChargesBacked
  <2> QED BY <2>1, <2>2, <2>5 DEF ChargeInv, Charging
<1>3. ASSUME NEW t \in Task, StartRefund(t) PROVE ChargeInv'
  <2>1. /\ charge' = Refunded(t) /\ refunds' = refunds \ {t}
        /\ UNCHANGED <<task, tick, up, used>>
    BY <1>3 DEF StartRefund
  <2>2. charge'[t] # "reserved" /\ \A s \in Task : s # t => charge'[s] = charge[s]
    BY <1>0, <2>1, RefundedFacts
  <2>3. ChargesBacked => ChargesBacked'
    BY <2>1, <2>2 DEF ChargesBacked
  <2>4. up
    BY <1>3 DEF StartRefund
  <2> QED BY <1>0, <2>1, <2>2, <2>3, <2>4 DEF ChargeInv, Charging
<1>4. ASSUME NEW t \in Task, TaskEnds(t) PROVE ChargeInv'
  <2>1. PICK s \in {"success", "failed", "canceled"} :
          /\ task' = [task EXCEPT ![t].status = s]
          /\ charge' = IF s = "success" THEN charge ELSE Refunded(t)
    BY <1>4 DEF TaskEnds
  <2>2. /\ task'[t].status = s /\ \A u \in Task : u # t => task'[u] = task[u]
        /\ task[t].status = "live"
    BY <1>0, <1>4, <2>1 DEF TaskRecord, TaskEnds
  <2>3. /\ charge'[t] = "reserved" => s = "success" /\ charge[t] = "reserved"
        /\ \A u \in Task : u # t => charge'[u] = charge[u]
    BY <1>0, <2>1, RefundedFacts
  <2>4. UNCHANGED <<tick, uploads, up, refunds, used>>
    BY <1>4 DEF TaskEnds
  <2>5. ChargesBacked => ChargesBacked'
    BY <2>2, <2>3, <2>4 DEF ChargesBacked
  <2>6. tick.at = "delete" => charge'[tick.task] # "reserved"
    BY <1>0, <2>3 DEF ChargeInv
  <2> QED BY <1>0, <2>2, <2>4, <2>5, <2>6 DEF ChargeInv, Charging
<1> QED BY <1>1, <1>2, <1>3, <1>4 DEF Process

\* The user, the scheduler between two creations, and the clock.
LEMMA OthersCharge ==
  ASSUME BatchInv, ChargeInv, Requests \/ Schedule \/ \E r \in Row : Elapse(r) PROVE ChargeInv'
<1>1. UNCHANGED <<task, charge, up, refunds, used>>
  BY DEF Requests, CancelBatch, UploadCheck, UploadEnds, PollStatus, Schedule, TickClaim,
         TickRecover, TickReconcile, Elapse
<1>2. tick' = tick \/ (up /\ tick'.at = "start")
  <2>1. CASE TickClaim
    <3>1. up /\ (tick' = tick \/ \E r \in Row : tick' = [Idle EXCEPT !.at = "start", !.row = r])
      BY <2>1 DEF TickClaim, Sched, Serving
    <3> QED BY <3>1 DEF Idle
  <2>2. CASE Requests \/ \E r \in Row : Elapse(r)
    BY <2>2 DEF Requests, CancelBatch, UploadCheck, UploadEnds, PollStatus, Elapse
  <2>3. CASE \E S \in SUBSET Row : TickRecover(S) \/ TickReconcile(S)
    BY <2>3 DEF TickRecover, TickReconcile
  <2> QED BY <2>1, <2>2, <2>3 DEF Schedule
<1> QED BY <1>1, <1>2, NoChargeStep DEF ChargeInv, Charging

\* Up to the second crash, a reserved charge has its task or is about to go back:
\* the start-up that fails interrupted creations refunds them one by one.
THEOREM ChargesBackedOneCrash == Spec => [](used["crash"] <= 1 => ChargesBacked)
<1>1. Init => ChargeInv
  <2> SUFFICES ASSUME Init PROVE ChargeInv
    OBVIOUS
  <2>1. /\ tick.at = "idle" /\ up = TRUE /\ refunds = {} /\ \A t \in Task : charge[t] = "none"
    BY DEF Init, Idle
  <2> QED BY <2>1 DEF ChargeInv, ChargesBacked, Charging
<1>2. BatchInv /\ ChargeInv /\ [Next]_vars => ChargeInv'
  <2> SUFFICES ASSUME BatchInv, ChargeInv, [Next]_vars PROVE ChargeInv'
    OBVIOUS
  <2>1. CASE UNCHANGED vars
    BY <2>1 DEF vars, ChargeInv, ChargesBacked
  <2>2. CASE Next
    BY <2>2, CreateCharge, RaisesCharge, ProcessCharge, OthersCharge DEF Next
  <2> QED BY <2>1, <2>2
<1>3. ChargeInv => (used["crash"] <= 1 => ChargesBacked)
  BY DEF ChargeInv
<1> QED BY <1>1, <1>2, <1>3, BatchInvariant, PTL DEF Spec

-----------------------------------------------------------------------------
(* Ghosts *)

Undisturbed == used = [k \in Kinds |-> 0]

\* A live task has its row, or is about to get it; a row whose creation failed has
\* no task.
Rowed(t) ==
  \/ job.row[task[t].key].status = "running" /\ job.row[task[t].key].task = t
  \/ tick.at = "attach" /\ tick.task = t
FailsFree == tick.at = "fail" => job.row[tick.row].task = NoTask /\ ~job.row[tick.row].delayed
GhostInv == Undisturbed => up /\ FailsFree /\ \A t \in Live : Rowed(t)

\* A change of the job that keeps every row that runs a live task.
KeepsLive(j, k) ==
  \A r \in Row : (/\ j.row[r].status = "running" /\ j.row[r].task \in Task
                  /\ task[j.row[r].task].status = "live")
                    => k.row[r].status = "running" /\ k.row[r].task = j.row[r].task

\* A live task has a row.
LEMMA LiveHasRow ==
  ASSUME BatchInv, NEW t \in Live PROVE t \in Task /\ task[t].key \in Row
BY DEF BatchInv, TypeOK, Keyed, Live, TaskRecord

\* The user, and the scheduler between two creations.
LEMMA KeepsLiveFacts ==
  ASSUME NEW j \in Job, task \in [Task -> TaskRecord], \A r \in Row : RowOK(j.row[r], r)
  PROVE  /\ KeepsLive(j, CancelJob(j))
         /\ \A r \in Row : KeepsLive(j, MarkRowAssetsReady(j, r))
         /\ \A S \in SUBSET Row : KeepsLive(j, ReconcileJob(j, S))
         /\ \A S \in SUBSET Row : (\A r \in S : j.row[r].status = "creating")
                                     => KeepsLive(j, RecoverStaleCreatingRows(j, S))
         /\ \A c \in Row : j.row[c].status = "queued"
                             => KeepsLive(j, ClaimRow(j, c)) /\ KeepsLive(j, RequestAssets(j, c))
<1>0. j.row \in [Row -> RowRecord] /\ NoTask \notin Task
  BY BatchConstants DEF Job
<1>1. KeepsLive(j, CancelJob(j))
  BY <1>0 DEF KeepsLive, CancelJob
<1>2. ASSUME NEW c \in Row PROVE KeepsLive(j, MarkRowAssetsReady(j, c))
  <2>1. CASE j.canceled \/ j.row[c].task # NoTask
    BY <2>1 DEF MarkRowAssetsReady, KeepsLive
  <2>2. CASE ~(j.canceled \/ j.row[c].task # NoTask)
    <3>1. \A r \in Row : r # c => MarkRowAssetsReady(j, c).row[r] = j.row[r]
      BY <1>0, <2>2 DEF MarkRowAssetsReady, Job
    <3> QED BY <1>0, <2>2, <3>1 DEF KeepsLive
  <2> QED BY <2>1, <2>2
<1>3. ASSUME NEW S \in SUBSET Row PROVE KeepsLive(j, ReconcileJob(j, S))
  <2> DEFINE known(r) == /\ r \in S /\ j.row[r].task # NoTask /\ j.row[r].status \notin TerminalRow
                         /\ task[j.row[r].task].status # "none"
             rows == [r \in Row |->
                        IF known(r) THEN [j.row[r] EXCEPT !.status = Outcome(task[j.row[r].task].status)]
                                    ELSE j.row[r]]
             m == [j EXCEPT !.row = rows]
  <2>1. ReconcileJob(j, S) = FinishJobIfTerminal(m)
    BY DEF ReconcileJob
  <2>2. FinishJobIfTerminal(m).row = rows
    BY DEF FinishJobIfTerminal, Job
  <2>3. ASSUME NEW r \in Row, j.row[r].status = "running", task[j.row[r].task].status = "live"
        PROVE  rows[r].status = "running" /\ rows[r].task = j.row[r].task
    <3>1. Outcome("live") = "running" /\ j.row[r] \in RowRecord
      BY <1>0 DEF Outcome
    <3> QED BY <2>3, <3>1 DEF RowRecord
  <2> HIDE DEF rows
  <2> QED BY <2>1, <2>2, <2>3 DEF KeepsLive
<1>4. ASSUME NEW S \in SUBSET Row, \A r \in S : j.row[r].status = "creating"
      PROVE  KeepsLive(j, RecoverStaleCreatingRows(j, S))
  <2>1. \A r \in Row : r \notin S => RecoverStaleCreatingRows(j, S).row[r] = j.row[r]
    BY <1>0 DEF RecoverStaleCreatingRows, Job
  <2> QED BY <1>4, <2>1 DEF KeepsLive
<1>5. ASSUME NEW c \in Row, j.row[c].status = "queued"
      PROVE  KeepsLive(j, ClaimRow(j, c)) /\ KeepsLive(j, RequestAssets(j, c))
  <2>1. \A r \in Row : r # c => ClaimRow(j, c).row[r] = j.row[r] /\ RequestAssets(j, c).row[r] = j.row[r]
    BY <1>0 DEF ClaimRow, RequestAssets, Job
  <2> QED BY <1>5, <2>1 DEF KeepsLive
<1> QED BY <1>1, <1>2, <1>3, <1>4, <1>5

\* A change of the job beside a creation.
LEMMA JobGhost ==
  ASSUME BatchInv, GhostInv, KeepsLive(job, job'), KeepsFree(job, job'),
         UNCHANGED <<task, tick, up, used>>
  PROVE  GhostInv'
<1> SUFFICES ASSUME Undisturbed PROVE GhostInv'
  BY DEF GhostInv, Undisturbed
<1>1. up' /\ FailsFree'
  <2>1. tick.at = "fail" => tick.row \in Row
    BY DEF BatchInv, TypeOK
  <2> QED BY <2>1 DEF GhostInv, FailsFree, KeepsFree
<1>2. ASSUME NEW t \in Live' PROVE Rowed(t)'
  <2>1. t \in Live /\ t \in Task /\ task[t].key \in Row /\ task[t].status = "live"
    BY <1>2, LiveHasRow DEF Live
  <2>2. Rowed(t)
    BY <2>1 DEF GhostInv
  <2> QED BY <2>1, <2>2 DEF Rowed, KeepsLive
<1> QED BY <1>1, <1>2 DEF GhostInv

\* A step that leaves the job alone, brings nothing to life, and gives up no task
\* that waits for its row.
LEMMA SameJobGhost ==
  ASSUME BatchInv, GhostInv, job' = job, up' = up, used' = used,
         \A t \in Live' : t \in Live /\ task'[t].key = task[t].key,
         tick.at = "attach" => tick'.at = "attach" /\ tick'.task = tick.task,
         tick'.at = "fail" => tick.at \notin {"idle", "attach"} /\ tick'.row = tick.row
  PROVE  GhostInv'
<1> SUFFICES ASSUME Undisturbed PROVE GhostInv'
  BY DEF GhostInv, Undisturbed
<1>1. FailsFree'
  BY DEF GhostInv, FailsFree, BatchInv, Creating
<1>2. ASSUME NEW t \in Live' PROVE Rowed(t)'
  <2>1. Rowed(t) /\ task'[t].key = task[t].key
    BY DEF GhostInv
  <2> QED BY <2>1 DEF Rowed
<1> QED BY <1>1, <1>2 DEF GhostInv

\* The user, the scheduler between two creations, and the clock.
LEMMA OthersGhost ==
  ASSUME BatchInv, GhostInv, Requests \/ Schedule \/ \E r \in Row : Elapse(r) PROVE GhostInv'
<1>0. /\ job \in Job /\ task \in [Task -> TaskRecord] /\ \A r \in Row : RowOK(job.row[r], r)
      /\ Truthful(job)
  BY DEF BatchInv, TypeOK
<1>1. CASE CancelBatch
  BY <1>0, <1>1, KeepsLiveFacts, CancelFacts, JobGhost DEF CancelBatch
<1>2. ASSUME NEW r \in Row, UploadCheck(r) \/ UploadEnds(r) PROVE GhostInv'
  <2>1. UNCHANGED <<task, tick, up, used>> /\ job' \in {job, MarkRowAssetsReady(job, r)}
    BY <1>2 DEF UploadCheck, UploadEnds
  <2>2. KeepsLive(job, job') /\ KeepsFree(job, job')
    <3>1. CASE job' = job
      BY <3>1 DEF KeepsLive, KeepsFree
    <3>2. CASE job' = MarkRowAssetsReady(job, r)
      BY <1>0, <3>2, KeepsLiveFacts, MarkFacts
    <3> QED BY <2>1, <3>1, <3>2
  <2> QED BY <2>1, <2>2, JobGhost
<1>3. ASSUME NEW S \in SUBSET Row, PollStatus(S) \/ TickReconcile(S) PROVE GhostInv'
  <2>1. UNCHANGED <<task, tick, up, used>> /\ job' = ReconcileJob(job, S)
    BY <1>3 DEF PollStatus, TickReconcile
  <2> QED BY <1>0, <2>1, KeepsLiveFacts, ReconcileFacts, JobGhost
<1>4. ASSUME NEW S \in SUBSET Row, TickRecover(S) PROVE GhostInv'
  <2>1. /\ UNCHANGED <<task, tick, up, used>> /\ job' = RecoverStaleCreatingRows(job, S) /\ S # {}
        /\ \A r \in S : job.row[r].status = "creating" /\ job.row[r].task = NoTask
    BY <1>4 DEF TickRecover
  <2> QED BY <1>0, <2>1, KeepsLiveFacts, RecoverFacts, JobGhost
<1>5. CASE TickClaim
  <2>1. PICK r \in Due : \/ /\ job' = ClaimRow(job, r)
                            /\ tick' = [Idle EXCEPT !.at = "start", !.row = r]
                         \/ job' = RequestAssets(job, r) /\ UNCHANGED tick
    BY <1>5 DEF TickClaim, IsFirst
  <2>2. tick.at = "idle" /\ UNCHANGED <<task, up, used>>
    BY <1>5 DEF TickClaim, Sched
  <2>3. r \in Row /\ job.row[r].status = "queued"
    BY DEF Due
  <2>4. KeepsLive(job, job') /\ KeepsFree(job, job')
    BY <1>0, <2>1, <2>3, KeepsLiveFacts, ClaimFacts
  <2>5. tick'.at \in {"idle", "start"}
    BY <2>1, <2>2 DEF Idle
  <2>6. ASSUME Undisturbed, NEW t \in Live' PROVE Rowed(t)'
    <3>1. t \in Live /\ t \in Task /\ task[t].key \in Row /\ task[t].status = "live"
      BY <2>2, LiveHasRow DEF Live
    <3>2. Rowed(t)
      BY <2>6, <3>1 DEF GhostInv
    <3> QED BY <2>2, <2>4, <3>1, <3>2 DEF Rowed, KeepsLive
  <2> QED BY <2>2, <2>5, <2>6 DEF GhostInv, FailsFree, Undisturbed
<1>6. ASSUME NEW c \in Row, Elapse(c) PROVE GhostInv'
  <2>1. UNCHANGED <<task, tick, up, used>>
    BY <1>6 DEF Elapse
  <2>2. /\ job'.row[c].status = job.row[c].status /\ job'.row[c].task = job.row[c].task
        /\ ~job'.row[c].delayed /\ \A r \in Row : r # c => job'.row[r] = job.row[r]
    BY <1>0, <1>6 DEF Elapse, Job, RowRecord
  <2>3. KeepsLive(job, job') /\ KeepsFree(job, job')
    BY <2>2 DEF KeepsLive, KeepsFree
  <2> QED BY <2>1, <2>3, JobGhost
<1> QED BY <1>1, <1>2, <1>3, <1>4, <1>5, <1>6 DEF Requests, Schedule

\* The steps of a creation.
LEMMA CreateGhost ==
  ASSUME BatchInv, GhostInv, Create PROVE GhostInv'
<1>0. /\ job \in Job /\ task \in [Task -> TaskRecord] /\ tick \in Tick
      /\ \A r \in Row : RowOK(job.row[r], r) /\ NoTask \notin Task
      /\ tick.at \notin {"idle", "start", "find", "fail"} => tick.task \in Task
      /\ tick.at # "idle" => tick.row \in Row
      /\ Creating
  BY BatchConstants DEF BatchInv, TypeOK
<1>1. up' = up /\ used' = used
  BY DEF Create, CreateStart, CreateFind, CreateReserve, CreateCheck, CreateFinalize,
         CreateAttach, CreateRefund, CreateDelete, CreateFail
<1>2. CASE CreateStart \/ CreateReserve \/ CreateCheck \/ CreateRefund
  <2>1. job' = job /\ task' = task
    BY <1>2 DEF CreateStart, CreateReserve, CreateCheck, CreateRefund
  <2>2. tick.at \in {"start", "reserve", "charged", "saved", "refund"} /\ tick'.row = tick.row
    <3>1. CASE CreateStart
      BY <1>0, <3>1 DEF CreateStart, Go, Raise, Tick
    <3>2. CASE CreateReserve
      BY <1>0, <3>2 DEF CreateReserve, Go, Raise, Tick
    <3>3. CASE CreateCheck
      BY <1>0, <3>3 DEF CreateCheck, Go, Raise, Tick
    <3>4. CASE CreateRefund
      BY <1>0, <3>4 DEF CreateRefund, Go, Raise, Tick
    <3> QED BY <1>2, <3>1, <3>2, <3>3, <3>4
  <2>3. Live' = Live
    BY <2>1, SameLive
  <2> QED BY <1>1, <2>1, <2>2, <2>3, SameJobGhost
<1>3. CASE CreateFind
  <2>1. job' = job /\ tick.at = "find" /\ tick'.at \in {"reserve", "attach"}
    BY <1>0, <1>3 DEF CreateFind, Tick
  <2>2. ASSUME NEW t \in Live' PROVE t \in Live /\ task'[t].key = task[t].key
    <3>1. CASE task' = task
      BY <3>1 DEF Live
    <3>2. ASSUME NEW s \in Task, Insert(s, tick.row) PROVE t \in Live /\ task'[t].key = task[t].key
      <4>1. task'[s].status = "initializing" /\ \A u \in Task : u # s => task'[u] = task[u]
        BY <1>0, <3>2 DEF Insert
      <4> QED BY <4>1 DEF Live
    <3> QED BY <1>3, <3>1, <3>2 DEF CreateFind
  <2> QED BY <1>1, <2>1, <2>2, SameJobGhost
<1>4. CASE CreateFinalize
  <2>1. /\ tick.at = "checked" /\ tick.task \in Task /\ job' = job /\ tick'.task = tick.task
        /\ \/ tick'.at = "attach" /\ task' = [task EXCEPT ![tick.task].status = "live"]
           \/ tick'.at = "refund" /\ task' = task
    <3>1. CASE task[tick.task].status = "initializing"
      BY <1>0, <1>4, <3>1 DEF CreateFinalize, Go, Tick
    <3>2. CASE task[tick.task].status # "initializing"
      BY <1>0, <1>4, <3>2 DEF CreateFinalize, Raise, Tick
    <3> QED BY <3>1, <3>2
  <2>2. \A s \in Task : task'[s].key = task[s].key /\ (s # tick.task => task'[s] = task[s])
    BY <1>0, <2>1 DEF TaskRecord
  <2>3. ASSUME Undisturbed, NEW t \in Live' PROVE Rowed(t)'
    <3>1. t \in Task /\ task'[t].status = "live"
      BY DEF Live
    <3>2. CASE t = tick.task /\ tick'.at = "attach"
      BY <2>1, <3>2 DEF Rowed
    <3>3. CASE ~(t = tick.task /\ tick'.at = "attach")
      <4>1. t \in Live
        BY <2>1, <2>2, <3>1, <3>3 DEF Live
      <4>2. Rowed(t)
        BY <2>3, <4>1 DEF GhostInv
      <4> QED BY <2>1, <2>2, <3>1, <4>2 DEF Rowed
    <3> QED BY <3>2, <3>3
  <2> QED BY <1>1, <2>1, <2>3 DEF GhostInv, FailsFree, Undisturbed
<1>5. CASE CreateAttach
  <2>1. /\ tick.at = "attach" /\ tick.row \in Row /\ tick.task \in Task /\ task' = task
        /\ task[tick.task].key = tick.row /\ job' = FinishRowCreation(job, tick.row, tick.task)
        /\ tick'.at = "idle"
    BY <1>0, <1>5 DEF CreateAttach, Creating, Idle
  <2>2. /\ job'.row[tick.row].status = "running" /\ job'.row[tick.row].task = tick.task
        /\ \A r \in Row : r # tick.row => job'.row[r] = job.row[r]
    BY <1>0, <2>1 DEF FinishRowCreation, Job, RowRecord
  <2>3. ASSUME Undisturbed, NEW t \in Live' PROVE Rowed(t)'
    <3>1. t \in Live /\ t \in Task /\ task[t].key \in Row
      BY <2>1, LiveHasRow DEF Live
    <3>2. Rowed(t)
      BY <2>3, <3>1 DEF GhostInv
    <3>3. job.row[tick.row].task = NoTask
      BY <1>0, <2>1 DEF Creating
    <3> QED BY <1>0, <2>1, <2>2, <3>1, <3>2, <3>3 DEF Rowed
  <2> QED BY <1>1, <2>1, <2>3 DEF GhostInv, FailsFree, Undisturbed
<1>6. CASE CreateDelete
  <2>1. /\ tick.at = "delete" /\ tick.task \in Task /\ job' = job
        /\ task' = [task EXCEPT ![tick.task] = NoRecord] /\ tick'.row = tick.row
    BY <1>0, <1>6 DEF CreateDelete, Tick
  <2>2. task'[tick.task].status = "none" /\ \A s \in Task : s # tick.task => task'[s] = task[s]
    BY <1>0, <2>1 DEF NoRecord
  <2>3. \A t \in Live' : t \in Live /\ task'[t].key = task[t].key
    BY <2>2 DEF Live
  <2> QED BY <1>1, <2>1, <2>3, SameJobGhost
<1>7. CASE CreateFail
  <2>1. /\ tick.at = "fail" /\ tick.row \in Row /\ task' = task /\ tick'.at = "idle"
        /\ job' = FailOrRequeueRow(job, tick.row, tick.retry)
    BY <1>0, <1>7 DEF CreateFail, Idle
  <2>2. \A r \in Row : r # tick.row => job'.row[r] = job.row[r]
    <3> DEFINE o == FailOpenRow(job, tick.row, tick.retry)
    <3>1. CASE job.row[tick.row].status \in TerminalRow
      BY <2>1, <3>1 DEF FailOrRequeueRow
    <3>2. CASE job.row[tick.row].status \notin TerminalRow
      <4>1. job' = FinishJobIfTerminal(o)
        BY <2>1, <3>2 DEF FailOrRequeueRow
      <4>2. \A r \in Row : r # tick.row => o.row[r] = job.row[r]
        BY <1>0, <2>1 DEF FailOpenRow, Job
      <4>3. FinishJobIfTerminal(o).row = o.row
        BY <1>0 DEF FinishJobIfTerminal, FailOpenRow, Job
      <4> QED BY <4>1, <4>2, <4>3
    <3> QED BY <3>1, <3>2
  <2>3. ASSUME Undisturbed, NEW t \in Live' PROVE Rowed(t)'
    <3>1. t \in Live /\ t \in Task /\ task[t].key \in Row
      BY <2>1, LiveHasRow DEF Live
    <3>2. Rowed(t) /\ job.row[tick.row].task = NoTask
      BY <2>1, <2>3, <3>1 DEF GhostInv, FailsFree
    <3> QED BY <1>0, <2>1, <2>2, <3>1, <3>2 DEF Rowed
  <2> QED BY <1>1, <2>1, <2>3 DEF GhostInv, FailsFree, Undisturbed
<1> QED BY <1>2, <1>3, <1>4, <1>5, <1>6, <1>7 DEF Create

\* The workers, and the process, which does not die.
LEMMA ProcessGhost ==
  ASSUME BatchInv, GhostInv, Process PROVE GhostInv'
<1>0. task \in [Task -> TaskRecord] /\ tick \in Tick
  BY DEF BatchInv, TypeOK
<1>1. CASE Crash
  <2>1. used["crash"] \in Nat /\ used'["crash"] = used["crash"] + 1
    BY <1>1 DEF Crash, Disturb, Kinds, BatchInv, TypeOK
  <2>2. ~Undisturbed'
    <3>1. used'["crash"] # 0
      BY <2>1
    <3> QED BY <3>1 DEF Undisturbed, Kinds
  <2> QED BY <2>2 DEF GhostInv
<1>2. CASE Start
  BY <1>2 DEF Start, GhostInv, Undisturbed
<1>3. ASSUME NEW t \in Task, StartRefund(t) PROVE GhostInv'
  <2>1. UNCHANGED <<job, task, tick, up, used>>
    BY <1>3 DEF StartRefund
  <2> QED BY <2>1 DEF GhostInv, Undisturbed, FailsFree, Rowed, Live
<1>4. ASSUME NEW t \in Task, TaskEnds(t) PROVE GhostInv'
  <2>1. PICK s \in {"success", "failed", "canceled"} : task' = [task EXCEPT ![t].status = s]
    BY <1>4 DEF TaskEnds
  <2>2. UNCHANGED <<job, tick, up, used>>
    BY <1>4 DEF TaskEnds
  <2>3. task'[t].status = s /\ \A u \in Task : u # t => task'[u] = task[u]
    BY <1>0, <2>1 DEF TaskRecord
  <2>4. \A u \in Live' : u \in Live /\ task'[u].key = task[u].key
    BY <2>3 DEF Live
  <2> QED BY <2>2, <2>4, SameJobGhost DEF GhostInv, FailsFree, Undisturbed, Rowed
<1> QED BY <1>1, <1>2, <1>3, <1>4 DEF Process

\* Without crashes and failing calls every live task has a running row once the tick
\* is over, although a cancel or a poll can come between any two steps of a creation.
THEOREM NoGhosts == Spec => []NoGhost
<1>1. Init => GhostInv
  BY DEF Init, GhostInv, FailsFree, Live, NoRecord, Idle
<1>2. BatchInv /\ GhostInv /\ [Next]_vars => GhostInv'
  <2> SUFFICES ASSUME BatchInv, GhostInv, [Next]_vars PROVE GhostInv'
    OBVIOUS
  <2>1. CASE UNCHANGED vars
    BY <2>1 DEF vars, GhostInv, Undisturbed, FailsFree, Rowed, Live
  <2>2. CASE CreateRaises
    <3>1. used["fault"] \in Nat /\ used'["fault"] = used["fault"] + 1
      BY <2>2 DEF CreateRaises, Disturb, Kinds, BatchInv, TypeOK
    <3>2. ~Undisturbed'
      <4>1. used'["fault"] # 0
        BY <3>1
      <4> QED BY <4>1 DEF Undisturbed, Kinds
    <3> QED BY <3>2 DEF GhostInv
  <2> QED BY <2>1, <2>2, CreateGhost, ProcessGhost, OthersGhost DEF Next
<1>3. BatchInv /\ GhostInv => NoGhost
  BY DEF GhostInv, NoGhost, Undisturbed, Rowed
<1> QED BY <1>1, <1>2, <1>3, BatchInvariant, PTL DEF Spec
=============================================================================
