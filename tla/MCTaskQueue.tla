----------------------------- MODULE MCTaskQueue -----------------------------
(* Small instances of TaskQueue: the values the .cfg files give its constants.  *)
EXTENDS TaskQueue, TLC

CONSTANTS t1, t2, w1, w2, o1

\* One owner has every task, and the limit is one running task.
OneOwner == [t \in Task |-> o1]
LimitOne == [o \in Owner |-> 1]

\* Coroutines of one process are interchangeable, and so are tasks that the
\* constants do not tell apart.
WorkerSymmetry == Permutations(Worker)
FullSymmetry == Permutations(Worker) \cup Permutations(Task)

\* Budgets: how often each disturbance may happen.
Once(kinds) == [k \in Kinds |-> IF k \in kinds THEN 1 ELSE 0]
CrashBudget == Once({"crash"})
WatchdogBudget == Once({"crash", "stuck"})
LeaseBudget == Once({"lapse", "stuck"})
OutageBudget == Once({"crash", "fault", "pause", "restart"})
=============================================================================
