---------------------------- MODULE TaskLifecycle ----------------------------
(* What the pipeline promises about a task, whatever processes, coroutines and *)
(* threads write its record: the life cycle of its status, and the two retry   *)
(* counters as budgets.  TaskQueue implements this specification.              *)
EXTENDS Naturals

CONSTANTS
  Task,
  RetryLimit,  \* further attempts the owner of a task may get
  InfraLimit   \* further attempts after faults of the service

VARIABLES
  status,   \* task -> state of its life cycle
  late,     \* task -> given up on, its result may still come
  retries,  \* task -> attempts counted against RetryLimit
  infra     \* task -> attempts counted against InfraLimit

vars == <<status, late, retries, infra>>

Final == {"success", "failed", "canceled"}
Open == {"pending", "running", "submitted"}

\* Changes of status that count no attempt.
Arrow == {<<"none", "initializing">>, <<"initializing", "none">>, <<"initializing", "pending">>,
          <<"pending", "running">>,
          <<"running", "pending">>, <<"running", "submitted">>, <<"submitted", "pending">>,
          <<"running", "success">>, <<"submitted", "success">>, <<"initializing", "failed">>}
         \cup (Open \X {"failed", "canceled"})

Init ==
  /\ status = [t \in Task |-> "none"]
  /\ late = [t \in Task |-> FALSE]
  /\ retries = [t \in Task |-> 0]
  /\ infra = [t \in Task |-> 0]

Rest(t) ==
  /\ status'[t] = status[t]
  /\ late'[t] = late[t] /\ retries'[t] = retries[t] /\ infra'[t] = infra[t]

Advance(t) ==
  /\ <<status[t], status'[t]>> \in Arrow
  /\ late'[t] = late[t] /\ retries'[t] = retries[t] /\ infra'[t] = infra[t]

\* The wait for a result is over; the result may come all the same.
GiveUp(t) ==
  /\ status[t] = "submitted" /\ status'[t] = "failed" /\ late'[t]
  /\ retries'[t] = retries[t] /\ infra'[t] = infra[t]

LateSuccess(t) ==
  /\ status[t] = "failed" /\ late[t] /\ status'[t] = "success" /\ ~late'[t]
  /\ retries'[t] = retries[t] /\ infra'[t] = infra[t]

LateOver(t) ==
  /\ status[t] = "failed" /\ late[t] /\ status'[t] = "failed" /\ ~late'[t]
  /\ retries'[t] = retries[t] /\ infra'[t] = infra[t]

\* A counted attempt: back to pending within the budget, otherwise failed.
Retry(t) ==
  /\ status[t] \notin Final
  /\ retries'[t] = retries[t] + 1
  /\ (status'[t] = "pending" /\ retries'[t] <= RetryLimit) \/ status'[t] = "failed"
  /\ late'[t] = late[t] /\ infra'[t] = infra[t]

InfraRetry(t) ==
  /\ status[t] \notin Final
  /\ infra'[t] = infra[t] + 1
  /\ (status'[t] = "pending" /\ infra'[t] <= InfraLimit) \/ status'[t] = "failed"
  /\ late'[t] = late[t] /\ retries'[t] = retries[t]

\* A restart of the service forgives a waiting task its service faults.
Forgive(t) ==
  /\ status[t] = "pending" /\ status'[t] = "pending" /\ infra'[t] = 0
  /\ late'[t] = late[t] /\ retries'[t] = retries[t]

Step(t) == \/ Rest(t) \/ Advance(t) \/ GiveUp(t) \/ LateSuccess(t) \/ LateOver(t)
           \/ Retry(t) \/ InfraRetry(t) \/ Forgive(t)

\* One step may move several tasks: a restart does.
Next == \A t \in Task : Step(t)

Spec == Init /\ [][Next]_vars
=============================================================================
