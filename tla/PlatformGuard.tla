---------------------------- MODULE PlatformGuard ----------------------------
(* The admission of one platform's tasks (class PlatformGuard, app/resilience.py): *)
(* a circuit breaker and a token bucket, in Redis or, for the file queue, in the   *)
(* memory of the process.  admit() and the record_* calls contain no await, so     *)
(* with one worker process each is a single step.  Time passes in ticks; a key     *)
(* is kept as its age or as the ticks its TTL has left.                            *)
EXTENDS Naturals

CONSTANTS
  Runner,     \* the coroutines that run tasks of this platform
  Shared,     \* TRUE: state in Redis, FALSE: in the process
  Threshold,  \* circuit_failure_threshold
  Recovery,   \* circuit_recovery_seconds, in ticks
  Burst       \* platform_burst

ASSUME GuardConstants == /\ Shared \in BOOLEAN
                         /\ Threshold \in Nat \ {0}
                         /\ Recovery \in Nat \ {0}
                         /\ Burst \in Nat \ {0}

VARIABLES
  failures,  \* key failures; Threshold stands for any count from there on
  counted,   \* ticks left of that key
  opened,    \* age of key opened, NotOpened when there is none
  probe,     \* ticks left of key probe, 0 when there is none
  tokens,    \* tokens in the bucket
  run,       \* what each coroutine does: waiting, running, or running as the probe
  probes     \* history: probes let through since opened was last written

vars == <<failures, counted, opened, probe, tokens, run, probes>>

NotOpened == 2 * Recovery

TypeOK ==
  /\ failures \in 0..Threshold
  /\ counted \in 0..(2 * Recovery)
  /\ opened \in 0..NotOpened
  /\ probe \in 0..Recovery
  /\ tokens \in 0..Burst
  /\ run \in [Runner -> {"waiting", "running", "probing"}]
  /\ probes \in Nat

Init ==
  /\ failures = 0 /\ counted = 0 /\ opened = NotOpened /\ probe = 0
  /\ tokens = Burst
  /\ run = [r \in Runner |-> "waiting"]
  /\ probes = 0

-----------------------------------------------------------------------------
\* _admit_circuit: closed, or the recovery window is over and nobody probes.
Closed == opened = NotOpened
HalfOpen == opened >= Recovery /\ ~Closed /\ probe = 0

\* Mutant: the probe key lives for one tick only.
ProbeForOneTick == 1
\* SET probe NX EX circuit_recovery_seconds
ProbeTTL == Recovery

\* admit: the circuit, then a token.
Admit(r) ==
  /\ run[r] = "waiting" /\ tokens > 0
  /\ \/ Closed /\ run' = [run EXCEPT ![r] = "running"] /\ UNCHANGED <<probe, probes>>
     \/ HalfOpen /\ run' = [run EXCEPT ![r] = "probing"] /\ probe' = ProbeTTL /\ probes' = probes + 1
  /\ tokens' = tokens - 1
  /\ UNCHANGED <<failures, counted, opened>>

\* A probe that finds no token gives the probe key back (_release_probe).  Any other
\* refusal leaves everything as it was and the task is deferred.
AdmitLimited(r) ==
  /\ run[r] = "waiting" /\ tokens = 0 /\ HalfOpen
  /\ probe' = 0
  /\ UNCHANGED <<failures, counted, opened, tokens, run, probes>>

\* record_success: the three keys are deleted.
Success(r) ==
  /\ run[r] # "waiting"
  /\ run' = [run EXCEPT ![r] = "waiting"]
  /\ failures' = 0 /\ counted' = 0 /\ opened' = NotOpened /\ probe' = 0 /\ probes' = 0
  /\ UNCHANGED tokens

\* record_failure: a retryable fault that is neither the account's nor the
\* infrastructure's.  In the process every failure clears the probe flag.
Failure(r) ==
  LET count == IF failures < Threshold THEN failures + 1 ELSE Threshold
  IN /\ run[r] # "waiting"
     /\ run' = [run EXCEPT ![r] = "waiting"]
     /\ failures' = count /\ counted' = 2 * Recovery
     /\ IF count = Threshold
          THEN opened' = 0 /\ probe' = 0 /\ probes' = 0
          ELSE probe' = (IF Shared THEN probe ELSE 0) /\ UNCHANGED <<opened, probes>>
     /\ UNCHANGED tokens

\* Any other end of a run (canceled, account or infrastructure fault, not ours any
\* more after the admission): the guard is not told.
Unreported(r) ==
  /\ run[r] # "waiting"
  /\ run' = [run EXCEPT ![r] = "waiting"]
  /\ UNCHANGED <<failures, counted, opened, probe, tokens, probes>>

\* Mutant: the time of the last look is saved and the fraction of a token is lost.
NoRefill(n) == n
\* _take_token, what the time since the last look has added to the bucket.
Refill(n) == IF n < Burst THEN n + 1 ELSE Burst

\* Enough time for one token, at platform_rate_per_minute, has passed.
Drip ==
  /\ tokens' = Refill(tokens)
  /\ UNCHANGED <<failures, counted, opened, probe, run, probes>>

\* EXPIRE bucket 120: a bucket nobody has looked at for that long is full again.
BucketExpires ==
  /\ Shared
  /\ tokens' = Burst
  /\ UNCHANGED <<failures, counted, opened, probe, run, probes>>

Less(n) == IF n > 0 THEN n - 1 ELSE 0

\* Redis drops keys at the end of their TTL; in the process nothing is dropped.
Tick ==
  /\ IF Shared
       THEN /\ counted' = Less(counted)
            /\ failures' = IF counted <= 1 THEN 0 ELSE failures
            /\ opened' = IF Closed THEN opened ELSE opened + 1
            /\ probe' = Less(probe)
       ELSE /\ opened' = IF opened < NotOpened - 1 THEN opened + 1 ELSE opened
            /\ UNCHANGED <<counted, failures, probe>>
  /\ probes' = IF opened' = NotOpened THEN 0 ELSE probes
  /\ UNCHANGED <<tokens, run>>

Next == \/ Tick \/ Drip \/ BucketExpires
        \/ \E r \in Runner : Admit(r) \/ AdmitLimited(r) \/ Success(r) \/ Failure(r) \/ Unreported(r)

Spec == Init /\ [][Next]_vars

\* Time passes, and a deferred task asks again when its retry_after is over.
FairSpec == Spec /\ WF_vars(Tick) /\ WF_vars(Drip) /\ WF_vars(\E r \in Runner : Admit(r))

-----------------------------------------------------------------------------
\* One opening of the breaker lets one probe through: the probe key outlives what is
\* left of the opened key, whenever the probe was taken.
OneProbePerOpening == probes <= 1

\* The bucket and the breaker never shut a platform off for good: when all its tasks
\* wait for admission, one of them is admitted in the end.
Recovers == (\A r \in Runner : run[r] = "waiting") ~> (\E r \in Runner : run[r] # "waiting")
=============================================================================
