----------------------------- MODULE ClaimLanes -----------------------------
(* Which of the two ready lists RedisTaskQueue.claim serves: first attempts or  *)
(* retries.  The claim loop runs under the worker's claim lock; other processes *)
(* and threads push to the lists and remove from them between its commands.     *)
EXTENDS Naturals

CONSTANTS
  ClaimBurst,  \* initial_claim_burst
  Rounds,      \* entries one call of claim looks at
  MaxLen       \* bound on the length of a list

ASSUME LaneConstants == /\ ClaimBurst \in Nat \ {0}
                        /\ Rounds \in Nat \ {0}
                        /\ MaxLen \in Nat

Lane == {"ready", "retry"}
Other(l) == IF l = "ready" THEN "retry" ELSE "ready"

VARIABLES
  len,     \* lane -> length of its ready list
  streak,  \* _initial_claim_streak; ClaimBurst stands for any number from there on
  at,      \* where claim is: out, before the first or second LMOVE, or with an entry
  lane,    \* the list of that LMOVE or of that entry
  round,   \* entries this call has looked at
  passed   \* history: lane -> claims of the other lane since its list was last empty
           \* or last served

vars == <<len, streak, at, lane, round, passed>>

TypeOK ==
  /\ len \in [Lane -> 0..MaxLen]
  /\ streak \in 0..ClaimBurst
  /\ at \in {"out", "first", "second", "entry"}
  /\ lane \in Lane
  /\ round \in 0..(Rounds - 1)
  /\ passed \in [Lane -> Nat]

Init ==
  /\ len = [l \in Lane |-> 0]
  /\ streak = 0 /\ at = "out" /\ lane = "ready" /\ round = 0
  /\ passed = [l \in Lane |-> 0]

\* Mutant: the burst is exceeded by one.
PreferRetryLate == streak > ClaimBurst
PreferRetry == streak >= ClaimBurst

\* Mutant: a claimed retry does not end the streak.
StreakGoesOn(l) == IF l = "ready" /\ streak < ClaimBurst THEN streak + 1 ELSE streak
\* The streak after a claim from lane l.
NextStreak(l) == IF l = "retry" THEN 0 ELSE IF streak < ClaimBurst THEN streak + 1 ELSE streak

\* A lane with an empty list is owed nothing.
Forget(newLen) == [l \in Lane |-> IF newLen[l] = 0 THEN 0 ELSE passed[l]]

-----------------------------------------------------------------------------
\* enqueue, requeue, recover and _promote add an entry ...
Push(l) ==
  /\ len[l] < MaxLen
  /\ len' = [len EXCEPT ![l] = @ + 1]
  /\ UNCHANGED <<streak, at, lane, round, passed>>

\* ... requeue and _ack remove one (LREM).
Remove(l) ==
  /\ len[l] > 0
  /\ len' = [len EXCEPT ![l] = @ - 1]
  /\ passed' = Forget(len')
  /\ UNCHANGED <<streak, at, lane, round>>

\* Before the first LMOVE of a round.
Look == /\ at' = "first"
        /\ lane' = IF PreferRetry THEN "retry" ELSE "ready"

ClaimCall ==
  /\ at = "out"
  /\ Look /\ round' = 0
  /\ UNCHANGED <<len, streak, passed>>

\* LMOVE takes an entry off the list ...
Take ==
  /\ at \in {"first", "second"} /\ len[lane] > 0
  /\ len' = [len EXCEPT ![lane] = @ - 1]
  /\ passed' = Forget(len')
  /\ at' = "entry"
  /\ UNCHANGED <<streak, lane, round>>

\* ... or finds it empty: the other list, then nothing.
Empty ==
  /\ at \in {"first", "second"} /\ len[lane] = 0
  /\ IF at = "first" THEN at' = "second" /\ lane' = Other(lane)
                     ELSE at' = "out" /\ UNCHANGED lane
  /\ UNCHANGED <<len, streak, round, passed>>

\* mark_running said yes and the task is leased.
Claimed ==
  /\ at = "entry"
  /\ streak' = NextStreak(lane)
  /\ passed' = [l \in Lane |-> IF l = lane \/ len[l] = 0 THEN 0 ELSE passed[l] + 1]
  /\ at' = "out"
  /\ UNCHANGED <<len, lane, round>>

LastRound == round + 1 >= Rounds

\* The entry is acknowledged or delayed, and the loop goes on for at most Rounds.
Passed ==
  /\ at = "entry"
  /\ IF LastRound THEN at' = "out" /\ UNCHANGED <<lane, round>>
                  ELSE round' = round + 1 /\ Look
  /\ UNCHANGED <<len, streak, passed>>

Next == \/ ClaimCall \/ Take \/ Empty \/ Claimed \/ Passed
        \/ \E l \in Lane : Push(l) \/ Remove(l)

Spec == Init /\ [][Next]_vars

-----------------------------------------------------------------------------
\* Retries are not starved: while there is a retry to claim, no more than
\* initial_claim_burst first attempts go before it, whenever it was pushed.
RetryShare == passed["retry"] <= ClaimBurst

\* First attempts are not starved: while there is one to claim, no two retries go
\* before it.
FreshShare == passed["ready"] <= 1
=============================================================================
