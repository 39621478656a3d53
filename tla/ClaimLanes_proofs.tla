-------------------------- MODULE ClaimLanes_proofs --------------------------
(* Proofs about ClaimLanes for every burst and every length of the lists. *)
EXTENDS ClaimLanes, TLAPS

\* What the shares rest on.  The streak counts at least the claims a waiting retry
\* has been passed over for, and is zero after a retry was claimed.  A claim that is
\* under way and holds, or is about to take, an entry of one lane has left the
\* other lane behind only when it was allowed to.
Owed ==
  /\ passed["retry"] <= streak
  /\ passed["ready"] <= 1
  /\ passed["ready"] = 1 => streak = 0
  /\ \A l \in Lane : len[l] = 0 => passed[l] = 0
  /\ at # "out" /\ lane = "ready" => passed["retry"] < ClaimBurst
  /\ at # "out" /\ lane = "retry" => passed["ready"] = 0

\* Every step keeps the types and Owed.
LEMMA LaneStep ==
  ASSUME TypeOK, Owed, [Next]_vars
  PROVE  TypeOK' /\ Owed'
<1> USE LaneConstants DEF TypeOK, Owed, Lane
<1>1. ASSUME NEW l \in Lane, Push(l) PROVE TypeOK' /\ Owed'
  BY <1>1 DEF Push
<1>2. ASSUME NEW l \in Lane, Remove(l) PROVE TypeOK' /\ Owed'
  BY <1>2 DEF Remove, Forget
<1>3. CASE ClaimCall
  BY <1>3 DEF ClaimCall, Look, PreferRetry
<1>4. CASE Take
  BY <1>4 DEF Take, Forget
<1>5. CASE Empty
  BY <1>5 DEF Empty, Other
<1>6. CASE Claimed
  <2>1. CASE lane = "retry"
    BY <1>6, <2>1 DEF Claimed, NextStreak
  <2>2. CASE lane = "ready"
    BY <1>6, <2>2 DEF Claimed, NextStreak
  <2> QED BY <2>1, <2>2
<1>7. CASE Passed
  BY <1>7 DEF Passed, LastRound, Look, PreferRetry
<1>8. CASE UNCHANGED vars
  BY <1>8 DEF vars
<1> QED BY <1>1, <1>2, <1>3, <1>4, <1>5, <1>6, <1>7, <1>8 DEF Next

\* Neither lane is starved: at most initial_claim_burst first attempts pass a waiting
\* retry, at most one retry passes a waiting first attempt.
THEOREM LaneShares == Spec => [](TypeOK /\ RetryShare /\ FreshShare)
<1>1. Init => TypeOK /\ Owed
  BY LaneConstants DEF Init, TypeOK, Owed, Lane
<1>2. TypeOK /\ Owed /\ [Next]_vars => TypeOK' /\ Owed'
  BY LaneStep
<1>3. TypeOK /\ Owed => RetryShare /\ FreshShare
  BY LaneConstants DEF TypeOK, Owed, Lane, RetryShare, FreshShare
<1> QED BY <1>1, <1>2, <1>3, PTL DEF Spec

\* A first attempt that waits is passed by one retry at most.
THEOREM FirstAttemptsServed == Spec => []FreshShare
<1> QED BY LaneShares, PTL
=============================================================================
