------------------------ MODULE PlatformGuard_proofs ------------------------
(* Proofs about PlatformGuard for every threshold, recovery window and burst. *)
EXTENDS PlatformGuard, TLAPS

\* The strengthening: a probe that was let through in this opening still has its key,
\* with at least as many ticks left as the opened key; and while the breaker is open
\* the count of failures has not expired, so that the next failure opens it again.
ProbeOutlives ==
  /\ Closed => probes = 0
  /\ ~Closed => failures = Threshold /\ counted + opened >= NotOpened
  /\ probes <= 1
  /\ probes = 1 => probe + opened >= NotOpened

\* Every step keeps the types and the strengthening.
LEMMA GuardStep ==
  ASSUME TypeOK, ProbeOutlives, [Next]_vars
  PROVE  TypeOK' /\ ProbeOutlives'
<1> USE GuardConstants DEF TypeOK, ProbeOutlives, NotOpened, Closed
<1>1. ASSUME NEW r \in Runner, Admit(r) PROVE TypeOK' /\ ProbeOutlives'
  <2>1. CASE Closed
    BY <1>1, <2>1 DEF Admit, HalfOpen
  <2>2. CASE HalfOpen
    BY <1>1, <2>2 DEF Admit, HalfOpen, ProbeTTL
  <2> QED BY <1>1, <2>1, <2>2 DEF Admit
<1>2. ASSUME NEW r \in Runner, AdmitLimited(r) PROVE TypeOK' /\ ProbeOutlives'
  BY <1>2 DEF AdmitLimited, HalfOpen
<1>3. ASSUME NEW r \in Runner, Success(r) PROVE TypeOK' /\ ProbeOutlives'
  BY <1>3 DEF Success
<1>4. ASSUME NEW r \in Runner, Failure(r) PROVE TypeOK' /\ ProbeOutlives'
  <2>1. CASE failures + 1 < Threshold
    BY <1>4, <2>1 DEF Failure
  <2>2. CASE ~(failures + 1 < Threshold)
    BY <1>4, <2>2 DEF Failure
  <2> QED BY <2>1, <2>2
<1>5. ASSUME NEW r \in Runner, Unreported(r) PROVE TypeOK' /\ ProbeOutlives'
  BY <1>5 DEF Unreported
<1>6. CASE Tick
  <2>1. CASE Shared
    BY <1>6, <2>1 DEF Tick, Less
  <2>2. CASE ~Shared
    BY <1>6, <2>2 DEF Tick
  <2> QED BY <2>1, <2>2
<1>7. CASE UNCHANGED vars
  BY <1>7 DEF vars
<1>8. CASE Drip \/ BucketExpires
  BY <1>8 DEF Drip, BucketExpires, Refill
<1> QED BY <1>1, <1>2, <1>3, <1>4, <1>5, <1>6, <1>7, <1>8 DEF Next

\* The types hold, and one opening of the breaker lets one probe through, however
\* long the window is and however many coroutines ask.
THEOREM OneProbe == Spec => [](TypeOK /\ OneProbePerOpening)
<1>1. Init => TypeOK /\ ProbeOutlives
  BY GuardConstants DEF Init, TypeOK, ProbeOutlives, NotOpened, Closed
<1>2. TypeOK /\ ProbeOutlives /\ [Next]_vars => TypeOK' /\ ProbeOutlives'
  BY GuardStep
<1>3. ProbeOutlives => OneProbePerOpening
  BY DEF ProbeOutlives, OneProbePerOpening
<1> QED BY <1>1, <1>2, <1>3, PTL DEF Spec
=============================================================================
