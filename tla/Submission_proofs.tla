-------------------------- MODULE Submission_proofs --------------------------
(* Proofs about Submission for every number of runners, pools of every size,   *)
(* every set of scenes and every budget of attempts and faults.                 *)
EXTENDS SubmissionInv, FiniteSetTheorems, TLAPS

-----------------------------------------------------------------------------
(* The functions of the store, as far as an attempt calls them.                *)

\* Each returns a task record; these are the states they leave it in.
LEMMA StoreCalls ==
  ASSUME NEW m \in Meta
  PROVE  /\ \A w \in Worker, sticky \in BOOLEAN :
              LET c == ClearTransientResult([ClaimTask(m, w) EXCEPT !.waiting = FALSE], sticky)
              IN c \in Meta /\ c.status = "running"
         /\ RequestTaskCancel(m) \in Meta /\ RequestTaskCancel(m).status = "canceled"
         /\ ReleaseTaskSubmission(m) \in Meta /\ ReleaseTaskSubmission(m).status = m.status
         /\ BeginTaskSubmission(m) \in Meta /\ BeginTaskSubmission(m).status = m.status
         /\ MarkSubmitted(m) \in Meta
         /\ MarkSubmitted(m).status = IF m.status = "running" THEN "submitted" ELSE m.status
<1>1. ASSUME NEW w \in Worker, NEW sticky \in BOOLEAN
      PROVE  LET c == ClearTransientResult([ClaimTask(m, w) EXCEPT !.waiting = FALSE], sticky)
             IN c \in Meta /\ c.status = "running"
  <2> DEFINE a == ClaimTask(m, w)
  <2>1. a \in Meta /\ a.status = "running"
    BY DEF ClaimTask, Meta, Status, Id
  <2> HIDE DEF a
  <2> DEFINE b == [a EXCEPT !.waiting = FALSE]
  <2>2. b \in Meta /\ b.status = "running"
    BY <2>1 DEF Meta
  <2> HIDE DEF b
  <2>3. [b EXCEPT !.evidence = FALSE] \in Meta /\ [b EXCEPT !.evidence = FALSE].status = "running"
    BY <2>2 DEF Meta
  <2> QED BY <2>2, <2>3 DEF ClearTransientResult, a, b
<1>2. RequestTaskCancel(m) \in Meta /\ RequestTaskCancel(m).status = "canceled"
  BY DEF RequestTaskCancel, Meta, Status, Id
<1>3. ReleaseTaskSubmission(m) \in Meta /\ ReleaseTaskSubmission(m).status = m.status
  BY DEF ReleaseTaskSubmission, Meta
<1>4. BeginTaskSubmission(m) \in Meta /\ BeginTaskSubmission(m).status = m.status
  BY DEF BeginTaskSubmission, Meta
<1>5. /\ MarkSubmitted(m) \in Meta
      /\ MarkSubmitted(m).status = IF m.status = "running" THEN "submitted" ELSE m.status
  BY DEF MarkSubmitted, Meta, Status, Id
<1> QED BY <1>1, <1>2, <1>3, <1>4, <1>5

\* The evidence mark of a record does not touch its status.
LEMMA Evidence ==
  ASSUME NEW m \in Meta
  PROVE  [m EXCEPT !.evidence = TRUE] \in Meta /\ [m EXCEPT !.evidence = TRUE].status = m.status
BY DEF Meta

\* What the worker does with a task that still runs, and with one that does not.
LEMMA WorkerCalls ==
  ASSUME NEW m \in Meta
  PROVE  /\ MarkPending(m) \in Meta /\ DeferTask(m) \in Meta /\ MarkFailed(m) \in Meta
         /\ RecordRetry(m) \in Meta /\ RecordInfrastructureRetry(m) \in Meta
         /\ m.status = "running" =>
              /\ MarkPending(m).status = "pending" /\ DeferTask(m).status = "pending"
              /\ MarkFailed(m).status = "failed"
         /\ m.status \in {"pending", "running"} =>
              /\ RecordRetry(m).status \in {"pending", "failed"}
              /\ RecordInfrastructureRetry(m).status \in {"pending", "failed"}
         /\ m.status \in {"submitted", "canceled"} =>
              /\ MarkPending(m) = m /\ DeferTask(m) = m
              /\ RecordRetry(m) = m /\ RecordInfrastructureRetry(m) = m
         /\ m.status = "submitted" => MarkFailed(m).status = "failed"
         /\ m.status = "canceled" => MarkFailed(m) = m
<1> DEFINE n == m.retries + 1
           i == m.infra + 1
<1>0. m.retries \in Nat /\ m.infra \in Nat
  BY DEF Meta
<1>1. n \in Nat /\ i \in Nat
  BY <1>0
<1> HIDE DEF n, i
<1>2. MarkPending(m) \in Meta /\ DeferTask(m) \in Meta /\ MarkFailed(m) \in Meta
  BY DEF MarkPending, DeferTask, MarkFailed, Meta, Status, Id
<1>3. m.status = "running" =>
        /\ MarkPending(m).status = "pending" /\ DeferTask(m).status = "pending"
        /\ MarkFailed(m).status = "failed"
  BY DEF MarkPending, DeferTask, MarkFailed, Meta
<1> DEFINE f == [m EXCEPT !.status = "failed", !.worker = NoWorker, !.retries = n]
           p == [m EXCEPT !.status = "pending", !.worker = NoWorker, !.retries = n, !.waiting = TRUE]
           g == [m EXCEPT !.status = "failed", !.worker = NoWorker, !.infra = i]
           q == [m EXCEPT !.status = "pending", !.worker = NoWorker, !.infra = i, !.waiting = TRUE]
<1>4. f \in Meta /\ p \in Meta /\ f.status = "failed" /\ p.status = "pending"
  BY <1>1 DEF Meta, Status, Id
<1>5. g \in Meta /\ q \in Meta /\ g.status = "failed" /\ q.status = "pending"
  BY <1>1 DEF Meta, Status, Id
<1>6. RecordRetry(m) = IF m.status \in {"success", "submitted", "failed", "canceled"} THEN m
                       ELSE IF n > RetryLimit THEN f ELSE p
  BY DEF RecordRetry, n
<1>7. RecordInfrastructureRetry(m) =
        IF m.status \in {"success", "submitted", "failed", "canceled"} THEN m
        ELSE IF i > MaxInfra THEN g ELSE q
  BY DEF RecordInfrastructureRetry, i
<1> HIDE DEF f, p, g, q
<1>8. RecordRetry(m) \in Meta /\ RecordInfrastructureRetry(m) \in Meta
  BY <1>4, <1>5, <1>6, <1>7
<1>9. m.status \in {"pending", "running"} =>
        /\ RecordRetry(m).status \in {"pending", "failed"}
        /\ RecordInfrastructureRetry(m).status \in {"pending", "failed"}
  BY <1>4, <1>5, <1>6, <1>7
<1>10. m.status \in {"submitted", "canceled"} =>
        /\ MarkPending(m) = m /\ DeferTask(m) = m
        /\ RecordRetry(m) = m /\ RecordInfrastructureRetry(m) = m
  BY <1>6, <1>7 DEF MarkPending, DeferTask
<1>11. m.status = "submitted" => MarkFailed(m).status = "failed"
  BY DEF MarkFailed, Meta
<1>12. m.status = "canceled" => MarkFailed(m) = m
  BY DEF MarkFailed
<1> QED BY <1>2, <1>3, <1>8, <1>9, <1>10, <1>11, <1>12

-----------------------------------------------------------------------------
(* Counting the runners that hold a slot.                                      *)

\* Two sets that differ in one element at most.
LEMMA OneMoves ==
  ASSUME NEW W, IsFiniteSet(W), NEW A, NEW B, A \subseteq W, B \subseteq W, NEW r \in W,
         \A x \in W \ {r} : x \in A <=> x \in B
  PROVE  /\ Cardinality(A) \in Nat /\ Cardinality(B) \in Nat
         /\ Cardinality(B) = Cardinality(A) + (IF r \in B THEN 1 ELSE 0) - (IF r \in A THEN 1 ELSE 0)
<1>1. IsFiniteSet(A) /\ IsFiniteSet(B)
  BY FS_Subset
<1>2. Cardinality(A) \in Nat /\ Cardinality(B) \in Nat
  BY <1>1, FS_CardinalityType
<1> DEFINE C == A \ {r}
<1>3. C = B \ {r}
  OBVIOUS
<1>4. Cardinality(C) = IF r \in A THEN Cardinality(A) - 1 ELSE Cardinality(A)
  BY <1>1, FS_RemoveElement
<1>5. Cardinality(C) = IF r \in B THEN Cardinality(B) - 1 ELSE Cardinality(B)
  BY <1>1, <1>3, FS_RemoveElement
<1> HIDE DEF C
<1> QED BY <1>2, <1>4, <1>5

\* Whether a runner holds a slot, as a number.
LEMMA Holding ==
  ASSUME TypeOK
  PROVE  /\ \A s \in ExitSlot \cup ApiSlot : \A x \in Worker : x \in Holders(s) <=> Held(x) = s
         /\ \A s \in BrowserSlot : \A x \in Worker :
              /\ x \in Holders(s) <=> Lent(x) = s
              /\ x \in Closers(s) <=> Closes(x) = s
         /\ \A x \in Worker : /\ Held(x) \in ExitSlot \cup ApiSlot \cup {NoSlot}
                              /\ Lent(x) \in BrowserSlot \cup {NoSlot}
<1>1. ASSUME NEW x \in Worker
      PROVE  run[x].slot \in ExitSlot \cup ApiSlot \cup {NoSlot} /\ run[x].browser \in BrowserSlot \cup {NoSlot}
  BY DEF TypeOK, Run
<1> QED BY <1>1, PoolConstants DEF Holders, Closers, Held, Lent, Closes, At

\* The same of the next state.
LEMMA HoldingNext ==
  ASSUME TypeOK'
  PROVE  /\ \A s \in ExitSlot \cup ApiSlot : \A x \in Worker : x \in Holders(s)' <=> Held(x)' = s
         /\ \A s \in BrowserSlot : \A x \in Worker :
              /\ x \in Holders(s)' <=> Lent(x)' = s
              /\ x \in Closers(s)' <=> Closes(x)' = s
<1>1. ASSUME NEW x \in Worker
      PROVE  run'[x].slot \in ExitSlot \cup ApiSlot \cup {NoSlot} /\ run'[x].browser \in BrowserSlot \cup {NoSlot}
  BY DEF TypeOK, Run
<1> QED BY <1>1, PoolConstants DEF Holders, Closers, Held, Lent, Closes, At

\* When no other runner takes or gives back a slot, what the leases change by.
LEMMA LeasesMove ==
  ASSUME TypeOK, TypeOK', NEW r \in Worker,
         \A x \in Worker \ {r} : Held(x)' = Held(x) /\ Lent(x)' = Lent(x)
  PROVE  /\ \A s \in ExitSlot \cup ApiSlot :
              /\ Leases(s) \in Nat /\ Leases(s)' \in Nat
              /\ Leases(s)' = Leases(s) + (lost'[s] - lost[s]) + One(Held(r)' = s) - One(Held(r) = s)
         /\ \A s \in BrowserSlot :
              /\ Leases(s) \in Nat /\ Leases(s)' \in Nat
              /\ Leases(s)' = Leases(s) + (lost'[s] - lost[s]) + One(Lent(r)' = s) - One(Lent(r) = s)
<1>1. IsFiniteSet(Worker)
  BY AttemptConstants
<1>2. \A s \in Slot : lost[s] \in Nat /\ lost'[s] \in Nat
  BY DEF TypeOK
<1>3. ASSUME NEW s \in ExitSlot \cup ApiSlot
      PROVE  /\ Leases(s) \in Nat /\ Leases(s)' \in Nat
             /\ Leases(s)' = Leases(s) + (lost'[s] - lost[s]) + One(Held(r)' = s) - One(Held(r) = s)
  <2> DEFINE A == Holders(s)
             B == Holders(s)'
  <2>1. A \subseteq Worker /\ B \subseteq Worker
    BY DEF Holders
  <2>2. \A x \in Worker : (x \in A <=> Held(x) = s) /\ (x \in B <=> Held(x)' = s)
    BY Holding, HoldingNext
  <2>3. \A x \in Worker \ {r} : x \in A <=> x \in B
    BY <2>2
  <2>4. Leases(s) = Cardinality(A) + lost[s] /\ Leases(s)' = Cardinality(B) + lost'[s]
    BY DEF Leases
  <2> HIDE DEF A, B
  <2>5. /\ Cardinality(A) \in Nat /\ Cardinality(B) \in Nat
        /\ Cardinality(B) = Cardinality(A) + (IF r \in B THEN 1 ELSE 0) - (IF r \in A THEN 1 ELSE 0)
    BY <1>1, <2>1, <2>3, OneMoves
  <2>6. lost[s] \in Nat /\ lost'[s] \in Nat
    BY <1>2 DEF Slot
  <2> QED BY <2>2, <2>4, <2>5, <2>6 DEF One
<1>4. ASSUME NEW s \in BrowserSlot
      PROVE  /\ Leases(s) \in Nat /\ Leases(s)' \in Nat
             /\ Leases(s)' = Leases(s) + (lost'[s] - lost[s]) + One(Lent(r)' = s) - One(Lent(r) = s)
  <2> DEFINE A == Holders(s)
             B == Holders(s)'
  <2>1. A \subseteq Worker /\ B \subseteq Worker
    BY DEF Holders
  <2>2. \A x \in Worker : (x \in A <=> Lent(x) = s) /\ (x \in B <=> Lent(x)' = s)
    BY Holding, HoldingNext
  <2>3. \A x \in Worker \ {r} : x \in A <=> x \in B
    BY <2>2
  <2>4. Leases(s) = Cardinality(A) + lost[s] /\ Leases(s)' = Cardinality(B) + lost'[s]
    BY DEF Leases
  <2> HIDE DEF A, B
  <2>5. /\ Cardinality(A) \in Nat /\ Cardinality(B) \in Nat
        /\ Cardinality(B) = Cardinality(A) + (IF r \in B THEN 1 ELSE 0) - (IF r \in A THEN 1 ELSE 0)
    BY <1>1, <2>1, <2>3, OneMoves
  <2>6. lost[s] \in Nat /\ lost'[s] \in Nat
    BY <1>2 DEF Slot
  <2> QED BY <2>2, <2>4, <2>5, <2>6 DEF One
<1> QED BY <1>3, <1>4

\* A pool whose counts follow the runner that moves is well counted afterwards.
LEMMA ExitsKept ==
  ASSUME TypeOK, TypeOK', ExitsHeld, NEW r \in Worker,
         \A x \in Worker \ {r} : Held(x)' = Held(x) /\ Lent(x)' = Lent(x),
         \A s \in ExitSlot :
           /\ exits'[s].active
                = exits[s].active + (lost'[s] - lost[s]) + One(Held(r)' = s) - One(Held(r) = s)
           /\ exits'[s].active > 0 => exits'[s].use # "free"
  PROVE  ExitsHeld'
<1>1. ASSUME NEW s \in ExitSlot
      PROVE  exits'[s].active = Leases(s)' /\ (Leases(s)' > 0 => exits'[s].use # "free")
  <2>1. Leases(s)' = Leases(s) + (lost'[s] - lost[s]) + One(Held(r)' = s) - One(Held(r) = s)
    BY LeasesMove
  <2>2. exits[s].active = Leases(s)
    BY DEF ExitsHeld
  <2> QED BY <2>1, <2>2
<1> QED BY <1>1 DEF ExitsHeld

\* The endpoints, like the exits.
LEMMA ApisKept ==
  ASSUME TypeOK, TypeOK', ApisHeld, NEW r \in Worker,
         \A x \in Worker \ {r} : Held(x)' = Held(x) /\ Lent(x)' = Lent(x),
         \A s \in ApiSlot :
           /\ apis'[s].active
                = apis[s].active + (lost'[s] - lost[s]) + One(Held(r)' = s) - One(Held(r) = s)
           /\ apis'[s].active > 0 => apis'[s].use # "free"
  PROVE  ApisHeld'
<1>1. ASSUME NEW s \in ApiSlot
      PROVE  apis'[s].active = Leases(s)' /\ (Leases(s)' > 0 => apis'[s].use # "free")
  <2>1. Leases(s)' = Leases(s) + (lost'[s] - lost[s]) + One(Held(r)' = s) - One(Held(r) = s)
    BY LeasesMove
  <2>2. apis[s].active = Leases(s)
    BY DEF ApisHeld
  <2> QED BY <2>1, <2>2
<1> QED BY <1>1 DEF ApisHeld

\* The number of closing contexts follows the step of one runner.
LEMMA ClosersMove ==
  ASSUME TypeOK, TypeOK', NEW r \in Worker, NEW s \in BrowserSlot,
         \A x \in Worker \ {r} : Closes(x)' = s <=> Closes(x) = s
  PROVE  /\ Cardinality(Closers(s)) \in Nat /\ Cardinality(Closers(s)') \in Nat
         /\ Cardinality(Closers(s)')
              = Cardinality(Closers(s)) + One(Closes(r)' = s) - One(Closes(r) = s)
<1> DEFINE A == Closers(s)
           B == Closers(s)'
<1>1. A \subseteq Worker /\ B \subseteq Worker
  BY DEF Closers
<1>2. \A x \in Worker : (x \in A <=> Closes(x) = s) /\ (x \in B <=> Closes(x)' = s)
  BY Holding, HoldingNext
<1>3. \A x \in Worker \ {r} : x \in A <=> x \in B
  BY <1>2
<1>4. IsFiniteSet(Worker)
  BY AttemptConstants
<1> HIDE DEF A, B
<1>5. /\ Cardinality(A) \in Nat /\ Cardinality(B) \in Nat
      /\ Cardinality(B) = Cardinality(A) + (IF r \in B THEN 1 ELSE 0) - (IF r \in A THEN 1 ELSE 0)
  BY <1>1, <1>3, <1>4, OneMoves
<1>6. Cardinality(B) = Cardinality(A) + One(Closes(r)' = s) - One(Closes(r) = s)
  BY <1>2, <1>5 DEF One
<1> QED BY <1>5, <1>6 DEF A, B

\* The browsers, like the exits.
LEMMA BrowsersKept ==
  ASSUME TypeOK, TypeOK', BrowsersHeld, NEW r \in Worker,
         \A x \in Worker \ {r} : /\ Held(x)' = Held(x) /\ Lent(x)' = Lent(x)
                                 /\ Closes(x)' = Closes(x),
         \A s \in BrowserSlot :
           /\ browsers'[s].active
                = browsers[s].active + (lost'[s] - lost[s]) + One(Lent(r)' = s) - One(Lent(r) = s)
           /\ browsers'[s].active > 0 => browsers'[s].use # "free"
           /\ browsers'[s].closing = browsers[s].closing + One(Closes(r)' = s) - One(Closes(r) = s)
  PROVE  BrowsersHeld'
<1>1. ASSUME NEW s \in BrowserSlot
      PROVE  /\ browsers'[s].active = Leases(s)' /\ (Leases(s)' > 0 => browsers'[s].use # "free")
             /\ browsers'[s].closing = Cardinality(Closers(s))'
  <2>1. Leases(s)' = Leases(s) + (lost'[s] - lost[s]) + One(Lent(r)' = s) - One(Lent(r) = s)
    BY LeasesMove
  <2>2. browsers[s].active = Leases(s) /\ browsers[s].closing = Cardinality(Closers(s))
    BY DEF BrowsersHeld
  <2>3. Cardinality(Closers(s)') = Cardinality(Closers(s)) + One(Closes(r)' = s) - One(Closes(r) = s)
    BY ClosersMove
  <2>4. browsers'[s].active = Leases(s)' /\ (Leases(s)' > 0 => browsers'[s].use # "free")
    BY <2>1, <2>2
  <2>5. browsers'[s].closing = Cardinality(Closers(s)')
    BY <2>2, <2>3
  <2> QED BY <2>4, <2>5
<1> QED BY <1>1 DEF BrowsersHeld

\* The fetches under way.
LEMMA FetchesKept ==
  ASSUME TypeOK, TypeOK', FetchesCounted, NEW r \in Worker,
         \A x \in Worker \ {r} : run'[x].pc = "fetch" <=> run[x].pc = "fetch",
         fetching' = fetching + (lostFetch' - lostFetch)
                       + One(run'[r].pc = "fetch") - One(run[r].pc = "fetch"),
         Cardinality(Present(apis)') + fetching' <= Cardinality(ApiSlot)
  PROVE  FetchesCounted'
<1> DEFINE A == Fetchers
           B == Fetchers'
<1>1. A \subseteq Worker /\ B \subseteq Worker /\ IsFiniteSet(Worker)
  BY AttemptConstants DEF Fetchers
<1>2. \A x \in Worker : (x \in A <=> run[x].pc = "fetch") /\ (x \in B <=> run'[x].pc = "fetch")
  BY DEF Fetchers, At
<1>3. \A x \in Worker \ {r} : x \in A <=> x \in B
  BY <1>2
<1> HIDE DEF A, B
<1>4. /\ Cardinality(A) \in Nat /\ Cardinality(B) \in Nat
      /\ Cardinality(B) = Cardinality(A) + (IF r \in B THEN 1 ELSE 0) - (IF r \in A THEN 1 ELSE 0)
  BY <1>1, <1>3, OneMoves
<1>5. lostFetch \in Nat /\ lostFetch' \in Nat /\ fetching = Cardinality(A) + lostFetch
  BY DEF TypeOK, FetchesCounted, A
<1>6. fetching' = Cardinality(B) + lostFetch'
  BY <1>2, <1>4, <1>5 DEF One
<1> QED BY <1>6 DEF FetchesCounted, B

-----------------------------------------------------------------------------
(* Steps of one runner.                                                        *)

\* What the runner that moves becomes.
LEMMA GotoStep ==
  ASSUME TypeOK, NEW r \in Worker, NEW pc \in Place, Goto(r, pc)
  PROVE  /\ run' \in [Worker -> Run] /\ Others(r)
         /\ run'[r] = [run[r] EXCEPT !.pc = pc]
         /\ run'[r].pc = pc /\ run'[r].slot = run[r].slot /\ run'[r].node = run[r].node
         /\ run'[r].browser = run[r].browser /\ run'[r].out = run[r].out
         /\ run'[r].answer = run[r].answer /\ run'[r].again = run[r].again
<1>1. run \in [Worker -> Run] /\ run[r] \in Run
  BY DEF TypeOK
<1>2. run' = [run EXCEPT ![r] = [run[r] EXCEPT !.pc = pc]]
  BY DEF Goto
<1> DEFINE k == [run[r] EXCEPT !.pc = pc]
<1>3. /\ k \in Run /\ k.pc = pc /\ k.slot = run[r].slot /\ k.browser = run[r].browser
      /\ k.out = run[r].out /\ k.answer = run[r].answer /\ k.again = run[r].again /\ k.node = run[r].node
  BY <1>1 DEF Run
<1> HIDE DEF k
<1>4. run' = [run EXCEPT ![r] = k]
  BY <1>2 DEF k
<1>5. run' \in [Worker -> Run] /\ run'[r] = k /\ Others(r)
  BY <1>1, <1>3, <1>4 DEF Others
<1> QED BY <1>3, <1>5 DEF k

\* What the runner becomes that ends its attempt.
LEMMA EndStep ==
  ASSUME TypeOK, NEW r \in Worker, NEW out \in Outcome, EndWith(r, out)
  PROVE  /\ run' \in [Worker -> Run] /\ Others(r)
         /\ run'[r].pc = "close" /\ run'[r].slot = run[r].slot /\ run'[r].node = run[r].node
         /\ run'[r].browser = run[r].browser /\ run'[r].out = out
<1>1. run \in [Worker -> Run] /\ run[r] \in Run
  BY DEF TypeOK
<1> DEFINE k == [run[r] EXCEPT !.pc = "close", !.out = out]
<1>2. run' = [run EXCEPT ![r] = k]
  BY Zenon DEF EndWith
<1>3. /\ k \in Run /\ k.pc = "close" /\ k.slot = run[r].slot /\ k.browser = run[r].browser
      /\ k.out = out /\ k.node = run[r].node
  BY <1>1 DEF Run, Place
<1> HIDE DEF k
<1>5. run' \in [Worker -> Run] /\ run'[r] = k /\ Others(r)
  BY <1>1, <1>2, <1>3 DEF Others
<1> QED BY <1>3, <1>5

\* A runner that does not move stays where it is, as long as nobody takes the
\* condition of the exits from it or the last free slot away under it.
LEMMA StaysLocated ==
  ASSUME NEW x \in Worker, run'[x] = run[x], UNCHANGED fixed, Located(x),
         lock' = x <=> lock = x, lock = x /\ Vacant(exits) # {} => Vacant(exits)' # {},
         x \in uploading' => x \in uploading
  PROVE  Located(x)'
<1>1. run'[x] = run[x] /\ Subscribed' = Subscribed /\ Located(x) /\ source(x)' = source(x)
  BY DEF Subscribed, fixed, source
<1>2. (lock' = x <=> lock = x) /\ (x \in uploading' => x \in uploading)
  OBVIOUS
<1>3. lock = x /\ Vacant(exits) # {} => Vacant(exits)' # {}
  OBVIOUS
<1> DEFINE k == run[x]
           v == Vacant(exits) # {}
<1>4. k.pc = "exitLaunch" =>
        /\ lock' = x /\ k.node \in Subscribed'
        /\ IF k.node \in NativeNode THEN k.slot = NoSlot /\ Vacant(exits)' # {} ELSE k.slot \in ExitSlot
  BY <1>1, <1>2, <1>3 DEF Located
<1>5. /\ k.pc = "idle" => k = Idling
      /\ k.pc \in {"proxy", "exit", "entry", "api", "fetch", "return"} => k.slot = NoSlot
      /\ k.pc \in {"proxy", "exit", "exitLaunch", "entry", "entryLaunch", "entryNotify", "api", "fetch",
                   "browser", "unproxy", "return"} => k.browser = NoSlot
      /\ k.pc \in {"entry", "entryLaunch", "entryNotify"} => k.node \in Entry /\ source(x)' = "account"
      /\ k.pc \in {"api", "fetch"} => source(x)' = "api"
      /\ k.pc \in {"entryLaunch", "entryNotify"} => k.slot \in ExitSlot
      /\ k.pc \in {"browserLaunch", "context"} => k.browser \in BrowserSlot
      /\ lock' = x => k.pc = "exitLaunch"
      /\ x \in uploading' => k.pc = "uploading"
  BY <1>1, <1>2 DEF Located
<1> HIDE DEF k
<1>6. run'[x] = k
  BY <1>1 DEF k
<1> QED BY <1>4, <1>5, <1>6 DEF Located

\* The others stay where they are.
LEMMA OthersLocated ==
  ASSUME NEW r \in Worker, Others(r), UNCHANGED fixed,
         \A x \in Worker : Located(x),
         \A x \in Worker \ {r} : /\ lock' = x <=> lock = x
                                 /\ lock = x /\ Vacant(exits) # {} => Vacant(exits)' # {}
                                 /\ x \in uploading' => x \in uploading
  PROVE  \A x \in Worker \ {r} : Located(x)'
<1> SUFFICES ASSUME NEW x \in Worker \ {r} PROVE Located(x)'
  OBVIOUS
<1>1. /\ run'[x] = run[x] /\ Located(x)
      /\ lock' = x <=> lock = x
      /\ lock = x /\ Vacant(exits) # {} => Vacant(exits)' # {}
      /\ x \in uploading' => x \in uploading
  BY DEF Others
<1> QED BY <1>1, StaysLocated

LEMMA OthersKept ==
  ASSUME NEW r \in Worker, OthersTold(r), UNCHANGED fixed, \A x \in Worker : Told(x)
  PROVE  \A x \in Worker \ {r} : Told(x)'
<1> SUFFICES ASSUME NEW x \in Worker \ {r} PROVE Told(x)'
  OBVIOUS
<1>1. /\ run'[x].pc = run[x].pc /\ run'[x].out = run[x].out /\ run'[x].answer = run[x].answer
      /\ meta'[x] = meta[x] /\ found'[x] = found[x] /\ heard'[x] = heard[x] /\ unsure'[x] = unsure[x]
  BY DEF OthersTold
<1>2. platform(x)' = platform(x)
  BY DEF platform, fixed
<1> QED BY <1>1, <1>2 DEF Told

LEMMA NotSentYet ==
  ASSUME NEW r \in Worker, UNCHANGED <<fixed, taskVars>>, \A x \in Worker : Told(x),
         \A x \in Worker \ {r} : /\ run'[x].pc = run[x].pc /\ run'[x].out = run[x].out
                                 /\ run'[x].answer = run[x].answer,
         run[r].pc \in Asking,
         \/ run'[r].pc \in Asking
         \/ run'[r].pc = "close" /\ run'[r].out \notin {"", "done", "submitted"}
  PROVE  \A x \in Worker : Told(x)'
<1>1. OthersTold(r)
  BY DEF OthersTold, taskVars
<1>2. UNCHANGED fixed
  OBVIOUS
<1>3. \A x \in Worker \ {r} : Told(x)'
  BY <1>1, <1>2, OthersKept
<1>4. /\ meta' = meta /\ found' = found /\ heard' = heard /\ unsure' = unsure
      /\ platform(r)' = platform(r) /\ Told(r)
  BY DEF taskVars, fixed, platform
<1> DEFINE p == run[r].pc
           q == run'[r].pc
<1>5. /\ p \notin Leaving /\ p # "idle"
      /\ meta[r].status \in {"running", "submitted", "canceled"}
      /\ meta[r].status # "submitted" /\ found[r] \notin Known
      /\ ~unsure[r] => heard[r] # "accepted"
  BY <1>4 DEF Told, Asking
<1>6. Told(r)'
  <2>1. CASE q \in Asking
    <3>1. q \notin Leaving /\ q # "idle" /\ q # "record"
      BY <2>1 DEF Asking
    <3> QED BY <1>4, <1>5, <3>1 DEF Told
  <2>2. CASE q = "close" /\ run'[r].out \notin {"", "done", "submitted"}
    <3>1. q # "idle" /\ q # "record" /\ q \in Leaving
      BY <2>2 DEF Leaving
    <3> QED BY <1>4, <1>5, <2>2, <3>1 DEF Told
  <2> QED BY <2>1, <2>2
<1> QED BY <1>3, <1>6

\* The finally blocks do not change the outcome.
LEMMA OutcomeKept ==
  ASSUME NEW r \in Worker, UNCHANGED <<fixed, taskVars>>, \A x \in Worker : Told(x),
         \A x \in Worker \ {r} : /\ run'[x].pc = run[x].pc /\ run'[x].out = run[x].out
                                 /\ run'[x].answer = run[x].answer,
         run[r].pc \in Leaving, run'[r].pc \in Leaving, run'[r].out = run[r].out
  PROVE  \A x \in Worker : Told(x)'
<1>1. OthersTold(r)
  BY DEF OthersTold, taskVars
<1>2. UNCHANGED fixed
  OBVIOUS
<1>3. \A x \in Worker \ {r} : Told(x)'
  BY <1>1, <1>2, OthersKept
<1>4. /\ meta' = meta /\ found' = found /\ heard' = heard /\ unsure' = unsure
      /\ platform(r)' = platform(r) /\ Told(r)
  BY DEF taskVars, fixed, platform
<1>5. Told(r)'
  BY <1>4 DEF Told, Leaving
<1> QED BY <1>3, <1>5

-----------------------------------------------------------------------------
(* The exits.                                                                  *)

\* A sweep keeps every lease, and a slot that is left keeps what it stands for.
LEMMA Sweeps ==
  ASSUME NEW e \in [ExitSlot -> Exit], NEW gone, \A s \in ExitSlot : ExitWell(e[s])
  PROVE  /\ Retire(e, gone) \in [ExitSlot -> Exit]
         /\ \A s \in ExitSlot :
              /\ Retire(e, gone)[s].active = e[s].active
              /\ e[s].active > 0 => Retire(e, gone)[s].use = e[s].use
              /\ ExitWell(Retire(e, gone)[s])
<1> DEFINE mark(s) == IF s \in gone THEN [e[s] EXCEPT !.retiring = TRUE] ELSE e[s]
           m == [s \in DOMAIN e |-> mark(s)]
           out == {s \in Present(m) : m[s].retiring /\ m[s].active = 0 /\ ~m[s].launching}
<1>1. ASSUME NEW s \in ExitSlot
      PROVE  /\ mark(s) \in Exit /\ mark(s).active = e[s].active /\ mark(s).use = e[s].use
             /\ mark(s).node = e[s].node /\ mark(s).exit = e[s].exit
  BY DEF Exit
<1>2. NoExit \in Exit /\ NoExit.active = 0 /\ ExitWell(NoExit)
  BY DEF NoExit, Exit, ExitWell
<1>3. DOMAIN e = ExitSlot
  OBVIOUS
<1> HIDE DEF mark
<1>4. m = [s \in ExitSlot |-> mark(s)] /\ DOMAIN m = ExitSlot
  BY <1>3
<1> HIDE DEF m
<1>5. Retire(e, gone) = [s \in ExitSlot |-> IF s \in out THEN NoExit ELSE m[s]]
  BY <1>4 DEF Retire, Remove, m, mark
<1>6. \A s \in out : s \in ExitSlot /\ m[s].active = 0
  BY <1>4 DEF Present
<1> HIDE DEF out
<1>7. ASSUME NEW s \in ExitSlot
      PROVE  /\ Retire(e, gone)[s] \in Exit
             /\ Retire(e, gone)[s].active = e[s].active
             /\ e[s].active > 0 => Retire(e, gone)[s].use = e[s].use
             /\ ExitWell(Retire(e, gone)[s])
  <2>1. m[s] = mark(s) /\ ExitWell(e[s]) /\ e[s].active \in Nat
    BY <1>4 DEF Exit
  <2>2. ExitWell(m[s])
    BY <1>1, <2>1 DEF ExitWell
  <2>3. CASE s \in out
    BY <1>1, <1>2, <1>5, <1>6, <2>1, <2>3
  <2>4. CASE s \notin out
    BY <1>1, <1>5, <2>1, <2>2, <2>4
  <2> QED BY <2>3, <2>4
<1> QED BY <1>5, <1>7

\* A new slot is leased and made well.
LEMMA NewSlots ==
  /\ NoExit \in Exit /\ NoExit.active = 0 /\ NoExit.use = "free" /\ ExitWell(NoExit)
  /\ \A n \in Node, launching \in BOOLEAN, x \in Address \cup Node \cup {NoNode} :
       LET k == NewExit("subscription", n, launching, x)
       IN k \in Exit /\ k.active = 1 /\ k.use = "subscription" /\ ExitWell(k)
  /\ \A n \in Entry :
       LET k == NewExit("bridge", n, TRUE, NoNode)
       IN k \in Exit /\ k.active = 1 /\ k.use = "bridge" /\ ExitWell(k)
<1>1. NoExit \in Exit /\ NoExit.active = 0 /\ NoExit.use = "free" /\ ExitWell(NoExit)
  BY DEF NoExit, Exit, ExitWell
<1>2. ASSUME NEW use \in {"subscription", "bridge"}, NEW n \in Node \cup Entry,
             NEW x \in Address \cup Node \cup {NoNode}, NEW launching \in BOOLEAN
      PROVE  /\ NewExit(use, n, launching, x) \in Exit /\ NewExit(use, n, launching, x).active = 1
             /\ NewExit(use, n, launching, x).use = use /\ NewExit(use, n, launching, x).node = n
             /\ NewExit(use, n, launching, x).exit = x
  <2> DEFINE a == [NoExit EXCEPT !.use = use, !.node = n]
             b == [a EXCEPT !.active = 1]
             d == [b EXCEPT !.launching = launching]
             c == [d EXCEPT !.exit = x]
  <2>1. a \in Exit /\ a.use = use /\ a.node = n
    BY <1>1 DEF Exit
  <2> HIDE DEF a
  <2>2. b \in Exit /\ b.use = use /\ b.node = n /\ b.active = 1
    BY <2>1 DEF Exit
  <2> HIDE DEF b
  <2>5. d \in Exit /\ d.use = use /\ d.node = n /\ d.active = 1
    BY <2>2 DEF Exit
  <2> HIDE DEF d
  <2>3. c \in Exit /\ c.use = use /\ c.node = n /\ c.active = 1 /\ c.exit = x
    BY <2>5 DEF Exit
  <2>4. NewExit(use, n, launching, x) = c
    BY DEF NewExit, a, b, d
  <2> HIDE DEF c
  <2> QED BY <2>3, <2>4
<1>3. ASSUME NEW n \in Node, NEW launching \in BOOLEAN, NEW x \in Address \cup Node \cup {NoNode}
      PROVE  LET k == NewExit("subscription", n, launching, x)
             IN k \in Exit /\ k.active = 1 /\ k.use = "subscription" /\ ExitWell(k)
  <2> DEFINE k == NewExit("subscription", n, launching, x)
  <2>1. k \in Exit /\ k.active = 1 /\ k.use = "subscription" /\ k.node = n
    BY <1>2
  <2> HIDE DEF k
  <2>2. ExitWell(k)
    BY <2>1 DEF ExitWell
  <2> QED BY <2>1, <2>2 DEF k
<1>4. ASSUME NEW n \in Entry
      PROVE  LET k == NewExit("bridge", n, TRUE, NoNode)
             IN k \in Exit /\ k.active = 1 /\ k.use = "bridge" /\ ExitWell(k)
  <2> DEFINE bridge == "bridge"
             yes == TRUE
             k == NewExit(bridge, n, yes, NoNode)
  <2>1. /\ n \in Node \cup Entry /\ NoNode \in Address \cup Node \cup {NoNode}
        /\ bridge \in {"subscription", "bridge"} /\ yes \in BOOLEAN
    OBVIOUS
  <2> HIDE DEF bridge, yes
  <2>3. k \in Exit /\ k.active = 1 /\ k.use = bridge /\ k.exit = NoNode
    BY <1>2, <2>1
  <2> HIDE DEF k
  <2>2. k.use = "bridge" /\ ExitWell(k)
    <3> HIDE DEF k
    <3> QED BY <2>3 DEF ExitWell, bridge
  <2> QED BY <2>2, <2>3 DEF k, bridge, yes
<1> QED BY <1>1, <1>3, <1>4

\* The counts are numbers.
LEMMA Numbers ==
  ASSUME TypeOK
  PROVE  /\ \A s \in ExitSlot : exits[s].active \in Nat /\ exits[s] \in Exit
         /\ \A s \in ApiSlot : apis[s].active \in Nat /\ apis[s] \in Api
         /\ \A s \in BrowserSlot : /\ browsers[s].active \in Nat /\ browsers[s].closing \in Nat
                                    /\ browsers[s] \in Browser
         /\ \A s \in ExitSlot \cup ApiSlot \cup BrowserSlot : lost[s] \in Nat /\ s # NoSlot
         /\ fetching \in Nat /\ lostFetch \in Nat
<1>1. ASSUME NEW s \in ExitSlot PROVE exits[s].active \in Nat /\ exits[s] \in Exit
  <2>1. exits[s] \in Exit
    BY DEF TypeOK
  <2> QED BY <2>1 DEF Exit
<1>2. ASSUME NEW s \in ApiSlot PROVE apis[s].active \in Nat /\ apis[s] \in Api
  <2>1. apis[s] \in Api
    BY DEF TypeOK
  <2>2. apis[s].active \in 0..PerEndpoint /\ PerEndpoint \in Nat
    BY <2>1, PoolConstants DEF Api
  <2> QED BY <2>1, <2>2
<1>3. ASSUME NEW s \in BrowserSlot
      PROVE  /\ browsers[s].active \in Nat /\ browsers[s].closing \in Nat /\ browsers[s] \in Browser
  <2>1. browsers[s] \in Browser
    BY DEF TypeOK
  <2> QED BY <2>1 DEF Browser
<1>4. \A s \in ExitSlot \cup ApiSlot \cup BrowserSlot : lost[s] \in Nat /\ s # NoSlot
  BY PoolConstants DEF TypeOK, Slot
<1>5. fetching \in Nat /\ lostFetch \in Nat
  BY DEF TypeOK
<1> QED BY <1>1, <1>2, <1>3, <1>4, <1>5

\* Where the attempt is when it has its proxy, and when it could not get one.
LEMMA AcquiredStep ==
  ASSUME TypeOK, NEW r \in Worker, NEW s \in ExitSlot \cup ApiSlot,
         NEW n \in Node \cup Entry \cup Endpoint, source(r) = "subscription" => n \in Node,
         Acquired(r, s, n)
  PROVE  /\ run' \in [Worker -> Run] /\ Others(r)
         /\ run'[r].pc \in {"browser", "page", "credit"}
         /\ run'[r].slot = s /\ run'[r].browser = run[r].browser
         /\ down' \subseteq Sources /\ pin' \in [Worker -> Node \cup {NoNode}]
         /\ avoid' \in [Worker -> Node \cup Entry \cup Endpoint \cup {NoNode}]
<1>1. run \in [Worker -> Run] /\ run[r] \in Run
  BY DEF TypeOK
<1> DEFINE pc == AfterProxy(r)
           k == [run[r] EXCEPT !.pc = pc, !.slot = s, !.node = n, !.tried = {}, !.also = {}]
<1>2. pc \in {"browser", "page", "credit"}
  BY DEF AfterProxy
<1>3. run' = [run EXCEPT ![r] = k]
  BY Zenon DEF Acquired
<1>9. pc \in Place /\ {} \in SUBSET (Node \cup Endpoint) /\ {} \in SUBSET Node
  BY <1>2 DEF Place
<1> HIDE DEF pc
<1>4. k \in Run /\ k.pc = pc /\ k.slot = s /\ k.browser = run[r].browser
  BY <1>1, <1>9 DEF Run
<1> HIDE DEF k
<1>5. run' \in [Worker -> Run] /\ run'[r] = k /\ Others(r)
  BY <1>1, <1>3, <1>4 DEF Others
<1>6. down' \subseteq Sources
  BY DEF Acquired, TypeOK
<1>7. pin' \in [Worker -> Node \cup {NoNode}]
  BY DEF Acquired, TypeOK
<1>8. avoid' \in [Worker -> Node \cup Entry \cup Endpoint \cup {NoNode}]
  BY DEF Acquired, TypeOK
<1> QED BY <1>2, <1>4, <1>5, <1>6, <1>7, <1>8

\* What a failed acquisition leaves.
LEMMA FailedStep ==
  ASSUME TypeOK, NEW r \in Worker, AcquireFailed(r)
  PROVE  /\ run' \in [Worker -> Run] /\ Others(r)
         /\ run'[r].pc = "close" /\ run'[r].out = "infra"
         /\ run'[r].slot = NoSlot /\ run'[r].browser = run[r].browser
         /\ down' \subseteq Sources /\ pin' = pin /\ avoid' = avoid
<1>1. run \in [Worker -> Run] /\ run[r] \in Run
  BY DEF TypeOK
<1> DEFINE k == [run[r] EXCEPT !.pc = "close", !.out = "infra", !.slot = NoSlot,
                               !.node = NoNode, !.tried = {}, !.also = {}]
<1>3. run' = [run EXCEPT ![r] = k]
  BY Zenon DEF AcquireFailed
<1>9. /\ "close" \in Place /\ "infra" \in Outcome
      /\ {} \in SUBSET (Node \cup Endpoint) /\ {} \in SUBSET Node
  BY DEF Place, Outcome
<1>4. /\ k \in Run /\ k.pc = "close" /\ k.out = "infra" /\ k.slot = NoSlot
      /\ k.browser = run[r].browser
  BY <1>1, <1>9 DEF Run
<1> HIDE DEF k
<1>5. run' \in [Worker -> Run] /\ run'[r] = k /\ Others(r)
  BY <1>1, <1>3, <1>4 DEF Others
<1>6. source(r) \in Sources
  BY DEF TypeOK, Plan, source
<1>7. down' \subseteq Sources
  BY <1>6 DEF AcquireFailed, TypeOK
<1>8. pin' = pin /\ avoid' = avoid
  BY DEF AcquireFailed
<1> QED BY <1>4, <1>5, <1>7, <1>8

\* Waking and sleeping keep the type of asleep.
LEMMA Sleepers ==
  ASSUME TypeOK
  PROVE  /\ \A p \in Pool : Wake(p) \in [Worker -> {"", "exit", "api", "browser", "upload"}]
         /\ \A r \in Worker, p \in Pool \cup {""} :
              Sleep(r, p) \in [Worker -> {"", "exit", "api", "browser", "upload"}]
BY DEF TypeOK, Wake, Sleep, Pool

\* A step that changes exits, and what it has to show for the invariant.
LEMMA ExitStep ==
  ASSUME Inv, NEW r \in Worker, run' \in [Worker -> Run], Others(r),
         UNCHANGED <<fixed, taskVars, apiVars, uploading, lostVars, starts>>,
         lock' \in Worker \cup {NoRunner}, MarksTyped', faults' \in Nat,
         SleepersTyped',
         exits' \in [ExitSlot -> Exit], browsers' \in [BrowserSlot -> Browser], Rekeyed,
         Unpooled(run[r]), Unpooled(run'[r]), run[r].pc \in Asking \ {"fetch"},
         GoesOn(r), ExitsMove(r), LockKept(r), Located(r)'
  PROVE  Inv'
<1>0. /\ TypeOK /\ SlotsMadeWell /\ \A x \in Worker : Located(x) /\ Told(x)
      /\ ExitsHeld /\ ApisHeld /\ BrowsersHeld /\ FetchesCounted
  BY DEF Inv
<1>1. TypeOK'
  BY <1>0 DEF TypeOK, MarksTyped, SleepersTyped, fixed, taskVars, apiVars, lostVars
<1>2. SlotsMadeWell'
  <2>1. apis' = apis
    BY DEF apiVars
  <2>2. \A s \in BrowserSlot : BrowserWell(browsers'[s])
    BY <1>0 DEF SlotsMadeWell, BrowserWell, Rekeyed
  <2> QED BY <1>0, <2>1, <2>2 DEF SlotsMadeWell, ExitsMove
<1>3. \A x \in Worker : Located(x)'
  <2>1. \A x \in Worker \ {r} :
          /\ lock' = x <=> lock = x
          /\ lock = x /\ Vacant(exits) # {} => Vacant(exits)' # {}
          /\ x \in uploading' => x \in uploading
    BY DEF LockKept
  <2>2. UNCHANGED fixed /\ \A x \in Worker : Located(x)
    BY DEF Inv
  <2>3. \A x \in Worker \ {r} : Located(x)'
    BY <2>1, <2>2, OthersLocated
  <2> QED BY <2>3
<1>4. \A x \in Worker : Told(x)'
  <2>1. \A x \in Worker \ {r} : /\ run'[x].pc = run[x].pc /\ run'[x].out = run[x].out
                                /\ run'[x].answer = run[x].answer
    BY DEF Others
  <2>2. UNCHANGED <<fixed, taskVars>> /\ \A x \in Worker : Told(x)
    BY DEF Inv
  <2>3. \/ run'[r].pc \in Asking
        \/ run'[r].pc = "close" /\ run'[r].out \notin {"", "done", "submitted"}
    BY DEF GoesOn
  <2> QED BY <2>1, <2>2, <2>3, NotSentYet
<1>5. /\ Held(r)' = run'[r].slot /\ Held(r) = run[r].slot
      /\ Held(r)' \notin ApiSlot /\ Held(r) \notin ApiSlot
      /\ Lent(r)' = NoSlot /\ Lent(r) = NoSlot /\ Closes(r)' = NoSlot /\ Closes(r) = NoSlot
  BY DEF Held, Lent, Closes, Unpooled
<1>6. \A x \in Worker \ {r} : /\ Held(x)' = Held(x) /\ Lent(x)' = Lent(x)
                              /\ Closes(x)' = Closes(x)
  BY DEF Held, Lent, Closes, Others
<1>12.
      /\ \A s \in ExitSlot : exits[s].active \in Nat
      /\ \A s \in ApiSlot : apis[s].active \in Nat
      /\ \A s \in BrowserSlot : browsers[s].active \in Nat /\ browsers[s].closing \in Nat
      /\ \A s \in ExitSlot \cup ApiSlot \cup BrowserSlot : lost[s] \in Nat /\ s # NoSlot
      /\ fetching \in Nat /\ lostFetch \in Nat
  BY <1>0, Numbers
<1>13. lost' = lost /\ lostFetch' = lostFetch /\ fetching' = fetching
  BY DEF lostVars, apiVars
<1>7. \A s \in ExitSlot \cup ApiSlot \cup BrowserSlot : lost'[s] - lost[s] = 0
  <2> SUFFICES ASSUME NEW s \in ExitSlot \cup ApiSlot \cup BrowserSlot PROVE lost'[s] - lost[s] = 0
    OBVIOUS
  <2>1. lost[s] \in Nat /\ lost'[s] = lost[s]
    BY <1>12, <1>13
  <2> QED BY <2>1
<1>8. ExitsHeld'
  <2>1. ASSUME NEW s \in ExitSlot
        PROVE  /\ exits'[s].active = exits[s].active + (lost'[s] - lost[s])
                                       + One(Held(r)' = s) - One(Held(r) = s)
               /\ exits'[s].active > 0 => exits'[s].use # "free"
    <3>1. exits[s].active \in Nat /\ lost'[s] - lost[s] = 0
      BY <1>12, <1>7
    <3> QED BY <1>5, <3>1 DEF ExitsMove
  <2> QED BY <1>0, <1>1, <1>6, <2>1, ExitsKept
<1>9. ApisHeld'
  <2>1. ASSUME NEW s \in ApiSlot
        PROVE  /\ apis'[s].active = apis[s].active + (lost'[s] - lost[s])
                                      + One(Held(r)' = s) - One(Held(r) = s)
               /\ apis'[s].active > 0 => apis'[s].use # "free"
    <3>1. apis[s].active \in Nat /\ apis' = apis
      BY <1>12 DEF apiVars
    <3>2. apis[s].active > 0 => apis[s].use # "free"
      BY <1>0 DEF ApisHeld
    <3>3. One(Held(r)' = s) = 0 /\ One(Held(r) = s) = 0
      BY <1>5 DEF One
    <3>4. lost'[s] - lost[s] = 0
      BY <1>7
    <3> QED BY <3>1, <3>2, <3>3, <3>4
  <2> QED BY <1>0, <1>1, <1>6, <2>1, ApisKept
<1>10. BrowsersHeld'
  <2>1. ASSUME NEW s \in BrowserSlot
        PROVE  /\ browsers'[s].active = browsers[s].active + (lost'[s] - lost[s])
                                          + One(Lent(r)' = s) - One(Lent(r) = s)
               /\ browsers'[s].active > 0 => browsers'[s].use # "free"
               /\ browsers'[s].closing = browsers[s].closing + One(Closes(r)' = s) - One(Closes(r) = s)
    <3>1. /\ browsers[s].active \in Nat /\ browsers[s].closing \in Nat
          /\ browsers'[s].active = browsers[s].active /\ browsers'[s].use = browsers[s].use
          /\ browsers'[s].closing = browsers[s].closing
      BY <1>12 DEF Rekeyed
    <3>2. browsers[s].active > 0 => browsers[s].use # "free"
      BY <1>0 DEF BrowsersHeld
    <3>3. /\ One(Lent(r)' = s) = 0 /\ One(Lent(r) = s) = 0
          /\ One(Closes(r)' = s) = 0 /\ One(Closes(r) = s) = 0
      BY <1>5, <1>12 DEF One
    <3>4. lost'[s] - lost[s] = 0
      BY <1>7
    <3> QED BY <3>1, <3>2, <3>3, <3>4
  <2> QED BY <1>0, <1>1, <1>6, <2>1, BrowsersKept
<1>11. FetchesCounted'
  <2>1. \A x \in Worker \ {r} : run'[x].pc = "fetch" <=> run[x].pc = "fetch"
    BY DEF Others
  <2>2. fetching' = fetching + (lostFetch' - lostFetch)
                      + One(run'[r].pc = "fetch") - One(run[r].pc = "fetch")
    <3>1. One(run'[r].pc = "fetch") = 0 /\ One(run[r].pc = "fetch") = 0
      BY DEF One, Asking, GoesOn
    <3> QED BY <1>12, <1>13, <3>1
  <2>3. Cardinality(Present(apis)') + fetching' <= Cardinality(ApiSlot)
    BY <1>0 DEF FetchesCounted, apiVars, Present
  <2> QED BY <1>0, <1>1, <2>1, <2>2, <2>3, FetchesKept
<1> QED BY <1>1, <1>2, <1>3, <1>4, <1>8, <1>9, <1>10, <1>11 DEF Inv

\* The budget of faults stays a number.
LEMMA FaultsTyped == ASSUME TypeOK, Fault \/ NoFault PROVE faults' \in Nat
<1>1. faults \in Nat
  BY DEF TypeOK
<1> QED BY <1>1 DEF Fault, NoFault

\* A sweep keeps the count of every slot.
LEMMA SweptExits ==
  ASSUME Inv
  PROVE  /\ Swept(exits)
         /\ \A A : Swept(SweepForNode(exits, A, cooling))
         /\ Swept(SweepForEntry(exits, cooling))
<1>1. exits \in [ExitSlot -> Exit] /\ \A s \in ExitSlot : ExitWell(exits[s])
  BY DEF Inv, TypeOK, SlotsMadeWell
<1>2. \A s \in ExitSlot : exits[s].active > 0 => exits[s].use # "free"
  BY DEF Inv, ExitsHeld
<1>3. \A s \in ExitSlot : exits[s].active \in Nat
  BY Numbers DEF Inv
<1>4. Swept(exits)
  BY <1>1, <1>2 DEF Swept
<1>5. ASSUME NEW gone PROVE Swept(Retire(exits, gone))
  <2> DEFINE f == Retire(exits, gone)
  <2>1. /\ f \in [ExitSlot -> Exit]
        /\ \A s \in ExitSlot : /\ f[s].active = exits[s].active
                               /\ exits[s].active > 0 => f[s].use = exits[s].use
                               /\ ExitWell(f[s])
    BY <1>1, Sweeps
  <2> HIDE DEF f
  <2>2. \A s \in ExitSlot : f[s].active > 0 => f[s].use # "free"
    BY <1>2, <2>1
  <2> QED BY <2>1, <2>2 DEF Swept, f
<1> QED BY <1>4, <1>5 DEF SweepForNode, SweepForEntry

\* Dropping slots without a lease keeps it too.
LEMMA SweptRemoved ==
  ASSUME TypeOK, NEW e, Swept(e), NEW S, \A s \in ExitSlot \cap S : e[s].active = 0
  PROVE  /\ Swept(Remove(e, S, NoExit))
         /\ \A s \in ExitSlot \ S : Remove(e, S, NoExit)[s] = e[s]
         /\ \A s \in ExitSlot \cap S : Remove(e, S, NoExit)[s] = NoExit
<1>1. Remove(e, S, NoExit) = [s \in ExitSlot |-> IF s \in S THEN NoExit ELSE e[s]]
  BY DEF Remove, Swept
<1>2. ASSUME NEW s \in ExitSlot
      PROVE  /\ Remove(e, S, NoExit)[s] \in Exit /\ Remove(e, S, NoExit)[s].active = exits[s].active
             /\ ExitWell(Remove(e, S, NoExit)[s])
             /\ Remove(e, S, NoExit)[s].active > 0 => Remove(e, S, NoExit)[s].use # "free"
  <2>1. CASE s \in S
    BY <1>1, <2>1, NewSlots DEF Swept
  <2>2. CASE s \notin S
    BY <1>1, <2>2 DEF Swept
  <2> QED BY <2>1, <2>2
<1> QED BY <1>1, <1>2 DEF Swept

\* A slot that is free or idle is not held, and one that is held has one lease.
LEMMA VacantSlots ==
  ASSUME NEW e, Swept(e), TypeOK, NEW s \in Vacant(e)
  PROVE  s \in ExitSlot /\ e[s].active = 0
<1>1. s \in ExitSlot /\ e[s].use = "free"
  BY DEF Vacant, Present, Swept
<1>2. exits[s].active \in Nat
  BY <1>1, Numbers
<1> QED BY <1>1, <1>2 DEF Swept

\* A slot that a runner holds is leased once, to it alone.
LEMMA HeldExit ==
  ASSUME Inv, NEW r \in Worker, run[r].slot \in ExitSlot
  PROVE  exits[run[r].slot].active = 1 /\ exits[run[r].slot].use # "free"
<1> DEFINE s == run[r].slot
<1>1. r \in Holders(s) /\ Holders(s) \subseteq Worker
  BY DEF Holders
<1>2. IsFiniteSet(Holders(s))
  BY <1>1, AttemptConstants, FS_Subset
<1>3. Cardinality(Holders(s)) \in Nat /\ Cardinality(Holders(s)) # 0
  BY <1>1, <1>2, FS_CardinalityType, FS_EmptySet
<1>4. lost[s] \in Nat /\ exits[s] \in Exit
  BY Numbers DEF Inv
<1>5. exits[s].active \in 0..1
  BY <1>4 DEF Exit
<1>6. exits[s].active = Leases(s) /\ (Leases(s) > 0 => exits[s].use # "free")
  BY DEF Inv, ExitsHeld
<1> HIDE DEF s
<1> QED BY <1>3, <1>4, <1>5, <1>6 DEF Leases, s

\* The ways in which the slots change with what the runner holds.
LEMMA SlotsStay ==
  ASSUME TypeOK, NEW r \in Worker, NEW e, Swept(e), exits' = e, run'[r].slot = run[r].slot
  PROVE  exits' \in [ExitSlot -> Exit] /\ ExitsMove(r)
<1>1. ASSUME NEW s \in ExitSlot
      PROVE  exits'[s].active = exits[s].active + One(run'[r].slot = s) - One(run[r].slot = s)
  <2>1. exits[s].active \in Nat /\ exits'[s].active = exits[s].active
    BY Numbers DEF Swept
  <2> QED BY <2>1 DEF One
<1> QED BY <1>1 DEF Swept, ExitsMove

\* A runner without a slot takes one without a lease.
LEMMA SlotTaken ==
  ASSUME TypeOK, NEW r \in Worker, NEW e, Swept(e), NEW s \in ExitSlot, e[s].active = 0,
         NEW k \in Exit, k.active = 1, k.use # "free", ExitWell(k),
         exits' = [e EXCEPT ![s] = k], run[r].slot = NoSlot, run'[r].slot = s
  PROVE  exits' \in [ExitSlot -> Exit] /\ ExitsMove(r)
<1>1. exits' \in [ExitSlot -> Exit] /\ exits'[s] = k /\ \A t \in ExitSlot \ {s} : exits'[t] = e[t]
  BY DEF Swept
<1>2. ASSUME NEW t \in ExitSlot
      PROVE  /\ exits'[t].active = exits[t].active + One(run'[r].slot = t) - One(run[r].slot = t)
             /\ exits'[t].active > 0 => exits'[t].use # "free"
             /\ ExitWell(exits'[t])
  <2>1. exits[t].active \in Nat /\ e[t].active = exits[t].active /\ t # NoSlot
    BY Numbers DEF Swept
  <2>2. CASE t = s
    BY <1>1, <2>1, <2>2 DEF One
  <2>3. CASE t # s
    BY <1>1, <2>1, <2>3 DEF One, Swept
  <2> QED BY <2>2, <2>3
<1> QED BY <1>1, <1>2 DEF ExitsMove

\* The slot of the runner is replaced under its lease.
LEMMA SlotRenewed ==
  ASSUME TypeOK, NEW r \in Worker, NEW s \in ExitSlot, Swept(exits), exits[s].active = 1,
         NEW k \in Exit, k.active = 1, k.use # "free", ExitWell(k),
         exits' = [exits EXCEPT ![s] = k], run'[r].slot = run[r].slot
  PROVE  exits' \in [ExitSlot -> Exit] /\ ExitsMove(r)
<1>1. exits' \in [ExitSlot -> Exit] /\ exits'[s] = k /\ \A t \in ExitSlot \ {s} : exits'[t] = exits[t]
  BY DEF Swept
<1>2. ASSUME NEW t \in ExitSlot
      PROVE  /\ exits'[t].active = exits[t].active + One(run'[r].slot = t) - One(run[r].slot = t)
             /\ exits'[t].active > 0 => exits'[t].use # "free"
             /\ ExitWell(exits'[t])
  <2>1. exits[t].active \in Nat
    BY Numbers
  <2>2. CASE t = s
    BY <1>1, <2>1, <2>2 DEF One
  <2>3. CASE t # s
    BY <1>1, <2>1, <2>3 DEF One, Swept
  <2> QED BY <2>2, <2>3
<1> QED BY <1>1, <1>2 DEF ExitsMove

\* The slot that is held is dropped; another one may be taken instead.
LEMMA SlotDropped ==
  ASSUME TypeOK, NEW r \in Worker, NEW s \in ExitSlot, Swept(exits), exits[s].active = 1,
         run[r].slot = s, run'[r].slot = NoSlot, exits' = Remove(exits, {s}, NoExit)
  PROVE  exits' \in [ExitSlot -> Exit] /\ ExitsMove(r)
<1>1. exits' = [t \in ExitSlot |-> IF t \in {s} THEN NoExit ELSE exits[t]]
  BY DEF Remove, Swept
<1>2. ASSUME NEW t \in ExitSlot
      PROVE  /\ exits'[t].active = exits[t].active + One(run'[r].slot = t) - One(run[r].slot = t)
             /\ exits'[t].active > 0 => exits'[t].use # "free"
             /\ ExitWell(exits'[t]) /\ exits'[t] \in Exit
  <2>1. exits[t].active \in Nat /\ t # NoSlot
    BY Numbers
  <2>2. CASE t = s
    <3>1. exits'[t] = NoExit
      BY <1>1, <2>2
    <3> QED BY <2>1, <2>2, <3>1, NewSlots DEF One
  <2>3. CASE t # s
    <3>1. exits'[t] = exits[t]
      BY <1>1, <2>3
    <3>2. One(run'[r].slot = t) = 0 /\ One(run[r].slot = t) = 0
      BY <2>1, <2>3 DEF One
    <3>3. exits[t] \in Exit /\ ExitWell(exits[t]) /\ (exits[t].active > 0 => exits[t].use # "free")
      BY DEF Swept
    <3> QED BY <2>1, <3>1, <3>2, <3>3
  <2> QED BY <2>2, <2>3
<1> QED BY <1>1, <1>2 DEF ExitsMove

\* The slot of the runner is dropped for another.
LEMMA SlotChanged ==
  ASSUME TypeOK, NEW r \in Worker, NEW s \in ExitSlot, NEW d \in ExitSlot, Swept(exits), s # d,
         exits[s].active = 1, exits[d].active = 0, exits[d].use # "free",
         run[r].slot = s, run'[r].slot = d,
         exits' = LeaseExit(Remove(exits, {s}, NoExit), d)
  PROVE  exits' \in [ExitSlot -> Exit] /\ ExitsMove(r)
<1> DEFINE e == Remove(exits, {s}, NoExit)
           k == [exits[d] EXCEPT !.active = 1]
<1>1. e = [t \in ExitSlot |-> IF t \in {s} THEN NoExit ELSE exits[t]]
  BY DEF Remove, Swept
<1>2. exits[d] \in Exit /\ ExitWell(exits[d])
  BY DEF Swept
<1>3. k \in Exit /\ k.active = 1 /\ k.use # "free" /\ ExitWell(k)
  BY <1>2 DEF Exit, ExitWell
<1> HIDE DEF e
<1>4. e[d] = exits[d] /\ d \in DOMAIN e
  BY <1>1
<1>5. exits' = [e EXCEPT ![d] = [e[d] EXCEPT !.active = 1]]
  BY Zenon DEF LeaseExit, e
<1>6. exits' = [e EXCEPT ![d] = k]
  BY <1>4, <1>5
<1> HIDE DEF k
<1>7. exits' = [t \in ExitSlot |-> IF t = d THEN k ELSE IF t = s THEN NoExit ELSE exits[t]]
  BY <1>1, <1>6
<1>8. ASSUME NEW t \in ExitSlot
      PROVE  /\ exits'[t].active = exits[t].active + One(run'[r].slot = t) - One(run[r].slot = t)
             /\ exits'[t].active > 0 => exits'[t].use # "free"
             /\ ExitWell(exits'[t]) /\ exits'[t] \in Exit
  <2>1. exits[t].active \in Nat
    BY Numbers
  <2>2. CASE t = d
    <3>1. exits'[t] = k
      BY <1>7, <2>2
    <3> QED BY <1>3, <2>1, <2>2, <3>1 DEF One
  <2>3. CASE t = s
    <3>1. exits'[t] = NoExit
      BY <1>7, <2>3
    <3> QED BY <2>1, <2>3, <3>1, NewSlots DEF One
  <2>4. CASE t # s /\ t # d
    <3>1. exits'[t] = exits[t]
      BY <1>7, <2>4
    <3>2. One(run'[r].slot = t) = 0 /\ One(run[r].slot = t) = 0
      BY <2>4 DEF One
    <3>3. exits[t] \in Exit /\ ExitWell(exits[t]) /\ (exits[t].active > 0 => exits[t].use # "free")
      BY DEF Swept
    <3> QED BY <2>1, <3>1, <3>2, <3>3
  <2> QED BY <2>2, <2>3, <2>4
<1> QED BY <1>7, <1>8 DEF ExitsMove

\* The lease of a slot that was idle.
LEMMA Leased ==
  ASSUME NEW e, Swept(e), NEW s \in ExitSlot, e[s].use # "free"
  PROVE  LET k == [e[s] EXCEPT !.active = 1]
         IN /\ LeaseExit(e, s) = [e EXCEPT ![s] = k]
            /\ k \in Exit /\ k.active = 1 /\ k.use # "free" /\ ExitWell(k)
<1>1. e[s] \in Exit /\ ExitWell(e[s])
  BY DEF Swept
<1> DEFINE k == [e[s] EXCEPT !.active = 1]
<1>2. k \in Exit /\ k.active = 1 /\ k.use # "free" /\ ExitWell(k)
  BY <1>1 DEF Exit, ExitWell
<1>3. LeaseExit(e, s) = [e EXCEPT ![s] = k]
  BY Zenon DEF LeaseExit
<1> QED BY <1>2, <1>3

\* A new port changes the keys of browsers, and nothing else of them.
LEMMA Rekeys ==
  ASSUME TypeOK, NEW p, browsers' = OldKeys(browsers, p) \/ browsers' = browsers
  PROVE  browsers' \in [BrowserSlot -> Browser] /\ Rekeyed
<1> DEFINE old(s) == [browsers[s] EXCEPT !.key = "old"]
<1>1. ASSUME NEW s \in BrowserSlot
      PROVE  /\ browsers[s] \in Browser /\ old(s) \in Browser
             /\ old(s).active = browsers[s].active /\ old(s).use = browsers[s].use
             /\ old(s).closing = browsers[s].closing /\ old(s).retiring = browsers[s].retiring
  <2>1. browsers[s] \in Browser
    BY DEF TypeOK
  <2> QED BY <2>1 DEF Browser
<1>2. DOMAIN browsers = BrowserSlot
  BY DEF TypeOK
<1>3. CASE browsers' = browsers
  BY <1>3 DEF TypeOK, Rekeyed
<1>4. CASE browsers' = OldKeys(browsers, p)
  <2>1. browsers' = [s \in BrowserSlot |-> IF browsers[s].key = p THEN old(s) ELSE browsers[s]]
    BY <1>2, <1>4 DEF OldKeys
  <2> HIDE DEF old
  <2>2. ASSUME NEW s \in BrowserSlot PROVE browsers'[s] \in {old(s), browsers[s]}
    BY <2>1
  <2> QED BY <1>1, <2>1, <2>2 DEF Rekeyed
<1> QED BY <1>3, <1>4

\* Where a runner may be without holding a condition or an upload slot.
LEMMA LocatedFree ==
  ASSUME NEW r \in Worker, lock' # r, r \notin uploading',
         \/ run'[r].pc \in {"close", "credit", "page"}
         \/ run'[r].pc = "browser" /\ run'[r].browser = NoSlot
  PROVE  Located(r)'
BY DEF Located

\* The places where no request has left yet.
LEMMA Askers ==
  /\ {"exit", "exitLaunch", "entry", "entryLaunch", "entryNotify", "browser", "page", "credit"}
       \subseteq Asking \ {"fetch"}
  /\ "proxy" \in Asking /\ "api" \in Asking /\ "fetch" \in Asking
BY DEF Asking, Place, Leaving

\* Another record for the runner, and the others keep theirs.
LEMMA RunStep ==
  ASSUME TypeOK, NEW r \in Worker, NEW k \in Run, run' = [run EXCEPT ![r] = k]
  PROVE  run' \in [Worker -> Run] /\ Others(r) /\ run'[r] = k
BY DEF TypeOK, Others

\* The nodes an attempt asks for are nodes.
LEMMA AllowedNodes ==
  ASSUME TypeOK, NEW r \in Worker
  PROVE  Subscribed \subseteq Node /\ Allowed(r) \subseteq Node /\ \A e : Choices(r, e) \subseteq Subscribed
<1>1. Subscribed \subseteq Node
  BY DEF TypeOK, Subscribed
<1>2. run[r] \in Run
  BY DEF TypeOK
<1>3. run[r].also \subseteq Node
  BY <1>2 DEF Run
<1>4. Pinned(r) => pin[r] \in Node
  BY DEF TypeOK, Pinned
<1>5. Allowed(r) \subseteq Node
  BY <1>1, <1>3, <1>4 DEF Allowed
<1>6. \A e : Choices(r, e) \subseteq Subscribed
  BY DEF Choices
<1> QED BY <1>1, <1>5, <1>6

\* An attempt that waits for an exit takes one, starts one, fails or sleeps.
LEMMA ScanExitsKeeps ==
  ASSUME Inv, NEW r \in Worker, ScanExits(r), UNCHANGED fixed
  PROVE  Inv'
<1> DEFINE e == SweepForNode(exits, Allowed(r), cooling)
           ready == ReadyExits(e, Allowed(r) \ Excluded(r))
           choices == IF CanLaunch(r, e) THEN Choices(r, e) ELSE {}
           free == CHOOSE v \in Vacant(e) : TRUE
           launch(n) ==
             /\ exits' = [e EXCEPT ![free] = NewExit("subscription", n, TRUE, NoNode)]
             /\ browsers' = OldKeys(browsers, free)
             /\ run' = [run EXCEPT ![r].pc = "exitLaunch", ![r].slot = free, ![r].node = n]
             /\ lock' = r /\ UNCHANGED <<asleep, down, pin, avoid>> /\ NoFault
           use(n) ==
             /\ run' = [run EXCEPT ![r].pc = "exitLaunch", ![r].node = n]
             /\ exits' = e /\ lock' = r
             /\ UNCHANGED <<browsers, asleep, down, pin, avoid>> /\ NoFault
           take(s) == exits' = LeaseExit(e, s) /\ asleep' = Wake("exit") /\ Acquired(r, s, e[s].node)
           fail == exits' = e /\ AcquireFailed(r) /\ UNCHANGED asleep
           sleep == exits' = e /\ asleep' = Sleep(r, "exit") /\ UNCHANGED <<run, down, pin, avoid>>
<1>1. /\ TypeOK /\ Located(r) /\ run[r] \in Run /\ run \in [Worker -> Run]
      /\ run[r].pc = "exit" /\ lock = NoRunner /\ r \notin uploading
      /\ run[r].slot = NoSlot /\ run[r].browser = NoSlot
  BY DEF Inv, TypeOK, ScanExits, At, Located
<1>2. Swept(e)
  BY SweptExits
<1>3. Subscribed \subseteq Node /\ Allowed(r) \subseteq Node /\ choices \subseteq Subscribed
  BY <1>1, AllowedNodes
<1>4. choices # {} => Vacant(e) # {} /\ free \in Vacant(e)
  BY DEF CanLaunch
<1>5. \A s \in ready : s \in ExitSlot /\ e[s].use # "free" /\ e[s].active = 0 /\ e[s].node \in Node
  BY <1>2, <1>3 DEF ReadyExits, Present, Swept
<1>6. /\ UNCHANGED <<taskVars, apiVars, uploading, lostVars, starts>> /\ cooling' = cooling
      /\ \/ \E n \in choices \ NativeNode : launch(n)
         \/ \E n \in choices \cap NativeNode : use(n)
         \/ /\ Fault \/ NoFault
            /\ UNCHANGED <<lock, browsers>>
            /\ \/ \E s \in ready : take(s)
               \/ fail
               \/ sleep
  BY DEF ScanExits
<1> HIDE DEF e, ready, choices
<1>7. NoRunner \notin Worker /\ NoSlot \notin ApiSlot /\ NoSlot \notin ExitSlot
  BY AttemptConstants, PoolConstants
<1>8. ASSUME lock' \in {r, NoRunner} PROVE LockKept(r) /\ lock' \in Worker \cup {NoRunner}
  BY <1>1, <1>7, <1>8 DEF LockKept
<1>9. Unpooled(run[r]) /\ run[r].pc \in Asking \ {"fetch"}
  BY <1>1, <1>7, Askers DEF Unpooled
<1>10. cooling' \subseteq Node \cup Entry
  BY <1>1, <1>6 DEF TypeOK
<1>11. UNCHANGED <<asleep, down, pin, avoid>> => MarksTyped' /\ SleepersTyped'
  BY <1>1, <1>10 DEF MarksTyped, SleepersTyped, TypeOK
<1>12. r \notin uploading'
  BY <1>1, <1>6
<1>13. ASSUME NEW n \in choices \ NativeNode, launch(n) PROVE Inv'
  <2> DEFINE k == [run[r] EXCEPT !.pc = "exitLaunch", !.slot = free, !.node = n]
             new == NewExit("subscription", n, TRUE, NoNode)
  <2>1. free \in ExitSlot /\ e[free].active = 0 /\ n \in Node /\ n \in Subscribed /\ n \notin NativeNode
    BY <1>1, <1>2, <1>3, <1>4, <1>13, VacantSlots
  <2> HIDE DEF free
  <2>2. run' = [run EXCEPT ![r] = k]
    BY <1>13, Zenon
  <2>3. /\ k \in Run /\ k.pc = "exitLaunch" /\ k.slot = free /\ k.node = n /\ k.browser = NoSlot
    BY <1>1, <2>1 DEF Run, Place
  <2> HIDE DEF k
  <2>4. run' \in [Worker -> Run] /\ Others(r) /\ run'[r] = k
    BY <1>1, <2>2, <2>3, RunStep
  <2>5. new \in Exit /\ new.active = 1 /\ new.use # "free" /\ ExitWell(new)
    BY <2>1, NewSlots
  <2>6. exits' = [e EXCEPT ![free] = new]
    BY <1>13
  <2> HIDE DEF new
  <2>7. exits' \in [ExitSlot -> Exit] /\ ExitsMove(r)
    BY <1>1, <1>2, <2>1, <2>3, <2>4, <2>5, <2>6, SlotTaken
  <2>8. browsers' \in [BrowserSlot -> Browser] /\ Rekeyed
    BY <1>1, <1>13, Rekeys
  <2>9. lock' = r /\ LockKept(r) /\ lock' \in Worker \cup {NoRunner}
    BY <1>8, <1>13
  <2>10. Subscribed' = Subscribed
    BY DEF fixed, Subscribed
  <2>11. Located(r)'
    BY <1>12, <2>1, <2>3, <2>4, <2>9, <2>10 DEF Located
  <2>12. Unpooled(run'[r]) /\ GoesOn(r)
    BY <2>1, <2>3, <2>4, Askers, PoolConstants DEF Unpooled, GoesOn
  <2>13. faults' \in Nat /\ MarksTyped' /\ SleepersTyped'
    BY <1>1, <1>11, <1>13, FaultsTyped
  <2>14. UNCHANGED <<fixed, taskVars, apiVars, uploading, lostVars, starts>>
    BY <1>6
  <2> HIDE DEF launch
  <2> QED BY <1>9, <2>4, <2>7, <2>8, <2>9, <2>11, <2>12, <2>13, <2>14, ExitStep
<1>14. ASSUME NEW n \in choices \cap NativeNode, use(n) PROVE Inv'
  <2> DEFINE k == [run[r] EXCEPT !.pc = "exitLaunch", !.node = n]
  <2>1. n \in Node /\ n \in Subscribed /\ n \in NativeNode /\ Vacant(e) # {}
    BY <1>3, <1>4, <1>14
  <2>2. run' = [run EXCEPT ![r] = k]
    BY <1>14, Zenon
  <2>3. /\ k \in Run /\ k.pc = "exitLaunch" /\ k.slot = NoSlot /\ k.node = n /\ k.browser = NoSlot
    BY <1>1, <2>1 DEF Run, Place
  <2> HIDE DEF k
  <2>4. run' \in [Worker -> Run] /\ Others(r) /\ run'[r] = k
    BY <1>1, <2>2, <2>3, RunStep
  <2>5. exits' = e /\ Vacant(exits)' # {}
    BY <1>14, <2>1 DEF Vacant, Present
  <2>7. exits' \in [ExitSlot -> Exit] /\ ExitsMove(r)
    BY <1>1, <1>2, <2>3, <2>4, <2>5, SlotsStay
  <2>8. browsers' \in [BrowserSlot -> Browser] /\ Rekeyed
    BY <1>1, <1>14, Rekeys
  <2>9. lock' = r /\ LockKept(r) /\ lock' \in Worker \cup {NoRunner}
    BY <1>8, <1>14
  <2>10. Subscribed' = Subscribed
    BY DEF fixed, Subscribed
  <2>11. Located(r)'
    BY <1>12, <2>1, <2>3, <2>4, <2>5, <2>9, <2>10 DEF Located
  <2>12. Unpooled(run'[r]) /\ GoesOn(r)
    BY <1>7, <2>3, <2>4, Askers DEF Unpooled, GoesOn
  <2>13. faults' \in Nat /\ MarksTyped' /\ SleepersTyped'
    BY <1>1, <1>11, <1>14, FaultsTyped
  <2>14. UNCHANGED <<fixed, taskVars, apiVars, uploading, lostVars, starts>>
    BY <1>6
  <2> HIDE DEF use
  <2> QED BY <1>9, <2>4, <2>7, <2>8, <2>9, <2>11, <2>12, <2>13, <2>14, ExitStep
<1>15. ASSUME Fault \/ NoFault, UNCHANGED <<lock, browsers>>, (\E s \in ready : take(s)) \/ fail \/ sleep
       PROVE  Inv'
  <2>1. faults' \in Nat /\ LockKept(r) /\ lock' \in Worker \cup {NoRunner} /\ lock' # r
    BY <1>1, <1>7, <1>8, <1>15, FaultsTyped
  <2>2. browsers' \in [BrowserSlot -> Browser] /\ Rekeyed
    BY <1>1, <1>15, Rekeys
  <2>3. UNCHANGED <<fixed, taskVars, apiVars, uploading, lostVars, starts>>
    BY <1>6
  <2>4. ASSUME NEW s \in ready, take(s) PROVE Inv'
    <3>1. s \in ExitSlot /\ e[s].use # "free" /\ e[s].active = 0 /\ e[s].node \in Node
      BY <1>5
    <3>2. /\ run' \in [Worker -> Run] /\ Others(r)
          /\ run'[r].pc \in {"browser", "page", "credit"}
          /\ run'[r].slot = s /\ run'[r].browser = NoSlot
          /\ down' \subseteq Sources /\ pin' \in [Worker -> Node \cup {NoNode}]
          /\ avoid' \in [Worker -> Node \cup Entry \cup Endpoint \cup {NoNode}]
      BY <1>1, <2>4, <3>1, AcquiredStep
    <3> DEFINE k == [e[s] EXCEPT !.active = 1]
    <3>7. exits' = [e EXCEPT ![s] = k] /\ k \in Exit /\ k.active = 1 /\ k.use # "free" /\ ExitWell(k)
      BY <1>2, <2>4, <3>1, Leased
    <3> HIDE DEF k
    <3>3. exits' \in [ExitSlot -> Exit] /\ ExitsMove(r)
      BY <1>1, <1>2, <3>1, <3>2, <3>7, SlotTaken
    <3>4. MarksTyped' /\ SleepersTyped'
      BY <1>1, <1>10, <2>4, <3>2, Sleepers DEF MarksTyped, SleepersTyped, Pool
    <3>5. Located(r)'
      BY <1>12, <2>1, <3>2, LocatedFree
    <3>6. Unpooled(run'[r]) /\ GoesOn(r)
      BY <3>1, <3>2, Askers, PoolConstants DEF Unpooled, GoesOn
    <3> HIDE DEF take
    <3> QED BY <1>9, <2>1, <2>2, <2>3, <3>2, <3>3, <3>4, <3>5, <3>6, ExitStep
  <2>5. ASSUME fail PROVE Inv'
    <3>1. /\ run' \in [Worker -> Run] /\ Others(r)
          /\ run'[r].pc = "close" /\ run'[r].out = "infra"
          /\ run'[r].slot = NoSlot /\ run'[r].browser = NoSlot
          /\ down' \subseteq Sources /\ pin' = pin /\ avoid' = avoid
      BY <1>1, <2>5, FailedStep
    <3>2. exits' \in [ExitSlot -> Exit] /\ ExitsMove(r)
      BY <1>1, <1>2, <2>5, <3>1, SlotsStay
    <3>3. MarksTyped' /\ SleepersTyped'
      BY <1>1, <1>10, <2>5, <3>1 DEF MarksTyped, SleepersTyped, TypeOK
    <3>4. Located(r)'
      BY <1>12, <2>1, <3>1, LocatedFree
    <3>5. Unpooled(run'[r]) /\ GoesOn(r)
      BY <1>7, <3>1 DEF Unpooled, GoesOn
    <3> HIDE DEF fail
    <3> QED BY <1>9, <2>1, <2>2, <2>3, <3>1, <3>2, <3>3, <3>4, <3>5, ExitStep
  <2>6. ASSUME sleep PROVE Inv'
    <3>1. run' = run /\ run' \in [Worker -> Run] /\ Others(r)
      BY <1>1, <2>6 DEF Others
    <3>2. exits' \in [ExitSlot -> Exit] /\ ExitsMove(r)
      BY <1>1, <1>2, <2>6, <3>1, SlotsStay
    <3>3. MarksTyped' /\ SleepersTyped'
      BY <1>1, <1>10, <2>6, Sleepers DEF MarksTyped, SleepersTyped, TypeOK, Pool
    <3>4. Located(r)'
      BY <1>1, <1>12, <2>1, <3>1 DEF Located
    <3>5. Unpooled(run'[r]) /\ GoesOn(r)
      BY <1>9, <3>1 DEF GoesOn
    <3> HIDE DEF sleep
    <3> QED BY <1>9, <2>1, <2>2, <2>3, <3>1, <3>2, <3>3, <3>4, <3>5, ExitStep
  <2> QED BY <1>15, <2>4, <2>5, <2>6
<1> QED BY <1>6, <1>13, <1>14, <1>15

\* A started exit is taken, or dropped for another one or for a new search.
LEMMA ExitLaunchedKeeps ==
  ASSUME Inv, NEW r \in Worker, ExitLaunched(r), UNCHANGED fixed
  PROVE  Inv'
<1> DEFINE n == run[r].node
           native == n \in NativeNode
           s == IF native THEN CHOOSE v \in Vacant(exits) : TRUE ELSE run[r].slot
           e == Remove(exits, {s}, NoExit)
           tried == run[r].tried \cup {n}
           also(d) == run[r].also \cup {e[d].node}
           again(d) == [run[r] EXCEPT !.pc = "exit", !.slot = NoSlot, !.node = NoNode,
                                      !.tried = tried, !.also = also(d)]
           keep(x) == /\ exits' = [exits EXCEPT ![s] = NewExit("subscription", n, FALSE, x)]
                      /\ asleep' = Wake("exit") /\ Acquired(r, s, n)
           rescan(d) == /\ exits' = e /\ UNCHANGED <<down, pin, avoid>>
                        /\ run' = [run EXCEPT ![r] = again(d)]
                        /\ \/ asleep' = Wake("exit")
                           \/ asleep' = [(IF native THEN asleep ELSE Wake("exit")) EXCEPT ![r] = "exit"]
           take(d) == /\ e[d].active = 0
                      /\ exits' = LeaseExit(e, d) /\ asleep' = Wake("exit")
                      /\ Acquired(r, d, e[d].node)
<1>1. /\ TypeOK /\ Located(r) /\ run[r] \in Run /\ run \in [Worker -> Run]
      /\ run[r].pc = "exitLaunch" /\ lock = r /\ r \notin uploading
      /\ n \in Subscribed /\ run[r].browser = NoSlot
      /\ IF native THEN run[r].slot = NoSlot /\ Vacant(exits) # {} ELSE run[r].slot \in ExitSlot
  BY DEF Inv, TypeOK, ExitLaunched, At, Located
<1>2. Swept(exits) /\ n \in Node /\ address[n] \in Address
  BY <1>1, SweptExits, AllowedNodes DEF TypeOK, Subscribed
<1>3. /\ native => s \in ExitSlot /\ exits[s].active = 0
      /\ ~native => s \in ExitSlot /\ s = run[r].slot /\ exits[s].active = 1
  <2>1. CASE native
    <3>1. s \in Vacant(exits)
      BY <1>1, <2>1
    <3> QED BY <1>1, <1>2, <2>1, <3>1, VacantSlots
  <2>2. CASE ~native
    BY <1>1, <2>2, HeldExit
  <2> QED BY <2>1, <2>2
<1>4. ASSUME native PROVE Swept(e)
  <2>1. s \in ExitSlot /\ exits[s].active = 0
    BY <1>3, <1>4
  <2> HIDE DEF s
  <2>2. \A t \in ExitSlot \cap {s} : exits[t].active = 0
    BY <2>1
  <2> QED BY <1>1, <1>2, <2>2, SweptRemoved
<1>5. \A t \in ExitSlot \ {s} : e[t] = exits[t]
  BY <1>2 DEF Remove, Swept
<1>6. ASSUME NEW x \in {address[n], n}, NEW d \in Duplicates(exits, s, x)
      PROVE  /\ d \in ExitSlot /\ d # s /\ exits[d].use # "free" /\ e[d] = exits[d]
             /\ e[d].node \in Node
  <2>1. d \in ExitSlot /\ d # s /\ exits[d].use # "free" /\ exits[d].exit = x
    BY <1>2 DEF Duplicates, Present, Swept
  <2>2. exits[d] \in Exit /\ ExitWell(exits[d]) /\ e[d] = exits[d]
    BY <1>2, <1>5, <2>1 DEF Swept
  <2>3. x \notin Entry \cup {NoNode}
    BY <1>2, PoolConstants
  <2>4. exits[d].use \in {"subscription", "bridge"}
    BY <2>1, <2>2 DEF Exit
  <2> QED BY <2>1, <2>2, <2>3, <2>4 DEF ExitWell
<1>7. /\ UNCHANGED <<taskVars, apiVars, browsers, uploading, cooling, lostVars, starts>>
      /\ lock' = NoRunner /\ (Fault \/ NoFault)
      /\ \E x \in {address[n], n} :
           \/ keep(x)
           \/ \E d \in Duplicates(exits, s, x) : rescan(d) \/ take(d)
  <2>1. /\ UNCHANGED <<taskVars, apiVars, browsers, uploading, cooling, lostVars, starts>>
        /\ lock' = NoRunner
    BY DEF ExitLaunched
  <2>2. \E x \in {address[n], n} :
          /\ Fault \/ NoFault
          /\ \/ keep(x)
             \/ \E d \in Duplicates(exits, s, x) : rescan(d) \/ take(d)
    BY ZenonT(40) DEF ExitLaunched
  <2> QED BY <2>1, <2>2
<1> HIDE DEF s, e
<1>8. NoRunner \notin Worker /\ NoSlot \notin ApiSlot /\ NoSlot \notin ExitSlot /\ ExitSlot \cap ApiSlot = {}
  BY AttemptConstants, PoolConstants
<1>9. lock' # r /\ LockKept(r) /\ lock' \in Worker \cup {NoRunner} /\ r \notin uploading'
  BY <1>1, <1>7, <1>8 DEF LockKept
<1>10. Unpooled(run[r]) /\ run[r].pc \in Asking \ {"fetch"}
  BY <1>1, <1>8, Askers DEF Unpooled
<1>11. cooling' \subseteq Node \cup Entry /\ faults' \in Nat
  BY <1>1, <1>7, FaultsTyped DEF TypeOK
<1>12. browsers' \in [BrowserSlot -> Browser] /\ Rekeyed
  BY <1>1, <1>7, Rekeys
<1>13. UNCHANGED <<fixed, taskVars, apiVars, uploading, lostVars, starts>>
  BY <1>7
<1>14. ASSUME NEW t \in ExitSlot, NEW m \in Node, Acquired(r, t, m), asleep' = Wake("exit"),
              exits' \in [ExitSlot -> Exit],
              run'[r].slot = t => ExitsMove(r)
       PROVE  Inv'
  <2>1. /\ run' \in [Worker -> Run] /\ Others(r)
        /\ run'[r].pc \in {"browser", "page", "credit"}
        /\ run'[r].slot = t /\ run'[r].browser = NoSlot
        /\ down' \subseteq Sources /\ pin' \in [Worker -> Node \cup {NoNode}]
        /\ avoid' \in [Worker -> Node \cup Entry \cup Endpoint \cup {NoNode}]
    BY <1>1, <1>14, AcquiredStep
  <2>2. MarksTyped' /\ SleepersTyped'
    BY <1>1, <1>11, <1>14, <2>1, Sleepers DEF MarksTyped, SleepersTyped, Pool
  <2>3. Located(r)'
    BY <1>9, <2>1, LocatedFree
  <2>4. Unpooled(run'[r]) /\ GoesOn(r)
    BY <1>8, <2>1, Askers DEF Unpooled, GoesOn
  <2> QED BY <1>9, <1>10, <1>11, <1>12, <1>13, <1>14, <2>1, <2>2, <2>3, <2>4, ExitStep
<1>15. ASSUME NEW x \in {address[n], n}, keep(x) PROVE Inv'
  <2> DEFINE new == NewExit("subscription", n, FALSE, x)
  <2>1. new \in Exit /\ new.active = 1 /\ new.use # "free" /\ ExitWell(new)
    BY <1>2, NewSlots
  <2>2. exits' = [exits EXCEPT ![s] = new]
    BY <1>15
  <2> HIDE DEF new
  <2>3. exits' \in [ExitSlot -> Exit]
    BY <1>2, <2>1, <2>2 DEF Swept
  <2>4. ASSUME run'[r].slot = s PROVE ExitsMove(r)
    <3>1. CASE native
      BY <1>1, <1>2, <1>3, <2>1, <2>2, <2>4, <3>1, SlotTaken
    <3>2. CASE ~native
      BY <1>1, <1>2, <1>3, <2>1, <2>2, <2>4, <3>2, SlotRenewed
    <3> QED BY <3>1, <3>2
  <2>5. s \in ExitSlot /\ n \in Node
    BY <1>2, <1>3
  <2>6. asleep' = Wake("exit") /\ Acquired(r, s, n)
    BY <1>15
  <2> QED BY <1>14, <2>3, <2>4, <2>5, <2>6
<1>16. ASSUME NEW x \in {address[n], n}, NEW d \in Duplicates(exits, s, x), take(d) PROVE Inv'
  <2>1. d \in ExitSlot /\ d # s /\ exits[d].use # "free" /\ e[d] = exits[d] /\ e[d].node \in Node
    BY <1>6
  <2>2. e[d].active = 0 /\ exits' = LeaseExit(e, d)
    BY <1>16
  <2>3. e \in [ExitSlot -> Exit]
    BY <1>2, NewSlots DEF e, Remove, Swept
  <2>4. exits' \in [ExitSlot -> Exit]
    <3>1. e[d] \in Exit
      BY <2>1, <2>3
    <3>2. [e[d] EXCEPT !.active = 1] \in Exit
      BY <3>1 DEF Exit
    <3>3. exits' = [e EXCEPT ![d] = [e[d] EXCEPT !.active = 1]]
      BY <2>2, Zenon DEF LeaseExit
    <3> QED BY <2>3, <3>2, <3>3
  <2>5. ASSUME run'[r].slot = d PROVE ExitsMove(r)
    <3>1. CASE native
      <4> DEFINE k == [e[d] EXCEPT !.active = 1]
      <4>1. Swept(e)
        BY <1>4, <3>1
      <4>2. exits' = [e EXCEPT ![d] = k] /\ k \in Exit /\ k.active = 1 /\ k.use # "free" /\ ExitWell(k)
        BY <2>1, <2>2, <4>1, Leased
      <4> HIDE DEF k
      <4> QED BY <1>1, <2>1, <2>2, <2>5, <3>1, <4>1, <4>2, SlotTaken
    <3>2. CASE ~native
      <4>1. exits' = LeaseExit(Remove(exits, {s}, NoExit), d)
        BY <2>2 DEF e
      <4>2. exits[d].active = 0
        BY <2>1, <2>2
      <4>3. s \in ExitSlot /\ s = run[r].slot /\ exits[s].active = 1
        BY <1>3, <3>2
      <4> QED BY <1>1, <1>2, <2>1, <2>5, <4>1, <4>2, <4>3, SlotChanged
    <3> QED BY <3>1, <3>2
  <2>6. asleep' = Wake("exit") /\ Acquired(r, d, e[d].node)
    BY <1>16
  <2> QED BY <1>14, <2>1, <2>4, <2>5, <2>6
<1>17. ASSUME NEW x \in {address[n], n}, NEW d \in Duplicates(exits, s, x), rescan(d) PROVE Inv'
  <2>1. e[d].node \in Node
    BY <1>6
  <2>2. tried \in SUBSET (Node \cup Endpoint) /\ also(d) \in SUBSET Node
    BY <1>1, <1>2, <2>1 DEF Run
  <2>3. run' = [run EXCEPT ![r] = again(d)]
    BY <1>17
  <2> DEFINE a == tried
             b == also(d)
             k == [run[r] EXCEPT !.pc = "exit", !.slot = NoSlot, !.node = NoNode, !.tried = a, !.also = b]
  <2>4. run' = [run EXCEPT ![r] = k] /\ a \in SUBSET (Node \cup Endpoint) /\ b \in SUBSET Node
    BY <2>2, <2>3
  <2> HIDE DEF a, b
  <2>13. "exit" \in Place /\ run[r] \in Run /\ run[r].browser = NoSlot
    BY <1>1 DEF Place
  <2>5. k \in Run /\ k.pc = "exit" /\ k.slot = NoSlot /\ k.browser = NoSlot
    BY ONLY <2>4, <2>13 DEF k, Run
  <2> HIDE DEF k
  <2>6. run' \in [Worker -> Run] /\ Others(r) /\ run'[r] = k
    BY <1>1, <2>4, <2>5, RunStep
  <2>7. exits' = e /\ UNCHANGED <<down, pin, avoid>>
    BY <1>17
  <2>8. exits' \in [ExitSlot -> Exit] /\ ExitsMove(r)
    <3>1. CASE native
      <4>1. Swept(e) /\ run'[r].slot = run[r].slot
        BY <1>1, <1>4, <2>5, <2>6, <3>1
      <4> QED BY <1>1, <2>7, <4>1, SlotsStay
    <3>2. CASE ~native
      <4>1. exits' = Remove(exits, {s}, NoExit)
        BY <2>7 DEF e
      <4>2. s \in ExitSlot /\ s = run[r].slot /\ exits[s].active = 1
        BY <1>3, <3>2
      <4> QED BY <1>1, <1>2, <2>5, <2>6, <4>1, <4>2, SlotDropped
    <3> QED BY <3>1, <3>2
  <2>9. SleepersTyped'
    <3>1. CASE asleep' = Wake("exit")
      BY <1>1, <3>1, Sleepers DEF SleepersTyped, Pool
    <3>2. CASE asleep' = [(IF native THEN asleep ELSE Wake("exit")) EXCEPT ![r] = "exit"]
      <4> DEFINE w == IF native THEN asleep ELSE Wake("exit")
      <4>1. w \in [Worker -> {"", "exit", "api", "browser", "upload"}]
        BY <1>1, Sleepers DEF Pool, TypeOK
      <4>2. asleep' = [w EXCEPT ![r] = "exit"]
        BY <3>2
      <4> HIDE DEF w
      <4> QED BY <4>1, <4>2 DEF SleepersTyped
    <3> QED BY <1>17, <3>1, <3>2
  <2>10. MarksTyped'
    BY <1>1, <1>11, <2>7 DEF MarksTyped, TypeOK
  <2>11. Located(r)'
    BY <1>9, <2>5, <2>6 DEF Located
  <2>12. Unpooled(run'[r]) /\ GoesOn(r)
    BY <1>8, <2>5, <2>6, Askers DEF Unpooled, GoesOn
  <2> HIDE DEF rescan
  <2> QED BY <1>9, <1>10, <1>11, <1>12, <1>13, <2>6, <2>8, <2>9, <2>10, <2>11, <2>12, ExitStep
<1> QED BY <1>7, <1>15, <1>16, <1>17

\* An exit that does not start is dropped, and the runner looks on or fails.
LEMMA ExitLaunchFailsKeeps ==
  ASSUME Inv, NEW r \in Worker, ExitLaunchFails(r), UNCHANGED fixed
  PROVE  Inv'
<1> DEFINE n == run[r].node
           tried == run[r].tried \cup {n}
           skip == /\ run' = [run EXCEPT ![r].pc = "exit", ![r].node = NoNode]
                   /\ UNCHANGED <<exits, asleep, down, pin, avoid>>
           look == /\ run' = [run EXCEPT ![r].pc = "exit", ![r].slot = NoSlot,
                                         ![r].node = NoNode, ![r].tried = tried]
                   /\ UNCHANGED <<down, pin, avoid>>
<1>1. /\ TypeOK /\ Located(r) /\ run[r] \in Run /\ run \in [Worker -> Run]
      /\ run[r].pc = "exitLaunch" /\ lock = r /\ r \notin uploading
      /\ n \in Subscribed /\ run[r].browser = NoSlot
      /\ IF n \in NativeNode THEN run[r].slot = NoSlot ELSE run[r].slot \in ExitSlot
  BY DEF Inv, TypeOK, ExitLaunchFails, At, Located
<1>2. Swept(exits) /\ n \in Node
  BY <1>1, SweptExits, AllowedNodes
<1>3. /\ UNCHANGED <<taskVars, apiVars, browsers, uploading, lostVars, starts>>
      /\ lock' = NoRunner /\ Fault /\ cooling' = cooling \cup {n}
      /\ \/ n \in NativeNode /\ skip
         \/ /\ n \notin NativeNode
            /\ exits' = Remove(exits, {run[r].slot}, NoExit) /\ asleep' = Wake("exit")
            /\ AcquireFailed(r) \/ look
  BY DEF ExitLaunchFails
<1>4. NoRunner \notin Worker /\ NoSlot \notin ApiSlot /\ NoSlot \notin ExitSlot /\ ExitSlot \cap ApiSlot = {}
  BY AttemptConstants, PoolConstants
<1>5. lock' # r /\ LockKept(r) /\ lock' \in Worker \cup {NoRunner} /\ r \notin uploading'
  BY <1>1, <1>3, <1>4 DEF LockKept
<1>6. Unpooled(run[r]) /\ run[r].pc \in Asking \ {"fetch"}
  BY <1>1, <1>4, Askers DEF Unpooled
<1>7. cooling' \subseteq Node \cup Entry /\ faults' \in Nat
  BY <1>1, <1>2, <1>3, FaultsTyped DEF TypeOK
<1>8. browsers' \in [BrowserSlot -> Browser] /\ Rekeyed
  BY <1>1, <1>3, Rekeys
<1>9. UNCHANGED <<fixed, taskVars, apiVars, uploading, lostVars, starts>>
  BY <1>3
<1>10. CASE n \in NativeNode /\ skip
  <2> DEFINE k == [run[r] EXCEPT !.pc = "exit", !.node = NoNode]
  <2>1. run' = [run EXCEPT ![r] = k]
    BY <1>10, Zenon
  <2>2. k \in Run /\ k.pc = "exit" /\ k.slot = NoSlot /\ k.browser = NoSlot
    BY <1>1, <1>10, ZenonT(40) DEF Run, Place
  <2> HIDE DEF k
  <2>3. run' \in [Worker -> Run] /\ Others(r) /\ run'[r] = k
    BY <1>1, <2>1, <2>2, RunStep
  <2>4. exits' \in [ExitSlot -> Exit] /\ ExitsMove(r)
    BY <1>1, <1>2, <1>10, <2>2, <2>3, SlotsStay
  <2>5. MarksTyped' /\ SleepersTyped'
    BY <1>1, <1>7, <1>10 DEF MarksTyped, SleepersTyped, TypeOK
  <2>6. Located(r)'
    BY <1>5, <2>2, <2>3 DEF Located
  <2>7. Unpooled(run'[r]) /\ GoesOn(r)
    BY <1>4, <2>2, <2>3, Askers DEF Unpooled, GoesOn
  <2> HIDE DEF skip
  <2> QED BY <1>5, <1>6, <1>7, <1>8, <1>9, <2>3, <2>4, <2>5, <2>6, <2>7, ExitStep
<1>11. ASSUME n \notin NativeNode, exits' = Remove(exits, {run[r].slot}, NoExit),
              asleep' = Wake("exit"), AcquireFailed(r) \/ look
       PROVE  Inv'
  <2>1. run[r].slot \in ExitSlot /\ exits[run[r].slot].active = 1
    BY <1>1, <1>11, HeldExit
  <2>2. SleepersTyped'
    BY <1>1, <1>11, Sleepers DEF SleepersTyped, Pool
  <2>3. CASE AcquireFailed(r)
    <3>1. /\ run' \in [Worker -> Run] /\ Others(r)
          /\ run'[r].pc = "close" /\ run'[r].out = "infra"
          /\ run'[r].slot = NoSlot /\ run'[r].browser = NoSlot
          /\ down' \subseteq Sources /\ pin' = pin /\ avoid' = avoid
      BY <1>1, <2>3, FailedStep
    <3>2. exits' \in [ExitSlot -> Exit] /\ ExitsMove(r)
      BY <1>1, <1>2, <1>11, <2>1, <3>1, SlotDropped
    <3>3. MarksTyped'
      BY <1>1, <1>7, <3>1 DEF MarksTyped, TypeOK
    <3>4. Located(r)'
      BY <1>5, <3>1, LocatedFree
    <3>5. Unpooled(run'[r]) /\ GoesOn(r)
      BY <1>4, <3>1 DEF Unpooled, GoesOn
    <3> QED BY <1>5, <1>6, <1>7, <1>8, <1>9, <2>2, <3>1, <3>2, <3>3, <3>4, <3>5, ExitStep
  <2>4. CASE look
    <3> DEFINE a == tried
               k == [run[r] EXCEPT !.pc = "exit", !.slot = NoSlot, !.node = NoNode, !.tried = a]
    <3>1. run' = [run EXCEPT ![r] = k]
      BY <2>4, Zenon
    <3>2. a \in SUBSET (Node \cup Endpoint)
      BY <1>1, <1>2 DEF Run
    <3> HIDE DEF a
    <3>9. "exit" \in Place /\ run[r] \in Run /\ run[r].browser = NoSlot
      BY <1>1 DEF Place
    <3>3. k \in Run /\ k.pc = "exit" /\ k.slot = NoSlot /\ k.browser = NoSlot
      BY ONLY <3>2, <3>9 DEF k, Run
    <3> HIDE DEF k
    <3>4. run' \in [Worker -> Run] /\ Others(r) /\ run'[r] = k
      BY <1>1, <3>1, <3>3, RunStep
    <3>5. exits' \in [ExitSlot -> Exit] /\ ExitsMove(r)
      BY <1>1, <1>2, <1>11, <2>1, <3>3, <3>4, SlotDropped
    <3>6. MarksTyped'
      BY <1>1, <1>7, <2>4 DEF MarksTyped, TypeOK
    <3>7. Located(r)'
      BY <1>5, <3>3, <3>4 DEF Located
    <3>8. Unpooled(run'[r]) /\ GoesOn(r)
      BY <1>4, <3>3, <3>4, Askers DEF Unpooled, GoesOn
    <3> HIDE DEF look
    <3> QED BY <1>5, <1>6, <1>7, <1>8, <1>9, <2>2, <3>4, <3>5, <3>6, <3>7, <3>8, ExitStep
  <2> HIDE DEF look
  <2> QED BY <1>11, <2>3, <2>4
<1> HIDE DEF skip, look
<1> QED BY <1>3, <1>10, <1>11

\* A runner looks for the bridge of its entry.
LEMMA ScanEntriesKeeps ==
  ASSUME Inv, NEW r \in Worker, ScanEntries(r), UNCHANGED fixed
  PROVE  Inv'
<1> DEFINE n == run[r].node
           e == SweepForEntry(exits, cooling)
           free(f) == CHOOSE v \in Vacant(f) : TRUE
           start(f, s) == /\ exits' = [f EXCEPT ![s] = NewExit("bridge", n, TRUE, NoNode)]
                          /\ browsers' = OldKeys(browsers, s)
                          /\ run' = [run EXCEPT ![r].pc = "entryLaunch", ![r].slot = s]
                          /\ UNCHANGED <<asleep, down, pin, avoid>>
           idles == {s \in Present(e) : ~e[s].launching /\ e[s].active = 0}
           take(s) == /\ exits' = LeaseExit(e, s) /\ asleep' = Wake("exit")
                      /\ Acquired(r, s, n) /\ UNCHANGED browsers
           sleep == /\ exits' = e /\ asleep' = Sleep(r, "exit")
                    /\ UNCHANGED <<run, browsers, down, pin, avoid>>
<1>1. /\ TypeOK /\ Located(r) /\ run[r] \in Run /\ run \in [Worker -> Run]
      /\ run[r].pc = "entry" /\ lock = NoRunner /\ r \notin uploading /\ n \in Entry
      /\ run[r].slot = NoSlot /\ run[r].browser = NoSlot /\ source(r) = "account"
  BY DEF Inv, TypeOK, ScanEntries, At, Located
<1>2. Swept(e)
  BY SweptExits
<1>3. /\ UNCHANGED <<taskVars, lock, apiVars, uploading, cooling, lostVars, starts, faults>>
      /\ \/ \E s \in ReadyExits(e, {n}) : take(s)
         \/ \E s \in Vacant(e) : start(e, s)
         \/ \E d \in idles : \E s \in Vacant(Remove(e, {d}, NoExit)) : start(Remove(e, {d}, NoExit), s)
         \/ sleep
  BY Zenon DEF ScanEntries
<1>4. \A s \in ReadyExits(e, {n}) : s \in ExitSlot /\ e[s].use # "free" /\ e[s].active = 0
  BY <1>2 DEF ReadyExits, Present, Swept
<1>5. \A d \in idles : d \in ExitSlot /\ e[d].active = 0
  BY <1>2 DEF Present, Swept
<1> HIDE DEF e, idles
<1>6. NoRunner \notin Worker /\ NoSlot \notin ApiSlot /\ NoSlot \notin ExitSlot /\ ExitSlot \cap ApiSlot = {}
  BY AttemptConstants, PoolConstants
<1>7. lock' # r /\ LockKept(r) /\ lock' \in Worker \cup {NoRunner} /\ r \notin uploading'
  BY <1>1, <1>3, <1>6 DEF LockKept
<1>8. Unpooled(run[r]) /\ run[r].pc \in Asking \ {"fetch"}
  BY <1>1, <1>6, Askers DEF Unpooled
<1>9. cooling' \subseteq Node \cup Entry /\ faults' \in Nat
  BY <1>1, <1>3 DEF TypeOK
<1>10. UNCHANGED <<fixed, taskVars, apiVars, uploading, lostVars, starts>>
  BY <1>3
<1>11. ASSUME NEW f, Swept(f), NEW s \in Vacant(f), start(f, s) PROVE Inv'
  <2> DEFINE k == [run[r] EXCEPT !.pc = "entryLaunch", !.slot = s]
             new == NewExit("bridge", n, TRUE, NoNode)
  <2>1. s \in ExitSlot /\ f[s].active = 0
    BY <1>1, <1>11, VacantSlots
  <2>2. run' = [run EXCEPT ![r] = k]
    BY <1>11, Zenon
  <2>3. k \in Run /\ k.pc = "entryLaunch" /\ k.slot = s /\ k.node = n /\ k.browser = NoSlot
    BY <1>1, <2>1 DEF Run, Place
  <2> HIDE DEF k
  <2>4. run' \in [Worker -> Run] /\ Others(r) /\ run'[r] = k
    BY <1>1, <2>2, <2>3, RunStep
  <2>5. new \in Exit /\ new.active = 1 /\ new.use # "free" /\ ExitWell(new)
    BY <1>1, NewSlots
  <2>6. exits' = [f EXCEPT ![s] = new]
    BY <1>11
  <2> HIDE DEF new
  <2>13. Swept(f) /\ run'[r].slot = s /\ run[r].slot = NoSlot
    BY <1>1, <1>11, <2>3, <2>4
  <2>7. exits' \in [ExitSlot -> Exit] /\ ExitsMove(r)
    BY <1>1, <2>1, <2>5, <2>6, <2>13, SlotTaken
  <2>8. browsers' \in [BrowserSlot -> Browser] /\ Rekeyed
    BY <1>1, <1>11, Rekeys
  <2>9. source(r)' = "account"
    BY <1>1 DEF fixed, source
  <2>10. Located(r)'
    BY <1>1, <1>7, <2>1, <2>3, <2>4, <2>9 DEF Located
  <2>11. Unpooled(run'[r]) /\ GoesOn(r)
    BY <1>6, <2>1, <2>3, <2>4, Askers DEF Unpooled, GoesOn
  <2>12. MarksTyped' /\ SleepersTyped'
    BY <1>1, <1>9, <1>11 DEF MarksTyped, SleepersTyped, TypeOK
  <2> HIDE DEF start
  <2> QED BY <1>7, <1>8, <1>9, <1>10, <2>4, <2>7, <2>8, <2>10, <2>11, <2>12, ExitStep
<1>12. ASSUME NEW s \in ReadyExits(e, {n}), take(s) PROVE Inv'
  <2> DEFINE k == [e[s] EXCEPT !.active = 1]
  <2>1. s \in ExitSlot /\ e[s].use # "free" /\ e[s].active = 0
    BY <1>4
  <2>2. exits' = [e EXCEPT ![s] = k] /\ k \in Exit /\ k.active = 1 /\ k.use # "free" /\ ExitWell(k)
    BY <1>2, <1>12, <2>1, Leased
  <2> HIDE DEF k
  <2>3. /\ run' \in [Worker -> Run] /\ Others(r)
        /\ run'[r].pc \in {"browser", "page", "credit"}
        /\ run'[r].slot = s /\ run'[r].browser = NoSlot
        /\ down' \subseteq Sources /\ pin' \in [Worker -> Node \cup {NoNode}]
        /\ avoid' \in [Worker -> Node \cup Entry \cup Endpoint \cup {NoNode}]
    BY <1>1, <1>12, <2>1, AcquiredStep
  <2>4. exits' \in [ExitSlot -> Exit] /\ ExitsMove(r)
    BY <1>1, <1>2, <2>1, <2>2, <2>3, SlotTaken
  <2>5. browsers' \in [BrowserSlot -> Browser] /\ Rekeyed
    BY <1>1, <1>12, Rekeys
  <2>6. MarksTyped' /\ SleepersTyped'
    BY <1>1, <1>9, <1>12, <2>3, Sleepers DEF MarksTyped, SleepersTyped, Pool
  <2>7. Located(r)'
    BY <1>7, <2>3, LocatedFree
  <2>8. Unpooled(run'[r]) /\ GoesOn(r)
    BY <1>6, <2>1, <2>3, Askers DEF Unpooled, GoesOn
  <2> HIDE DEF take
  <2> QED BY <1>7, <1>8, <1>9, <1>10, <2>3, <2>4, <2>5, <2>6, <2>7, <2>8, ExitStep
<1>13. ASSUME sleep PROVE Inv'
  <2>1. run' = run /\ run' \in [Worker -> Run] /\ Others(r)
    BY <1>1, <1>13 DEF Others
  <2>2. exits' \in [ExitSlot -> Exit] /\ ExitsMove(r)
    BY <1>1, <1>2, <1>13, <2>1, SlotsStay
  <2>3. browsers' \in [BrowserSlot -> Browser] /\ Rekeyed
    BY <1>1, <1>13, Rekeys
  <2>4. MarksTyped' /\ SleepersTyped'
    BY <1>1, <1>9, <1>13, Sleepers DEF MarksTyped, SleepersTyped, TypeOK, Pool
  <2>5. source(r)' = "account"
    BY <1>1 DEF fixed, source
  <2>6. Located(r)'
    BY <1>1, <1>7, <2>1, <2>5 DEF Located
  <2>7. Unpooled(run'[r]) /\ GoesOn(r)
    BY <1>8, <2>1 DEF GoesOn
  <2> HIDE DEF sleep
  <2> QED BY <1>7, <1>8, <1>9, <1>10, <2>1, <2>2, <2>3, <2>4, <2>6, <2>7, ExitStep
<1>14. ASSUME NEW d \in idles PROVE Swept(Remove(e, {d}, NoExit))
  <2>1. \A t \in ExitSlot \cap {d} : e[t].active = 0
    BY <1>5, <1>14
  <2> QED BY <1>1, <1>2, <2>1, SweptRemoved
<1> HIDE DEF start, take, sleep
<1> QED BY <1>2, <1>3, <1>11, <1>12, <1>13, <1>14

\* The bridge is up: the entry is its address, and whoever sleeps is told next.
LEMMA EntryLaunchedKeeps ==
  ASSUME Inv, NEW r \in Worker, EntryLaunched(r), UNCHANGED fixed
  PROVE  Inv'
<1> DEFINE s == run[r].slot
           a == [exits[s] EXCEPT !.launching = FALSE]
           k == [a EXCEPT !.exit = run[r].node]
<1>1. /\ TypeOK /\ Located(r) /\ run[r].pc = "entryLaunch" /\ r \notin uploading /\ lock # r
      /\ s \in ExitSlot /\ run[r].node \in Entry /\ run[r].browser = NoSlot /\ source(r) = "account"
  BY DEF Inv, EntryLaunched, At, Located
<1>2. Swept(exits) /\ exits[s].active = 1 /\ exits[s].use # "free" /\ exits[s] \in Exit /\ ExitWell(exits[s])
  BY <1>1, SweptExits, HeldExit DEF Swept
<1>3. a \in Exit /\ a.active = 1 /\ a.use # "free" /\ ExitWell(a)
  BY <1>2 DEF Exit, ExitWell
<1>4. exits' = [exits EXCEPT ![s] = k]
  BY Zenon DEF EntryLaunched
<1> HIDE DEF a
<1>5. k \in Exit /\ k.active = 1 /\ k.use # "free" /\ ExitWell(k)
  BY <1>1, <1>3 DEF Exit, ExitWell
<1> HIDE DEF k
<1>6. /\ UNCHANGED <<taskVars, lock, apiVars, browsers, uploading, asleep, marks, lostVars, starts, faults>>
      /\ Goto(r, "entryNotify")
  BY DEF EntryLaunched
<1>7. /\ run' \in [Worker -> Run] /\ Others(r)
      /\ run'[r].pc = "entryNotify" /\ run'[r].slot = s /\ run'[r].node = run[r].node
      /\ run'[r].browser = NoSlot
  <2>1. "entryNotify" \in Place
    BY DEF Place
  <2> QED BY <1>1, <1>6, <2>1, GotoStep
<1>8. exits' \in [ExitSlot -> Exit] /\ ExitsMove(r)
  BY <1>1, <1>2, <1>4, <1>5, <1>7, SlotRenewed
<1>9. browsers' \in [BrowserSlot -> Browser] /\ Rekeyed
  BY <1>1, <1>6, Rekeys
<1>10. MarksTyped' /\ SleepersTyped' /\ faults' \in Nat
  BY <1>1, <1>6 DEF MarksTyped, SleepersTyped, TypeOK, marks
<1>11. source(r)' = "account"
  BY <1>1 DEF fixed, source
<1>12. Located(r)'
  BY <1>1, <1>6, <1>7, <1>11 DEF Located
<1>13. Unpooled(run[r]) /\ Unpooled(run'[r]) /\ GoesOn(r) /\ run[r].pc \in Asking \ {"fetch"}
  BY <1>1, <1>7, Askers, PoolConstants DEF Unpooled, GoesOn
<1>14. LockKept(r) /\ lock' \in Worker \cup {NoRunner}
  <2>1. LockKept(r)
    <3> SUFFICES ASSUME NEW x \in Worker \ {r}, lock = x, Vacant(exits) # {} PROVE Vacant(exits)' # {}
      BY <1>6 DEF LockKept
    <3>1. PICK v \in Vacant(exits) : TRUE
      OBVIOUS
    <3>2. v \in ExitSlot /\ exits[v].use = "free" /\ v # s
      BY <1>2 DEF Vacant, Present, Swept
    <3>3. exits'[v] = exits[v] /\ DOMAIN exits' = ExitSlot
      BY <1>2, <1>4, <3>2 DEF Swept
    <3> QED BY <3>2, <3>3 DEF Vacant, Present
  <2> QED BY <1>1, <1>6, <2>1 DEF TypeOK
<1>15. UNCHANGED <<fixed, taskVars, apiVars, uploading, lostVars, starts>>
  BY <1>6
<1> QED BY <1>7, <1>8, <1>9, <1>10, <1>12, <1>13, <1>14, <1>15, ExitStep

\* The bridge is handed out, or did not start.
LEMMA EntryReadyKeeps ==
  ASSUME Inv, NEW r \in Worker, EntryReady(r) \/ EntryLaunchFails(r), UNCHANGED fixed
  PROVE  Inv'
<1>1. /\ TypeOK /\ Located(r) /\ run[r].pc \in {"entryLaunch", "entryNotify"} /\ r \notin uploading
      /\ run[r].slot \in ExitSlot /\ run[r].node \in Entry /\ run[r].browser = NoSlot
      /\ source(r) = "account" /\ lock = NoRunner
  BY DEF Inv, EntryReady, EntryLaunchFails, At, Located
<1>2. Swept(exits) /\ exits[run[r].slot].active = 1
  BY <1>1, SweptExits, HeldExit
<1>3. /\ UNCHANGED <<taskVars, lock, apiVars, browsers, uploading, cooling, lostVars, starts>>
      /\ Fault \/ NoFault
      /\ asleep' = Wake("exit")
  BY DEF EntryReady, EntryLaunchFails, exitVars, NoFault
<1>4. browsers' \in [BrowserSlot -> Browser] /\ Rekeyed
  BY <1>1, <1>3, Rekeys
<1>5. cooling' \subseteq Node \cup Entry /\ faults' \in Nat /\ SleepersTyped'
  BY <1>1, <1>3, FaultsTyped, Sleepers DEF TypeOK, SleepersTyped, Pool
<1>6. LockKept(r) /\ lock' \in Worker \cup {NoRunner} /\ lock' # r /\ r \notin uploading'
  BY <1>1, <1>3, AttemptConstants DEF LockKept
<1>7. Unpooled(run[r]) /\ run[r].pc \in Asking \ {"fetch"}
  BY <1>1, Askers, PoolConstants DEF Unpooled
<1>8. UNCHANGED <<fixed, taskVars, apiVars, uploading, lostVars, starts>>
  BY <1>3
<1>9. CASE EntryReady(r)
  <2>1. Acquired(r, run[r].slot, run[r].node) /\ exits' = exits
    BY <1>9 DEF EntryReady, exitVars
  <2>2. /\ run' \in [Worker -> Run] /\ Others(r)
        /\ run'[r].pc \in {"browser", "page", "credit"}
        /\ run'[r].slot = run[r].slot /\ run'[r].browser = NoSlot
        /\ down' \subseteq Sources /\ pin' \in [Worker -> Node \cup {NoNode}]
        /\ avoid' \in [Worker -> Node \cup Entry \cup Endpoint \cup {NoNode}]
    <3> DEFINE s == run[r].slot
               n == run[r].node
    <3>1. s \in ExitSlot \cup ApiSlot /\ n \in Node \cup Entry \cup Endpoint /\ source(r) # "subscription"
      BY <1>1
    <3>2. Acquired(r, s, n)
      BY <2>1
    <3> HIDE DEF s, n
    <3>3. /\ run' \in [Worker -> Run] /\ Others(r)
          /\ run'[r].pc \in {"browser", "page", "credit"}
          /\ run'[r].slot = s /\ run'[r].browser = run[r].browser
          /\ down' \subseteq Sources /\ pin' \in [Worker -> Node \cup {NoNode}]
          /\ avoid' \in [Worker -> Node \cup Entry \cup Endpoint \cup {NoNode}]
      BY <1>1, <3>1, <3>2, AcquiredStep
    <3> QED BY <1>1, <3>3 DEF s
  <2>3. exits' \in [ExitSlot -> Exit] /\ ExitsMove(r)
    BY <1>1, <1>2, <2>1, <2>2, SlotsStay
  <2>4. MarksTyped'
    BY <1>5, <2>2 DEF MarksTyped
  <2>5. Located(r)'
    BY <1>6, <2>2, LocatedFree
  <2>6. Unpooled(run'[r]) /\ GoesOn(r)
    BY <1>1, <2>2, Askers, PoolConstants DEF Unpooled, GoesOn
  <2> QED BY <1>4, <1>5, <1>6, <1>7, <1>8, <2>2, <2>3, <2>4, <2>5, <2>6, ExitStep
<1>10. CASE EntryLaunchFails(r)
  <2>1. AcquireFailed(r) /\ exits' = Remove(exits, {run[r].slot}, NoExit)
    BY <1>10 DEF EntryLaunchFails
  <2>2. /\ run' \in [Worker -> Run] /\ Others(r)
        /\ run'[r].pc = "close" /\ run'[r].out = "infra"
        /\ run'[r].slot = NoSlot /\ run'[r].browser = NoSlot
        /\ down' \subseteq Sources /\ pin' = pin /\ avoid' = avoid
    BY <1>1, <2>1, FailedStep
  <2>3. exits' \in [ExitSlot -> Exit] /\ ExitsMove(r)
    BY <1>1, <1>2, <2>1, <2>2, SlotDropped
  <2>4. MarksTyped'
    BY <1>1, <1>5, <2>2 DEF MarksTyped, TypeOK
  <2>5. Located(r)'
    BY <1>6, <2>2, LocatedFree
  <2>6. Unpooled(run'[r]) /\ GoesOn(r)
    BY <1>1, <2>2, PoolConstants DEF Unpooled, GoesOn
  <2> QED BY <1>4, <1>5, <1>6, <1>7, <1>8, <2>2, <2>3, <2>4, <2>5, <2>6, ExitStep
<1> QED BY <1>9, <1>10

\* An attempt without a proxy yet.
LEMMA ChooseSourceKeeps ==
  ASSUME Inv, NEW r \in Worker, ChooseSource(r) \/ NoEntry(r), UNCHANGED fixed
  PROVE  Inv'
<1> DEFINE wait(n) == run' = [run EXCEPT ![r].pc = "entry", ![r].node = n]
<1>1. /\ TypeOK /\ Located(r) /\ run[r] \in Run /\ run \in [Worker -> Run]
      /\ run[r].pc = "proxy" /\ r \notin uploading /\ lock # r
      /\ run[r].slot = NoSlot /\ run[r].browser = NoSlot
  BY DEF Inv, TypeOK, ChooseSource, NoEntry, At, Located
<1>2. Swept(exits)
  BY SweptExits
<1>3. UNCHANGED <<taskVars, exitVars, apiVars, browsers, uploading, asleep, cooling, lostVars, starts>>
  BY DEF ChooseSource, NoEntry
<1>4. \/ Goto(r, AfterProxy(r))
      \/ EndWith(r, CoolingDown(r))
      \/ Goto(r, "exit")
      \/ source(r) = "api" /\ Goto(r, "api")
      \/ source(r) = "account" /\ \E n \in Entry : wait(n)
      \/ AcquireFailed(r)
  BY Zenon DEF ChooseSource, NoEntry
<1>5. /\ (Fault \/ NoFault) /\ pin' \in [Worker -> Node \cup {NoNode}]
      /\ down' \subseteq Sources /\ avoid' = avoid
  <2>1. CASE ChooseSource(r)
    <3>1. Fault \/ NoFault
      BY <2>1 DEF ChooseSource
    <3>2. pin' = IF pin[r] # NoNode /\ pin[r] = avoid[r] THEN [pin EXCEPT ![r] = NoNode] ELSE pin
      BY <2>1 DEF ChooseSource
    <3>3. down' = down /\ avoid' = avoid
      BY <2>1 DEF ChooseSource
    <3> QED BY <1>1, <3>1, <3>2, <3>3 DEF TypeOK
  <2>2. CASE NoEntry(r)
    <3>1. Fault \/ NoFault
      BY <2>2 DEF NoEntry
    <3>2. AcquireFailed(r) \/ UNCHANGED <<down, pin, avoid>>
      BY <2>2 DEF NoEntry
    <3>3. AcquireFailed(r) => down' \subseteq Sources /\ pin' = pin /\ avoid' = avoid
      BY <1>1, FailedStep
    <3> QED BY <1>1, <3>1, <3>2, <3>3 DEF TypeOK
  <2> QED BY <2>1, <2>2
<1>6. MarksTyped' /\ SleepersTyped' /\ faults' \in Nat
  BY <1>1, <1>3, <1>5, FaultsTyped DEF MarksTyped, SleepersTyped, TypeOK
<1>7. /\ run' \in [Worker -> Run] /\ Others(r)
      /\ run'[r].slot = NoSlot /\ run'[r].browser = NoSlot
      /\ \/ run'[r].pc \in {"browser", "page", "credit", "exit"}
         \/ run'[r].pc = "close" /\ run'[r].out \in {"defer", "infra"}
         \/ run'[r].pc = "api" /\ source(r) = "api"
         \/ run'[r].pc = "entry" /\ source(r) = "account" /\ run'[r].node \in Entry
  <2>1. CASE Goto(r, AfterProxy(r))
    <3> DEFINE pc == AfterProxy(r)
    <3>1. pc \in {"browser", "page", "credit"}
      BY DEF AfterProxy
    <3>2. pc \in Place
      BY <3>1 DEF Place
    <3>3. Goto(r, pc)
      BY <2>1
    <3> HIDE DEF pc
    <3> QED BY <1>1, <3>1, <3>2, <3>3, GotoStep
  <2>2. CASE EndWith(r, CoolingDown(r))
    <3> DEFINE out == CoolingDown(r)
    <3>1. out \in {"defer", "infra"}
      BY DEF CoolingDown
    <3>2. out \in Outcome
      BY <3>1 DEF Outcome
    <3>3. EndWith(r, out)
      BY <2>2
    <3> HIDE DEF out
    <3> QED BY <1>1, <3>1, <3>2, <3>3, EndStep
  <2>3. CASE Goto(r, "exit")
    <3>1. "exit" \in Place
      BY DEF Place
    <3> QED BY <1>1, <2>3, <3>1, GotoStep
  <2>4. CASE source(r) = "api" /\ Goto(r, "api")
    <3>1. "api" \in Place
      BY DEF Place
    <3> QED BY <1>1, <2>4, <3>1, GotoStep
  <2>5. ASSUME source(r) = "account", NEW n \in Entry, wait(n)
        PROVE  /\ run' \in [Worker -> Run] /\ Others(r)
               /\ run'[r].slot = NoSlot /\ run'[r].browser = NoSlot
               /\ run'[r].pc = "entry" /\ run'[r].node \in Entry
    <3> DEFINE k == [run[r] EXCEPT !.pc = "entry", !.node = n]
    <3>1. run' = [run EXCEPT ![r] = k]
      BY <2>5, Zenon
    <3>2. k \in Run /\ k.pc = "entry" /\ k.slot = NoSlot /\ k.node = n /\ k.browser = NoSlot
      BY <1>1 DEF Run, Place
    <3> HIDE DEF k
    <3>3. run' \in [Worker -> Run] /\ Others(r) /\ run'[r] = k
      BY <1>1, <3>1, <3>2, RunStep
    <3> QED BY <3>2, <3>3
  <2>6. CASE AcquireFailed(r)
    BY <1>1, <2>6, FailedStep
  <2> HIDE DEF wait
  <2> QED BY <1>4, <2>1, <2>2, <2>3, <2>4, <2>5, <2>6
<1>8. exits' \in [ExitSlot -> Exit] /\ ExitsMove(r)
  BY <1>1, <1>2, <1>3, <1>7, SlotsStay DEF exitVars
<1>9. browsers' \in [BrowserSlot -> Browser] /\ Rekeyed
  BY <1>1, <1>3, Rekeys
<1>10. LockKept(r) /\ lock' \in Worker \cup {NoRunner} /\ lock' # r /\ r \notin uploading'
  BY <1>1, <1>3 DEF LockKept, exitVars, Vacant, Present, TypeOK
<1>11. Unpooled(run[r]) /\ Unpooled(run'[r]) /\ run[r].pc \in Asking \ {"fetch"} /\ GoesOn(r)
  <2>1. "api" \in Asking \ {"fetch"} /\ "proxy" \in Asking \ {"fetch"}
    BY Askers
  <2> QED BY <1>1, <1>7, <2>1, Askers, PoolConstants DEF Unpooled, GoesOn
<1>12. source(r)' = source(r)
  BY DEF fixed, source
<1>13. Located(r)'
  BY <1>7, <1>10, <1>12 DEF Located
<1>14. UNCHANGED <<fixed, taskVars, apiVars, uploading, lostVars, starts>>
  BY <1>3
<1> QED BY <1>6, <1>7, <1>8, <1>9, <1>10, <1>11, <1>13, <1>14, ExitStep

-----------------------------------------------------------------------------
(* The endpoints.                                                              *)

\* A step that changes endpoints, and what it has to show.
LEMMA ApiStep ==
  ASSUME Inv, NEW r \in Worker, run' \in [Worker -> Run], Others(r),
         UNCHANGED <<fixed, taskVars, exitVars, browsers, uploading, lostVars, starts>>,
         MarksTyped', faults' \in Nat, SleepersTyped',
         ApisTyped',
         run[r].slot = NoSlot, run[r].browser = NoSlot,
         run'[r].slot \notin ExitSlot, run'[r].browser = NoSlot,
         Fetches(r), ApisMove(r), Fetching(r), Located(r)'
  PROVE  Inv'
<1>0. /\ TypeOK /\ SlotsMadeWell /\ \A x \in Worker : Located(x) /\ Told(x)
      /\ ExitsHeld /\ ApisHeld /\ BrowsersHeld /\ FetchesCounted
  BY DEF Inv
<1>1. TypeOK'
  BY <1>0 DEF TypeOK, MarksTyped, SleepersTyped, ApisTyped, fixed, taskVars, exitVars, lostVars
<1>2. SlotsMadeWell'
  BY <1>0 DEF SlotsMadeWell, ApisMove, exitVars
<1>3. \A x \in Worker : Located(x)'
  <2>1. exits' = exits /\ lock' = lock /\ uploading' = uploading /\ Vacant(exits)' = Vacant(exits)
    BY DEF exitVars, Vacant, Present
  <2>2. UNCHANGED fixed /\ \A x \in Worker : Located(x)
    BY DEF Inv
  <2>3. \A x \in Worker \ {r} : Located(x)'
    BY <2>1, <2>2, OthersLocated
  <2> QED BY <2>3
<1>4. \A x \in Worker : Told(x)'
  <2>1. \A x \in Worker \ {r} : /\ run'[x].pc = run[x].pc /\ run'[x].out = run[x].out
                                /\ run'[x].answer = run[x].answer
    BY DEF Others
  <2>2. UNCHANGED <<fixed, taskVars>> /\ \A x \in Worker : Told(x)
    BY DEF Inv
  <2>3. run[r].pc \in Asking
    BY Askers DEF Fetches
  <2>4. \/ run'[r].pc \in Asking
        \/ run'[r].pc = "close" /\ run'[r].out \notin {"", "done", "submitted"}
    BY Askers DEF Fetches
  <2> QED BY <2>1, <2>2, <2>3, <2>4, NotSentYet
<1>5. /\ Held(r)' = run'[r].slot /\ Held(r) = run[r].slot
      /\ Held(r)' \notin ExitSlot /\ Held(r) \notin ExitSlot
      /\ Lent(r)' = NoSlot /\ Lent(r) = NoSlot /\ Closes(r)' = NoSlot /\ Closes(r) = NoSlot
  BY PoolConstants DEF Held, Lent, Closes
<1>6. \A x \in Worker \ {r} : /\ Held(x)' = Held(x) /\ Lent(x)' = Lent(x)
                              /\ Closes(x)' = Closes(x)
  BY DEF Held, Lent, Closes, Others
<1>7. /\ \A s \in ExitSlot : exits[s].active \in Nat
      /\ \A s \in ApiSlot : apis[s].active \in Nat
      /\ \A s \in BrowserSlot : browsers[s].active \in Nat /\ browsers[s].closing \in Nat
      /\ \A s \in ExitSlot \cup ApiSlot \cup BrowserSlot : lost[s] \in Nat /\ s # NoSlot
      /\ fetching \in Nat /\ lostFetch \in Nat
  BY <1>0, Numbers
<1>8. lost' = lost /\ lostFetch' = lostFetch /\ exits' = exits /\ browsers' = browsers
  BY DEF lostVars, exitVars
<1>9. \A s \in ExitSlot \cup ApiSlot \cup BrowserSlot : lost'[s] - lost[s] = 0
  <2> SUFFICES ASSUME NEW s \in ExitSlot \cup ApiSlot \cup BrowserSlot PROVE lost'[s] - lost[s] = 0
    OBVIOUS
  <2>1. lost[s] \in Nat /\ lost'[s] = lost[s]
    BY <1>7, <1>8
  <2> QED BY <2>1
<1>10. ExitsHeld'
  <2>1. ASSUME NEW s \in ExitSlot
        PROVE  /\ exits'[s].active = exits[s].active + (lost'[s] - lost[s])
                                       + One(Held(r)' = s) - One(Held(r) = s)
               /\ exits'[s].active > 0 => exits'[s].use # "free"
    <3>1. exits[s].active \in Nat /\ lost'[s] - lost[s] = 0 /\ exits'[s] = exits[s]
      BY <1>7, <1>8, <1>9
    <3>2. exits[s].active > 0 => exits[s].use # "free"
      BY <1>0 DEF ExitsHeld
    <3>3. One(Held(r)' = s) = 0 /\ One(Held(r) = s) = 0
      BY <1>5 DEF One
    <3> QED BY <3>1, <3>2, <3>3
  <2> QED BY <1>0, <1>1, <1>6, <2>1, ExitsKept
<1>11. ApisHeld'
  <2>1. ASSUME NEW s \in ApiSlot
        PROVE  /\ apis'[s].active = apis[s].active + (lost'[s] - lost[s])
                                      + One(Held(r)' = s) - One(Held(r) = s)
               /\ apis'[s].active > 0 => apis'[s].use # "free"
    <3>1. apis[s].active \in Nat /\ lost'[s] - lost[s] = 0
      BY <1>7, <1>9
    <3> QED BY <1>5, <3>1 DEF ApisMove
  <2> QED BY <1>0, <1>1, <1>6, <2>1, ApisKept
<1>12. BrowsersHeld'
  <2>1. ASSUME NEW s \in BrowserSlot
        PROVE  /\ browsers'[s].active = browsers[s].active + (lost'[s] - lost[s])
                                          + One(Lent(r)' = s) - One(Lent(r) = s)
               /\ browsers'[s].active > 0 => browsers'[s].use # "free"
               /\ browsers'[s].closing = browsers[s].closing + One(Closes(r)' = s) - One(Closes(r) = s)
    <3>1. /\ browsers[s].active \in Nat /\ browsers[s].closing \in Nat /\ browsers'[s] = browsers[s]
          /\ lost'[s] - lost[s] = 0
      BY <1>7, <1>8, <1>9
    <3>2. browsers[s].active > 0 => browsers[s].use # "free"
      BY <1>0 DEF BrowsersHeld
    <3>3. /\ One(Lent(r)' = s) = 0 /\ One(Lent(r) = s) = 0
          /\ One(Closes(r)' = s) = 0 /\ One(Closes(r) = s) = 0
      BY <1>5, <1>7 DEF One
    <3> QED BY <3>1, <3>2, <3>3
  <2> QED BY <1>0, <1>1, <1>6, <2>1, BrowsersKept
<1>13. FetchesCounted'
  <2>1. \A x \in Worker \ {r} : run'[x].pc = "fetch" <=> run[x].pc = "fetch"
    BY DEF Others
  <2>2. fetching' = fetching + (lostFetch' - lostFetch)
                      + One(run'[r].pc = "fetch") - One(run[r].pc = "fetch")
    BY <1>7, <1>8 DEF Fetching
  <2>3. Cardinality(Present(apis)') + fetching' <= Cardinality(ApiSlot)
    BY DEF Fetching
  <2> QED BY <1>0, <1>1, <2>1, <2>2, <2>3, FetchesKept
<1> QED BY <1>1, <1>2, <1>3, <1>4, <1>10, <1>11, <1>12, <1>13 DEF Inv

\* Dropping invalid endpoints without a lease keeps the counts.
LEMMA DropsInvalid ==
  ASSUME Inv
  PROVE  SweptApis(apis) /\ SweptApis(DropInvalid(apis))
<1>1. apis \in [ApiSlot -> Api] /\ \A s \in ApiSlot : ApiWell(apis[s])
  BY DEF Inv, TypeOK, SlotsMadeWell
<1>2. \A s \in ApiSlot : apis[s].active > 0 => apis[s].use # "free"
  BY DEF Inv, ApisHeld
<1>3. SweptApis(apis)
  BY <1>1, <1>2 DEF SweptApis
<1> DEFINE out == {s \in Present(apis) : apis[s].invalid /\ apis[s].active = 0}
           p == DropInvalid(apis)
<1>4. p = [s \in ApiSlot |-> IF s \in out THEN NoApi ELSE apis[s]]
  BY <1>1 DEF DropInvalid, Remove
<1>5. \A s \in out : apis[s].active = 0
  OBVIOUS
<1>6. NoApi \in Api /\ NoApi.active = 0 /\ NoApi.use = "free" /\ ApiWell(NoApi)
  BY PoolConstants DEF NoApi, Api, ApiWell
<1> HIDE DEF out, p
<1>7. ASSUME NEW s \in ApiSlot
      PROVE  /\ p[s] \in Api /\ p[s].active = apis[s].active /\ ApiWell(p[s])
             /\ p[s].active > 0 => p[s].use # "free"
             /\ p[s].use # "free" => apis[s].use # "free"
  <2>1. CASE s \in out
    <3>1. p[s] = NoApi
      BY <1>4, <2>1
    <3> QED BY <1>5, <1>6, <2>1, <3>1
  <2>2. CASE s \notin out
    <3>1. p[s] = apis[s]
      BY <1>4, <2>2
    <3> QED BY <1>1, <1>2, <3>1
  <2> QED BY <2>1, <2>2
<1>8. p \in [ApiSlot -> Api]
  BY <1>4, <1>7
<1>9. Present(p) \subseteq Present(apis)
  BY <1>1, <1>7, <1>8 DEF Present
<1>10. SweptApis(p)
  BY <1>7, <1>8, <1>9 DEF SweptApis
<1> QED BY <1>3, <1>10 DEF p

\* The slots in use are counted by a number.
LEMMA CountsPresent ==
  ASSUME Inv, NEW p, p \in [ApiSlot -> Api]
  PROVE  /\ IsFiniteSet(Present(p)) /\ Cardinality(Present(p)) \in Nat
         /\ Cardinality(ApiSlot) \in Nat /\ fetching \in Nat
         /\ Present(p) \subseteq Present(apis) => Cardinality(Present(p)) <= Cardinality(Present(apis))
         /\ Cardinality(Present(apis)) \in Nat
         /\ Cardinality(Present(apis)) + fetching <= Cardinality(ApiSlot)
<1>1. IsFiniteSet(ApiSlot)
  BY PoolConstants
<1>2. Present(p) \subseteq ApiSlot /\ Present(apis) \subseteq ApiSlot
  BY DEF Present, Inv, TypeOK
<1>3. IsFiniteSet(Present(p)) /\ IsFiniteSet(Present(apis))
  BY <1>1, <1>2, FS_Subset
<1>4. /\ Cardinality(Present(p)) \in Nat /\ Cardinality(Present(apis)) \in Nat
      /\ Cardinality(ApiSlot) \in Nat
  BY <1>1, <1>3, FS_CardinalityType
<1>5. Present(p) \subseteq Present(apis) => Cardinality(Present(p)) <= Cardinality(Present(apis))
  BY <1>3, FS_Subset
<1>6. fetching \in Nat /\ Cardinality(Present(apis)) + fetching <= Cardinality(ApiSlot)
  BY Numbers DEF Inv, FetchesCounted
<1> QED BY <1>3, <1>4, <1>5, <1>6

\* A fetch under way is counted, and one place of the pool is kept for it.
LEMMA FetchUnderWay ==
  ASSUME Inv, NEW r \in Worker, run[r].pc = "fetch"
  PROVE  fetching - 1 \in Nat
<1>1. r \in Fetchers /\ Fetchers \subseteq Worker
  BY DEF Fetchers, At
<1>2. IsFiniteSet(Fetchers)
  BY <1>1, AttemptConstants, FS_Subset
<1>3. Cardinality(Fetchers) \in Nat /\ Cardinality(Fetchers) # 0
  BY <1>1, <1>2, FS_CardinalityType, FS_EmptySet
<1>4. lostFetch \in Nat /\ fetching = Cardinality(Fetchers) + lostFetch
  BY Numbers DEF Inv, FetchesCounted
<1> QED BY <1>3, <1>4

\* The ways in which the endpoints change with what the runner holds.
LEMMA EndpointsStay ==
  ASSUME Inv, NEW r \in Worker, NEW p, SweptApis(p), apis' = p, run'[r].slot = run[r].slot
  PROVE  /\ apis' \in [ApiSlot -> Api] /\ ApisMove(r)
         /\ Cardinality(Present(apis)') \in Nat
         /\ Cardinality(Present(apis)') <= Cardinality(Present(apis))
<1>1. ASSUME NEW s \in ApiSlot
      PROVE  apis'[s].active = apis[s].active + One(run'[r].slot = s) - One(run[r].slot = s)
  <2>1. apis[s].active \in Nat /\ apis'[s].active = apis[s].active
    BY Numbers DEF SweptApis, Inv
  <2> QED BY <2>1 DEF One
<1>2. apis' \in [ApiSlot -> Api] /\ ApisMove(r)
  BY <1>1 DEF SweptApis, ApisMove
<1>3. Present(apis)' = Present(p) /\ p \in [ApiSlot -> Api] /\ Present(p) \subseteq Present(apis)
  BY DEF Present, SweptApis
<1> QED BY <1>2, <1>3, CountsPresent

\* One more context on an endpoint.
LEMMA EndpointLeased ==
  ASSUME Inv, NEW r \in Worker, NEW p, SweptApis(p), NEW s \in ApiSlot, p[s].use # "free",
         p[s].active < PerEndpoint, apis' = LeaseEndpoint(p, s),
         run[r].slot = NoSlot, run'[r].slot = s
  PROVE  /\ apis' \in [ApiSlot -> Api] /\ ApisMove(r)
         /\ Cardinality(Present(apis)') \in Nat
         /\ Cardinality(Present(apis)') <= Cardinality(Present(apis))
<1> DEFINE c == p[s].active + 1
           k == [p[s] EXCEPT !.active = c]
<1>1. \A t \in ApiSlot : apis[t].active \in Nat /\ t # NoSlot
  BY Numbers DEF Inv
<1>2. p[s] \in Api /\ p[s].active = apis[s].active /\ ApiWell(p[s]) /\ PerEndpoint \in Nat
  BY PoolConstants DEF SweptApis
<1>3. c \in 0..PerEndpoint /\ c = apis[s].active + 1
  BY <1>1, <1>2
<1>4. apis' = [p EXCEPT ![s] = k]
  BY Zenon DEF LeaseEndpoint
<1> HIDE DEF c
<1>5. k \in Api /\ k.active = c /\ k.use = p[s].use /\ ApiWell(k)
  BY <1>2, <1>3 DEF Api, ApiWell
<1> HIDE DEF k
<1>6. apis' \in [ApiSlot -> Api] /\ apis'[s] = k /\ \A t \in ApiSlot \ {s} : apis'[t] = p[t]
  BY <1>4, <1>5 DEF SweptApis
<1>7. ASSUME NEW t \in ApiSlot
      PROVE  /\ apis'[t].active = apis[t].active + One(run'[r].slot = t) - One(run[r].slot = t)
             /\ apis'[t].active > 0 => apis'[t].use # "free"
             /\ ApiWell(apis'[t])
  <2>1. CASE t = s
    <3>1. One(run'[r].slot = t) = 1 /\ One(run[r].slot = t) = 0
      BY <1>1, <2>1 DEF One
    <3> QED BY <1>1, <1>3, <1>5, <1>6, <2>1, <3>1
  <2>2. CASE t # s
    <3>1. One(run'[r].slot = t) = 0 /\ One(run[r].slot = t) = 0
      BY <1>1, <2>2 DEF One
    <3>2. apis'[t] = p[t] /\ apis[t].active \in Nat
      BY <1>1, <1>6, <2>2
    <3> QED BY <3>1, <3>2 DEF SweptApis
  <2> QED BY <2>1, <2>2
<1>8. Present(apis)' = Present(p)
  <2>1. ASSUME NEW t \in ApiSlot PROVE apis'[t].use # "free" <=> p[t].use # "free"
    BY <1>5, <1>6
  <2>2. DOMAIN apis' = ApiSlot /\ DOMAIN p = ApiSlot
    BY <1>6 DEF SweptApis
  <2> QED BY <2>1, <2>2 DEF Present
<1>9. p \in [ApiSlot -> Api] /\ Present(p) \subseteq Present(apis)
  BY DEF SweptApis
<1> QED BY <1>6, <1>7, <1>8, <1>9, CountsPresent DEF ApisMove

\* A fetched endpoint takes the place kept for it.
LEMMA EndpointAdded ==
  ASSUME Inv, NEW r \in Worker, NEW s \in Vacant(apis), NEW n \in Endpoint,
         apis' = AddEndpoint(apis, s, n), run[r].slot = NoSlot, run'[r].slot = s
  PROVE  /\ s \in ApiSlot /\ apis' \in [ApiSlot -> Api] /\ ApisMove(r)
         /\ Cardinality(Present(apis)') \in Nat
         /\ Cardinality(Present(apis)') <= Cardinality(Present(apis)) + 1
<1> DEFINE a == [NoApi EXCEPT !.use = "api", !.node = n]
           k == [a EXCEPT !.active = 1]
<1>1. \A t \in ApiSlot : apis[t].active \in Nat /\ t # NoSlot
  BY Numbers DEF Inv
<1>2. SweptApis(apis)
  BY DropsInvalid
<1>3. s \in ApiSlot /\ apis[s].use = "free"
  BY <1>2 DEF Vacant, Present, SweptApis
<1>4. apis[s].active = 0
  BY <1>1, <1>2, <1>3 DEF SweptApis
<1>5. a \in Api /\ a.use = "api" /\ a.node = n /\ 1 \in 0..PerEndpoint
  <2>1. PerEndpoint \in Nat \ {0}
    BY PoolConstants
  <2>2. 0 \in 0..PerEndpoint /\ 1 \in 0..PerEndpoint
    BY <2>1
  <2>3. NoApi \in Api
    BY PoolConstants DEF NoApi, Api
  <2>4. a \in Api /\ a.use = "api" /\ a.node = n
    BY <2>3 DEF Api
  <2> QED BY <2>2, <2>4
<1>6. apis' = [apis EXCEPT ![s] = k]
  BY DEF AddEndpoint
<1> HIDE DEF a
<1>7. k \in Api /\ k.active = 1 /\ k.use = "api" /\ ApiWell(k)
  BY <1>5 DEF Api, ApiWell
<1> HIDE DEF k
<1>8. apis' \in [ApiSlot -> Api] /\ apis'[s] = k /\ \A t \in ApiSlot \ {s} : apis'[t] = apis[t]
  BY <1>2, <1>3, <1>6, <1>7 DEF SweptApis
<1>9. ASSUME NEW t \in ApiSlot
      PROVE  /\ apis'[t].active = apis[t].active + One(run'[r].slot = t) - One(run[r].slot = t)
             /\ apis'[t].active > 0 => apis'[t].use # "free"
             /\ ApiWell(apis'[t])
  <2>1. CASE t = s
    <3>1. One(run'[r].slot = t) = 1 /\ One(run[r].slot = t) = 0
      BY <1>1, <2>1 DEF One
    <3> QED BY <1>4, <1>7, <1>8, <2>1, <3>1
  <2>2. CASE t # s
    <3>1. One(run'[r].slot = t) = 0 /\ One(run[r].slot = t) = 0
      BY <1>1, <2>2 DEF One
    <3>2. apis'[t] = apis[t] /\ apis[t].active \in Nat
      BY <1>1, <1>8, <2>2
    <3> QED BY <1>2, <3>1, <3>2 DEF SweptApis
  <2> QED BY <2>1, <2>2
<1>10. Present(apis)' = Present(apis) \cup {s} /\ s \notin Present(apis)
  <2>1. ASSUME NEW t \in ApiSlot PROVE apis'[t].use # "free" <=> (apis[t].use # "free" \/ t = s)
    BY <1>7, <1>8
  <2>2. DOMAIN apis' = ApiSlot /\ DOMAIN apis = ApiSlot
    BY <1>2, <1>8 DEF SweptApis
  <2> QED BY <1>3, <2>1, <2>2 DEF Present
<1>11. /\ IsFiniteSet(Present(apis)) /\ Cardinality(Present(apis)) \in Nat
  BY <1>2, CountsPresent DEF SweptApis
<1>12. Cardinality(Present(apis)') = Cardinality(Present(apis)) + 1
  BY <1>10, <1>11, FS_AddElement, ZenonT(40)
<1> QED BY <1>3, <1>8, <1>9, <1>11, <1>12 DEF ApisMove

\* A runner takes an endpoint, fetches one or sleeps.
LEMMA ScanApisKeeps ==
  ASSUME Inv, NEW r \in Worker, ScanApis(r), UNCHANGED fixed
  PROVE  Inv'
<1> DEFINE p == DropInvalid(apis)
           candidates == Candidates(p, Excluded(r))
           room == Cardinality(Present(p)) + fetching < Cardinality(ApiSlot) /\ fetching < MaxFetches
           known == {p[s].node : s \in Present(p)}
           take(s) == apis' = LeaseEndpoint(p, s) /\ Acquired(r, s, p[s].node) /\ UNCHANGED <<fetching, asleep>>
           fetch == /\ apis' = p /\ fetching' = fetching + 1
                    /\ run' = [run EXCEPT ![r].pc = "fetch", ![r].tried = known]
                    /\ UNCHANGED <<asleep, down, pin, avoid>>
           sleep == /\ apis' = p /\ asleep' = Sleep(r, "api")
                    /\ UNCHANGED <<run, fetching, down, pin, avoid>>
<1>1. /\ TypeOK /\ Located(r) /\ run[r] \in Run /\ run \in [Worker -> Run]
      /\ run[r].pc = "api" /\ r \notin uploading /\ lock # r /\ source(r) = "api"
      /\ run[r].slot = NoSlot /\ run[r].browser = NoSlot
  BY DEF Inv, TypeOK, ScanApis, At, Located
<1>2. SweptApis(p)
  BY DropsInvalid
<1>3. /\ UNCHANGED <<taskVars, exitVars, backoff, browsers, uploading, cooling, lostVars, starts, faults>>
      /\ \/ \E s \in LeastActive(p, candidates) : take(s)
         \/ Cardinality(Present(p)) + fetching < Cardinality(ApiSlot) /\ fetch
         \/ sleep
  BY Zenon DEF ScanApis
<1>4. \A s \in LeastActive(p, candidates) :
        /\ s \in ApiSlot /\ p[s].use # "free" /\ p[s].active < PerEndpoint /\ p[s].node \in Endpoint
  <2> SUFFICES ASSUME NEW s \in LeastActive(p, candidates)
               PROVE  /\ s \in ApiSlot /\ p[s].use # "free" /\ p[s].active < PerEndpoint
                      /\ p[s].node \in Endpoint
    OBVIOUS
  <2>1. s \in ApiSlot /\ p[s].use # "free" /\ p[s].active < PerEndpoint
    BY <1>2 DEF LeastActive, Candidates, Free, Present, SweptApis
  <2>2. p[s] \in Api /\ ApiWell(p[s])
    BY <1>2, <2>1 DEF SweptApis
  <2>3. p[s].use = "api"
    BY <2>1, <2>2 DEF Api
  <2> QED BY <2>1, <2>2, <2>3 DEF ApiWell
<1>5. known \subseteq Endpoint
  <2> SUFFICES ASSUME NEW s \in Present(p) PROVE p[s].node \in Endpoint
    OBVIOUS
  <2>1. s \in ApiSlot /\ p[s].use # "free" /\ p[s] \in Api /\ ApiWell(p[s])
    BY <1>2 DEF Present, SweptApis
  <2>2. p[s].use = "api"
    BY <2>1 DEF Api
  <2> QED BY <2>1, <2>2 DEF ApiWell
<1>6. /\ Cardinality(Present(p)) \in Nat /\ Cardinality(ApiSlot) \in Nat /\ fetching \in Nat
      /\ Cardinality(Present(apis)) \in Nat
      /\ Cardinality(Present(apis)) + fetching <= Cardinality(ApiSlot)
  BY <1>2, CountsPresent DEF SweptApis
<1> HIDE DEF p, candidates, known
<1>7. UNCHANGED <<fixed, taskVars, exitVars, browsers, uploading, lostVars, starts>>
  BY <1>3
<1>8. /\ cooling' \subseteq Node \cup Entry /\ faults' \in Nat /\ backoff' \in BOOLEAN
      /\ lock' # r /\ r \notin uploading' /\ source(r)' = "api"
  BY <1>1, <1>3 DEF TypeOK, exitVars, fixed, source
<1>9. NoSlot \notin ApiSlot /\ NoSlot \notin ExitSlot /\ ExitSlot \cap ApiSlot = {}
  BY PoolConstants
<1>10. ASSUME NEW s \in LeastActive(p, candidates), take(s) PROVE Inv'
  <2>1. s \in ApiSlot /\ p[s].use # "free" /\ p[s].active < PerEndpoint /\ p[s].node \in Endpoint
    BY <1>4
  <2>2. /\ run' \in [Worker -> Run] /\ Others(r)
        /\ run'[r].pc \in {"browser", "page", "credit"}
        /\ run'[r].slot = s /\ run'[r].browser = NoSlot
        /\ down' \subseteq Sources /\ pin' \in [Worker -> Node \cup {NoNode}]
        /\ avoid' \in [Worker -> Node \cup Entry \cup Endpoint \cup {NoNode}]
    BY <1>1, <1>10, <2>1, AcquiredStep
  <2>3. /\ apis' \in [ApiSlot -> Api] /\ ApisMove(r)
        /\ Cardinality(Present(apis)') \in Nat
        /\ Cardinality(Present(apis)') <= Cardinality(Present(apis))
    BY <1>1, <1>2, <1>10, <2>1, <2>2, EndpointLeased
  <2>4. fetching' = fetching /\ asleep' = asleep
    BY <1>10
  <2>5. MarksTyped' /\ SleepersTyped' /\ ApisTyped'
    BY <1>1, <1>6, <1>8, <2>2, <2>3, <2>4 DEF MarksTyped, SleepersTyped, ApisTyped, TypeOK
  <2>6. Fetches(r) /\ Located(r)'
    BY <1>1, <1>8, <2>2, LocatedFree DEF Fetches
  <2>7. One(run'[r].pc = "fetch") = 0 /\ One(run[r].pc = "fetch") = 0
    BY <1>1, <2>2 DEF One
  <2>8. Fetching(r)
    BY <1>6, <2>3, <2>4, <2>7 DEF Fetching
  <2> HIDE DEF take
  <2> QED BY <1>1, <1>7, <1>8, <1>9, <2>1, <2>2, <2>3, <2>5, <2>6, <2>8, ApiStep
<1>11. ASSUME Cardinality(Present(p)) + fetching < Cardinality(ApiSlot), fetch PROVE Inv'
  <2> DEFINE k == [run[r] EXCEPT !.pc = "fetch", !.tried = known]
  <2>1. run' = [run EXCEPT ![r] = k]
    BY <1>11, Zenon
  <2>2. k \in Run /\ k.pc = "fetch" /\ k.slot = NoSlot /\ k.browser = NoSlot
    <3>1. known \in SUBSET (Node \cup Endpoint)
      BY <1>5
    <3> QED BY <1>1, <3>1 DEF Run, Place
  <2> HIDE DEF k
  <2>3. run' \in [Worker -> Run] /\ Others(r) /\ run'[r] = k
    BY <1>1, <2>1, <2>2, RunStep
  <2>4. apis' = p /\ fetching' = fetching + 1
    BY <1>11
  <2>5. /\ apis' \in [ApiSlot -> Api] /\ ApisMove(r)
        /\ Cardinality(Present(apis)') = Cardinality(Present(p))
    <3>1. Present(apis)' = Present(p)
      BY <2>4 DEF Present
    <3> QED BY <1>1, <1>2, <2>2, <2>3, <2>4, <3>1, EndpointsStay
  <2>6. MarksTyped' /\ SleepersTyped' /\ ApisTyped'
    <3>1. fetching' \in Nat
      BY <1>6, <2>4
    <3> QED BY <1>1, <1>8, <1>11, <2>5, <3>1 DEF MarksTyped, SleepersTyped, ApisTyped, TypeOK
  <2>7. Fetches(r) /\ Located(r)'
    BY <1>1, <1>8, <2>2, <2>3 DEF Fetches, Located
  <2>8. One(run'[r].pc = "fetch") = 1 /\ One(run[r].pc = "fetch") = 0
    BY <1>1, <2>2, <2>3 DEF One
  <2>9. Fetching(r)
    BY <1>6, <1>11, <2>4, <2>5, <2>8 DEF Fetching
  <2> HIDE DEF fetch
  <2> QED BY <1>1, <1>7, <1>8, <1>9, <2>2, <2>3, <2>5, <2>6, <2>7, <2>9, ApiStep
<1>12. ASSUME sleep PROVE Inv'
  <2>1. run' = run /\ run' \in [Worker -> Run] /\ Others(r)
    BY <1>1, <1>12 DEF Others
  <2>2. apis' = p /\ fetching' = fetching
    BY <1>12
  <2>3. /\ apis' \in [ApiSlot -> Api] /\ ApisMove(r)
        /\ Cardinality(Present(apis)') \in Nat
        /\ Cardinality(Present(apis)') <= Cardinality(Present(apis))
    BY <1>2, <2>1, <2>2, EndpointsStay
  <2>4. MarksTyped' /\ SleepersTyped' /\ ApisTyped'
    BY <1>1, <1>6, <1>8, <1>12, <2>3, Sleepers DEF MarksTyped, SleepersTyped, ApisTyped, TypeOK, Pool
  <2>5. Fetches(r) /\ Located(r)'
    BY <1>1, <1>8, <2>1 DEF Fetches, Located
  <2>6. One(run'[r].pc = "fetch") = 0 /\ One(run[r].pc = "fetch") = 0
    BY <1>1, <2>1 DEF One
  <2>7. Fetching(r)
    BY <1>6, <2>2, <2>3, <2>6 DEF Fetching
  <2> HIDE DEF sleep
  <2> QED BY <1>1, <1>7, <1>8, <1>9, <2>1, <2>3, <2>4, <2>5, <2>7, ApiStep
<1> HIDE DEF take, fetch, sleep
<1> QED BY <1>3, <1>10, <1>11, <1>12

\* A fetch ends: with a new endpoint, with one that came meanwhile, or with none.
LEMMA FetchedKeeps ==
  ASSUME Inv, NEW r \in Worker, Fetched(r) \/ FetchFails(r), UNCHANGED fixed
  PROVE  Inv'
<1> DEFINE add(s, n) == apis' = AddEndpoint(apis, s, n) /\ Acquired(r, s, n)
           twins(n) == {s \in Present(apis) : apis[s].node = n /\ ~apis[s].invalid}
           take(s, n) == apis' = LeaseEndpoint(apis, s) /\ Acquired(r, s, n)
           again == Goto(r, "api") /\ UNCHANGED <<apis, backoff, down, pin, avoid>>
           fail == EndWith(r, CoolingDown(r)) /\ UNCHANGED <<apis, marks>>
<1>1. /\ TypeOK /\ Located(r) /\ run[r] \in Run /\ run \in [Worker -> Run]
      /\ run[r].pc = "fetch" /\ r \notin uploading /\ lock # r /\ source(r) = "api"
      /\ run[r].slot = NoSlot /\ run[r].browser = NoSlot
  BY DEF Inv, TypeOK, Fetched, FetchFails, At, Located
<1>2. /\ UNCHANGED <<taskVars, exitVars, browsers, uploading, lostVars, starts>>
      /\ fetching' = fetching - 1 /\ asleep' = Wake("api") /\ (Fault \/ NoFault)
      /\ cooling' = cooling /\ backoff' \in BOOLEAN
  <2>1. CASE Fetched(r)
    <3>1. backoff' \in {FALSE, backoff}
      BY <2>1, Zenon DEF Fetched
    <3> QED BY <1>1, <2>1, <3>1 DEF Fetched, NoFault, TypeOK
  <2>2. CASE FetchFails(r)
    BY <2>2 DEF FetchFails, marks
  <2> QED BY <2>1, <2>2
<1>3. \/ \E n \in Endpoint, s \in Vacant(apis) : add(s, n)
      \/ \E n \in Endpoint : \E s \in twins(n) : apis[s].active < PerEndpoint /\ take(s, n)
      \/ again
      \/ fail
  <2>1. CASE Fetched(r)
    <3>1. PICK n \in Endpoint :
            \/ \E s \in Vacant(apis) : add(s, n)
            \/ \E s \in twins(n) : IF apis[s].active < PerEndpoint THEN take(s, n) ELSE again
      BY <2>1, Zenon DEF Fetched
    <3> HIDE DEF add, twins, take, again
    <3> QED BY <3>1
  <2>2. CASE FetchFails(r)
    BY <2>2 DEF FetchFails
  <2> QED BY <2>1, <2>2
<1>4. /\ Cardinality(Present(apis)) \in Nat /\ Cardinality(ApiSlot) \in Nat /\ fetching \in Nat
      /\ Cardinality(Present(apis)) + fetching <= Cardinality(ApiSlot)
      /\ fetching - 1 \in Nat /\ SweptApis(apis)
  BY <1>1, DropsInvalid, CountsPresent, FetchUnderWay DEF SweptApis
<1>5. UNCHANGED <<fixed, taskVars, exitVars, browsers, uploading, lostVars, starts>>
  BY <1>2
<1>6. /\ cooling' \subseteq Node \cup Entry /\ faults' \in Nat /\ SleepersTyped' /\ fetching' \in Nat
      /\ lock' # r /\ r \notin uploading' /\ source(r)' = "api"
  <2>1. fetching' \in Nat
    BY <1>2, <1>4
  <2> QED BY <1>1, <1>2, <2>1, FaultsTyped, Sleepers DEF TypeOK, SleepersTyped, Pool, exitVars, fixed, source
<1>7. NoSlot \notin ApiSlot /\ NoSlot \notin ExitSlot /\ ExitSlot \cap ApiSlot = {}
  BY PoolConstants
<1>8. One(run[r].pc = "fetch") = 1
  BY <1>1 DEF One
<1>9. ASSUME NEW s \in ApiSlot, NEW n \in Endpoint, Acquired(r, s, n), apis' \in [ApiSlot -> Api],
             run'[r].slot = s => ApisMove(r) /\ Cardinality(Present(apis)') \in Nat
                                   /\ Cardinality(Present(apis)') <= Cardinality(Present(apis)) + 1
      PROVE  Inv'
  <2>1. /\ run' \in [Worker -> Run] /\ Others(r)
        /\ run'[r].pc \in {"browser", "page", "credit"}
        /\ run'[r].slot = s /\ run'[r].browser = NoSlot
        /\ down' \subseteq Sources /\ pin' \in [Worker -> Node \cup {NoNode}]
        /\ avoid' \in [Worker -> Node \cup Entry \cup Endpoint \cup {NoNode}]
    BY <1>1, <1>9, AcquiredStep
  <2>2. MarksTyped' /\ ApisTyped'
    BY <1>2, <1>6, <1>9, <2>1 DEF MarksTyped, ApisTyped
  <2>3. Fetches(r) /\ Located(r)'
    BY <1>1, <1>6, <2>1, LocatedFree DEF Fetches
  <2>4. One(run'[r].pc = "fetch") = 0
    BY <2>1 DEF One
  <2>5. ApisMove(r) /\ Cardinality(Present(apis)') \in Nat
        /\ Cardinality(Present(apis)') <= Cardinality(Present(apis)) + 1
    BY <1>9, <2>1
  <2>6. Fetching(r)
    BY <1>2, <1>4, <1>8, <2>4, <2>5 DEF Fetching
  <2> QED BY <1>1, <1>5, <1>6, <1>7, <2>1, <2>2, <2>3, <2>5, <2>6, ApiStep
<1>10. ASSUME NEW n \in Endpoint, NEW s \in Vacant(apis), add(s, n) PROVE Inv'
  <2>1. s \in ApiSlot
    BY <1>4 DEF Vacant, SweptApis
  <2>2. apis' = AddEndpoint(apis, s, n) /\ Acquired(r, s, n)
    BY <1>10
  <2>3. run'[r].slot = s
    BY <1>1, <2>1, <2>2, AcquiredStep
  <2>4. /\ apis' \in [ApiSlot -> Api] /\ ApisMove(r)
        /\ Cardinality(Present(apis)') \in Nat
        /\ Cardinality(Present(apis)') <= Cardinality(Present(apis)) + 1
    BY <1>1, <2>2, <2>3, EndpointAdded
  <2> QED BY <1>9, <2>1, <2>2, <2>4
<1>11. ASSUME NEW n \in Endpoint, NEW s \in twins(n), apis[s].active < PerEndpoint, take(s, n)
       PROVE  Inv'
  <2>1. s \in ApiSlot /\ apis[s].use # "free"
    BY <1>4 DEF Present, SweptApis
  <2>2. apis' = LeaseEndpoint(apis, s) /\ Acquired(r, s, n)
    BY <1>11
  <2>3. run'[r].slot = s
    BY <1>1, <2>1, <2>2, AcquiredStep
  <2>4. /\ apis' \in [ApiSlot -> Api] /\ ApisMove(r)
        /\ Cardinality(Present(apis)') \in Nat
        /\ Cardinality(Present(apis)') <= Cardinality(Present(apis))
    BY <1>1, <1>4, <1>11, <2>1, <2>2, <2>3, EndpointLeased
  <2>5. Cardinality(Present(apis)') <= Cardinality(Present(apis)) + 1
    BY <1>4, <2>4
  <2> QED BY <1>9, <2>1, <2>2, <2>4, <2>5
<1>12. ASSUME again \/ fail PROVE Inv'
  <2>1. /\ run' \in [Worker -> Run] /\ Others(r)
        /\ run'[r].slot = NoSlot /\ run'[r].browser = NoSlot
        /\ \/ run'[r].pc = "api"
           \/ run'[r].pc = "close" /\ run'[r].out \in {"defer", "infra"}
    <3>1. CASE again
      <4>1. "api" \in Place /\ Goto(r, "api")
        BY <3>1 DEF Place
      <4> QED BY <1>1, <4>1, GotoStep
    <3>2. CASE fail
      <4> DEFINE out == CoolingDown(r)
      <4>1. out \in {"defer", "infra"}
        BY DEF CoolingDown
      <4>2. EndWith(r, out) /\ out \in Outcome
        BY <3>2, <4>1 DEF Outcome
      <4> HIDE DEF out
      <4> QED BY <1>1, <4>1, <4>2, EndStep
    <3> QED BY <1>12, <3>1, <3>2
  <2>2. apis' = apis /\ UNCHANGED <<down, pin, avoid>>
    BY <1>12 DEF marks
  <2>3. /\ apis' \in [ApiSlot -> Api] /\ ApisMove(r)
        /\ Cardinality(Present(apis)') \in Nat
        /\ Cardinality(Present(apis)') <= Cardinality(Present(apis))
    BY <1>1, <1>4, <2>1, <2>2, EndpointsStay
  <2>4. MarksTyped' /\ ApisTyped'
    BY <1>1, <1>2, <1>6, <2>2, <2>3 DEF MarksTyped, ApisTyped, TypeOK
  <2>5. Fetches(r) /\ Located(r)'
    BY <1>1, <1>6, <2>1 DEF Fetches, Located
  <2>6. One(run'[r].pc = "fetch") = 0
    BY <2>1 DEF One
  <2>7. Fetching(r)
    BY <1>2, <1>4, <1>8, <2>3, <2>6 DEF Fetching
  <2> HIDE DEF again, fail
  <2> QED BY <1>1, <1>5, <1>6, <1>7, <2>1, <2>3, <2>4, <2>5, <2>7, ApiStep
<1> HIDE DEF add, twins, take, again, fail
<1> QED BY <1>3, <1>10, <1>11, <1>12

-----------------------------------------------------------------------------
(* Any step of one runner.                                                     *)

\* A step of one runner in general, and what it has to show.
LEMMA RunnerStep ==
  ASSUME Inv, NEW r \in Worker, TypeOK', SlotsMadeWell', Others(r), UNCHANGED fixed,
         LockKept(r), UploadsKept(r), Located(r)', \A x \in Worker : Told(x)',
         CountsExits(r), CountsApis(r), CountsBrowsers(r), CountsFetches(r)
  PROVE  Inv'
<1>0. /\ TypeOK /\ \A x \in Worker : Located(x)
      /\ ExitsHeld /\ ApisHeld /\ BrowsersHeld /\ FetchesCounted
  BY DEF Inv
<1>1. \A x \in Worker : Located(x)'
  <2>1. \A x \in Worker \ {r} :
          /\ lock' = x <=> lock = x
          /\ lock = x /\ Vacant(exits) # {} => Vacant(exits)' # {}
          /\ x \in uploading' => x \in uploading
    BY DEF LockKept, UploadsKept
  <2>2. \A x \in Worker \ {r} : Located(x)'
    BY <1>0, <2>1, OthersLocated
  <2> QED BY <2>2
<1>2. \A x \in Worker \ {r} : /\ Held(x)' = Held(x) /\ Lent(x)' = Lent(x)
                              /\ Closes(x)' = Closes(x)
  BY DEF Held, Lent, Closes, Others
<1>3. ExitsHeld'
  <2>1. \A s \in ExitSlot :
          /\ exits'[s].active
               = exits[s].active + (lost'[s] - lost[s]) + One(Held(r)' = s) - One(Held(r) = s)
          /\ exits'[s].active > 0 => exits'[s].use # "free"
    BY Zenon DEF CountsExits
  <2> QED BY <1>0, <1>2, <2>1, ExitsKept
<1>4. ApisHeld'
  <2>1. \A s \in ApiSlot :
          /\ apis'[s].active
               = apis[s].active + (lost'[s] - lost[s]) + One(Held(r)' = s) - One(Held(r) = s)
          /\ apis'[s].active > 0 => apis'[s].use # "free"
    BY Zenon DEF CountsApis
  <2> QED BY <1>0, <1>2, <2>1, ApisKept
<1>5. BrowsersHeld'
  <2>1. \A s \in BrowserSlot :
          /\ browsers'[s].active
               = browsers[s].active + (lost'[s] - lost[s]) + One(Lent(r)' = s) - One(Lent(r) = s)
          /\ browsers'[s].active > 0 => browsers'[s].use # "free"
          /\ browsers'[s].closing = browsers[s].closing + One(Closes(r)' = s) - One(Closes(r) = s)
    BY Zenon DEF CountsBrowsers
  <2> QED BY <1>0, <1>2, <2>1, BrowsersKept
<1>6. FetchesCounted'
  <2>1. \A x \in Worker \ {r} : run'[x].pc = "fetch" <=> run[x].pc = "fetch"
    BY DEF Others
  <2>2. /\ fetching' = fetching + (lostFetch' - lostFetch)
                         + One(run'[r].pc = "fetch") - One(run[r].pc = "fetch")
        /\ Cardinality(Present(apis)') + fetching' <= Cardinality(ApiSlot)
    BY DEF CountsFetches
  <2> QED BY <1>0, <2>1, <2>2, FetchesKept
<1> QED BY <1>1, <1>3, <1>4, <1>5, <1>6 DEF Inv

\* A pool the step leaves alone.
LEMMA ExitsStand ==
  ASSUME Inv, NEW r \in Worker, exits' = exits,
         \A s \in ExitSlot : lost'[s] = lost[s], Held(r)' = Held(r)
  PROVE  CountsExits(r) /\ \A s \in ExitSlot : ExitWell(exits'[s])
<1>1. ASSUME NEW s \in ExitSlot
      PROVE  exits'[s].active = exits[s].active + (lost'[s] - lost[s]) + One(Held(r)' = s) - One(Held(r) = s)
  <2>1. exits[s].active \in Nat /\ exits'[s].active = exits[s].active /\ lost[s] \in Nat /\ lost'[s] = lost[s]
    BY Numbers DEF Inv
  <2>2. One(Held(r)' = s) = One(Held(r) = s) /\ One(Held(r) = s) \in {0, 1}
    BY DEF One
  <2> QED BY <2>1, <2>2
<1>2. \A s \in ExitSlot : exits[s].active > 0 => exits[s].use # "free"
  BY DEF Inv, ExitsHeld
<1> QED BY <1>1, <1>2 DEF CountsExits, Inv, SlotsMadeWell

\* The endpoints when only their marks change.
LEMMA ApisStand ==
  ASSUME Inv, NEW r \in Worker, Marked(apis'),
         \A s \in ApiSlot : lost'[s] = lost[s], Held(r)' = Held(r)
  PROVE  /\ CountsApis(r) /\ \A s \in ApiSlot : ApiWell(apis'[s])
         /\ Present(apis)' = Present(apis)
<1>1. ASSUME NEW s \in ApiSlot
      PROVE  apis'[s].active = apis[s].active + (lost'[s] - lost[s]) + One(Held(r)' = s) - One(Held(r) = s)
  <2>1. apis[s].active \in Nat /\ apis'[s].active = apis[s].active /\ lost[s] \in Nat /\ lost'[s] = lost[s]
    BY Numbers DEF Inv, Marked
  <2>2. One(Held(r)' = s) = One(Held(r) = s) /\ One(Held(r) = s) \in {0, 1}
    BY DEF One
  <2> QED BY <2>1, <2>2
<1>2. \A s \in ApiSlot : apis[s].active > 0 => apis[s].use # "free"
  BY DEF Inv, ApisHeld
<1>3. \A s \in ApiSlot : ApiWell(apis'[s])
  BY DEF Inv, SlotsMadeWell, Marked, ApiWell
<1>4. Present(apis)' = Present(apis)
  BY DEF Present, Marked, Inv, TypeOK
<1> QED BY <1>1, <1>2, <1>3, <1>4 DEF CountsApis, Marked

\* The browsers when they do not change.
LEMMA BrowsersStand ==
  ASSUME Inv, NEW r \in Worker, browsers' = browsers,
         \A s \in BrowserSlot : lost'[s] = lost[s], Lent(r)' = Lent(r), Closes(r)' = Closes(r)
  PROVE  CountsBrowsers(r) /\ \A s \in BrowserSlot : BrowserWell(browsers'[s])
<1>1. ASSUME NEW s \in BrowserSlot
      PROVE  /\ browsers'[s].active
                  = browsers[s].active + (lost'[s] - lost[s]) + One(Lent(r)' = s) - One(Lent(r) = s)
             /\ browsers'[s].closing = browsers[s].closing + One(Closes(r)' = s) - One(Closes(r) = s)
  <2>1. /\ browsers[s].active \in Nat /\ browsers[s].closing \in Nat /\ browsers'[s] = browsers[s]
        /\ lost[s] \in Nat /\ lost'[s] = lost[s]
    BY Numbers DEF Inv
  <2>2. /\ One(Lent(r)' = s) = One(Lent(r) = s) /\ One(Lent(r) = s) \in {0, 1}
        /\ One(Closes(r)' = s) = One(Closes(r) = s) /\ One(Closes(r) = s) \in {0, 1}
    BY DEF One
  <2> QED BY <2>1, <2>2
<1>2. \A s \in BrowserSlot : browsers[s].active > 0 => browsers[s].use # "free"
  BY DEF Inv, BrowsersHeld
<1> QED BY <1>1, <1>2 DEF CountsBrowsers, Inv, SlotsMadeWell

\* The fetches when the runner was not fetching.
LEMMA FetchesStand ==
  ASSUME Inv, NEW r \in Worker, Present(apis)' = Present(apis), UNCHANGED <<fetching, lostFetch>>,
         run'[r].pc # "fetch", run[r].pc # "fetch"
  PROVE  CountsFetches(r)
<1>1. One(run'[r].pc = "fetch") = 0 /\ One(run[r].pc = "fetch") = 0
  BY DEF One
<1>2. fetching \in Nat /\ lostFetch \in Nat /\ fetching' = fetching /\ lostFetch' = lostFetch
  BY Numbers DEF Inv
<1>3. Cardinality(Present(apis)') + fetching' <= Cardinality(ApiSlot)
  BY <1>2 DEF Inv, FetchesCounted
<1> QED BY <1>1, <1>2, <1>3 DEF CountsFetches

-----------------------------------------------------------------------------
(* The browsers.                                                               *)

\* A browser that is lent has one context, which does not close.
LEMMA LentBrowser ==
  ASSUME Inv, NEW r \in Worker, run[r].browser \in BrowserSlot
  PROVE  LET k == browsers[run[r].browser]
         IN /\ k \in Browser /\ k.use # "free" /\ BrowserWell(k)
            /\ run[r].pc # "closing" => k.active = 1 /\ k.closing = 0
            /\ run[r].pc = "closing" => k.active = 0 /\ k.closing = 1
<1> DEFINE s == run[r].browser
           k == browsers[s]
<1>1. /\ k \in Browser /\ BrowserWell(k) /\ lost[s] \in Nat /\ s \in BrowserSlot
      /\ k.active = Leases(s) /\ (Leases(s) > 0 => k.use # "free") /\ k.closing = Cardinality(Closers(s))
  BY Numbers DEF Inv, SlotsMadeWell, BrowsersHeld
<1>2. k.active \in 0..1 /\ k.closing \in 0..1
  BY <1>1 DEF Browser
<1>3. Holders(s) \subseteq Worker /\ Closers(s) \subseteq Worker
  BY DEF Holders, Closers
<1>4. IsFiniteSet(Holders(s)) /\ IsFiniteSet(Closers(s))
  BY <1>3, AttemptConstants, FS_Subset
<1>5. /\ Cardinality(Holders(s)) \in Nat /\ Cardinality(Closers(s)) \in Nat
      /\ Holders(s) # {} => Cardinality(Holders(s)) # 0
      /\ Closers(s) # {} => Cardinality(Closers(s)) # 0
  BY <1>4, FS_CardinalityType, FS_EmptySet
<1>6. run[r].pc # "closing" => r \in Holders(s)
  BY DEF Holders
<1>7. run[r].pc = "closing" => r \in Closers(s)
  BY DEF Closers, At
<1> HIDE DEF k, s
<1>8. CASE run[r].pc # "closing"
  <2>1. k.active = 1 /\ k.use # "free"
    BY <1>1, <1>2, <1>5, <1>6, <1>8 DEF Leases
  <2>2. k.closing = 0
    BY <1>1, <1>2, <2>1 DEF BrowserWell
  <2> QED BY <1>1, <1>8, <2>1, <2>2 DEF k, s
<1>9. CASE run[r].pc = "closing"
  <2>1. k.closing = 1
    BY <1>1, <1>2, <1>5, <1>7, <1>9
  <2>2. k.active = 0 /\ k.use # "free"
    BY <1>1, <2>1 DEF BrowserWell
  <2> QED BY <1>1, <1>9, <2>1, <2>2 DEF k, s
<1> QED BY <1>8, <1>9

\* Only a browser that nobody uses goes.
LEMMA Settles ==
  ASSUME NEW k \in Browser, k.use # "free", k.closing > 0 => k.active = 0
  PROVE  /\ Settle(k) \in Browser /\ Settle(k).active = k.active /\ Settle(k).closing = k.closing
         /\ Settle(k).active > 0 => Settle(k).use # "free"
         /\ BrowserWell(Settle(k))
<1> DEFINE busy == k.requested \/ k.closing > 0
           m == [k EXCEPT !.retiring = busy]
<1>1. busy \in BOOLEAN
  BY DEF Browser
<1>2. k.active \in 0..1 /\ k.closing \in 0..1
  BY DEF Browser
<1>3. k.closing > 0 => busy
  OBVIOUS
<1> HIDE DEF busy
<1>4. /\ m \in Browser /\ m.active = k.active /\ m.closing = k.closing /\ m.use = k.use
      /\ m.retiring = busy
  BY <1>1 DEF Browser
<1>5. Settle(k) = IF m.active = 0 /\ m.closing = 0 /\ m.requested THEN NoBrowser ELSE m
  BY DEF Settle, busy
<1> HIDE DEF m
<1>6. NoBrowser \in Browser /\ NoBrowser.active = 0 /\ NoBrowser.closing = 0
  BY DEF NoBrowser, Browser
<1>7. CASE m.active = 0 /\ m.closing = 0 /\ m.requested
  <2>1. Settle(k) = NoBrowser
    BY <1>5, <1>7
  <2> QED BY <1>2, <1>4, <1>6, <1>7, <2>1 DEF BrowserWell
<1>8. CASE ~(m.active = 0 /\ m.closing = 0 /\ m.requested)
  <2>1. Settle(k) = m
    BY <1>5, <1>8
  <2>2. BrowserWell(m)
    BY <1>2, <1>3, <1>4 DEF BrowserWell
  <2> QED BY <1>4, <2>1, <2>2
<1> QED BY <1>7, <1>8

\* The browser of the runner changes, and no other.
LEMMA BrowserChanged ==
  ASSUME Inv, NEW r \in Worker, NEW s \in BrowserSlot, NEW k \in Browser, BrowserWell(k),
         browsers' = [browsers EXCEPT ![s] = k], \A t \in BrowserSlot : lost'[t] = lost[t],
         \A t \in BrowserSlot \ {s} : /\ Lent(r)' = t <=> Lent(r) = t
                                      /\ Closes(r)' = t <=> Closes(r) = t,
         k.active = browsers[s].active + One(Lent(r)' = s) - One(Lent(r) = s),
         k.closing = browsers[s].closing + One(Closes(r)' = s) - One(Closes(r) = s),
         k.active > 0 => k.use # "free"
  PROVE  /\ browsers' \in [BrowserSlot -> Browser] /\ CountsBrowsers(r)
         /\ \A t \in BrowserSlot : BrowserWell(browsers'[t])
<1>1. browsers \in [BrowserSlot -> Browser] /\ \A t \in BrowserSlot : BrowserWell(browsers[t])
  BY DEF Inv, TypeOK, SlotsMadeWell
<1>2. /\ browsers' \in [BrowserSlot -> Browser] /\ browsers'[s] = k
      /\ \A t \in BrowserSlot \ {s} : browsers'[t] = browsers[t]
  BY <1>1
<1>3. ASSUME NEW t \in BrowserSlot
      PROVE  /\ browsers'[t].active
                  = browsers[t].active + (lost'[t] - lost[t]) + One(Lent(r)' = t) - One(Lent(r) = t)
             /\ browsers'[t].active > 0 => browsers'[t].use # "free"
             /\ browsers'[t].closing = browsers[t].closing + One(Closes(r)' = t) - One(Closes(r) = t)
             /\ BrowserWell(browsers'[t])
  <2>1. /\ browsers[t].active \in Nat /\ browsers[t].closing \in Nat
        /\ lost[t] \in Nat /\ lost'[t] = lost[t]
    BY Numbers DEF Inv
  <2>2. lost'[t] - lost[t] = 0
    BY <2>1
  <2>3. CASE t = s
    <3>1. browsers'[t] = k /\ One(Lent(r)' = s) \in {0, 1} /\ One(Lent(r) = s) \in {0, 1}
      BY <1>2, <2>3 DEF One
    <3> QED BY <2>1, <2>2, <2>3, <3>1
  <2>4. CASE t # s
    <3>1. browsers'[t] = browsers[t]
      BY <1>2, <2>4
    <3>2. /\ One(Lent(r)' = t) = One(Lent(r) = t) /\ One(Lent(r) = t) \in {0, 1}
          /\ One(Closes(r)' = t) = One(Closes(r) = t) /\ One(Closes(r) = t) \in {0, 1}
      BY <2>4 DEF One
    <3>3. browsers[t].active > 0 => browsers[t].use # "free"
      BY <2>1 DEF Inv, BrowsersHeld
    <3> QED BY <1>1, <2>1, <2>2, <3>1, <3>2, <3>3
  <2> QED BY <2>3, <2>4
<1> QED BY <1>2, <1>3 DEF CountsBrowsers

\* A step with the browser of the attempt.
LEMMA BrowserStep ==
  ASSUME Inv, NEW r \in Worker, run' \in [Worker -> Run], Others(r),
         UNCHANGED <<fixed, taskVars, exitVars, apiVars, uploading, marks, lostVars, starts>>,
         faults' \in Nat, SleepersTyped',
         browsers' \in [BrowserSlot -> Browser], CountsBrowsers(r),
         \A t \in BrowserSlot : BrowserWell(browsers'[t]),
         run'[r].slot = run[r].slot, run[r].pc # "fetch", run'[r].pc # "fetch",
         Located(r)', \A x \in Worker : Told(x)'
  PROVE  Inv'
<1>0. TypeOK /\ SlotsMadeWell
  BY DEF Inv
<1>1. TypeOK'
  BY <1>0 DEF TypeOK, SleepersTyped, fixed, taskVars, exitVars, apiVars, marks, lostVars
<1>2. /\ exits' = exits /\ lock' = lock /\ apis' = apis /\ fetching' = fetching
      /\ lost' = lost /\ lostFetch' = lostFetch /\ uploading' = uploading
  BY DEF exitVars, apiVars, lostVars
<1>3. Held(r)' = Held(r)
  BY DEF Held
<1>4. CountsExits(r) /\ \A s \in ExitSlot : ExitWell(exits'[s])
  BY <1>2, <1>3, ExitsStand
<1>5. Marked(apis')
  BY <1>0, <1>2 DEF Marked, TypeOK
<1>6. CountsApis(r) /\ (\A s \in ApiSlot : ApiWell(apis'[s])) /\ Present(apis)' = Present(apis)
  BY <1>2, <1>3, <1>5, ApisStand
<1>7. CountsFetches(r)
  BY <1>2, <1>6, FetchesStand
<1>8. SlotsMadeWell'
  BY <1>4, <1>6 DEF SlotsMadeWell
<1>9. LockKept(r) /\ UploadsKept(r)
  BY <1>2 DEF LockKept, UploadsKept, Vacant, Present
<1>10. UNCHANGED fixed
  OBVIOUS
<1> QED BY <1>1, <1>4, <1>6, <1>7, <1>8, <1>9, <1>10, RunnerStep

\* The browser runs, and its context opens.
LEMMA BrowserStartedKeeps ==
  ASSUME Inv, NEW r \in Worker, BrowserLaunched(r) \/ ContextOpens(r), UNCHANGED fixed
  PROVE  Inv'
<1> DEFINE b == run[r].browser
           a == [browsers[b] EXCEPT !.launching = FALSE]
           k == [a EXCEPT !.up = TRUE]
<1>1. /\ TypeOK /\ Located(r) /\ run[r].pc \in {"browserLaunch", "context"} /\ b \in BrowserSlot
      /\ r \notin uploading /\ lock # r
  BY DEF Inv, BrowserLaunched, ContextOpens, At, Located
<1>2. UNCHANGED <<fixed, taskVars, exitVars, apiVars, uploading, marks, lostVars, starts, faults>>
  BY DEF BrowserLaunched, ContextOpens
<1>3. /\ run' \in [Worker -> Run] /\ Others(r) /\ run'[r].slot = run[r].slot
      /\ run'[r].browser = b /\ run'[r].pc \in {"context", "page"}
  <2>1. "context" \in Place /\ "page" \in Place
    BY DEF Place
  <2>2. Goto(r, "context") \/ Goto(r, "page")
    BY DEF BrowserLaunched, ContextOpens
  <2> QED BY <1>1, <2>1, <2>2, GotoStep
<1>4. faults' \in Nat /\ SleepersTyped'
  <2>1. asleep' = Wake("browser") \/ asleep' = asleep
    BY DEF BrowserLaunched, ContextOpens
  <2> QED BY <1>1, <1>2, <2>1, Sleepers DEF SleepersTyped, Pool, TypeOK
<1>5. /\ Lent(r)' = b /\ Lent(r) = b /\ Closes(r)' = NoSlot /\ Closes(r) = NoSlot
      /\ \A t \in BrowserSlot : lost'[t] = lost[t]
  BY <1>1, <1>2, <1>3 DEF Lent, Closes, lostVars
<1>6. /\ browsers' \in [BrowserSlot -> Browser] /\ CountsBrowsers(r)
      /\ \A t \in BrowserSlot : BrowserWell(browsers'[t])
  <2>1. CASE BrowserLaunched(r)
    <3>1. browsers[b] \in Browser /\ browsers[b].use # "free" /\ browsers[b].active = 1 /\ browsers[b].closing = 0
      BY <1>1, LentBrowser
    <3>2. browsers' = [browsers EXCEPT ![b] = k]
      BY <2>1, Zenon DEF BrowserLaunched, BrowserStarted
    <3>3. a \in Browser /\ a.use # "free" /\ a.active = 1 /\ a.closing = 0
      BY <3>1 DEF Browser
    <3> HIDE DEF a
    <3>4. k \in Browser /\ k.use # "free" /\ k.active = 1 /\ k.closing = 0
      BY <3>3 DEF Browser
    <3> HIDE DEF k
    <3>5. BrowserWell(k)
      BY <3>4 DEF BrowserWell
    <3>6. /\ k.active = browsers[b].active + One(Lent(r)' = b) - One(Lent(r) = b)
          /\ k.closing = browsers[b].closing + One(Closes(r)' = b) - One(Closes(r) = b)
      BY <1>5, <3>1, <3>4 DEF One
    <3>7. \A t \in BrowserSlot \ {b} : (Lent(r)' = t <=> Lent(r) = t) /\ (Closes(r)' = t <=> Closes(r) = t)
      BY <1>5
    <3> HIDE DEF b
    <3> QED BY <1>1, <1>5, <3>2, <3>4, <3>5, <3>6, <3>7, BrowserChanged
  <2>2. CASE ContextOpens(r)
    <3>1. browsers' = browsers
      BY <2>2 DEF ContextOpens
    <3> QED BY <1>1, <1>5, <3>1, BrowsersStand DEF TypeOK
  <2> QED BY <2>1, <2>2
<1>7. Located(r)'
  BY <1>1, <1>2, <1>3 DEF Located, exitVars
<1>8. \A x \in Worker : Told(x)'
  <2>1. run[r].pc \in Asking /\ run'[r].pc \in Asking
    BY <1>1, <1>3 DEF Asking, Place, Leaving
  <2>2. \A x \in Worker \ {r} : /\ run'[x].pc = run[x].pc /\ run'[x].out = run[x].out
                                /\ run'[x].answer = run[x].answer
    BY <1>3 DEF Others
  <2>3. UNCHANGED <<fixed, taskVars>> /\ \A x \in Worker : Told(x)
    BY <1>2 DEF Inv
  <2> QED BY <2>1, <2>2, <2>3, NotSentYet
<1>9. run[r].pc # "fetch" /\ run'[r].pc # "fetch"
  BY <1>1, <1>3
<1> QED BY <1>2, <1>3, <1>4, <1>6, <1>7, <1>8, <1>9, BrowserStep

\* The browser does not start or the attempt gives it back: it is no longer lent.
LEMMA Unlends ==
  ASSUME Inv, NEW r \in Worker, NEW b \in BrowserSlot, run[r].browser = b, run[r].pc # "closing",
         NEW k \in Browser, k.active = 0, Closes(r)' = b => k.closing = 1, Closes(r)' # b => k.closing = 0, k.use # "free",
         browsers' = [browsers EXCEPT ![b] = Settle(k)],
         Lent(r)' = NoSlot, Closes(r)' \in {b, NoSlot},
         \A t \in BrowserSlot : lost'[t] = lost[t]
  PROVE  /\ browsers' \in [BrowserSlot -> Browser] /\ CountsBrowsers(r)
         /\ \A t \in BrowserSlot : BrowserWell(browsers'[t])
<1> DEFINE m == Settle(k)
<1>1. /\ m \in Browser /\ m.active = k.active /\ m.closing = k.closing
      /\ m.active > 0 => m.use # "free"
      /\ BrowserWell(m)
  BY Settles
<1>2. browsers' = [browsers EXCEPT ![b] = m]
  OBVIOUS
<1> HIDE DEF m
<1>3. browsers[b].active = 1 /\ browsers[b].closing = 0
  BY LentBrowser
<1>4. Lent(r) = b /\ Closes(r) = NoSlot /\ NoSlot \notin BrowserSlot
  BY PoolConstants DEF Lent, Closes
<1>5. /\ One(Lent(r)' = b) = 0 /\ One(Lent(r) = b) = 1 /\ One(Closes(r) = b) = 0
      /\ One(Closes(r)' = b) \in {0, 1}
  BY <1>4 DEF One
<1>6. /\ m.active = browsers[b].active + One(Lent(r)' = b) - One(Lent(r) = b)
      /\ m.closing = browsers[b].closing + One(Closes(r)' = b) - One(Closes(r) = b)
  BY <1>1, <1>3, <1>5 DEF One
<1>7. \A t \in BrowserSlot \ {b} : (Lent(r)' = t <=> Lent(r) = t) /\ (Closes(r)' = t <=> Closes(r) = t)
  BY <1>4
<1>8. m.active > 0 => m.use # "free"
  BY <1>1
<1>9. \A t \in BrowserSlot : lost'[t] = lost[t]
  OBVIOUS
<1>10. m \in Browser /\ BrowserWell(m)
  BY <1>1
<1> QED BY ONLY Inv, <1>2, <1>6, <1>7, <1>8, <1>9, <1>10, BrowserChanged

\* A browser or a context that does not come up gives its slot back.
LEMMA BrowserFailsKeeps ==
  ASSUME Inv, NEW r \in Worker, BrowserFails(r), UNCHANGED fixed
  PROVE  Inv'
<1> DEFINE b == run[r].browser
           no == 0
           a == [browsers[b] EXCEPT !.active = no]
           k == [a EXCEPT !.requested = TRUE]
           done(out) == [run[r] EXCEPT !.pc = "close", !.out = out, !.browser = NoSlot]
<1>1. /\ TypeOK /\ Located(r) /\ run[r].pc \in {"browserLaunch", "context"} /\ b \in BrowserSlot
      /\ r \notin uploading /\ lock # r /\ run[r] \in Run
  BY DEF Inv, BrowserFails, Located, TypeOK
<1>2. /\ UNCHANGED <<fixed, taskVars, exitVars, apiVars, uploading, marks, lostVars, starts>>
      /\ Fault \/ NoFault
      /\ asleep' = Wake("browser")
      /\ browsers' = ReleaseFailed(browsers, b)
      /\ \E out \in {"retry", "infra", "transport"} : run' = [run EXCEPT ![r] = done(out)]
  BY ZenonT(40) DEF BrowserFails
<1>3. /\ run' \in [Worker -> Run] /\ Others(r) /\ run'[r].slot = run[r].slot
      /\ run'[r].browser = NoSlot /\ run'[r].pc = "close" /\ run'[r].out \notin {"", "done", "submitted"}
  <2>1. PICK out \in {"retry", "infra", "transport"} : run' = [run EXCEPT ![r] = done(out)]
    BY <1>2
  <2>2. /\ done(out) \in Run /\ done(out).slot = run[r].slot /\ done(out).pc = "close"
        /\ done(out).browser = NoSlot /\ done(out).out = out
    <3>1. "close" \in Place /\ out \in Outcome
      BY DEF Place, Outcome
    <3> QED BY <1>1, <3>1 DEF Run
  <2> HIDE DEF done
  <2> QED BY <1>1, <2>1, <2>2, RunStep
<1>4. faults' \in Nat /\ SleepersTyped'
  BY <1>1, <1>2, FaultsTyped, Sleepers DEF SleepersTyped, Pool
<1>5. Lent(r)' = NoSlot /\ Closes(r)' = NoSlot /\ \A t \in BrowserSlot : lost'[t] = lost[t]
  BY <1>2, <1>3 DEF Lent, Closes, lostVars
<1>6. /\ browsers' \in [BrowserSlot -> Browser] /\ CountsBrowsers(r)
      /\ \A t \in BrowserSlot : BrowserWell(browsers'[t])
  <2>1. browsers[b] \in Browser /\ browsers[b].use # "free" /\ browsers[b].closing = 0
    BY <1>1, LentBrowser
  <2>2. browsers' = [browsers EXCEPT ![b] = Settle(k)]
    BY <1>2 DEF ReleaseFailed
  <2>3. a \in Browser /\ a.use # "free" /\ a.active = 0 /\ a.closing = 0
    BY <2>1 DEF Browser
  <2> HIDE DEF a
  <2>4. k \in Browser /\ k.use # "free" /\ k.active = 0 /\ k.closing = 0
    BY <2>3 DEF Browser
  <2> HIDE DEF k
  <2>5. Closes(r)' # b
    BY <1>1, <1>5, PoolConstants
  <2>6. run[r].browser = b /\ run[r].pc # "closing"
    BY <1>1
  <2> HIDE DEF b
  <2> QED BY <1>1, <1>5, <2>2, <2>4, <2>5, <2>6, Unlends
<1>7. Located(r)'
  <2>1. lock' # r /\ r \notin uploading'
    BY <1>1, <1>2 DEF exitVars
  <2> QED BY <1>3, <2>1, LocatedFree
<1>8. \A x \in Worker : Told(x)'
  <2>1. run[r].pc \in Asking
    BY <1>1 DEF Asking, Place, Leaving
  <2>2. \A x \in Worker \ {r} : /\ run'[x].pc = run[x].pc /\ run'[x].out = run[x].out
                                /\ run'[x].answer = run[x].answer
    BY <1>3 DEF Others
  <2>3. UNCHANGED <<fixed, taskVars>> /\ \A x \in Worker : Told(x)
    BY <1>2 DEF Inv
  <2> QED BY <1>3, <2>1, <2>2, <2>3, NotSentYet
<1>9. run[r].pc # "fetch" /\ run'[r].pc # "fetch"
  BY <1>1, <1>3
<1> QED BY <1>2, <1>3, <1>4, <1>6, <1>7, <1>8, <1>9, BrowserStep

\* The slot of the context is free before the context is closed.
LEMMA StartReleaseKeeps ==
  ASSUME Inv, NEW r \in Worker, StartRelease(r), UNCHANGED fixed
  PROVE  Inv'
<1> DEFINE b == run[r].browser
<1>1. /\ TypeOK /\ Located(r) /\ run[r].pc = "close" /\ r \notin uploading /\ lock # r /\ run[r] \in Run
  BY DEF Inv, StartRelease, Located, TypeOK, At
<1>2. /\ UNCHANGED <<fixed, taskVars, exitVars, apiVars, uploading, marks, lostVars, starts>>
      /\ NoFault
      /\ \/ /\ b = NoSlot /\ Goto(r, "unproxy") /\ UNCHANGED <<browsers, asleep>>
         \/ /\ b # NoSlot /\ Goto(r, "closing") /\ asleep' = Wake("browser")
            /\ \E worn \in BOOLEAN : browsers' = StartClosing(browsers, b, worn)
  BY DEF StartRelease
<1>3. /\ run' \in [Worker -> Run] /\ Others(r) /\ run'[r].slot = run[r].slot
      /\ run'[r].browser = b /\ run'[r].out = run[r].out
      /\ run'[r].pc = IF b = NoSlot THEN "unproxy" ELSE "closing"
  <2>1. "unproxy" \in Place /\ "closing" \in Place
    BY DEF Place
  <2> QED BY <1>1, <1>2, <2>1, GotoStep
<1>4. faults' \in Nat /\ SleepersTyped'
  <2>1. asleep' = asleep \/ asleep' = Wake("browser")
    BY <1>2
  <2> QED BY <1>1, <1>2, <2>1, FaultsTyped, Sleepers DEF SleepersTyped, Pool, TypeOK
<1>5. \A t \in BrowserSlot : lost'[t] = lost[t]
  BY <1>2 DEF lostVars
<1>6. /\ browsers' \in [BrowserSlot -> Browser] /\ CountsBrowsers(r)
      /\ \A t \in BrowserSlot : BrowserWell(browsers'[t])
  <2>1. CASE b = NoSlot
    <3>1. browsers' = browsers /\ Lent(r)' = Lent(r) /\ Closes(r)' = Closes(r)
      BY <1>1, <1>2, <1>3, <2>1 DEF Lent, Closes
    <3> QED BY <1>1, <1>5, <3>1, BrowsersStand DEF TypeOK
  <2>2. CASE b # NoSlot
    <3>1. b \in BrowserSlot
      BY <1>1, <2>2 DEF Run
    <3>2. browsers[b] \in Browser /\ browsers[b].use # "free" /\ browsers[b].closing = 0
      BY <1>1, <3>1, LentBrowser
    <3>3. PICK worn \in BOOLEAN : browsers' = StartClosing(browsers, b, worn)
      BY <1>2, <2>2
    <3> DEFINE no == 0
               one == browsers[b].closing + 1
               wants == browsers[b].requested \/ worn \/ ~browsers[b].up
               k == [browsers[b] EXCEPT !.active = no, !.closing = one, !.requested = wants]
    <3>4. browsers' = [browsers EXCEPT ![b] = Settle(k)]
      BY <3>3 DEF StartClosing
    <3>5. one = 1 /\ wants \in BOOLEAN /\ no \in 0..1 /\ one \in 0..1 /\ no = 0
      BY <3>2 DEF Browser
    <3> HIDE DEF one, wants, no
    <3>6. k \in Browser /\ k.use # "free" /\ k.active = no /\ k.closing = one
      BY <3>2, <3>5 DEF Browser
    <3> HIDE DEF k
    <3>7. Lent(r)' = NoSlot /\ Closes(r)' = b
      BY <1>3, <2>2 DEF Lent, Closes
    <3>8. k.closing = 1 /\ k.active = 0
      BY <3>5, <3>6
    <3>9. run[r].browser = b /\ run[r].pc # "closing"
      BY <1>1
    <3> HIDE DEF b
    <3> QED BY <1>1, <1>5, <3>1, <3>4, <3>6, <3>7, <3>8, <3>9, Unlends
  <2> QED BY <2>1, <2>2
<1>7. Located(r)'
  <2>1. lock' # r /\ r \notin uploading'
    BY <1>1, <1>2 DEF exitVars
  <2> QED BY <1>3, <2>1 DEF Located
<1>8. \A x \in Worker : Told(x)'
  <2>1. run[r].pc \in Leaving /\ run'[r].pc \in Leaving
    BY <1>1, <1>3 DEF Leaving
  <2>2. \A x \in Worker \ {r} : /\ run'[x].pc = run[x].pc /\ run'[x].out = run[x].out
                                /\ run'[x].answer = run[x].answer
    BY <1>3 DEF Others
  <2>3. UNCHANGED <<fixed, taskVars>> /\ \A x \in Worker : Told(x)
    BY <1>2 DEF Inv
  <2> QED BY <1>3, <2>1, <2>2, <2>3, OutcomeKept
<1>9. run[r].pc # "fetch" /\ run'[r].pc # "fetch"
  BY <1>1, <1>3
<1> QED BY <1>2, <1>3, <1>4, <1>5, <1>6, <1>7, <1>8, <1>9, BrowserStep

\* The end of _finish_release.
LEMMA Finishes ==
  ASSUME Inv, NEW r \in Worker, run[r].pc = "closing", NEW failed \in BOOLEAN, FinishRelease(r, failed),
         Lent(r)' = NoSlot, Closes(r)' = NoSlot, \A t \in BrowserSlot : lost'[t] = lost[t]
  PROVE  /\ browsers' \in [BrowserSlot -> Browser] /\ CountsBrowsers(r) /\ SleepersTyped'
         /\ \A t \in BrowserSlot : BrowserWell(browsers'[t])
<1> DEFINE b == run[r].browser
<1>1. TypeOK /\ run[r] \in Run /\ NoSlot \notin BrowserSlot
  BY PoolConstants DEF Inv, TypeOK
<1>2. SleepersTyped'
  BY <1>1, Sleepers DEF FinishRelease, SleepersTyped, Pool
<1>3. Lent(r) = NoSlot /\ Closes(r) = b
  BY DEF Lent, Closes
<1>4. CASE b = NoSlot
  <2>1. browsers' = browsers /\ Lent(r)' = Lent(r) /\ Closes(r)' = Closes(r)
    BY <1>3, <1>4 DEF FinishRelease
  <2> QED BY <1>1, <1>2, <2>1, BrowsersStand DEF TypeOK
<1>5. CASE b # NoSlot
  <2>1. b \in BrowserSlot
    BY <1>1, <1>5 DEF Run
  <2>2. browsers[b] \in Browser /\ browsers[b].use # "free" /\ browsers[b].closing = 1 /\ browsers[b].active = 0
    BY <2>1, LentBrowser
  <2> DEFINE none == browsers[b].closing - 1
             wants == browsers[b].requested \/ failed
             k == [browsers[b] EXCEPT !.closing = none, !.requested = wants]
             m == Settle(k)
  <2>3. browsers' = [browsers EXCEPT ![b] = m]
    BY <1>5 DEF FinishRelease, FinishClosing
  <2>4. none = 0 /\ none \in 0..1 /\ wants \in BOOLEAN
    BY <2>2 DEF Browser
  <2> HIDE DEF none, wants
  <2>5. k \in Browser /\ k.use # "free" /\ k.active = 0 /\ k.closing = none
    BY <2>2, <2>4 DEF Browser
  <2> HIDE DEF k
  <2>6. k.closing = 0
    BY <2>4, <2>5
  <2>7. /\ m \in Browser /\ m.active = 0 /\ m.closing = 0
        /\ m.active > 0 => m.use # "free"
        /\ BrowserWell(m)
    BY <2>5, <2>6, Settles
  <2> HIDE DEF m
  <2>8. /\ One(Lent(r)' = b) = 0 /\ One(Lent(r) = b) = 0
        /\ One(Closes(r)' = b) = 0 /\ One(Closes(r) = b) = 1
    BY <1>1, <1>3, <2>1 DEF One
  <2>9. /\ m.active = browsers[b].active + One(Lent(r)' = b) - One(Lent(r) = b)
        /\ m.closing = browsers[b].closing + One(Closes(r)' = b) - One(Closes(r) = b)
    BY <2>2, <2>7, <2>8
  <2>10. \A t \in BrowserSlot \ {b} : (Lent(r)' = t <=> Lent(r) = t) /\ (Closes(r)' = t <=> Closes(r) = t)
    BY <1>1, <1>3
  <2> HIDE DEF b
  <2> QED BY <1>2, <2>1, <2>3, <2>7, <2>9, <2>10, BrowserChanged
<1> QED BY <1>4, <1>5

\* A context that has closed, or failed to close.
LEMMA ContextClosesKeeps ==
  ASSUME Inv, NEW r \in Worker, ContextCloses(r), UNCHANGED fixed
  PROVE  Inv'
<1> DEFINE k == [run[r] EXCEPT !.pc = "unproxy", !.browser = NoSlot]
<1>1. /\ TypeOK /\ Located(r) /\ run[r].pc = "closing" /\ r \notin uploading /\ lock # r /\ run[r] \in Run
  BY DEF Inv, ContextCloses, Located, TypeOK, At
<1>2. /\ UNCHANGED <<fixed, taskVars, exitVars, apiVars, uploading, marks, lostVars, starts>>
      /\ Fault \/ NoFault
      /\ \E failed \in BOOLEAN : FinishRelease(r, failed)
  BY DEF ContextCloses
<1>3. run' = [run EXCEPT ![r] = k]
  BY Zenon DEF ContextCloses
<1>4. /\ k \in Run /\ k.slot = run[r].slot /\ k.browser = NoSlot /\ k.out = run[r].out /\ k.pc = "unproxy"
  BY <1>1 DEF Run, Place
<1> HIDE DEF k
<1>5. run' \in [Worker -> Run] /\ Others(r) /\ run'[r] = k
  BY <1>1, <1>3, <1>4, RunStep
<1>6. Lent(r)' = NoSlot /\ Closes(r)' = NoSlot /\ \A t \in BrowserSlot : lost'[t] = lost[t]
  BY <1>2, <1>4, <1>5 DEF Lent, Closes, lostVars
<1>7. /\ browsers' \in [BrowserSlot -> Browser] /\ CountsBrowsers(r) /\ SleepersTyped'
      /\ \A t \in BrowserSlot : BrowserWell(browsers'[t])
  BY <1>1, <1>2, <1>6, Finishes
<1>8. faults' \in Nat
  BY <1>1, <1>2, FaultsTyped
<1>9. Located(r)'
  <2>1. lock' # r /\ r \notin uploading'
    BY <1>1, <1>2 DEF exitVars
  <2> QED BY <1>4, <1>5, <2>1 DEF Located
<1>10. \A x \in Worker : Told(x)'
  <2>1. run[r].pc \in Leaving /\ run'[r].pc \in Leaving /\ run'[r].out = run[r].out
    BY <1>1, <1>4, <1>5 DEF Leaving
  <2>2. \A x \in Worker \ {r} : /\ run'[x].pc = run[x].pc /\ run'[x].out = run[x].out
                                /\ run'[x].answer = run[x].answer
    BY <1>5 DEF Others
  <2>3. UNCHANGED <<fixed, taskVars>> /\ \A x \in Worker : Told(x)
    BY <1>2 DEF Inv
  <2> QED BY <2>1, <2>2, <2>3, OutcomeKept
<1>11. run[r].pc # "fetch" /\ run'[r].pc # "fetch" /\ run'[r].slot = run[r].slot
  BY <1>1, <1>4, <1>5
<1> QED BY <1>2, <1>5, <1>7, <1>8, <1>9, <1>10, <1>11, BrowserStep

\* Evicting idle browsers keeps the counts of the others.
LEMMA Evicts ==
  ASSUME Inv, NEW S, IdleSlots(S)
  PROVE  /\ Evicted(S) \in [Worker -> Run]
         /\ \A x \in Worker :
              /\ run[x].browser \in S => run[x].pc = "closing"
              /\ Evicted(S)[x].pc = run[x].pc /\ Evicted(S)[x].slot = run[x].slot
              /\ Evicted(S)[x].node = run[x].node /\ Evicted(S)[x].out = run[x].out
              /\ Evicted(S)[x].answer = run[x].answer
              /\ Evicted(S)[x].browser = IF run[x].browser \in S THEN NoSlot ELSE run[x].browser
              /\ run[x].browser \notin S => Evicted(S)[x] = run[x]
<1> DEFINE left(x) == [run[x] EXCEPT !.browser = NoSlot]
<1>1. ASSUME NEW x \in Worker
      PROVE  /\ run[x] \in Run /\ left(x) \in Run
             /\ left(x).pc = run[x].pc /\ left(x).slot = run[x].slot /\ left(x).node = run[x].node
             /\ left(x).out = run[x].out /\ left(x).answer = run[x].answer /\ left(x).browser = NoSlot
  <2>1. run[x] \in Run
    BY DEF Inv, TypeOK
  <2> QED BY <2>1 DEF Run
<1>2. Evicted(S) = [x \in Worker |-> IF run[x].browser \in S THEN left(x) ELSE run[x]]
  BY DEF Evicted
<1>3. ASSUME NEW x \in Worker, run[x].browser \in S PROVE run[x].pc = "closing"
  <2>1. run[x].browser \in BrowserSlot /\ browsers[run[x].browser].active = 0
    BY <1>3 DEF IdleSlots
  <2>2. run[x].pc # "closing" => browsers[run[x].browser].active = 1
    BY <2>1, LentBrowser
  <2> QED BY <2>1, <2>2
<1> HIDE DEF left
<1>4. ASSUME NEW x \in Worker
      PROVE  Evicted(S)[x] = IF run[x].browser \in S THEN left(x) ELSE run[x]
  BY <1>2
<1> QED BY <1>1, <1>2, <1>3, <1>4

\* A look at the browser pool.
LEMMA LooksStep ==
  ASSUME Inv, NEW r \in Worker, NEW S, IdleSlots(S), run[r].pc = "browser",
         NEW k \in Run, k.slot = run[r].slot, run' = [Evicted(S) EXCEPT ![r] = k],
         \/ k.pc = "browser" /\ k.browser = NoSlot
         \/ k.pc \in {"browserLaunch", "context"} /\ k.browser \in BrowserSlot
                /\ browsers[k.browser].active = 0,
         UNCHANGED <<fixed, taskVars, exitVars, apiVars, uploading, marks, lostVars, starts, faults>>,
         SleepersTyped', browsers' \in [BrowserSlot -> Browser], BrowsersMove(S, k.browser)
  PROVE  Inv'
<1>0. /\ TypeOK /\ SlotsMadeWell /\ \A x \in Worker : Located(x) /\ Told(x)
      /\ ExitsHeld /\ ApisHeld /\ BrowsersHeld /\ FetchesCounted /\ Located(r)
  BY DEF Inv
<1>1. /\ run[r].browser = NoSlot /\ lock # r /\ r \notin uploading /\ NoSlot \notin BrowserSlot
      /\ NoSlot \notin S
  BY <1>0, PoolConstants DEF Located, IdleSlots
<1>2. /\ exits' = exits /\ lock' = lock /\ apis' = apis /\ fetching' = fetching
      /\ lost' = lost /\ lostFetch' = lostFetch /\ uploading' = uploading /\ UNCHANGED fixed
  BY DEF exitVars, apiVars, lostVars
<1>3. run' \in [Worker -> Run] /\ run'[r] = k /\ \A x \in Worker \ {r} : run'[x] = Evicted(S)[x]
  BY Evicts
<1>4. \A x \in Worker \ {r} :
        /\ run'[x].pc = run[x].pc /\ run'[x].slot = run[x].slot /\ run'[x].out = run[x].out
        /\ run'[x].answer = run[x].answer /\ run'[x].node = run[x].node
        /\ run'[x].browser = IF run[x].browser \in S THEN NoSlot ELSE run[x].browser
        /\ run[x].browser \in S => run[x].pc = "closing"
        /\ run[x].browser \notin S => run'[x] = run[x]
  BY <1>3, Evicts
<1>5. TypeOK'
  BY <1>0, <1>3 DEF TypeOK, SleepersTyped, fixed, taskVars, exitVars, apiVars, marks, lostVars
<1>6. SlotsMadeWell'
  BY <1>0, <1>2 DEF SlotsMadeWell, BrowsersMove
<1>7. Located(r)'
  BY <1>1, <1>2, <1>3 DEF Located
<1>8. \A x \in Worker : Located(x)'
  <2> SUFFICES ASSUME NEW x \in Worker \ {r} PROVE Located(x)'
    BY <1>7
  <2>1. Located(x) /\ Vacant(exits)' = Vacant(exits)
    BY <1>0, <1>2 DEF Vacant, Present
  <2>2. CASE run[x].browser \in S
    <3>1. run'[x].pc = "closing" /\ lock # x /\ x \notin uploading
      BY <1>4, <2>1, <2>2 DEF Located
    <3> QED BY <1>2, <3>1 DEF Located
  <2>3. CASE run[x].browser \notin S
    <3>1. run'[x] = run[x]
      BY <1>4, <2>3
    <3> QED BY <1>2, <2>1, <3>1, StaysLocated
  <2> QED BY <2>2, <2>3
<1>9. \A x \in Worker : Told(x)'
  <2>1. run[r].pc \in Asking /\ run'[r].pc \in Asking
    BY <1>3, Askers DEF Asking, Place, Leaving
  <2>2. \A x \in Worker \ {r} : /\ run'[x].pc = run[x].pc /\ run'[x].out = run[x].out
                                /\ run'[x].answer = run[x].answer
    BY <1>4
  <2>3. UNCHANGED <<fixed, taskVars>> /\ \A x \in Worker : Told(x)
    BY <1>0
  <2> QED BY <2>1, <2>2, <2>3, NotSentYet
<1>10. \A x \in Worker \ {r} : Held(x)' = Held(x) /\ Lent(x)' = Lent(x)
  BY <1>4 DEF Held, Lent
<1>11. Held(r)' = Held(r) /\ Lent(r) = NoSlot /\ Lent(r)' = k.browser
  BY <1>1, <1>3 DEF Held, Lent
<1>12. ExitsHeld' /\ ApisHeld'
  <2>1. \A s \in ExitSlot : lost'[s] = lost[s]
    BY <1>2
  <2>2. CountsExits(r)
    BY <1>2, <1>11, <2>1, ExitsStand
  <2>3. CountsApis(r)
    <3>1. Marked(apis')
      BY <1>0, <1>2 DEF Marked, TypeOK
    <3> QED BY <1>2, <1>11, <3>1, ApisStand
  <2>4. ExitsHeld'
    BY ONLY <1>0, <1>5, <1>10, <2>2, ExitsKept, r \in Worker DEF CountsExits
  <2>5. ApisHeld'
    BY ONLY <1>0, <1>5, <1>10, <2>3, ApisKept, r \in Worker DEF CountsApis
  <2> QED BY <2>4, <2>5
<1>12a. \A s \in BrowserSlot : s = k.browser => browsers[s].active = 0
  BY <1>1
<1>13. BrowsersHeld'
  <2> SUFFICES ASSUME NEW s \in BrowserSlot
               PROVE  /\ browsers'[s].active = Leases(s)' /\ (Leases(s)' > 0 => browsers'[s].use # "free")
                      /\ browsers'[s].closing = Cardinality(Closers(s))'
    BY DEF BrowsersHeld
  <2>1. Leases(s)' = Leases(s) + (lost'[s] - lost[s]) + One(Lent(r)' = s) - One(Lent(r) = s)
    BY ONLY <1>0, <1>5, <1>10, LeasesMove, r \in Worker, s \in BrowserSlot
  <2>2. browsers[s].active = Leases(s) /\ browsers[s].active \in Nat /\ lost[s] \in Nat
    BY <1>0, Numbers DEF BrowsersHeld
  <2>3. One(Lent(r) = s) = 0 /\ One(Lent(r)' = s) = IF s = k.browser THEN 1 ELSE 0
    BY <1>1, <1>11 DEF One
  <2>4. s = k.browser => browsers[s].active = 0
    BY <1>12a
  <2>5. /\ browsers'[s].active = IF s = k.browser THEN 1 ELSE browsers[s].active
        /\ browsers'[s].active > 0 => browsers'[s].use # "free"
        /\ browsers'[s].closing = IF s \in S THEN 0 ELSE browsers[s].closing
    BY DEF BrowsersMove
  <2>6. lost'[s] = lost[s]
    BY <1>2
  <2>7. browsers'[s].active = Leases(s)' /\ (Leases(s)' > 0 => browsers'[s].use # "free")
    BY ONLY <2>1, <2>2, <2>3, <2>4, <2>5, <2>6
  <2>8. browsers'[s].closing = Cardinality(Closers(s))'
    <3>1. CASE s \in S
      <4>1. ASSUME NEW x \in Worker PROVE ~(run'[x].browser = s /\ run'[x].pc = "closing")
        BY <1>1, <1>3, <1>4, <3>1
      <4>2. Closers(s)' = {}
        BY <4>1 DEF Closers, At
      <4> QED BY <2>5, <3>1, <4>2, FS_EmptySet
    <3>2. CASE s \notin S
      <4>1. \A x \in Worker : (run'[x].browser = s /\ run'[x].pc = "closing")
                                <=> (run[x].browser = s /\ run[x].pc = "closing")
        BY <1>1, <1>3, <1>4, <3>2
      <4>2. Closers(s)' = Closers(s)
        BY <4>1 DEF Closers, At
      <4>3. browsers[s].closing = Cardinality(Closers(s))
        BY <1>0 DEF BrowsersHeld
      <4> QED BY <2>5, <3>2, <4>2, <4>3
    <3> QED BY <3>1, <3>2
  <2> QED BY <2>7, <2>8
<1>14. FetchesCounted'
  <2>1. Fetchers' = Fetchers
    BY <1>3, <1>4 DEF Fetchers, At
  <2>2. Present(apis)' = Present(apis)
    BY <1>2 DEF Present
  <2> QED BY <1>0, <1>2, <2>1, <2>2 DEF FetchesCounted
<1> QED BY <1>5, <1>6, <1>8, <1>9, <1>12, <1>13, <1>14 DEF Inv

\* The leases and contexts of the browsers once those of S are dropped.
LEMMA Drops ==
  ASSUME Inv, NEW S, IdleSlots(S), NEW f, Dropped(f, S)
  PROVE  /\ \A t \in BrowserSlot :
              /\ f[t] \in Browser /\ BrowserWell(f[t])
              /\ f[t].active = browsers[t].active
              /\ f[t].active > 0 => f[t].use # "free"
              /\ f[t].closing = IF t \in S THEN 0 ELSE browsers[t].closing
         /\ DOMAIN f = BrowserSlot
<1>1. NoBrowser \in Browser /\ NoBrowser.active = 0 /\ NoBrowser.closing = 0
  BY DEF NoBrowser, Browser
<1>2. ASSUME NEW t \in BrowserSlot
      PROVE  /\ f[t] \in Browser /\ BrowserWell(f[t])
             /\ f[t].active = browsers[t].active
             /\ f[t].active > 0 => f[t].use # "free"
             /\ f[t].closing = IF t \in S THEN 0 ELSE browsers[t].closing
  <2>1. /\ browsers[t].active \in Nat /\ browsers[t] \in Browser /\ BrowserWell(browsers[t])
        /\ browsers[t].active = Leases(t) /\ (Leases(t) > 0 => browsers[t].use # "free")
        /\ f[t] \in Browser /\ f[t] = IF t \in S THEN NoBrowser ELSE browsers[t]
        /\ t \in S => browsers[t].active = 0
    BY Numbers DEF Inv, SlotsMadeWell, BrowsersHeld, Dropped, IdleSlots
  <2>2. CASE t \in S
    BY <1>1, <2>1, <2>2 DEF BrowserWell
  <2>3. CASE t \notin S
    BY <2>1, <2>3
  <2> QED BY <2>2, <2>3
<1> QED BY <1>2 DEF Dropped

\* The runner takes the slot s of a pool that has lost the browsers of S.
LEMMA BrowserTaken ==
  ASSUME Inv, NEW S, IdleSlots(S), NEW f, Dropped(f, S), NEW s \in BrowserSlot, f[s].closing = 0,
         NEW b \in Browser, b.active = 1, b.closing = 0, b.use # "free",
         browsers' = [f EXCEPT ![s] = b]
  PROVE  browsers' \in [BrowserSlot -> Browser] /\ BrowsersMove(S, s)
<1>1. f \in [BrowserSlot -> Browser]
  BY DEF Dropped
<1>2. browsers' \in [BrowserSlot -> Browser] /\ browsers'[s] = b /\ \A t \in BrowserSlot \ {s} : browsers'[t] = f[t]
  BY <1>1
<1>3. ASSUME NEW t \in BrowserSlot
      PROVE  /\ browsers'[t].active = IF t = s THEN 1 ELSE browsers[t].active
             /\ browsers'[t].active > 0 => browsers'[t].use # "free"
             /\ browsers'[t].closing = IF t \in S THEN 0 ELSE browsers[t].closing
             /\ BrowserWell(browsers'[t])
  <2>1. /\ BrowserWell(f[t]) /\ f[t].active = browsers[t].active
        /\ f[t].active > 0 => f[t].use # "free"
        /\ f[t].closing = IF t \in S THEN 0 ELSE browsers[t].closing
    BY Drops
  <2>2. CASE t = s
    BY <1>2, <2>1, <2>2 DEF BrowserWell
  <2>3. CASE t # s
    BY <1>2, <2>1, <2>3
  <2> QED BY <2>2, <2>3
<1> QED BY <1>2, <1>3 DEF BrowsersMove

\* What it makes of the runners.
LEMMA LooksRun ==
  ASSUME Inv, NEW r \in Worker, NEW S, IdleSlots(S), run[r].pc = "browser",
         NEW pc \in {"browserLaunch", "context"}, NEW s \in BrowserSlot,
         Taking(r, S, pc, s)
  PROVE  \E k \in Run : /\ k.slot = run[r].slot /\ k.pc = pc /\ k.browser = s
                        /\ run' = [Evicted(S) EXCEPT ![r] = k]
<1> DEFINE k == [run[r] EXCEPT !.pc = pc, !.browser = s]
<1>1. run[r] \in Run /\ Evicted(S)[r] = run[r]
  <2>1. run[r].browser \notin S
    BY Evicts
  <2>2. Evicted(S)[r] = run[r]
    BY <2>1, Evicts
  <2> QED BY <2>2 DEF Inv, TypeOK
<1>2. pc \in Place
  BY DEF Place
<1>3. k \in Run /\ k.slot = run[r].slot /\ k.pc = pc /\ k.browser = s
  BY <1>1, <1>2 DEF Run
<1>4. run' = [Evicted(S) EXCEPT ![r] = [Evicted(S)[r] EXCEPT !.pc = pc, !.browser = s]]
  BY Zenon DEF Taking
<1>5. run' = [Evicted(S) EXCEPT ![r] = k]
  BY <1>1, <1>4
<1> HIDE DEF k
<1> QED BY <1>3, <1>5

\* A launch in a vacant slot of the pool.
LEMMA LaunchKeeps ==
  ASSUME Inv, NEW r \in Worker, NEW S, IdleSlots(S), run[r].pc = "browser", NEW f, Dropped(f, S),
         Vacant(f) # {}, Launches(r, f, S), Looking
  PROVE  Inv'
<1> DEFINE s == CHOOSE v \in Vacant(f) : TRUE
           b == [NoBrowser EXCEPT !.use = "browser", !.key = Key(r), !.active = 1, !.launching = TRUE]
<1>1. s \in Vacant(f)
  BY Zenon
<1>2. browsers' = [f EXCEPT ![s] = b] /\ asleep' = asleep
  BY Zenon DEF Launches, LaunchBrowser
<1>3. run' = [Evicted(S) EXCEPT ![r].pc = "browserLaunch", ![r].browser = s]
  BY Zenon DEF Launches
<1> HIDE DEF s
<1>4. s \in BrowserSlot /\ f[s].use = "free"
  BY <1>1, Drops DEF Vacant, Present
<1>5. f[s].closing = 0 /\ browsers[s].active = 0
  <2>1. /\ f[s] \in Browser /\ BrowserWell(f[s]) /\ f[s].active = browsers[s].active
        /\ f[s].active > 0 => f[s].use # "free"
    BY <1>4, Drops
  <2>2. f[s].active \in 0..1 /\ f[s].closing \in 0..1
    BY <2>1 DEF Browser
  <2> QED BY <1>4, <2>1, <2>2 DEF BrowserWell
<1>6. Key(r) \in ExitSlot \cup Node \cup Entry \cup Endpoint \cup {NoNode, "direct", "old"}
  <2>1. run[r].node \in Node \cup Entry \cup Endpoint \cup {NoNode}
    BY DEF Inv, TypeOK, Run
  <2> QED BY <2>1 DEF Key
<1> DEFINE key == Key(r)
           yes == TRUE
<1>7. b = [NoBrowser EXCEPT !.use = "browser", !.key = key, !.active = 1, !.launching = yes]
  OBVIOUS
<1> HIDE DEF key, yes, b
<1>8. b \in Browser /\ b.active = 1 /\ b.closing = 0 /\ b.use # "free"
  <2>1. key \in ExitSlot \cup Node \cup Entry \cup Endpoint \cup {NoNode, "direct", "old"}
    BY <1>6 DEF key
  <2>2. yes \in BOOLEAN
    BY DEF yes
  <2>3. /\ NoBrowser \in Browser /\ NoBrowser.closing = 0
    BY DEF NoBrowser, Browser
  <2> DEFINE c == [NoBrowser EXCEPT !.use = "browser", !.key = key]
             d == [c EXCEPT !.launching = yes]
  <2>4. c \in Browser /\ c.use # "free" /\ c.closing = 0
    BY <2>1, <2>3 DEF Browser
  <2> HIDE DEF c
  <2>5. d \in Browser /\ d.use # "free" /\ d.closing = 0
    BY <2>2, <2>4 DEF Browser
  <2>6. b = [d EXCEPT !.active = 1]
    BY <1>7, <2>3 DEF c, NoBrowser
  <2> HIDE DEF d
  <2> QED BY <2>5, <2>6 DEF Browser
<1>9. browsers' \in [BrowserSlot -> Browser] /\ BrowsersMove(S, s)
  BY <1>2, <1>4, <1>5, <1>8, BrowserTaken
<1> DEFINE pc == "browserLaunch"
<1>10. pc \in {"browserLaunch", "context"} /\ Taking(r, S, pc, s)
  BY <1>3 DEF Taking
<1> HIDE DEF pc
<1>11. PICK k \in Run : /\ k.slot = run[r].slot /\ k.pc = pc /\ k.browser = s
                        /\ run' = [Evicted(S) EXCEPT ![r] = k]
  BY <1>4, <1>10, LooksRun
<1>12. SleepersTyped'
  BY <1>2 DEF SleepersTyped, Inv, TypeOK
<1>13. /\ UNCHANGED <<fixed, taskVars, exitVars, apiVars, uploading, marks, lostVars, starts, faults>>
       /\ BrowsersMove(S, k.browser)
       /\ k.pc \in {"browserLaunch", "context"} /\ k.browser \in BrowserSlot /\ browsers[k.browser].active = 0
  BY <1>4, <1>5, <1>9, <1>10, <1>11 DEF Looking
<1> QED BY <1>9, <1>11, <1>12, <1>13, LooksStep

\* All ways an attempt gets a browser, or waits for one.
LEMMA AcquireBrowserKeeps ==
  ASSUME Inv, NEW r \in Worker, AcquireBrowser(r), UNCHANGED fixed
  PROVE  Inv'
<1>1. run[r].pc = "browser" /\ Looking
  BY DEF AcquireBrowser, At, Looking
<1> DEFINE b(dead) == Remove(browsers, dead, NoBrowser)
<1>2. PICK dead \in IF IdleDead(browsers) = {} THEN {{}} ELSE {{s} : s \in IdleDead(browsers)} :
        \/ \E s \in Usable(b(dead), Key(r)) :
              /\ browsers' = LeaseBrowser(b(dead), s) /\ UNCHANGED asleep
              /\ run' = [Evicted(dead) EXCEPT ![r].pc = "context", ![r].browser = s]
        \/ Vacant(b(dead)) # {} /\ Launches(r, b(dead), dead)
        \/ \E s \in Idle(b(dead)) : Launches(r, Remove(b(dead), {s}, NoBrowser), dead \cup {s})
        \/ browsers' = b(dead) /\ asleep' = Sleep(r, "browser") /\ run' = Evicted(dead)
  BY Zenon DEF AcquireBrowser, Launches, Evicted
<1> DEFINE f == b(dead)
<1>3. browsers \in [BrowserSlot -> Browser] /\ NoBrowser \in Browser
  <2>1. browsers \in [BrowserSlot -> Browser]
    BY DEF Inv, TypeOK
  <2> QED BY <2>1 DEF NoBrowser, Browser
<1>4. IdleSlots(dead)
  BY <1>2, <1>3 DEF IdleSlots, IdleDead, Present
<1>5. Dropped(f, dead)
  BY <1>3 DEF Dropped, Remove
<1>6. CASE \E s \in Usable(f, Key(r)) :
             /\ browsers' = LeaseBrowser(f, s) /\ UNCHANGED asleep
             /\ run' = [Evicted(dead) EXCEPT ![r].pc = "context", ![r].browser = s]
  <2>1. PICK s \in Usable(f, Key(r)) :
             /\ browsers' = LeaseBrowser(f, s) /\ UNCHANGED asleep
             /\ run' = [Evicted(dead) EXCEPT ![r].pc = "context", ![r].browser = s]
    BY <1>6
  <2> HIDE DEF f
  <2>2. s \in BrowserSlot /\ f[s].use # "free" /\ ~f[s].retiring /\ f[s].active = 0
    BY <1>4, <1>5, Drops DEF Usable, Present
  <2>3. f[s] \in Browser /\ BrowserWell(f[s]) /\ f[s].active = browsers[s].active
    BY <1>4, <1>5, <2>2, Drops
  <2>4. f[s].closing = 0
    <3>1. f[s].closing \in 0..1
      BY <2>3 DEF Browser
    <3> QED BY <2>2, <2>3, <3>1 DEF BrowserWell
  <2> DEFINE k == [f[s] EXCEPT !.active = 1]
  <2>5. k \in Browser /\ k.active = 1 /\ k.closing = 0 /\ k.use # "free"
    BY <2>2, <2>3, <2>4 DEF Browser
  <2>6. browsers' = [f EXCEPT ![s] = k]
    BY <2>1 DEF LeaseBrowser
  <2> HIDE DEF k
  <2>7. browsers' \in [BrowserSlot -> Browser] /\ BrowsersMove(dead, s)
    BY <1>4, <1>5, <2>2, <2>4, <2>5, <2>6, BrowserTaken
  <2> DEFINE pc == "context"
  <2>8. pc \in {"browserLaunch", "context"} /\ Taking(r, dead, pc, s)
    BY <2>1 DEF Taking
  <2> HIDE DEF pc
  <2>9. PICK j \in Run : /\ j.slot = run[r].slot /\ j.pc = pc /\ j.browser = s
                         /\ run' = [Evicted(dead) EXCEPT ![r] = j]
    BY <1>1, <1>4, <2>2, <2>8, LooksRun
  <2>10. SleepersTyped'
    BY <2>1 DEF SleepersTyped, Inv, TypeOK
  <2>11. /\ UNCHANGED <<fixed, taskVars, exitVars, apiVars, uploading, marks, lostVars, starts, faults>>
         /\ BrowsersMove(dead, j.browser)
         /\ j.pc \in {"browserLaunch", "context"} /\ j.browser \in BrowserSlot
         /\ browsers[j.browser].active = 0
    BY <1>1, <2>2, <2>3, <2>7, <2>8, <2>9 DEF Looking
  <2> QED BY <1>1, <1>4, <2>7, <2>9, <2>10, <2>11, LooksStep
<1>7. CASE Vacant(f) # {} /\ Launches(r, f, dead)
  <2> HIDE DEF f
  <2> QED BY <1>1, <1>4, <1>5, <1>7, LaunchKeeps
<1>8. CASE \E s \in Idle(f) : Launches(r, Remove(f, {s}, NoBrowser), dead \cup {s})
  <2>1. PICK s \in Idle(f) : Launches(r, Remove(f, {s}, NoBrowser), dead \cup {s})
    BY <1>8
  <2> HIDE DEF f
  <2> DEFINE g == Remove(f, {s}, NoBrowser)
             S == dead \cup {s}
  <2>2. s \in BrowserSlot /\ f[s].active = 0
    BY <1>4, <1>5, Drops DEF Idle, Present
  <2>3. IdleSlots(S)
    <3>1. browsers[s].active = 0
      BY <1>4, <1>5, <2>2, Drops
    <3> QED BY <1>4, <2>2, <3>1 DEF IdleSlots
  <2>4. Dropped(g, S)
    BY <1>3, <1>5 DEF Dropped, Remove
  <2>5. s \in Vacant(g)
    <3>1. g[s] = NoBrowser /\ s \in DOMAIN g /\ NoBrowser.use = "free"
      BY <1>5, <2>2 DEF Remove, Dropped, NoBrowser
    <3> QED BY <3>1 DEF Vacant, Present
  <2>6. Launches(r, g, S)
    BY <2>1
  <2> HIDE DEF g, S
  <2> QED BY <1>1, <2>3, <2>4, <2>5, <2>6, LaunchKeeps
<1>9. CASE browsers' = f /\ asleep' = Sleep(r, "browser") /\ run' = Evicted(dead)
  <2> HIDE DEF f
  <2> DEFINE k == run[r]
  <2>1. k \in Run /\ k.pc = "browser" /\ k.browser = NoSlot /\ NoSlot \notin dead
    BY <1>1, <1>4, PoolConstants DEF Inv, TypeOK, Located, IdleSlots
  <2>2. Evicted(dead) \in [Worker -> Run] /\ Evicted(dead)[r] = k
    BY <1>4, <2>1, Evicts
  <2> HIDE DEF k
  <2>3. run' = [Evicted(dead) EXCEPT ![r] = k]
    BY <1>9, <2>2
  <2>4. SleepersTyped'
    BY <1>9, Sleepers DEF SleepersTyped, Pool, Inv
  <2>5. browsers' \in [BrowserSlot -> Browser] /\ BrowsersMove(dead, k.browser)
    <3>1. \A t \in BrowserSlot : t # k.browser
      BY <2>1, PoolConstants
    <3> QED BY <1>4, <1>5, <1>9, <3>1, Drops DEF Dropped, BrowsersMove
  <2>6. k.slot = run[r].slot
    BY DEF k
  <2>7. UNCHANGED <<fixed, taskVars, exitVars, apiVars, uploading, marks, lostVars, starts, faults>>
    BY <1>1 DEF Looking
  <2> QED BY <1>1, <1>4, <2>1, <2>3, <2>4, <2>5, <2>6, <2>7, LooksStep
<1> QED BY <1>2, <1>6, <1>7, <1>8, <1>9

-----------------------------------------------------------------------------
(* What the finally blocks give back, and what an interruption loses.          *)

\* What a failure makes of the marks.
LEMMA Charges ==
  ASSUME TypeOK, NEW r \in Worker
  PROVE  /\ Unpinned(r) \in [Worker -> Node \cup {NoNode}]
         /\ Avoided(r) \in [Worker -> Node \cup Entry \cup Endpoint \cup {NoNode}]
         /\ Cooled(r) \subseteq Node \cup Entry /\ MarksTyped
<1>1. run[r].node \in Node \cup Entry \cup Endpoint \cup {NoNode}
  BY DEF TypeOK, Run
<1>2. MarksTyped
  BY DEF TypeOK, MarksTyped
<1> QED BY <1>1, <1>2 DEF MarksTyped, Unpinned, Avoided, Cooled

\* The runner gives back an exit, or an endpoint.
LEMMA ExitGivenBack ==
  ASSUME Inv, NEW r \in Worker, NEW s \in ExitSlot, run[r].slot = s, Held(r)' = NoSlot,
         \A t \in ExitSlot : lost'[t] = lost[t], NEW c, exits' = ReleaseExit(exits, s, c)
  PROVE  /\ exits' \in [ExitSlot -> Exit] /\ CountsExits(r)
         /\ \A t \in ExitSlot : ExitWell(exits'[t])
<1>1. exits \in [ExitSlot -> Exit] /\ exits[s] \in Exit /\ ExitWell(exits[s]) /\ exits[s].active = 1
  BY HeldExit DEF Inv, TypeOK, SlotsMadeWell
<1> DEFINE old == exits[s].retiring \/ exits[s].node \in c
           k == [exits[s] EXCEPT !.active = 0, !.retiring = old]
           n == IF k.retiring THEN NoExit ELSE k
<1>2. old \in BOOLEAN
  BY <1>1 DEF Exit
<1> HIDE DEF old
<1>3. k \in Exit /\ k.active = 0 /\ ExitWell(k)
  <2> DEFINE j == [exits[s] EXCEPT !.retiring = old]
  <2>1. j \in Exit /\ ExitWell(j) /\ k = [j EXCEPT !.active = 0]
    BY <1>1, <1>2 DEF Exit, ExitWell
  <2> HIDE DEF j, k
  <2>2. 0 \in 0..1
    OBVIOUS
  <2> QED BY <2>1, <2>2 DEF Exit, ExitWell
<1>4. exits' = [exits EXCEPT ![s] = n]
  BY DEF ReleaseExit, old
<1> HIDE DEF k
<1>5. n \in Exit /\ n.active = 0 /\ ExitWell(n)
  BY <1>3, NewSlots
<1> HIDE DEF n
<1>6. exits' \in [ExitSlot -> Exit] /\ exits'[s] = n /\ \A t \in ExitSlot \ {s} : exits'[t] = exits[t]
  BY <1>1, <1>4, <1>5
<1>7. ASSUME NEW t \in ExitSlot
      PROVE  /\ exits'[t].active = exits[t].active + (lost'[t] - lost[t]) + One(Held(r)' = t) - One(Held(r) = t)
             /\ exits'[t].active > 0 => exits'[t].use # "free"
             /\ ExitWell(exits'[t])
  <2>1. exits[t].active \in Nat /\ t # NoSlot /\ lost[t] \in Nat /\ lost'[t] = lost[t] /\ Held(r) = s
    BY Numbers DEF Inv, Held
  <2>2. CASE t = s
    <3>1. One(Held(r)' = t) = 0 /\ One(Held(r) = t) = 1
      BY <2>1, <2>2 DEF One
    <3> QED BY <1>1, <1>5, <1>6, <2>1, <2>2, <3>1
  <2>3. CASE t # s
    <3>1. One(Held(r)' = t) = 0 /\ One(Held(r) = t) = 0
      BY <2>1, <2>3 DEF One
    <3>2. exits'[t] = exits[t] /\ ExitWell(exits[t]) /\ (exits[t].active > 0 => exits[t].use # "free")
      BY <1>6, <2>3 DEF Inv, SlotsMadeWell, ExitsHeld
    <3> QED BY <2>1, <3>1, <3>2
  <2> QED BY <2>2, <2>3
<1> QED BY <1>6, <1>7 DEF CountsExits

\* An endpoint that a runner holds has a lease to give back.
LEMMA HeldApi ==
  ASSUME Inv, NEW r \in Worker, run[r].slot \in ApiSlot
  PROVE  apis[run[r].slot].active > 0 /\ apis[run[r].slot].use # "free"
<1> DEFINE s == run[r].slot
<1>1. r \in Holders(s) /\ Holders(s) \subseteq Worker
  BY DEF Holders
<1>2. IsFiniteSet(Holders(s))
  BY <1>1, AttemptConstants, FS_Subset
<1>3. Cardinality(Holders(s)) \in Nat /\ Cardinality(Holders(s)) # 0
  BY <1>1, <1>2, FS_CardinalityType, FS_EmptySet
<1>4. lost[s] \in Nat
  BY Numbers DEF Inv
<1>5. apis[s].active = Leases(s) /\ (Leases(s) > 0 => apis[s].use # "free")
  BY DEF Inv, ApisHeld
<1> HIDE DEF s
<1> QED BY <1>3, <1>4, <1>5 DEF Leases, s

LEMMA EndpointGivenBack ==
  ASSUME Inv, NEW r \in Worker, NEW s \in ApiSlot, run[r].slot = s, Held(r)' = NoSlot,
         \A t \in ApiSlot : lost'[t] = lost[t], NEW bad \in BOOLEAN,
         apis' = ReleaseEndpoint([apis EXCEPT ![s].invalid = bad], s)
  PROVE  /\ apis' \in [ApiSlot -> Api] /\ CountsApis(r)
         /\ \A t \in ApiSlot : ApiWell(apis'[t])
         /\ Present(apis)' \subseteq Present(apis)
<1> DEFINE a == [apis[s] EXCEPT !.invalid = bad]
           p == [apis EXCEPT ![s] = a]
           c == a.active - 1
           k == [a EXCEPT !.active = c]
           n == IF k.invalid /\ k.active = 0 THEN NoApi ELSE k
<1>0. apis' = ReleaseEndpoint(p, s)
  OBVIOUS
<1>1. apis \in [ApiSlot -> Api] /\ apis[s] \in Api /\ ApiWell(apis[s]) /\ apis[s].use # "free"
  BY HeldApi DEF Inv, TypeOK, SlotsMadeWell
<1>2. a \in Api /\ a.use = apis[s].use /\ a.node = apis[s].node /\ a.active = apis[s].active
  BY <1>1 DEF Api
<1> HIDE DEF a
<1>3. p \in [ApiSlot -> Api] /\ p[s] = a /\ \A t \in ApiSlot \ {s} : p[t] = apis[t]
  BY <1>1, <1>2
<1> HIDE DEF p
<1>4. apis' = [p EXCEPT ![s] = n]
  BY <1>0, <1>3 DEF ReleaseEndpoint
<1>5. apis[s].active \in Nat /\ apis[s].active > 0 /\ apis[s].active \in 0..PerEndpoint /\ PerEndpoint \in Nat
  BY <1>1, HeldApi, Numbers, PoolConstants DEF Inv, Api
<1>6. c \in 0..PerEndpoint /\ c = apis[s].active - 1
  BY <1>2, <1>5
<1> HIDE DEF c
<1>7. k \in Api /\ k.active = c /\ k.use = apis[s].use /\ ApiWell(k)
  BY <1>1, <1>2, <1>6 DEF Api, ApiWell
<1>8. NoApi \in Api /\ NoApi.active = 0 /\ NoApi.use = "free" /\ ApiWell(NoApi)
  BY PoolConstants DEF NoApi, Api, ApiWell
<1> HIDE DEF k
<1>9. n \in Api /\ n.active = c /\ ApiWell(n) /\ (n.active > 0 => n.use # "free")
  BY <1>1, <1>6, <1>7, <1>8
<1> HIDE DEF n
<1>10. apis' \in [ApiSlot -> Api] /\ apis'[s] = n /\ \A t \in ApiSlot \ {s} : apis'[t] = apis[t]
  BY <1>3, <1>4, <1>9
<1>11. ASSUME NEW t \in ApiSlot
      PROVE  /\ apis'[t].active = apis[t].active + (lost'[t] - lost[t]) + One(Held(r)' = t) - One(Held(r) = t)
             /\ apis'[t].active > 0 => apis'[t].use # "free"
             /\ ApiWell(apis'[t])
  <2>1. apis[t].active \in Nat /\ t # NoSlot /\ lost[t] \in Nat /\ lost'[t] = lost[t] /\ Held(r) = s
    BY Numbers DEF Inv, Held
  <2>2. CASE t = s
    <3>1. One(Held(r)' = t) = 0 /\ One(Held(r) = t) = 1
      BY <2>1, <2>2 DEF One
    <3> QED BY <1>6, <1>9, <1>10, <2>1, <2>2, <3>1
  <2>3. CASE t # s
    <3>1. One(Held(r)' = t) = 0 /\ One(Held(r) = t) = 0
      BY <2>1, <2>3 DEF One
    <3>2. apis'[t] = apis[t] /\ ApiWell(apis[t]) /\ (apis[t].active > 0 => apis[t].use # "free")
      BY <1>10, <2>3 DEF Inv, SlotsMadeWell, ApisHeld
    <3> QED BY <2>1, <3>1, <3>2
  <2> QED BY <2>2, <2>3
<1>12. Present(apis)' \subseteq Present(apis)
  <2>1. ASSUME NEW t \in ApiSlot PROVE apis'[t].use # "free" => apis[t].use # "free"
    BY <1>1, <1>10
  <2>2. DOMAIN apis' = ApiSlot /\ DOMAIN apis = ApiSlot
    BY <1>1, <1>10
  <2> QED BY <2>1, <2>2 DEF Present
<1> QED BY <1>10, <1>11, <1>12 DEF CountsApis

\* Fewer endpoints leave more room for the fetches.
LEMMA FetchesFit ==
  ASSUME Inv, NEW r \in Worker, apis' \in [ApiSlot -> Api], Present(apis)' \subseteq Present(apis),
         UNCHANGED <<fetching, lostFetch>>, run'[r].pc # "fetch", run[r].pc # "fetch"
  PROVE  CountsFetches(r)
<1>1. One(run'[r].pc = "fetch") = 0 /\ One(run[r].pc = "fetch") = 0
  BY DEF One
<1>2. fetching \in Nat /\ lostFetch \in Nat /\ fetching' = fetching /\ lostFetch' = lostFetch
  BY Numbers DEF Inv
<1> DEFINE p == apis'
<1>3. p \in [ApiSlot -> Api] /\ Present(p) \subseteq Present(apis) /\ Present(apis)' = Present(p)
  BY DEF Present
<1> HIDE DEF p
<1>4. /\ Cardinality(Present(p)) \in Nat /\ Cardinality(ApiSlot) \in Nat
      /\ Cardinality(Present(p)) <= Cardinality(Present(apis)) /\ Cardinality(Present(apis)) \in Nat
      /\ Cardinality(Present(apis)) + fetching <= Cardinality(ApiSlot)
  BY <1>3, CountsPresent
<1>5. Cardinality(Present(apis)') + fetching' <= Cardinality(ApiSlot)
  BY <1>2, <1>3, <1>4
<1> QED BY <1>1, <1>2, <1>5 DEF CountsFetches

\* The attempt has given back its proxy: it returns with the outcome it had.
LEMMA UnleasedStep ==
  ASSUME Inv, NEW r \in Worker, run[r].pc = "unproxy", Unleased(r),
         UNCHANGED <<fixed, taskVars, lock, uploading>>
  PROVE  /\ run' \in [Worker -> Run] /\ Others(r) /\ run'[r].pc = "return"
         /\ Held(r)' = NoSlot /\ Lent(r)' = NoSlot /\ Lent(r) = NoSlot
         /\ Closes(r)' = NoSlot /\ Closes(r) = NoSlot
         /\ Located(r)' /\ UploadsKept(r) /\ \A x \in Worker : Told(x)'
<1> DEFINE k == [run[r] EXCEPT !.pc = "return", !.slot = NoSlot]
<1>1. TypeOK /\ Located(r) /\ run[r] \in Run
  BY DEF Inv, TypeOK
<1>2. run' = [run EXCEPT ![r] = k]
  BY Zenon DEF Unleased
<1>3. k \in Run /\ k.pc = "return" /\ k.slot = NoSlot /\ k.browser = run[r].browser /\ k.out = run[r].out
  BY <1>1 DEF Run, Place
<1> HIDE DEF k
<1>4. run' \in [Worker -> Run] /\ Others(r) /\ run'[r] = k
  BY <1>1, <1>2, <1>3, RunStep
<1>5. run[r].browser = NoSlot /\ lock # r /\ r \notin uploading
  BY <1>1 DEF Located
<1>6. Located(r)'
  BY <1>3, <1>4, <1>5 DEF Located
<1>7. \A x \in Worker : Told(x)'
  <2>1. run[r].pc \in Leaving /\ run'[r].pc \in Leaving /\ run'[r].out = run[r].out
    BY <1>3, <1>4 DEF Leaving
  <2>2. \A x \in Worker \ {r} : /\ run'[x].pc = run[x].pc /\ run'[x].out = run[x].out
                                /\ run'[x].answer = run[x].answer
    BY <1>4 DEF Others
  <2>3. UNCHANGED <<fixed, taskVars>> /\ \A x \in Worker : Told(x)
    BY DEF Inv
  <2> QED BY <2>1, <2>2, <2>3, OutcomeKept
<1> QED BY <1>3, <1>4, <1>5, <1>6, <1>7 DEF Held, Lent, Closes, UploadsKept

\* The proxy is given back.
LEMMA ReleaseProxyKeeps ==
  ASSUME Inv, NEW r \in Worker, ReleaseProxy(r), UNCHANGED fixed
  PROVE  Inv'
<1>1. /\ TypeOK /\ SlotsMadeWell /\ run[r].pc = "unproxy" /\ Unleased(r)
      /\ UNCHANGED <<taskVars, lock, fetching, backoff, browsers, uploading, down, lostVars, starts, faults>>
  BY DEF Inv, ReleaseProxy, At
<1>2. /\ run' \in [Worker -> Run] /\ Others(r) /\ run'[r].pc = "return"
      /\ Held(r)' = NoSlot /\ Lent(r)' = NoSlot /\ Lent(r) = NoSlot
      /\ Closes(r)' = NoSlot /\ Closes(r) = NoSlot
      /\ Located(r)' /\ UploadsKept(r) /\ \A x \in Worker : Told(x)'
  BY <1>1, UnleasedStep
<1>3. MarksTyped'
  <2>1. \/ pin' = Unpinned(r) /\ avoid' = Avoided(r) /\ cooling' = Cooled(r)
        \/ UNCHANGED <<pin, avoid, cooling>>
    BY DEF ReleaseProxy
  <2> QED BY <1>1, <2>1, Charges DEF MarksTyped
<1>4. \A t \in ExitSlot \cup ApiSlot \cup BrowserSlot : lost'[t] = lost[t]
  BY <1>1 DEF lostVars
<1>5. CountsBrowsers(r) /\ \A t \in BrowserSlot : BrowserWell(browsers'[t])
  BY <1>1, <1>2, <1>4, BrowsersStand
<1> DEFINE s == run[r].slot
           bad == apis[s].invalid \/ run[r].out = "raised"
<1>6. \/ s = NoSlot /\ UNCHANGED <<exits, apis, asleep>>
      \/ /\ s \in ExitSlot /\ lock = NoRunner
         /\ exits' = ReleaseExit(exits, s, cooling') /\ asleep' = Wake("exit") /\ UNCHANGED apis
      \/ /\ s \in ApiSlot
         /\ apis' = ReleaseEndpoint([apis EXCEPT ![s].invalid = bad], s) /\ asleep' = Wake("api")
         /\ UNCHANGED exits
  BY Zenon DEF ReleaseProxy
<1>7. SleepersTyped'
  <2>1. asleep' = asleep \/ asleep' = Wake("exit") \/ asleep' = Wake("api")
    BY <1>6
  <2> QED BY <1>1, <2>1, Sleepers, ZenonT(40) DEF SleepersTyped, Pool, TypeOK
<1>8. Held(r) = s /\ NoSlot \notin ExitSlot /\ NoSlot \notin ApiSlot /\ NoRunner \notin Worker
      /\ ExitSlot \cap ApiSlot = {}
  BY PoolConstants, AttemptConstants DEF Held
<1>9. bad \in BOOLEAN
  BY <1>1 DEF TypeOK, Api
<1> HIDE DEF bad, s
<1>10. /\ exits' \in [ExitSlot -> Exit] /\ CountsExits(r) /\ (\A t \in ExitSlot : ExitWell(exits'[t]))
       /\ LockKept(r)
  <2>1. CASE s \in ExitSlot /\ lock = NoRunner /\ exits' = ReleaseExit(exits, s, cooling')
    <3> DEFINE c == cooling'
    <3>1. exits' = ReleaseExit(exits, s, c)
      BY <2>1
    <3> HIDE DEF c
    <3>2. \A x \in Worker : lock # x /\ lock' # x
      BY <1>1, <1>8, <2>1
    <3> QED BY <1>2, <1>4, <1>8, <2>1, <3>1, <3>2, ExitGivenBack DEF LockKept, s
  <2>2. CASE s \notin ExitSlot
    <3>1. exits' = exits
      BY <1>6, <2>2
    <3>2. \A t \in ExitSlot : One(Held(r)' = t) = One(Held(r) = t)
      BY <1>2, <1>8, <2>2 DEF One
    <3>3. \A t \in ExitSlot : exits[t].active \in Nat /\ lost[t] \in Nat /\ One(Held(r) = t) \in {0, 1}
      BY <1>1, Numbers DEF One
    <3>4. CountsExits(r)
      <4>1. \A t \in ExitSlot : exits[t].active > 0 => exits[t].use # "free"
        BY DEF Inv, ExitsHeld
      <4> QED BY <1>4, <3>1, <3>2, <3>3, <4>1 DEF CountsExits
    <3> QED BY <1>1, <3>1, <3>4 DEF TypeOK, SlotsMadeWell, LockKept, Vacant, Present
  <2> QED BY <1>6, <1>8, <2>1, <2>2
<1>11. /\ apis' \in [ApiSlot -> Api] /\ CountsApis(r) /\ (\A t \in ApiSlot : ApiWell(apis'[t]))
       /\ Present(apis)' \subseteq Present(apis)
  <2>1. CASE s \in ApiSlot
    <3>1. apis' = ReleaseEndpoint([apis EXCEPT ![s].invalid = bad], s)
      BY <1>6, <1>8, <2>1
    <3> QED BY <1>2, <1>4, <1>8, <1>9, <2>1, <3>1, EndpointGivenBack DEF s
  <2>2. CASE s \notin ApiSlot
    <3>1. apis' = apis
      BY <1>6, <2>2
    <3>2. \A t \in ApiSlot : One(Held(r)' = t) = One(Held(r) = t)
      BY <1>2, <1>8, <2>2 DEF One
    <3>3. \A t \in ApiSlot : apis[t].active \in Nat /\ lost[t] \in Nat /\ One(Held(r) = t) \in {0, 1}
      BY <1>1, Numbers DEF One
    <3>4. CountsApis(r)
      <4>1. \A t \in ApiSlot : apis[t].active > 0 => apis[t].use # "free"
        BY DEF Inv, ApisHeld
      <4> QED BY <1>4, <3>1, <3>2, <3>3, <4>1 DEF CountsApis
    <3> QED BY <1>1, <3>1, <3>4 DEF TypeOK, SlotsMadeWell, Present
  <2> QED BY <2>1, <2>2
<1>12. CountsFetches(r)
  BY <1>1, <1>2, <1>11, FetchesFit DEF lostVars
<1>13. TypeOK'
  BY <1>1, <1>2, <1>3, <1>7, <1>10, <1>11
     DEF TypeOK, MarksTyped, SleepersTyped, fixed, taskVars, lostVars
<1>14. SlotsMadeWell'
  BY <1>5, <1>10, <1>11 DEF SlotsMadeWell
<1>15. UNCHANGED fixed
  OBVIOUS
<1> QED BY <1>2, <1>5, <1>10, <1>11, <1>12, <1>13, <1>14, <1>15, RunnerStep

\* A lease that is not given back is lost: the slots stand.
LEMMA LeasesLost ==
  ASSUME Inv, NEW r \in Worker,
         \A t \in Slot : lost'[t] \in Nat
  PROVE  /\ exits' = exits
              /\ (\A t \in ExitSlot : lost'[t] = lost[t] + One(Held(r) = t) - One(Held(r)' = t))
            => CountsExits(r) /\ \A t \in ExitSlot : ExitWell(exits'[t])
         /\ apis' = apis
              /\ (\A t \in ApiSlot : lost'[t] = lost[t] + One(Held(r) = t) - One(Held(r)' = t))
            => /\ CountsApis(r) /\ \A t \in ApiSlot : ApiWell(apis'[t])
               /\ apis' \in [ApiSlot -> Api] /\ Present(apis)' \subseteq Present(apis)
         /\ browsers' = browsers /\ Closes(r)' = Closes(r)
              /\ (\A t \in BrowserSlot : lost'[t] = lost[t] + One(Lent(r) = t) - One(Lent(r)' = t))
            => CountsBrowsers(r) /\ \A t \in BrowserSlot : BrowserWell(browsers'[t])
<1>1. TypeOK /\ SlotsMadeWell /\ ExitsHeld /\ ApisHeld /\ BrowsersHeld
  BY DEF Inv
<1>2. \A b : One(b) \in {0, 1}
  BY DEF One
<1>3. ASSUME exits' = exits,
             \A t \in ExitSlot : lost'[t] = lost[t] + One(Held(r) = t) - One(Held(r)' = t)
      PROVE  CountsExits(r) /\ \A t \in ExitSlot : ExitWell(exits'[t])
  <2>1. ASSUME NEW t \in ExitSlot
        PROVE  /\ exits'[t].active = exits[t].active + (lost'[t] - lost[t]) + One(Held(r)' = t) - One(Held(r) = t)
               /\ exits'[t].active > 0 => exits'[t].use # "free"
    <3>1. exits[t].active \in Nat /\ lost[t] \in Nat /\ (exits[t].active > 0 => exits[t].use # "free")
      BY <1>1, Numbers DEF ExitsHeld
    <3>2. One(Held(r) = t) \in {0, 1} /\ One(Held(r)' = t) \in {0, 1}
      BY <1>2
    <3> QED BY <1>3, <3>1, <3>2
  <2> QED BY <1>1, <1>3, <2>1 DEF CountsExits, SlotsMadeWell
<1>4. ASSUME apis' = apis,
             \A t \in ApiSlot : lost'[t] = lost[t] + One(Held(r) = t) - One(Held(r)' = t)
      PROVE  /\ CountsApis(r) /\ \A t \in ApiSlot : ApiWell(apis'[t])
             /\ apis' \in [ApiSlot -> Api] /\ Present(apis)' \subseteq Present(apis)
  <2>1. ASSUME NEW t \in ApiSlot
        PROVE  /\ apis'[t].active = apis[t].active + (lost'[t] - lost[t]) + One(Held(r)' = t) - One(Held(r) = t)
               /\ apis'[t].active > 0 => apis'[t].use # "free"
    <3>1. apis[t].active \in Nat /\ lost[t] \in Nat /\ (apis[t].active > 0 => apis[t].use # "free")
      BY <1>1, Numbers DEF ApisHeld
    <3>2. One(Held(r) = t) \in {0, 1} /\ One(Held(r)' = t) \in {0, 1}
      BY <1>2
    <3> QED BY <1>4, <3>1, <3>2
  <2>2. apis' \in [ApiSlot -> Api] /\ Present(apis)' \subseteq Present(apis)
    BY <1>1, <1>4 DEF TypeOK, Present
  <2> QED BY <1>1, <1>4, <2>1, <2>2 DEF CountsApis, SlotsMadeWell
<1>5. ASSUME browsers' = browsers, Closes(r)' = Closes(r),
             \A t \in BrowserSlot : lost'[t] = lost[t] + One(Lent(r) = t) - One(Lent(r)' = t)
      PROVE  CountsBrowsers(r) /\ \A t \in BrowserSlot : BrowserWell(browsers'[t])
  <2>1. ASSUME NEW t \in BrowserSlot
        PROVE  /\ browsers'[t].active
                    = browsers[t].active + (lost'[t] - lost[t]) + One(Lent(r)' = t) - One(Lent(r) = t)
               /\ browsers'[t].active > 0 => browsers'[t].use # "free"
               /\ browsers'[t].closing = browsers[t].closing + One(Closes(r)' = t) - One(Closes(r) = t)
    <3>1. /\ browsers[t].active \in Nat /\ browsers[t].closing \in Nat /\ lost[t] \in Nat
          /\ browsers[t].active > 0 => browsers[t].use # "free"
      BY <1>1, Numbers DEF BrowsersHeld
    <3>2. /\ One(Lent(r) = t) \in {0, 1} /\ One(Lent(r)' = t) \in {0, 1}
          /\ One(Closes(r)' = t) = One(Closes(r) = t) /\ One(Closes(r) = t) \in {0, 1}
      BY <1>2, <1>5
    <3> QED BY <1>5, <3>1, <3>2
  <2> QED BY <1>1, <1>5, <2>1 DEF CountsBrowsers, SlotsMadeWell
<1> QED BY <1>3, <1>4, <1>5

LEMMA StillTold ==
  ASSUME NEW r \in Worker, UNCHANGED fixed, \A x \in Worker : Told(x), OthersTold(r),
         run[r].pc \notin Leaving \cup {"idle"},
         meta'[r].status = meta[r].status, found'[r] \notin Known,
         run'[r].pc = "answer" \/ Quits(r)
  PROVE  \A x \in Worker : Told(x)'
<1>1. \A x \in Worker \ {r} : Told(x)'
  BY OthersKept
<1>2. meta[r].status \in {"running", "submitted", "canceled"} /\ meta[r].status # "submitted"
  BY DEF Told
<1>3. Told(r)'
  <2>1. CASE run'[r].pc = "answer"
    <3>1. "answer" \notin Leaving
      BY DEF Leaving
    <3> QED BY <1>2, <2>1, <3>1 DEF Told
  <2>2. CASE run'[r].pc \in Asking /\ (~unsure'[r] => heard'[r] # "accepted")
    <3>1. run'[r].pc \notin Leaving /\ run'[r].pc # "idle" /\ run'[r].pc # "record"
      BY <2>2 DEF Asking
    <3> QED BY <1>2, <2>2, <3>1 DEF Told
  <2>3. CASE /\ run'[r].pc = "close" /\ run'[r].out \notin {"", "done", "submitted"}
             /\ ~unsure'[r] => heard'[r] # "accepted"
    <3>1. run'[r].pc \in Leaving
      BY <2>3 DEF Leaving
    <3> QED BY <1>2, <2>3, <3>1 DEF Told
  <2> QED BY <2>1, <2>2, <2>3 DEF Quits
<1> QED BY <1>1, <1>3

\* The exit stays taken for good.
LEMMA LoseReleaseKeeps ==
  ASSUME Inv, NEW r \in Worker, LoseRelease(r), UNCHANGED fixed
  PROVE  Inv'
<1> DEFINE s == run[r].slot
<1>1. /\ TypeOK /\ run[r].pc = "unproxy" /\ Unleased(r) /\ s \in ExitSlot
      /\ UNCHANGED <<taskVars, exitVars, apiVars, browsers, uploading, asleep, down, lostFetch, starts, faults>>
  BY DEF Inv, LoseRelease, At
<1>2. /\ run' \in [Worker -> Run] /\ Others(r) /\ run'[r].pc = "return"
      /\ Held(r)' = NoSlot /\ Lent(r)' = NoSlot /\ Lent(r) = NoSlot
      /\ Closes(r)' = NoSlot /\ Closes(r) = NoSlot
      /\ Located(r)' /\ UploadsKept(r) /\ \A x \in Worker : Told(x)'
  BY <1>1, UnleasedStep DEF exitVars
<1>3. MarksTyped'
  <2>1. \/ pin' = Unpinned(r) /\ avoid' = Avoided(r) /\ cooling' = Cooled(r)
        \/ UNCHANGED <<pin, avoid, cooling>>
    BY DEF LoseRelease
  <2> QED BY <1>1, <2>1, Charges DEF MarksTyped
<1>4. /\ Held(r) = s /\ s # NoSlot /\ s \in Slot /\ \A t \in Slot : t # NoSlot
      /\ \A t \in ApiSlot \cup BrowserSlot : t # s
  BY <1>1, PoolConstants DEF Held, Slot
<1> HIDE DEF s
<1>5. lost' = [lost EXCEPT ![s] = @ + 1]
  BY <1>4 DEF LoseRelease, Lose, s
<1>6. lost \in [Slot -> Nat]
  BY <1>1 DEF TypeOK
<1>7. lost' \in [Slot -> Nat] /\ lost'[s] = lost[s] + 1 /\ \A t \in Slot \ {s} : lost'[t] = lost[t]
  BY <1>4, <1>5, <1>6
<1>8. exits' = exits /\ lock' = lock /\ apis' = apis /\ fetching' = fetching
  BY <1>1 DEF exitVars, apiVars
<1>9. \A t \in Slot : lost'[t] = lost[t] + One(t = s) /\ lost[t] \in Nat
  BY <1>6, <1>7 DEF One
<1>10. \A t \in ExitSlot \cup ApiSlot : lost'[t] = lost[t] + One(Held(r) = t) - One(Held(r)' = t)
  <2> SUFFICES ASSUME NEW t \in ExitSlot \cup ApiSlot
               PROVE  lost'[t] = lost[t] + One(Held(r) = t) - One(Held(r)' = t)
    OBVIOUS
  <2>1. t \in Slot
    BY DEF Slot
  <2>2. One(Held(r)' = t) = 0 /\ One(Held(r) = t) = One(t = s) /\ One(t = s) \in {0, 1}
    BY <1>2, <1>4, <2>1 DEF One
  <2> QED BY <1>9, <2>1, <2>2
<1>11. \A t \in BrowserSlot : lost'[t] = lost[t] + One(Lent(r) = t) - One(Lent(r)' = t)
  <2> SUFFICES ASSUME NEW t \in BrowserSlot PROVE lost'[t] = lost[t] + One(Lent(r) = t) - One(Lent(r)' = t)
    OBVIOUS
  <2>1. t \in Slot
    BY DEF Slot
  <2>2. One(Lent(r)' = t) = 0 /\ One(Lent(r) = t) = 0 /\ One(t = s) = 0
    BY <1>2, <1>4, <2>1 DEF One
  <2> QED BY <1>9, <2>1, <2>2
<1>12. /\ CountsExits(r) /\ (\A t \in ExitSlot : ExitWell(exits'[t]))
       /\ CountsApis(r) /\ (\A t \in ApiSlot : ApiWell(apis'[t]))
       /\ apis' \in [ApiSlot -> Api] /\ Present(apis)' \subseteq Present(apis)
       /\ CountsBrowsers(r) /\ (\A t \in BrowserSlot : BrowserWell(browsers'[t]))
  BY <1>1, <1>2, <1>7, <1>8, <1>10, <1>11, LeasesLost
<1>13. CountsFetches(r)
  BY <1>1, <1>2, <1>8, <1>12, FetchesFit
<1>14. TypeOK'
  BY <1>1, <1>2, <1>3, <1>7 DEF TypeOK, MarksTyped, fixed, taskVars, exitVars, apiVars
<1>15. SlotsMadeWell'
  BY <1>12 DEF SlotsMadeWell
<1>16. UNCHANGED fixed /\ LockKept(r)
  BY <1>8 DEF LockKept, Vacant, Present
<1> QED BY <1>2, <1>12, <1>13, <1>14, <1>15, <1>16, RunnerStep

\* A contradicted answer can only widen what is unsure.
LEMMA Contradicts ==
  ASSUME TypeOK, NEW r \in Worker
  PROVE  /\ Contradicted(r) \in [Worker -> BOOLEAN]
         /\ Contradicted(r)[r] = (unsure[r] \/ heard[r] = "accepted")
         /\ \A x \in Worker \ {r} : Contradicted(r)[x] = unsure[x]
<1>1. unsure \in [Worker -> BOOLEAN]
  BY DEF TypeOK
<1> DEFINE b == unsure[r] \/ heard[r] = "accepted"
<1>2. b \in BOOLEAN
  BY <1>1
<1>3. Contradicted(r) = [unsure EXCEPT ![r] = b]
  BY DEF Contradicted
<1> HIDE DEF b
<1>4. Contradicted(r)[r] = b
  BY <1>1, <1>3
<1> QED BY <1>1, <1>2, <1>3, <1>4 DEF b

\* An interruption before the finally blocks.
LEMMA InterruptKeeps ==
  ASSUME Inv, NEW r \in Worker, Interrupt(r), UNCHANGED fixed
  PROVE  Inv'
<1> DEFINE exitLost == run[r].pc \in {"entryLaunch", "entryNotify"}
                       \/ (run[r].pc = "exitLaunch" /\ run[r].slot # NoSlot)
           browserLost == run[r].pc \in {"browserLaunch", "context"}
           slot == IF exitLost THEN NoSlot ELSE run[r].slot
           browser == IF browserLost THEN NoSlot ELSE run[r].browser
           gone == IF exitLost THEN run[r].slot ELSE IF browserLost THEN run[r].browser ELSE NoSlot
<1>0. /\ TypeOK /\ Located(r) /\ Told(r) /\ \A x \in Worker : Told(x)
  BY DEF Inv
<1>1. /\ run[r].pc \notin {"idle", "close", "closing", "unproxy", "return"} /\ Fault
      /\ lock' = (IF lock = r THEN NoRunner ELSE lock)
      /\ unsure' = Contradicted(r)
      /\ UNCHANGED <<meta, found, heard, exits, apiVars, browsers, marks, starts>>
  BY DEF Interrupt
<1>2. PICK kind \in Interruptions(r) :
        /\ run' = [run EXCEPT ![r] = [run[r] EXCEPT !.pc = "close", !.out = kind,
                                        !.slot = slot, !.browser = browser]]
        /\ lost' = IF exitLost THEN Lose(run[r].slot) ELSE IF browserLost THEN Lose(run[r].browser) ELSE lost
        /\ lostFetch' = IF run[r].pc = "fetch" THEN lostFetch + 1 ELSE lostFetch
        /\ uploading' = uploading \ {r}
        /\ asleep' = IF r \in uploading THEN Wake("upload") ELSE Sleep(r, "")
  BY Zenon DEF Interrupt
<1>3. kind \in {"timeout", "stopped"}
  BY <1>2 DEF Interruptions
<1> DEFINE k == [run[r] EXCEPT !.pc = "close", !.out = kind, !.slot = slot, !.browser = browser]
<1>4. run[r] \in Run /\ NoSlot \notin Slot /\ (\A t \in ExitSlot \cup ApiSlot : t \notin BrowserSlot)
  BY <1>0, PoolConstants DEF TypeOK, Slot
<1>5. /\ exitLost => run[r].slot \in ExitSlot /\ run[r].browser = NoSlot
      /\ browserLost => run[r].browser \in BrowserSlot
  BY <1>0 DEF Located
<1>6. /\ slot \in ExitSlot \cup ApiSlot \cup {NoSlot} /\ browser \in BrowserSlot \cup {NoSlot}
      /\ gone \in Slot \cup {NoSlot}
  BY <1>4, <1>5 DEF Run, Slot
<1>7. lost' = Lose(gone) /\ run' = [run EXCEPT ![r] = k]
  BY <1>2 DEF Lose
<1>8. /\ Held(r) = run[r].slot /\ Lent(r) = run[r].browser
      /\ Closes(r) = NoSlot
  BY <1>1 DEF Held, Lent, Closes
<1>9. /\ \A t \in ExitSlot \cup ApiSlot : run[r].slot = t <=> (slot = t \/ gone = t)
      /\ \A t \in ExitSlot \cup ApiSlot : ~(slot = t /\ gone = t)
      /\ \A t \in BrowserSlot : run[r].browser = t <=> (browser = t \/ gone = t)
      /\ \A t \in BrowserSlot : ~(browser = t /\ gone = t)
  BY <1>4, <1>5 DEF Slot, Run
<1> HIDE DEF exitLost, browserLost, slot, browser, gone
<1>10. /\ k \in Run /\ k.pc = "close" /\ k.out = kind /\ k.slot = slot /\ k.browser = browser
  <2>1. kind \in Outcome /\ "close" \in Place
    BY <1>3 DEF Place, Outcome
  <2> QED BY <1>4, <1>6, <2>1 DEF Run
<1> HIDE DEF k
<1>11. run' \in [Worker -> Run] /\ Others(r) /\ run'[r] = k
  BY <1>0, <1>7, <1>10, RunStep
<1>12. Held(r)' = slot /\ Lent(r)' = browser /\ Closes(r)' = NoSlot
  BY <1>10, <1>11 DEF Held, Lent, Closes
<1>13. lost \in [Slot -> Nat] /\ lostFetch \in Nat
  BY <1>0 DEF TypeOK
<1>14. lost' \in [Slot -> Nat] /\ \A t \in Slot : lost'[t] = lost[t] + One(gone = t)
  <2>1. CASE gone = NoSlot
    BY <1>4, <1>7, <1>13, <2>1 DEF Lose, One
  <2>2. CASE gone \in Slot
    <3>1. lost' = [lost EXCEPT ![gone] = @ + 1]
      BY <1>4, <1>7, <2>2 DEF Lose
    <3> QED BY <1>13, <2>2, <3>1 DEF One
  <2> QED BY <1>6, <2>1, <2>2
<1>15. \A t \in ExitSlot \cup ApiSlot : lost'[t] = lost[t] + One(Held(r) = t) - One(Held(r)' = t)
  <2> SUFFICES ASSUME NEW t \in ExitSlot \cup ApiSlot
               PROVE  lost'[t] = lost[t] + One(Held(r) = t) - One(Held(r)' = t)
    OBVIOUS
  <2>1. lost'[t] = lost[t] + One(gone = t) /\ lost[t] \in Nat
    BY <1>13, <1>14 DEF Slot
  <2>2. One(Held(r) = t) = One(gone = t) + One(Held(r)' = t) /\ One(gone = t) \in {0, 1} /\ One(Held(r)' = t) \in {0, 1}
    BY <1>8, <1>9, <1>12 DEF One
  <2> QED BY <2>1, <2>2
<1>16. \A t \in BrowserSlot : lost'[t] = lost[t] + One(Lent(r) = t) - One(Lent(r)' = t)
  <2> SUFFICES ASSUME NEW t \in BrowserSlot PROVE lost'[t] = lost[t] + One(Lent(r) = t) - One(Lent(r)' = t)
    OBVIOUS
  <2>1. lost'[t] = lost[t] + One(gone = t) /\ lost[t] \in Nat
    BY <1>13, <1>14 DEF Slot
  <2>2. One(Lent(r) = t) = One(gone = t) + One(Lent(r)' = t) /\ One(gone = t) \in {0, 1} /\ One(Lent(r)' = t) \in {0, 1}
    BY <1>8, <1>9, <1>12 DEF One
  <2> QED BY <2>1, <2>2
<1>17. exits' = exits /\ apis' = apis /\ fetching' = fetching /\ browsers' = browsers
  BY <1>1 DEF apiVars
<1>18. /\ CountsExits(r) /\ (\A t \in ExitSlot : ExitWell(exits'[t]))
       /\ CountsApis(r) /\ (\A t \in ApiSlot : ApiWell(apis'[t]))
       /\ CountsBrowsers(r) /\ (\A t \in BrowserSlot : BrowserWell(browsers'[t]))
  BY <1>8, <1>12, <1>14, <1>15, <1>16, <1>17, LeasesLost
<1>19. CountsFetches(r)
  <2>0. run'[r].pc # "fetch"
    BY <1>10, <1>11
  <2>1. lostFetch' = lostFetch + One(run[r].pc = "fetch") /\ One(run'[r].pc = "fetch") = 0
    <3>1. lostFetch' = IF run[r].pc = "fetch" THEN lostFetch + 1 ELSE lostFetch
      BY <1>2
    <3> QED BY <1>13, <2>0, <3>1 DEF One
  <2>2. fetching \in Nat /\ One(run[r].pc = "fetch") \in {0, 1} /\ Present(apis)' = Present(apis)
    BY <1>0, <1>17, Numbers DEF One, Present
  <2> QED BY <1>13, <1>17, <2>1, <2>2 DEF CountsFetches, Inv, FetchesCounted
<1>20. SlotsMadeWell' /\ LockKept(r) /\ UploadsKept(r) /\ lock' # r /\ r \notin uploading'
  BY <1>1, <1>2, <1>17, <1>18, AttemptConstants DEF SlotsMadeWell, LockKept, UploadsKept, Vacant, Present
<1>21. TypeOK'
  <2>1. faults' \in Nat /\ unsure' \in [Worker -> BOOLEAN]
    BY <1>0, <1>1, FaultsTyped, Contradicts
  <2>2. lostFetch' \in Nat /\ uploading' \subseteq Worker /\ lock' \in Worker \cup {NoRunner}
    <3>1. lostFetch' = IF run[r].pc = "fetch" THEN lostFetch + 1 ELSE lostFetch
      BY <1>2
    <3>2. uploading \subseteq Worker /\ lock \in Worker \cup {NoRunner}
      BY <1>0 DEF TypeOK
    <3>3. uploading' \subseteq Worker
      BY <1>2, <3>2
    <3>4. lostFetch' \in Nat
      BY <1>13, <3>1
    <3>5. lock' \in Worker \cup {NoRunner}
      BY <1>1, <3>2
    <3> QED BY <3>3, <3>4, <3>5
  <2>3. SleepersTyped'
    <3>1. asleep' = Wake("upload") \/ asleep' = Sleep(r, "")
      BY <1>2
    <3> QED BY <1>0, <3>1, Sleepers DEF SleepersTyped, Pool
  <2> QED BY <1>0, <1>1, <1>11, <1>14, <2>1, <2>2, <2>3 DEF TypeOK, SleepersTyped, fixed, apiVars, marks
<1>22. Located(r)'
  BY <1>10, <1>11, <1>20, LocatedFree
<1>23. \A x \in Worker : Told(x)'
  <2>1. OthersTold(r)
    BY <1>0, <1>1, <1>11, Contradicts DEF OthersTold, Others
  <2>2. Quits(r)
    BY <1>0, <1>1, <1>3, <1>10, <1>11, Contradicts DEF Quits
  <2>3. /\ run[r].pc \notin Leaving \cup {"idle"} /\ meta'[r].status = meta[r].status
        /\ found'[r] \notin Known
    BY <1>0, <1>1 DEF Leaving, Told
  <2>4. UNCHANGED fixed
    OBVIOUS
  <2> QED BY <1>0, <2>1, <2>2, <2>3, <2>4, StillTold
<1>24. UNCHANGED fixed
  OBVIOUS
<1> QED BY <1>11, <1>18, <1>19, <1>20, <1>21, <1>22, <1>23, <1>24, RunnerStep

\* What is told of a task when its attempt is interrupted in its finally blocks.
LEMMA CleanupTold ==
  ASSUME NEW r \in Worker, UNCHANGED fixed, TypeOK, \A x \in Worker : Told(x), OthersTold(r),
         run[r].pc \in Leaving, run'[r].pc \in Leaving, run'[r].out \in {"timeout", "stopped"},
         UNCHANGED <<meta, found, heard>>,
         unsure' = IF platform(r) = "dola" THEN unsure ELSE Contradicted(r)
  PROVE  \A x \in Worker : Told(x)'
<1>1. \A x \in Worker \ {r} : Told(x)'
  BY OthersKept
<1>2. /\ run'[r].pc \notin {"idle", "record"} /\ platform(r)' = platform(r)
      /\ meta' = meta /\ found' = found /\ heard' = heard
  BY DEF Leaving, platform, fixed
<1>3. unsure'[r] = IF platform(r) = "dola" THEN unsure[r] ELSE unsure[r] \/ heard[r] = "accepted"
  BY Contradicts
<1>4. Told(r)
  OBVIOUS
<1>5. /\ meta[r].status \in {"running", "submitted", "canceled"}
      /\ meta[r].status = "submitted" /\ ~unsure[r] => heard[r] = "accepted"
      /\ meta[r].status = "running" /\ ~unsure[r] =>
           /\ heard[r] = "accepted" => platform(r) # "dola"
           /\ platform(r) = "dola" => found[r] \notin Known
  BY <1>4 DEF Told, Leaving
<1>6. meta'[r].status = "submitted" =>
        /\ run'[r].out \in {"done", "timeout", "stopped"}
        /\ ~unsure'[r] => heard'[r] = "accepted" /\ ~(platform(r)' = "doubao" /\ run'[r].out = "timeout")
  BY <1>2, <1>3, <1>5
<1>7. meta'[r].status = "running" /\ ~unsure'[r] =>
        /\ heard'[r] # "accepted" /\ (platform(r)' = "dola" => found'[r] \notin Known)
  BY <1>2, <1>3, <1>5
<1>8. run'[r].out # "" /\ run'[r].out # "done" /\ run'[r].out # "submitted"
  OBVIOUS
<1>9. Told(r)'
  BY <1>2, <1>5, <1>6, <1>7, <1>8 DEF Told
<1> QED BY <1>1, <1>9

\* An interruption during the finally blocks.
LEMMA InterruptCleanupKeeps ==
  ASSUME Inv, NEW r \in Worker, InterruptCleanup(r), UNCHANGED fixed
  PROVE  Inv'
<1> DEFINE skipped == platform(r) = "dola" \/ run[r].pc = "unproxy"
           browser == IF run[r].pc = "closing" THEN NoSlot ELSE run[r].browser
           pc == IF skipped THEN "return" ELSE "unproxy"
           slot == IF skipped THEN NoSlot ELSE run[r].slot
<1>0. /\ TypeOK /\ Located(r) /\ \A x \in Worker : Told(x)
  BY DEF Inv
<1>1. /\ run[r].pc \in {"close", "closing", "unproxy"} /\ Fault
      /\ unsure' = (IF platform(r) = "dola" THEN unsure ELSE Contradicted(r))
      /\ UNCHANGED <<meta, found, heard, exitVars, apiVars, uploading, marks, lostFetch, starts>>
  BY DEF InterruptCleanup
<1>2. PICK kind \in Interruptions(r) :
        /\ run' = [run EXCEPT ![r] = [run[r] EXCEPT !.pc = pc, !.slot = slot, !.browser = NoSlot, !.out = kind]]
        /\ lost' = [s \in DOMAIN lost |-> lost[s] + (IF s = browser \/ (skipped /\ s = run[r].slot) THEN 1 ELSE 0)]
        /\ IF run[r].pc = "closing" THEN FinishRelease(r, TRUE) ELSE UNCHANGED <<browsers, asleep>>
  BY Zenon DEF InterruptCleanup
<1>3. kind \in {"timeout", "stopped"}
  BY <1>2 DEF Interruptions
<1> DEFINE k == [run[r] EXCEPT !.pc = pc, !.slot = slot, !.browser = NoSlot, !.out = kind]
<1>4. run[r] \in Run /\ NoSlot \notin Slot /\ (\A t \in ExitSlot \cup ApiSlot : t \notin BrowserSlot)
  BY <1>0, PoolConstants DEF TypeOK, Slot
<1>5. run[r].slot \in ExitSlot \cup ApiSlot \cup {NoSlot} /\ run[r].browser \in BrowserSlot \cup {NoSlot}
  BY <1>4 DEF Run
<1>6. pc \in {"return", "unproxy"} /\ slot \in ExitSlot \cup ApiSlot \cup {NoSlot} /\ (pc = "return" => slot = NoSlot)
  BY <1>5
<1>7. /\ \A t \in ExitSlot \cup ApiSlot :
           IF t = browser \/ (skipped /\ t = run[r].slot) THEN run[r].slot = t /\ slot # t
                                                          ELSE run[r].slot = t <=> slot = t
      /\ \A t \in BrowserSlot : (t = browser \/ (skipped /\ t = run[r].slot)) <=> t = browser
  BY <1>4, <1>5 DEF Slot
<1>8. Held(r) = run[r].slot /\ Lent(r) = browser
  BY DEF Held, Lent
<1>9. lost \in [Slot -> Nat]
  BY <1>0 DEF TypeOK
<1>10. lost' = [t \in Slot |-> lost[t] + One(t = browser \/ (skipped /\ t = run[r].slot))]
  BY <1>2, <1>9 DEF One
<1> HIDE DEF pc, slot, browser, skipped
<1>11. k \in Run /\ k.pc = pc /\ k.slot = slot /\ k.browser = NoSlot /\ k.out = kind
  <2>1. pc \in Place /\ kind \in Outcome
    BY <1>3, <1>6 DEF Place, Outcome
  <2> QED BY <1>4, <1>6, <2>1 DEF Run
<1>12. run' = [run EXCEPT ![r] = k]
  BY <1>2
<1> HIDE DEF k
<1>13. run' \in [Worker -> Run] /\ Others(r) /\ run'[r] = k
  BY <1>0, <1>11, <1>12, RunStep
<1>14. Held(r)' = slot /\ Lent(r)' = NoSlot /\ Closes(r)' = NoSlot /\ run'[r].pc \in {"return", "unproxy"}
  BY <1>6, <1>11, <1>13 DEF Held, Lent, Closes
<1>15. lost' \in [Slot -> Nat] /\ \A t \in Slot : lost'[t] = lost[t] + One(t = browser \/ (skipped /\ t = run[r].slot))
  <2>1. \A b : One(b) \in Nat
    BY DEF One
  <2>2. \A t \in Slot : lost[t] + One(t = browser \/ (skipped /\ t = run[r].slot)) \in Nat
    BY <1>9, <2>1
  <2> QED BY <1>10, <2>2
<1>16. \A t \in ExitSlot \cup ApiSlot : lost'[t] = lost[t] + One(Held(r) = t) - One(Held(r)' = t)
  <2> SUFFICES ASSUME NEW t \in ExitSlot \cup ApiSlot
               PROVE  lost'[t] = lost[t] + One(Held(r) = t) - One(Held(r)' = t)
    OBVIOUS
  <2> DEFINE b == t = browser \/ (skipped /\ t = run[r].slot)
  <2>1. lost'[t] = lost[t] + One(b) /\ lost[t] \in Nat
    BY <1>9, <1>15 DEF Slot
  <2>2. IF b THEN run[r].slot = t /\ slot # t ELSE run[r].slot = t <=> slot = t
    BY <1>7
  <2> HIDE DEF b
  <2>3. One(Held(r) = t) = One(b) + One(Held(r)' = t) /\ One(b) \in {0, 1} /\ One(Held(r)' = t) \in {0, 1}
    BY <1>8, <1>14, <2>2 DEF One
  <2> QED BY <2>1, <2>3
<1>17. \A t \in BrowserSlot : lost'[t] = lost[t] + One(Lent(r) = t) - One(Lent(r)' = t)
  <2> SUFFICES ASSUME NEW t \in BrowserSlot PROVE lost'[t] = lost[t] + One(Lent(r) = t) - One(Lent(r)' = t)
    OBVIOUS
  <2> DEFINE b == t = browser \/ (skipped /\ t = run[r].slot)
  <2>1. lost'[t] = lost[t] + One(b) /\ lost[t] \in Nat /\ t # NoSlot
    BY <1>4, <1>9, <1>15 DEF Slot
  <2>2. b <=> t = browser
    BY <1>7
  <2> HIDE DEF b
  <2>3. One(Lent(r) = t) = One(b) /\ One(Lent(r)' = t) = 0 /\ One(b) \in {0, 1}
    BY <1>8, <1>14, <2>1, <2>2 DEF One
  <2> QED BY <2>1, <2>3
<1>18. exits' = exits /\ lock' = lock /\ apis' = apis /\ fetching' = fetching
  BY <1>1 DEF exitVars, apiVars
<1>19. /\ CountsExits(r) /\ (\A t \in ExitSlot : ExitWell(exits'[t]))
       /\ CountsApis(r) /\ (\A t \in ApiSlot : ApiWell(apis'[t]))
       /\ apis' \in [ApiSlot -> Api] /\ Present(apis)' \subseteq Present(apis)
  BY <1>15, <1>16, <1>18, LeasesLost
<1>20. /\ browsers' \in [BrowserSlot -> Browser] /\ CountsBrowsers(r) /\ SleepersTyped'
       /\ \A t \in BrowserSlot : BrowserWell(browsers'[t])
  <2>1. CASE run[r].pc = "closing"
    <3>1. Lent(r) = NoSlot
      BY <2>1 DEF Lent
    <3>2. \A t \in BrowserSlot : lost'[t] = lost[t]
      <4> SUFFICES ASSUME NEW t \in BrowserSlot PROVE lost'[t] = lost[t]
        OBVIOUS
      <4>1. One(Lent(r) = t) = 0 /\ One(Lent(r)' = t) = 0 /\ lost[t] \in Nat
        BY <1>4, <1>9, <1>14, <3>1 DEF One, Slot
      <4>2. lost'[t] = lost[t] + One(Lent(r) = t) - One(Lent(r)' = t)
        BY <1>17
      <4> QED BY <4>1, <4>2
    <3> DEFINE failed == TRUE
    <3>3. failed \in BOOLEAN /\ FinishRelease(r, failed)
      BY <1>2, <2>1
    <3> HIDE DEF failed
    <3> QED BY <1>14, <2>1, <3>2, <3>3, Finishes
  <2>2. CASE run[r].pc # "closing"
    <3>1. browsers' = browsers /\ asleep' = asleep /\ Closes(r) = NoSlot
      BY <1>2, <2>2 DEF Closes
    <3>2. browsers' \in [BrowserSlot -> Browser] /\ SleepersTyped'
      BY <1>0, <3>1 DEF TypeOK, SleepersTyped
    <3>3. browsers' = browsers /\ Closes(r)' = Closes(r) /\ \A t \in Slot : lost'[t] \in Nat
      BY <1>14, <1>15, <3>1
    <3> QED BY <1>17, <3>2, <3>3, LeasesLost
  <2> QED BY <2>1, <2>2
<1>21. CountsFetches(r)
  <2>1. run[r].pc # "fetch" /\ run'[r].pc # "fetch" /\ UNCHANGED <<fetching, lostFetch>>
    BY <1>1, <1>14, <1>18
  <2> QED BY <1>19, <2>1, FetchesFit
<1>22. SlotsMadeWell' /\ LockKept(r) /\ UploadsKept(r)
  BY <1>1, <1>18, <1>19, <1>20 DEF SlotsMadeWell, LockKept, UploadsKept, Vacant, Present
<1>23. TypeOK'
  <2>1. faults' \in Nat /\ unsure' \in [Worker -> BOOLEAN]
    <3>1. unsure \in [Worker -> BOOLEAN]
      BY <1>0 DEF TypeOK
    <3> QED BY <1>0, <1>1, <3>1, FaultsTyped, Contradicts
  <2> QED BY <1>0, <1>1, <1>13, <1>15, <1>20, <2>1 DEF TypeOK, SleepersTyped, fixed, exitVars, apiVars, marks
<1>24. Located(r)'
  <2>1. lock' # r /\ r \notin uploading'
    BY <1>0, <1>1, <1>18 DEF Located
  <2> QED BY <1>6, <1>11, <1>13, <2>1 DEF Located
<1>25. \A x \in Worker : Told(x)'
  <2>1. OthersTold(r)
    <3>1. \A x \in Worker \ {r} : unsure'[x] = unsure[x]
      BY <1>0, <1>1, Contradicts
    <3> QED BY <1>1, <1>13, <3>1 DEF OthersTold, Others
  <2>2. /\ run[r].pc \in Leaving /\ run'[r].pc \in Leaving /\ run'[r].out \in {"timeout", "stopped"}
    BY <1>1, <1>3, <1>11, <1>13, <1>14 DEF Leaving
  <2>3. UNCHANGED fixed /\ UNCHANGED <<meta, found, heard>>
    BY <1>1
  <2> QED BY <1>0, <1>1, <2>1, <2>2, <2>3, CleanupTold
<1>26. UNCHANGED fixed
  OBVIOUS
<1> QED BY <1>13, <1>19, <1>20, <1>21, <1>22, <1>23, <1>24, <1>25, <1>26, RunnerStep

-----------------------------------------------------------------------------
(* The pools and the marks by themselves.                                      *)

\* Marks that change by themselves.
LEMMA WeatherKeeps ==
  ASSUME Inv, Weathered, cooling' \subseteq Node \cup Entry, down' \subseteq Sources,
         backoff' \in BOOLEAN, faults' \in Nat,
         UNCHANGED <<fixed, taskVars, run, lock, fetching, uploading, asleep, pin, avoid, lostVars, starts>>
  PROVE  Inv'
<1>0. /\ TypeOK /\ SlotsMadeWell /\ \A x \in Worker : Located(x) /\ Told(x)
      /\ ExitsHeld /\ ApisHeld /\ BrowsersHeld /\ FetchesCounted
  BY DEF Inv
<1>10. TypeOK /\ SlotsMadeWell
  BY <1>0
<1>11. /\ UNCHANGED <<plan, address, meta, found, heard, unsure, run, lock, fetching>>
       /\ UNCHANGED <<uploading, asleep, pin, avoid, lost, lostFetch, starts>>
  BY DEF fixed, taskVars, lostVars
<1>12. /\ exits' \in [ExitSlot -> Exit] /\ browsers' \in [BrowserSlot -> Browser]
       /\ apis' \in [ApiSlot -> Api]
  BY DEF Weathered, Marked
<1>1. TypeOK'
  BY <1>10, <1>11, <1>12 DEF TypeOK
<1>2. SlotsMadeWell'
  BY <1>10 DEF SlotsMadeWell, Weathered, Marked, ExitWell, ApiWell, BrowserWell
<1>13. exits \in [ExitSlot -> Exit] /\ apis \in [ApiSlot -> Api]
  BY <1>10 DEF TypeOK
<1>3. Vacant(exits)' = Vacant(exits) /\ Present(apis)' = Present(apis)
  <2>1. Vacant(exits)' = Vacant(exits)
    <3>1. exits \in [ExitSlot -> Exit] /\ exits' \in [ExitSlot -> Exit]
      BY <1>12, <1>13
    <3>2. \A s \in ExitSlot : exits'[s].use = exits[s].use
      BY DEF Weathered
    <3> QED BY <3>1, <3>2 DEF Vacant, Present
  <2>2. Present(apis)' = Present(apis)
    <3>1. apis \in [ApiSlot -> Api] /\ apis' \in [ApiSlot -> Api]
      BY <1>12, <1>13
    <3>2. \A s \in ApiSlot : apis'[s].use = apis[s].use
      BY DEF Weathered, Marked
    <3> QED BY <3>1, <3>2 DEF Present
  <2> QED BY <2>1, <2>2
<1>4. \A x \in Worker : Located(x)'
  BY <1>0, <1>3, StaysLocated
<1>5. \A x \in Worker : Told(x)'
  <2> SUFFICES ASSUME NEW x \in Worker PROVE Told(x)'
    OBVIOUS
  <2>1. /\ meta'[x] = meta[x] /\ run'[x] = run[x] /\ found'[x] = found[x]
        /\ heard'[x] = heard[x] /\ unsure'[x] = unsure[x] /\ platform(x)' = platform(x)
    BY DEF taskVars, fixed, platform
  <2>2. Told(x)
    BY <1>0
  <2> QED BY <2>1, <2>2 DEF Told
<1>6. \A s : Leases(s)' = Leases(s) /\ Closers(s)' = Closers(s)
  BY DEF Leases, Holders, Closers, At, lostVars
<1>7. Fetchers' = Fetchers
  BY DEF Fetchers, At
<1>8. ExitsHeld' /\ ApisHeld' /\ BrowsersHeld'
  BY <1>0, <1>6 DEF ExitsHeld, ApisHeld, BrowsersHeld, Weathered, Marked
<1>9. FetchesCounted'
  BY <1>0, <1>3, <1>7 DEF FetchesCounted, lostVars
<1> QED BY <1>1, <1>2, <1>4, <1>5, <1>8, <1>9 DEF Inv

\* One slot, or every slot of the subscription, changes in a mark.
LEMMA SlotAged ==
  ASSUME TypeOK
  PROVE  /\ \A s \in ApiSlot : Marked([apis EXCEPT ![s].cooling = FALSE])
         /\ Marked(apis)
         /\ \A s \in ExitSlot : /\ [exits[s] EXCEPT !.up = FALSE] \in Exit
                                /\ [exits[s] EXCEPT !.fresh = FALSE] \in Exit
         /\ \A s \in BrowserSlot : [browsers[s] EXCEPT !.up = FALSE] \in Browser
<1> DEFINE no == FALSE
<1>1. no \in BOOLEAN
  OBVIOUS
<1> HIDE DEF no
<1>2. ASSUME NEW s \in ApiSlot PROVE Marked([apis EXCEPT ![s].cooling = no])
  <2> DEFINE k == [apis[s] EXCEPT !.cooling = no]
             p == [apis EXCEPT ![s] = k]
  <2>1. apis \in [ApiSlot -> Api] /\ apis[s] \in Api
    BY DEF TypeOK
  <2>2. k \in Api /\ k.active = apis[s].active /\ k.use = apis[s].use /\ k.node = apis[s].node
    BY <1>1, <2>1 DEF Api
  <2> HIDE DEF k
  <2>3. p \in [ApiSlot -> Api] /\ p[s] = k /\ \A t \in ApiSlot \ {s} : p[t] = apis[t]
    BY <2>1, <2>2
  <2>4. [apis EXCEPT ![s].cooling = no] = p
    BY DEF k
  <2> HIDE DEF p
  <2> QED BY <2>2, <2>3, <2>4 DEF Marked
<1>3. ASSUME NEW s \in ExitSlot
      PROVE  [exits[s] EXCEPT !.up = no] \in Exit /\ [exits[s] EXCEPT !.fresh = no] \in Exit
  <2>1. exits[s] \in Exit
    BY DEF TypeOK
  <2> QED BY <1>1, <2>1 DEF Exit
<1>4. ASSUME NEW s \in BrowserSlot PROVE [browsers[s] EXCEPT !.up = no] \in Browser
  <2>1. browsers[s] \in Browser
    BY DEF TypeOK
  <2> QED BY <1>1, <2>1 DEF Browser
<1>5. Marked(apis)
  BY DEF Marked, TypeOK
<1> QED BY <1>2, <1>3, <1>4, <1>5 DEF no

\* All that changes by itself.
LEMMA EnvironmentKeeps ==
  ASSUME Inv, Environment, UNCHANGED fixed
  PROVE  Inv'
<1>0. TypeOK
  BY DEF Inv
<1>1. UNCHANGED <<taskVars, run, lock, fetching, uploading, asleep, pin, avoid, lostVars, starts>>
  BY DEF Environment
<1>2. /\ cooling \subseteq Node \cup Entry /\ down \subseteq Sources /\ backoff \in BOOLEAN
      /\ exits \in [ExitSlot -> Exit] /\ browsers \in [BrowserSlot -> Browser]
  BY <1>0 DEF TypeOK
<1>3. Fault \/ NoFault
  BY DEF Environment
<1>4. faults' \in Nat
  BY <1>0, <1>3, FaultsTyped
<1>5. UNCHANGED fixed
  OBVIOUS
<1> DEFINE old(s) == IF exits[s].use = "subscription" THEN [exits[s] EXCEPT !.fresh = FALSE] ELSE exits[s]
<1>6. \/ \E n \in cooling : cooling' = cooling \ {n} /\ UNCHANGED <<down, exits, apis, browsers, backoff>>
      \/ \E s \in down : down' = down \ {s} /\ UNCHANGED <<cooling, exits, apis, browsers, backoff>>
      \/ backoff' = FALSE /\ UNCHANGED <<cooling, down, exits, apis, browsers>>
      \/ \E s \in Present(apis) : /\ apis' = [apis EXCEPT ![s].cooling = FALSE]
                                  /\ UNCHANGED <<cooling, down, exits, browsers, backoff>>
      \/ \E s \in Present(exits) : /\ exits' = [exits EXCEPT ![s].up = FALSE]
                                   /\ UNCHANGED <<cooling, down, apis, browsers, backoff>>
      \/ \E s \in Present(browsers) : /\ browsers' = [browsers EXCEPT ![s].up = FALSE]
                                      /\ UNCHANGED <<cooling, down, exits, apis, backoff>>
      \/ /\ exits' = [s \in ExitSlot |-> old(s)]
         /\ UNCHANGED <<cooling, down, apis, browsers, backoff>>
  BY Zenon DEF Environment
<1>7. ASSUME cooling' \subseteq Node \cup Entry, down' \subseteq Sources, backoff' \in BOOLEAN, Weathered PROVE Inv'
  BY <1>1, <1>4, <1>5, <1>7, WeatherKeeps
<1>8. CASE UNCHANGED <<exits, apis, browsers>> /\ cooling' \subseteq cooling /\ down' \subseteq down /\ backoff' \in BOOLEAN
  <2>1. Weathered
    BY <1>0, <1>2, <1>8, SlotAged DEF Weathered
  <2> QED BY <1>2, <1>7, <1>8, <2>1
<1>9. CASE \E s \in Present(apis) : /\ apis' = [apis EXCEPT ![s].cooling = FALSE]
                                    /\ UNCHANGED <<cooling, down, exits, browsers, backoff>>
  <2>1. PICK s \in Present(apis) : apis' = [apis EXCEPT ![s].cooling = FALSE]
    BY <1>9
  <2>2. s \in ApiSlot
    BY <1>0 DEF Present, TypeOK
  <2>3. Weathered
    BY <1>0, <1>2, <1>9, <2>1, <2>2, SlotAged DEF Weathered
  <2> QED BY <1>2, <1>7, <1>9, <2>3
<1>10. CASE \E s \in Present(exits) : /\ exits' = [exits EXCEPT ![s].up = FALSE]
                                      /\ UNCHANGED <<cooling, down, apis, browsers, backoff>>
  <2>1. PICK s \in Present(exits) : exits' = [exits EXCEPT ![s].up = FALSE]
    BY <1>10
  <2> DEFINE k == [exits[s] EXCEPT !.up = FALSE]
  <2>2. s \in ExitSlot /\ k \in Exit /\ exits[s] \in Exit
    BY <1>0, <1>2, SlotAged DEF Present
  <2>3. k.active = exits[s].active /\ k.use = exits[s].use /\ k.node = exits[s].node /\ k.exit = exits[s].exit
    BY <2>2 DEF Exit
  <2>4. exits' = [exits EXCEPT ![s] = k]
    BY <2>1
  <2> HIDE DEF k
  <2>5. exits' \in [ExitSlot -> Exit] /\ exits'[s] = k /\ \A t \in ExitSlot \ {s} : exits'[t] = exits[t]
    BY <1>2, <2>2, <2>4
  <2>6. Weathered
    BY <1>0, <1>2, <1>10, <2>3, <2>5, SlotAged DEF Weathered
  <2> QED BY <1>2, <1>7, <1>10, <2>6
<1>11. CASE \E s \in Present(browsers) : /\ browsers' = [browsers EXCEPT ![s].up = FALSE]
                                         /\ UNCHANGED <<cooling, down, exits, apis, backoff>>
  <2>1. PICK s \in Present(browsers) : browsers' = [browsers EXCEPT ![s].up = FALSE]
    BY <1>11
  <2> DEFINE k == [browsers[s] EXCEPT !.up = FALSE]
  <2>2. s \in BrowserSlot /\ k \in Browser /\ browsers[s] \in Browser
    BY <1>0, <1>2, SlotAged DEF Present
  <2>3. /\ k.active = browsers[s].active /\ k.use = browsers[s].use
        /\ k.closing = browsers[s].closing /\ k.retiring = browsers[s].retiring
    BY <2>2 DEF Browser
  <2>4. browsers' = [browsers EXCEPT ![s] = k]
    BY <2>1
  <2> HIDE DEF k
  <2>5. browsers' \in [BrowserSlot -> Browser] /\ browsers'[s] = k
        /\ \A t \in BrowserSlot \ {s} : browsers'[t] = browsers[t]
    BY <1>2, <2>2, <2>4
  <2>6. Weathered
    BY <1>0, <1>2, <1>11, <2>3, <2>5, SlotAged DEF Weathered
  <2> QED BY <1>2, <1>7, <1>11, <2>6
<1>12. CASE exits' = [s \in ExitSlot |-> old(s)] /\ UNCHANGED <<cooling, down, apis, browsers, backoff>>
  <2>1. ASSUME NEW s \in ExitSlot
        PROVE  /\ old(s) \in Exit /\ old(s).active = exits[s].active /\ old(s).use = exits[s].use
               /\ old(s).node = exits[s].node /\ old(s).exit = exits[s].exit
    <3>1. exits[s] \in Exit /\ [exits[s] EXCEPT !.fresh = FALSE] \in Exit
      BY <1>0, <1>2, SlotAged
    <3> QED BY <3>1 DEF Exit
  <2> HIDE DEF old
  <2>2. exits' \in [ExitSlot -> Exit] /\ \A s \in ExitSlot : exits'[s] = old(s)
    BY <1>12, <2>1
  <2>3. Weathered
    BY <1>0, <1>2, <1>12, <2>1, <2>2, SlotAged DEF Weathered
  <2> QED BY <1>2, <1>7, <1>12, <2>3
<1> HIDE DEF old
<1> QED BY <1>2, <1>6, <1>8, <1>9, <1>10, <1>11, <1>12

-----------------------------------------------------------------------------
(* Steps that only talk to the platform.                                       *)

LEMMA WorkStep ==
  ASSUME Inv, NEW r \in Worker, Works(r),
         UNCHANGED <<fixed, exitVars, fetching, backoff, browsers, lostVars>>,
         Marked(apis'), MarksTyped', TasksTyped', SleepersTyped',
         starts' \in Nat, faults' \in Nat, uploading' \subseteq Worker, UploadsKept(r),
         Located(r)', \A x \in Worker : Told(x)'
  PROVE  Inv'
<1>0. TypeOK /\ SlotsMadeWell /\ UNCHANGED fixed
  BY DEF Inv
<1>1. /\ run' \in [Worker -> Run] /\ Others(r)
      /\ run'[r].pc = "fetch" <=> run[r].pc = "fetch"
      /\ Held(r)' = Held(r) /\ Lent(r)' = Lent(r) /\ Closes(r)' = Closes(r)
  BY DEF Works, Held, Lent, Closes
<1>2. /\ exits' = exits /\ lock' = lock /\ fetching' = fetching /\ browsers' = browsers
      /\ lost' = lost /\ lostFetch' = lostFetch /\ apis' \in [ApiSlot -> Api]
  BY DEF exitVars, lostVars, Marked
<1>3. TypeOK'
  BY <1>0, <1>1, <1>2 DEF TypeOK, MarksTyped, TasksTyped, SleepersTyped, fixed
<1>4. CountsExits(r) /\ \A s \in ExitSlot : ExitWell(exits'[s])
  BY <1>1, <1>2, ExitsStand
<1>5. CountsApis(r) /\ (\A s \in ApiSlot : ApiWell(apis'[s])) /\ Present(apis)' = Present(apis)
  BY <1>1, <1>2, ApisStand
<1>6. CountsBrowsers(r) /\ \A s \in BrowserSlot : BrowserWell(browsers'[s])
  BY <1>1, <1>2, BrowsersStand
<1>7. CountsFetches(r)
  <2>1. One(run'[r].pc = "fetch") = One(run[r].pc = "fetch") /\ One(run[r].pc = "fetch") \in {0, 1}
    BY <1>1 DEF One
  <2>2. fetching \in Nat /\ lostFetch \in Nat
    BY <1>0, Numbers
  <2>3. Cardinality(Present(apis)') + fetching' <= Cardinality(ApiSlot)
    BY <1>2, <1>5 DEF Inv, FetchesCounted
  <2> QED BY <1>2, <2>1, <2>2, <2>3 DEF CountsFetches
<1>8. SlotsMadeWell' /\ LockKept(r)
  BY <1>2, <1>4, <1>5, <1>6 DEF SlotsMadeWell, LockKept, Vacant, Present
<1> QED BY <1>0, <1>1, <1>3, <1>4, <1>5, <1>6, <1>7, <1>8, RunnerStep

\* An attempt that ends or goes on at a place where it holds no condition.
LEMMA Going ==
  ASSUME Inv, NEW r \in Worker, NEW pc \in Place, Goto(r, pc),
         run[r].pc \notin {"fetch", "closing"}, pc \notin {"fetch", "closing"}
  PROVE  Works(r) /\ run'[r].pc = pc /\ run'[r].out = run[r].out /\ run'[r].answer = run[r].answer
BY GotoStep DEF Works, Inv

LEMMA Ending ==
  ASSUME Inv, NEW r \in Worker, NEW out \in Outcome, EndWith(r, out),
         run[r].pc \notin {"fetch", "closing"}
  PROVE  Works(r) /\ run'[r].pc = "close" /\ run'[r].out = out
BY EndStep DEF Works, Inv

\* A claim starts an attempt from nothing.
LEMMA StartKeeps ==
  ASSUME Inv, NEW r \in Worker, Start(r), UNCHANGED fixed
  PROVE  Inv'
<1> DEFINE dola == platform(r) # "dola"
           m == ClearTransientResult([ClaimTask(meta[r], r) EXCEPT !.waiting = FALSE], dola)
           none == ""
           no == FALSE
<1>1. /\ TypeOK /\ Located(r) /\ (\A x \in Worker : Told(x)) /\ run[r].pc = "idle" /\ starts > 0
      /\ starts' = starts - 1 /\ Goto(r, "proxy")
      /\ UNCHANGED <<exitVars, apiVars, browsers, idle, marks, lostVars, faults>>
  BY DEF Inv, Start, At
<1>2. /\ meta' = [meta EXCEPT ![r] = m]
      /\ found' = [found EXCEPT ![r] = none] /\ heard' = [heard EXCEPT ![r] = none]
      /\ unsure' = [unsure EXCEPT ![r] = no]
  BY Zenon DEF Start
<1>3. dola \in BOOLEAN /\ no \in BOOLEAN /\ meta[r] \in Meta
  BY <1>1 DEF TypeOK
<1> HIDE DEF dola, no
<1>4. m \in Meta /\ m.status = "running"
  <2> DEFINE old == meta[r]
  <2>1. old \in Meta
    BY <1>3
  <2> HIDE DEF old
  <2>2. \A w \in Worker, sticky \in BOOLEAN :
          LET c == ClearTransientResult([ClaimTask(old, w) EXCEPT !.waiting = FALSE], sticky)
          IN c \in Meta /\ c.status = "running"
    BY <2>1, StoreCalls
  <2>3. m = ClearTransientResult([ClaimTask(old, r) EXCEPT !.waiting = FALSE], dola)
    BY DEF old
  <2> HIDE DEF m
  <2> QED BY <1>3, <2>2, <2>3, Zenon
<1> HIDE DEF m, none
<1>5. none = ""
  BY DEF none
<1>6. /\ meta' \in [Worker -> Meta] /\ meta'[r].status = "running" /\ found'[r] = "" /\ heard'[r] = ""
      /\ TasksTyped'
  BY <1>1, <1>2, <1>3, <1>4, <1>5 DEF TypeOK, TasksTyped
<1>7. Works(r) /\ run'[r].pc = "proxy" /\ Others(r)
  <2>1. "proxy" \in Place
    BY DEF Place
  <2> QED BY <1>1, <2>1, Going DEF Works
<1>8. run[r] = Idling /\ lock # r /\ r \notin uploading
  BY <1>1 DEF Located
<1>9. Located(r)'
  <2>0. run[r].slot = NoSlot /\ run[r].browser = NoSlot
    <3>1. Idling.slot = NoSlot /\ Idling.browser = NoSlot
      BY DEF Idling
    <3> QED BY ONLY <1>8, <3>1
  <2>1. run'[r].slot = NoSlot /\ run'[r].browser = NoSlot
    BY <1>7, <2>0 DEF Works
  <2>2. lock' # r /\ r \notin uploading'
    BY <1>1, <1>8 DEF exitVars, idle
  <2> QED BY <1>7, <2>1, <2>2 DEF Located
<1>10. \A x \in Worker : Told(x)'
  <2>1. OthersTold(r) /\ UNCHANGED fixed
    BY <1>1, <1>2, <1>7 DEF OthersTold, Others, TypeOK
  <2>2. \A x \in Worker \ {r} : Told(x)'
    BY <1>1, <2>1, OthersKept
  <2>3. run'[r].pc \notin Leaving /\ found'[r] \notin Known
    BY <1>6, <1>7 DEF Leaving, Known
  <2>4. Told(r)'
    BY <1>6, <1>7, <2>3 DEF Told
  <2> QED BY <2>2, <2>4
<1>11. /\ Marked(apis') /\ MarksTyped' /\ SleepersTyped' /\ starts' \in Nat /\ faults' \in Nat
       /\ uploading' \subseteq Worker /\ UploadsKept(r)
       /\ UNCHANGED <<fixed, exitVars, fetching, backoff, browsers, lostVars>>
  <2>1. apis' = apis /\ asleep' = asleep /\ uploading' = uploading /\ UNCHANGED marks
    BY <1>1 DEF apiVars, idle
  <2>2. Marked(apis') /\ SleepersTyped' /\ MarksTyped'
    BY <1>1, <2>1, SlotAged, Charges DEF SleepersTyped, MarksTyped, marks, TypeOK
  <2>4. starts \in Nat /\ starts > 0 /\ starts' = starts - 1 /\ faults \in Nat /\ faults' = faults
    BY <1>1 DEF TypeOK
  <2>5. starts' \in Nat /\ faults' \in Nat
    BY <2>4
  <2>6. uploading \subseteq Worker
    BY <1>1 DEF TypeOK
  <2>3. starts' \in Nat /\ faults' \in Nat /\ uploading' \subseteq Worker /\ UploadsKept(r)
    BY <2>1, <2>5, <2>6 DEF UploadsKept
  <2> QED BY <1>1, <2>2, <2>3 DEF apiVars
<1> QED BY <1>6, <1>7, <1>9, <1>10, <1>11, WorkStep

\* A cancel from the API changes the record alone.
LEMMA CancelKeeps ==
  ASSUME Inv, NEW r \in Worker, NEW admin \in BOOLEAN, Cancel(r, admin), UNCHANGED fixed
  PROVE  Inv'
<1>1. /\ TypeOK /\ Located(r) /\ (\A x \in Worker : Told(x)) /\ Fault
      /\ UNCHANGED <<run, found, heard, unsure, quiet>>
  BY DEF Inv, Cancel
<1> DEFINE m == RequestTaskCancel(meta[r])
<1>2. meta' = [meta EXCEPT ![r] = m]
  BY DEF Cancel
<1>3. m \in Meta /\ m.status = "canceled"
  <2>1. meta[r] \in Meta
    BY <1>1 DEF TypeOK
  <2> QED BY <2>1, StoreCalls
<1> HIDE DEF m
<1>4. TasksTyped' /\ meta'[r].status = "canceled"
  BY <1>1, <1>2, <1>3 DEF TypeOK, TasksTyped
<1>5. /\ apis' = apis /\ asleep' = asleep /\ uploading' = uploading /\ starts' = starts /\ lock' = lock
      /\ Vacant(exits)' = Vacant(exits)
      /\ UNCHANGED <<exitVars, fetching, backoff, browsers, lostVars, marks>>
  BY <1>1 DEF quiet, pools, idle, Vacant, Present, exitVars
<1>6. Works(r)
  BY <1>1 DEF Works, Others, TypeOK
<1>7. Located(r)'
  BY <1>1, <1>5, StaysLocated
<1>8. \A x \in Worker : Told(x)'
  <2>1. OthersTold(r) /\ UNCHANGED fixed
    BY <1>1, <1>2 DEF OthersTold, TypeOK
  <2>2. \A x \in Worker \ {r} : Told(x)'
    BY <1>1, <2>1, OthersKept
  <2>3. platform(r)' = platform(r) /\ Told(r)
    BY <1>1 DEF platform, fixed
  <2>4. Told(r)'
    BY <1>1, <1>4, <2>3 DEF Told
  <2> QED BY <2>2, <2>4
<1>9. Marked(apis') /\ MarksTyped' /\ SleepersTyped'
  BY <1>1, <1>5, SlotAged, Charges DEF SleepersTyped, MarksTyped, marks, TypeOK
<1>10. starts' \in Nat /\ faults' \in Nat /\ uploading' \subseteq Worker /\ UploadsKept(r)
  BY <1>1, <1>5, FaultsTyped DEF TypeOK, UploadsKept
<1> QED BY <1>4, <1>5, <1>6, <1>7, <1>8, <1>9, <1>10, WorkStep

-----------------------------------------------------------------------------
(* An attempt that has its proxy and talks to the platform.                    *)

\* The places an attempt goes to from its page.
LEMMA Pages ==
  /\ Page \subseteq Place /\ "close" \in Place
  /\ \A p \in Page : p \notin Leaving \cup {"idle", "fetch", "exitLaunch", "closing", "close"}
  /\ \A p \in Page \ {"answer", "record"} : p \in Asking
BY DEF Page, Place, Leaving, Asking

\* Such a step keeps the invariant when it keeps what is told of its own task.
LEMMA PageStep ==
  ASSUME Inv, NEW r \in Worker, UNCHANGED fixed, UNCHANGED pools, Works(r),
         run[r].pc \in Page, run'[r].pc \in Page \cup {"close"},
         Charging, Rests(r), TasksTyped', faults' \in Nat, OthersTold(r), Told(r)'
  PROVE  Inv'
<1>0. TypeOK /\ Located(r) /\ \A x \in Worker : Told(x)
  BY DEF Inv
<1>1. /\ UNCHANGED <<fixed, exitVars, fetching, backoff, browsers, lostVars>>
      /\ starts' = starts /\ lock' = lock
  BY DEF pools, exitVars
<1>2. starts' \in Nat
  BY <1>0, <1>1 DEF TypeOK
<1>3. lock' # r
  BY <1>0, <1>1, Pages DEF Located
<1>4. Located(r)'
  <2>1. /\ run'[r].pc \notin {"idle", "proxy", "exit", "entry", "api", "fetch", "return", "exitLaunch",
                              "entryLaunch", "entryNotify", "browser", "unproxy", "browserLaunch",
                              "context"}
    BY DEF Page
  <2>2. r \in uploading' => run'[r].pc = "uploading"
    BY DEF Rests
  <2> QED BY <1>3, <2>1, <2>2 DEF Located
<1>5. \A x \in Worker : Told(x)'
  BY <1>0, OthersKept
<1>6. Marked(apis') /\ MarksTyped'
  BY DEF Charging
<1>7. SleepersTyped' /\ uploading' \subseteq Worker /\ UploadsKept(r)
  BY DEF Rests
<1> QED BY <1>1, <1>2, <1>4, <1>5, <1>6, <1>7, WorkStep

\* Nobody starts or ends an upload.
LEMMA Restful ==
  ASSUME Inv, NEW r \in Worker, UNCHANGED idle, run[r].pc # "uploading"
  PROVE  Rests(r)
<1>1. /\ asleep \in [Worker -> {"", "exit", "api", "browser", "upload"}] /\ uploading \subseteq Worker
      /\ r \notin uploading
  BY DEF Inv, TypeOK, Located
<1>2. asleep' = asleep /\ uploading' = uploading
  BY DEF idle
<1> QED BY <1>1, <1>2 DEF Rests, SleepersTyped, UploadsKept

\* What a failure is charged to keeps its type, whichever endpoint it is.
LEMMA EndpointMarked ==
  ASSUME TypeOK, NEW t
  PROVE  /\ Marked([apis EXCEPT ![t].invalid = TRUE])
         /\ Marked([apis EXCEPT ![t].cooling = TRUE])
<1> DEFINE yes == TRUE
<1>0. yes \in BOOLEAN /\ apis \in [ApiSlot -> Api]
  BY DEF TypeOK
<1> HIDE DEF yes
<1>1. CASE t \in ApiSlot
  <2> DEFINE k == [apis[t] EXCEPT !.invalid = yes]
             c == [apis[t] EXCEPT !.cooling = yes]
             p == [apis EXCEPT ![t] = k]
             q == [apis EXCEPT ![t] = c]
  <2>1. apis[t] \in Api
    BY <1>0, <1>1
  <2>2. k \in Api /\ k.active = apis[t].active /\ k.use = apis[t].use /\ k.node = apis[t].node
    BY <1>0, <2>1 DEF Api
  <2>3. c \in Api /\ c.active = apis[t].active /\ c.use = apis[t].use /\ c.node = apis[t].node
    BY <1>0, <2>1 DEF Api
  <2> HIDE DEF k, c
  <2>4. p \in [ApiSlot -> Api] /\ p[t] = k /\ \A s \in ApiSlot \ {t} : p[s] = apis[s]
    BY <1>0, <1>1, <2>2
  <2>5. q \in [ApiSlot -> Api] /\ q[t] = c /\ \A s \in ApiSlot \ {t} : q[s] = apis[s]
    BY <1>0, <1>1, <2>3
  <2>6. [apis EXCEPT ![t].invalid = yes] = p /\ [apis EXCEPT ![t].cooling = yes] = q
    BY DEF k, c
  <2> HIDE DEF p, q
  <2>7. Marked(p) /\ Marked(q)
    BY <2>2, <2>3, <2>4, <2>5 DEF Marked
  <2> QED BY <2>6, <2>7 DEF yes
<1>2. CASE t \notin ApiSlot
  <2>1. [apis EXCEPT ![t].invalid = yes] = apis /\ [apis EXCEPT ![t].cooling = yes] = apis
    BY <1>0, <1>2
  <2>2. Marked(apis)
    BY <1>0 DEF Marked
  <2> QED BY <2>1, <2>2 DEF yes
<1> QED BY <1>1, <1>2

\* Every charge to the proxy is one of these.
LEMMA ProxyCharged ==
  ASSUME TypeOK, NEW r \in Worker,
         \/ Unharmed \/ MarkActiveProxyUnavailable(r) \/ CooldownActiveProxyTransport(r)
         \/ CooldownServiceFrequent(r)
         \/ \E cools \in BOOLEAN : RecordActiveGatewayFailure(r, cools) \/ MarkDoubaoVerificationProxy(r, cools)
  PROVE  Charging
<1>1. /\ Unpinned(r) \in [Worker -> Node \cup {NoNode}]
      /\ Avoided(r) \in [Worker -> Node \cup Entry \cup Endpoint \cup {NoNode}]
      /\ Cooled(r) \subseteq Node \cup Entry /\ MarksTyped
  BY Charges
<1>2. Marked(apis) /\ \A t : Marked([apis EXCEPT ![t].invalid = TRUE]) /\ Marked([apis EXCEPT ![t].cooling = TRUE])
  BY SlotAged, EndpointMarked
<1>3. CASE Unharmed
  BY <1>1, <1>2, <1>3 DEF Unharmed, Charging, marks, MarksTyped
<1>4. CASE MarkActiveProxyUnavailable(r)
  BY <1>1, <1>2, <1>4 DEF MarkActiveProxyUnavailable, Charging, MarksTyped
<1>5. CASE CooldownActiveProxyTransport(r)
  BY <1>1, <1>2, <1>5 DEF CooldownActiveProxyTransport, Charging, MarksTyped
<1>6. CASE CooldownServiceFrequent(r)
  BY <1>1, <1>2, <1>6 DEF CooldownServiceFrequent, Charging, MarksTyped
<1>7. ASSUME NEW cools \in BOOLEAN, RecordActiveGatewayFailure(r, cools) PROVE Charging
  BY <1>1, <1>2, <1>7 DEF RecordActiveGatewayFailure, Charging, MarksTyped
<1>8. ASSUME NEW cools \in BOOLEAN, MarkDoubaoVerificationProxy(r, cools) PROVE Charging
  BY <1>1, <1>2, <1>8 DEF MarkDoubaoVerificationProxy, Charging, MarksTyped
<1> QED BY <1>3, <1>4, <1>5, <1>6, <1>7, <1>8

LEMMA SubmissionMarks ==
  ASSUME TypeOK, NEW r \in Worker,
         UNCHANGED meta \/ meta' = Release(r) \/ meta' = [meta EXCEPT ![r] = BeginTaskSubmission(@)]
  PROVE  MetaKept(r)
<1>1. meta \in [Worker -> Meta] /\ meta[r] \in Meta
  BY DEF TypeOK
<1> DEFINE a == ReleaseTaskSubmission(meta[r])
           b == BeginTaskSubmission(meta[r])
<1>2. a \in Meta /\ b \in Meta /\ a.status = meta[r].status /\ b.status = meta[r].status
  BY <1>1, StoreCalls
<1>3. UNCHANGED meta \/ meta' = [meta EXCEPT ![r] = a] \/ meta' = [meta EXCEPT ![r] = b]
  BY DEF Release
<1> HIDE DEF a, b
<1> QED BY <1>1, <1>2, <1>3 DEF MetaKept

LEMMA Moves ==
  ASSUME Inv, NEW r \in Worker, run[r].pc \in Page,
         \/ \E p \in Page \ {"answer", "record"} : Goto(r, p)
         \/ \E out \in Submitless : EndWith(r, out)
         \/ Raises(r)
         \/ UNCHANGED run /\ run[r].pc \notin {"answer", "record"}
  PROVE  Works(r) /\ AsksOn(r)
<1>0. run[r].pc \notin {"fetch", "closing"} /\ run \in [Worker -> Run]
  BY Pages DEF Inv, TypeOK
<1>1. ASSUME NEW p \in Page \ {"answer", "record"}, Goto(r, p) PROVE Works(r) /\ AsksOn(r)
  <2>1. p \in Place /\ p \notin {"fetch", "closing"}
    BY Pages
  <2> QED BY <1>0, <1>1, <2>1, Going DEF AsksOn
<1>2. ASSUME NEW out \in Submitless, EndWith(r, out) PROVE Works(r) /\ AsksOn(r)
  <2>1. out \in Outcome
    BY DEF Submitless
  <2> QED BY <1>0, <1>2, <2>1, Ending DEF AsksOn
<1>3. CASE Raises(r)
  <2>1. PICK out \in {"retry", "infra", "transport", "gateway", "raised"} : EndWith(r, out)
    BY <1>3 DEF Raises
  <2>2. out \in Submitless
    BY DEF Submitless, Outcome
  <2> QED BY <1>2, <2>1, <2>2
<1>4. CASE UNCHANGED run /\ run[r].pc \notin {"answer", "record"}
  BY <1>0, <1>4 DEF Works, Others, AsksOn
<1> QED BY <1>1, <1>2, <1>3, <1>4

\* Before the request is sent, and when its answer is not what the attempt takes it for.
LEMMA AsksOnKeeps ==
  ASSUME Inv, NEW r \in Worker, UNCHANGED fixed, UNCHANGED pools, UNCHANGED <<found, heard>>,
         run[r].pc \in Page, MetaKept(r), Works(r), AsksOn(r), Charging, Rests(r), Fault \/ NoFault,
         \/ run[r].pc \notin {"answer", "record"} /\ unsure' = unsure
         \/ unsure' = Contradicted(r)
  PROVE  Inv'
<1>0. TypeOK /\ Told(r) /\ \A x \in Worker : Told(x)
  BY DEF Inv
<1>1. run[r].pc \notin Leaving \cup {"idle"}
  BY Pages
<1>2. found[r] \notin Known
  BY <1>0, <1>1 DEF Told
<1>3. /\ ~unsure'[r] => heard'[r] # "accepted"
      /\ unsure' \in [Worker -> BOOLEAN] /\ \A x \in Worker \ {r} : unsure'[x] = unsure[x]
  <2>1. CASE run[r].pc \notin {"answer", "record"} /\ unsure' = unsure
    BY <1>0, <1>1, <2>1 DEF Told, TypeOK
  <2>2. CASE unsure' = Contradicted(r)
    <3>1. unsure[r] \in BOOLEAN
      BY <1>0 DEF TypeOK
    <3> QED BY <1>0, <2>2, <3>1, Contradicts
  <2> QED BY <2>1, <2>2
<1>4. OthersTold(r)
  BY <1>3 DEF OthersTold, MetaKept, Works, Others
<1>5. TasksTyped'
  BY <1>0, <1>3 DEF TasksTyped, TypeOK, MetaKept
<1>6. Quits(r) /\ run'[r].pc \in Page \cup {"close"}
  <2>1. \A out \in Submitless : out \notin {"", "done", "submitted"}
    BY DEF Submitless
  <2> QED BY <1>3, <2>1, Pages DEF Quits, AsksOn
<1>7. \A x \in Worker : Told(x)'
  BY <1>0, <1>1, <1>2, <1>4, <1>6, StillTold DEF MetaKept
<1>8. faults' \in Nat
  BY <1>0, FaultsTyped
<1> QED BY <1>4, <1>5, <1>6, <1>7, <1>8, PageStep

\* Steps that open, select or fill something, and the failures that are charged.
LEMMA StepKeeps ==
  ASSUME Inv, NEW r \in Worker, UNCHANGED fixed,
         NEW pc \in Page \ {"answer", "record", "uploading"}, NEW next \in Page \ {"answer", "record"},
         NEW outs \in SUBSET Submitless, Step(r, pc, next, outs)
  PROVE  Inv'
<1>1. /\ TypeOK /\ run[r].pc = pc /\ (Fault \/ NoFault) /\ UNCHANGED <<taskVars, quiet>>
      /\ Goto(r, next) \/ Raises(r) \/ \E out \in outs : EndWith(r, out)
  BY DEF Inv, Step, At
<1>2. run[r].pc \in Page /\ run[r].pc \notin {"answer", "record", "uploading"}
  BY <1>1
<1>3. Works(r) /\ AsksOn(r)
  BY <1>1, <1>2, Moves
<1>4. /\ UNCHANGED pools /\ UNCHANGED idle /\ UNCHANGED <<found, heard>> /\ unsure' = unsure /\ UNCHANGED meta
      /\ Unharmed
  BY <1>1 DEF taskVars, quiet, Unharmed
<1>5. MetaKept(r) /\ Charging /\ Rests(r)
  BY <1>1, <1>2, <1>4, SubmissionMarks, ProxyCharged, Restful
<1> QED BY <1>1, <1>2, <1>3, <1>4, <1>5, AsksOnKeeps

LEMMA ChargedKeeps ==
  ASSUME Inv, NEW r \in Worker, UNCHANGED fixed,
         NEW pc \in Page \ {"answer", "record", "uploading"}, NEW out \in Submitless, Charged(r, pc, out)
  PROVE  Inv'
<1>1. /\ TypeOK /\ run[r].pc = pc /\ Fault /\ MarkActiveProxyUnavailable(r) /\ EndWith(r, out)
      /\ UNCHANGED pools /\ UNCHANGED idle /\ UNCHANGED <<found, heard>> /\ unsure' = unsure /\ UNCHANGED meta
  BY DEF Inv, Charged, At, taskVars
<1>2. run[r].pc \in Page /\ run[r].pc \notin {"answer", "record", "uploading"}
  BY <1>1
<1>3. Works(r) /\ AsksOn(r)
  BY <1>1, <1>2, Moves
<1>4. MetaKept(r) /\ Charging /\ Rests(r)
  BY <1>1, <1>2, SubmissionMarks, ProxyCharged, Restful
<1> QED BY <1>1, <1>2, <1>3, <1>4, AsksOnKeeps

-----------------------------------------------------------------------------
(* The steps the platforms share.                                              *)

\* The places named in the steps below.
LEMMA PlacesAhead ==
  /\ {"page", "mode", "model", "settings", "upload", "form", "credit", "pace", "begin", "send"}
       \subseteq Page \ {"answer", "record", "uploading"}
  /\ "uploading" \in Page \ {"answer", "record"} /\ "answer" \in Page /\ "record" \in Page
  /\ Outcome \ {"", "done", "submitted"} = Submitless
  /\ {"retry", "infra", "defer", "failed", "raised", "spared", "transport", "gateway", "uploadFailed"}
       \subseteq Submitless
BY DEF Page, Submitless, Outcome

\* A step that leaves everything alone but the runner, its record and the bound.
LEMMA QuietKeeps ==
  ASSUME Inv, NEW r \in Worker, UNCHANGED fixed, UNCHANGED quiet, UNCHANGED <<found, heard>>,
         run[r].pc \in Page \ {"uploading"}, MetaKept(r), Works(r), AsksOn(r),
         Fault \/ NoFault,
         \/ run[r].pc \notin {"answer", "record"} /\ unsure' = unsure
         \/ unsure' = Contradicted(r)
  PROVE  Inv'
<1>1. TypeOK /\ UNCHANGED pools /\ UNCHANGED idle /\ Unharmed /\ run[r].pc \in Page /\ run[r].pc # "uploading"
  BY DEF Inv, quiet, Unharmed
<1>2. Charging /\ Rests(r)
  BY <1>1, ProxyCharged, Restful
<1> QED BY <1>1, <1>2, AsksOnKeeps

\* begin_task_submission.
LEMMA BeginKeeps ==
  ASSUME Inv, NEW r \in Worker, UNCHANGED fixed, NEW next \in {"send", "mode", "pace"}, Begin(r, next)
  PROVE  Inv'
<1>1. /\ TypeOK /\ run[r].pc = "begin" /\ UNCHANGED quiet /\ UNCHANGED <<found, heard>> /\ unsure' = unsure
      /\ NoFault
  BY DEF Inv, Begin, At, NoFault
<1>2. run[r].pc \in Page \ {"answer", "record", "uploading"}
  BY <1>1, PlacesAhead
<1>3. MetaKept(r)
  <2>1. UNCHANGED meta \/ meta' = [meta EXCEPT ![r] = BeginTaskSubmission(@)]
    BY DEF Begin
  <2> QED BY <1>1, <2>1, SubmissionMarks
<1>4. Works(r) /\ AsksOn(r)
  <2>1. next \in Page \ {"answer", "record"} /\ "failed" \in Submitless /\ "retry" \in Submitless
    BY PlacesAhead
  <2>2. \/ Goto(r, next) \/ EndWith(r, "failed") \/ EndWith(r, "retry")
    BY DEF Begin
  <2> QED BY <1>2, <2>1, <2>2, Moves
<1> QED BY <1>1, <1>2, <1>3, <1>4, QuietKeeps

\* The pacer.
LEMMA PaceKeeps ==
  ASSUME Inv, NEW r \in Worker, UNCHANGED fixed, Pace(r)
  PROVE  Inv'
<1>1. /\ TypeOK /\ run[r].pc = "pace" /\ UNCHANGED quiet /\ UNCHANGED <<found, heard>> /\ unsure' = unsure
      /\ NoFault /\ UNCHANGED meta
  BY DEF Inv, Pace, At, NoFault, taskVars
<1>2. run[r].pc \in Page \ {"answer", "record", "uploading"}
  BY <1>1, PlacesAhead
<1>3. MetaKept(r)
  BY <1>1, SubmissionMarks
<1>4. Works(r) /\ AsksOn(r)
  <2>1. {"send", "begin"} \subseteq Page \ {"answer", "record"} /\ "failed" \in Submitless
    BY PlacesAhead
  <2>2. \/ Goto(r, "send") \/ Goto(r, "begin") \/ EndWith(r, "failed")
    BY DEF Pace
  <2> QED BY <1>2, <2>1, <2>2, Moves
<1> QED BY <1>1, <1>2, <1>3, <1>4, QuietKeeps

\* The platform takes the request or not: from now on the attempt does not know.
LEMMA SendKeeps ==
  ASSUME Inv, NEW r \in Worker, UNCHANGED fixed, Send(r)
  PROVE  Inv'
<1>1. /\ TypeOK /\ (\A x \in Worker : Told(x)) /\ run[r].pc = "send" /\ Goto(r, "answer")
      /\ UNCHANGED <<meta, found, unsure, quiet>>
  BY DEF Inv, Send, At
<1>2. PICK answer \in {"accepted", "refused", "lost"} :
         /\ heard' = [heard EXCEPT ![r] = IF @ = "accepted" THEN @ ELSE answer]
         /\ Fault \/ NoFault
  BY DEF Send
<1>3. /\ heard' \in [Worker -> {"", "accepted", "refused", "lost"}]
      /\ \A x \in Worker \ {r} : heard'[x] = heard[x]
  BY <1>1, <1>2 DEF TypeOK
<1>4. /\ run[r].pc \in Page /\ run[r].pc # "uploading" /\ "answer" \in Place /\ "answer" \in Page
      /\ run[r].pc \notin {"fetch", "closing"} /\ run[r].pc \notin Leaving \cup {"idle"}
  BY <1>1, PlacesAhead, Pages
<1>5. Works(r) /\ run'[r].pc = "answer"
  BY <1>1, <1>4, Going
<1>6. UNCHANGED pools /\ UNCHANGED idle /\ Unharmed
  BY <1>1 DEF quiet, Unharmed
<1>7. Charging /\ Rests(r) /\ faults' \in Nat
  BY <1>1, <1>2, <1>4, <1>6, ProxyCharged, Restful, FaultsTyped
<1>8. TasksTyped' /\ OthersTold(r)
  BY <1>1, <1>3, <1>5 DEF TasksTyped, TypeOK, OthersTold, Works, Others
<1>9. found'[r] \notin Known /\ meta'[r].status = meta[r].status
  BY <1>1, <1>4 DEF Told
<1>10. Told(r)'
  BY <1>1, <1>4, <1>5, <1>8, <1>9, StillTold
<1> QED BY <1>4, <1>5, <1>6, <1>7, <1>8, <1>10, PageStep

\* The request is sent once more.
LEMMA ResendKeeps ==
  ASSUME Inv, NEW r \in Worker, UNCHANGED fixed, Resend(r)
  PROVE  Inv'
<1>1. /\ TypeOK /\ run[r].pc = "answer" /\ UNCHANGED quiet /\ UNCHANGED <<found, heard>> /\ UNCHANGED meta
      /\ (Fault \/ NoFault) /\ unsure' = Contradicted(r)
  BY DEF Inv, Resend, At
<1>2. PICK next \in {"mode", "send"} : run' = [run EXCEPT ![r].pc = next, ![r].again = TRUE]
  BY DEF Resend
<1>3. run[r].pc \in Page \ {"uploading"} /\ next \in Page \ {"answer", "record"}
  BY <1>1, PlacesAhead
<1>4. Works(r) /\ run'[r].pc = next
  <2> DEFINE yes == TRUE
  <2>0. yes \in BOOLEAN /\ run[r] \in Run /\ next \in Place
    BY <1>1, <1>3, Pages DEF TypeOK
  <2> HIDE DEF yes
  <2> DEFINE k == [run[r] EXCEPT !.pc = next, !.again = yes]
  <2>1. k \in Run /\ k.pc = next /\ k.slot = run[r].slot /\ k.browser = run[r].browser
    BY <2>0 DEF Run
  <2>2. run' = [run EXCEPT ![r] = k]
    BY <1>2, Zenon DEF yes
  <2> HIDE DEF k
  <2>3. run' \in [Worker -> Run] /\ Others(r) /\ run'[r] = k
    BY <1>1, <2>1, <2>2, RunStep
  <2> QED BY <1>1, <2>1, <2>3 DEF Works
<1>5. AsksOn(r) /\ MetaKept(r)
  BY <1>1, <1>3, <1>4, SubmissionMarks DEF AsksOn
<1> QED BY <1>1, <1>3, <1>4, <1>5, QuietKeeps

-----------------------------------------------------------------------------
(* Reference images.                                                           *)

\* A step that may find the proxy overheated.
LEMMA HotStep ==
  ASSUME TypeOK, NEW r \in Worker, NEW next, Hot(r, next), UNCHANGED <<cooling, down, pin, apis>>
  PROVE  (Goto(r, next) \/ EndWith(r, "defer")) /\ Charging
<1>1. Avoided(r) \in [Worker -> Node \cup Entry \cup Endpoint \cup {NoNode}] /\ MarksTyped /\ Marked(apis)
  BY Charges, SlotAged
<1> QED BY <1>1 DEF Hot, Charging, MarksTyped

\* Trouble on doubao's page.
LEMMA PageTrouble ==
  ASSUME Inv, NEW r \in Worker, run[r].pc \in Page, UiError(r)
  PROVE  MetaKept(r) /\ Works(r) /\ AsksOn(r) /\ Fault
<1>1. TypeOK /\ {"infra", "spared", "raised"} \subseteq Submitless
  BY PlacesAhead DEF Inv
<1>2. Fault /\ (UNCHANGED meta \/ meta' = Release(r)) /\ \E out \in {"infra", "spared", "raised"} : EndWith(r, out)
  BY DEF UiError
<1>3. \E out \in Submitless : EndWith(r, out)
  BY <1>1, <1>2
<1> QED BY <1>1, <1>2, <1>3, Moves, SubmissionMarks

\* A place among the uploads is taken or waited for.
LEMMA ReserveUploadKeeps ==
  ASSUME Inv, NEW r \in Worker, UNCHANGED fixed, ReserveUpload(r)
  PROVE  Inv'
<1>1. /\ TypeOK /\ run[r].pc = "upload" /\ UNCHANGED <<taskVars, pools, apis, marks, faults>>
      /\ \/ uploading' = uploading \cup {r} /\ Goto(r, "uploading") /\ UNCHANGED asleep
         \/ asleep' = Sleep(r, "upload") /\ UNCHANGED <<run, uploading>>
  BY DEF Inv, ReserveUpload, At
<1>2. /\ run[r].pc \in Page /\ run[r].pc \notin {"answer", "record", "uploading"}
      /\ "uploading" \in Page \ {"answer", "record"} /\ "uploading" \in Place /\ r \notin uploading
  BY <1>1, PlacesAhead, Pages DEF Inv, Located
<1>3. Works(r) /\ AsksOn(r)
  BY <1>1, <1>2, Moves
<1>4. Rests(r)
  <2>1. Sleep(r, "upload") \in [Worker -> {"", "exit", "api", "browser", "upload"}]
    BY <1>1, Sleepers DEF Pool
  <2>2. CASE uploading' = uploading \cup {r} /\ Goto(r, "uploading") /\ UNCHANGED asleep
    <3>1. run'[r].pc = "uploading"
      BY <1>1, <1>2, <2>2, GotoStep
    <3> QED BY <1>1, <2>2, <3>1 DEF Rests, SleepersTyped, UploadsKept, TypeOK
  <2>3. CASE asleep' = Sleep(r, "upload") /\ UNCHANGED <<run, uploading>>
    BY <1>1, <1>2, <2>1, <2>3 DEF Rests, SleepersTyped, UploadsKept, TypeOK
  <2> QED BY <1>1, <2>2, <2>3
<1>5. UNCHANGED pools /\ UNCHANGED <<found, heard>> /\ UNCHANGED meta /\ unsure' = unsure /\ Unharmed /\ NoFault
  BY <1>1 DEF taskVars, Unharmed, NoFault
<1>6. MetaKept(r) /\ Charging
  BY <1>1, <1>5, SubmissionMarks, ProxyCharged
<1> QED BY <1>2, <1>3, <1>4, <1>5, <1>6, AsksOnKeeps

\* No place among the uploads in time.
LEMMA UploadBusyKeeps ==
  ASSUME Inv, NEW r \in Worker, UNCHANGED fixed, UploadBusy(r)
  PROVE  Inv'
<1>1. /\ TypeOK /\ run[r].pc = "upload" /\ asleep' = Sleep(r, "")
      /\ UNCHANGED <<found, heard, unsure, pools, uploading, apis, marks>>
      /\ UiError(r) \/ (Fault /\ EndWith(r, "defer") /\ UNCHANGED meta)
  BY DEF Inv, UploadBusy, At
<1>2. run[r].pc \in Page /\ run[r].pc \notin {"answer", "record", "uploading"} /\ r \notin uploading
  BY <1>1, PlacesAhead DEF Inv, Located
<1>3. Works(r) /\ AsksOn(r) /\ Fault /\ MetaKept(r)
  <2>1. CASE UiError(r)
    BY <1>2, <2>1, PageTrouble
  <2>2. CASE Fault /\ EndWith(r, "defer") /\ UNCHANGED meta
    <3>1. "defer" \in Submitless
      BY PlacesAhead
    <3> QED BY <1>1, <1>2, <2>2, <3>1, Moves, SubmissionMarks
  <2> QED BY <1>1, <2>1, <2>2
<1>4. Rests(r)
  <2>1. Sleep(r, "") \in [Worker -> {"", "exit", "api", "browser", "upload"}]
    BY <1>1, Sleepers
  <2> QED BY <1>1, <1>2, <2>1 DEF Rests, SleepersTyped, UploadsKept, TypeOK
<1>5. UNCHANGED pools /\ UNCHANGED <<found, heard>> /\ unsure' = unsure /\ Unharmed
  BY <1>1 DEF Unharmed
<1>6. Charging
  BY <1>1, <1>5, ProxyCharged
<1> QED BY <1>2, <1>3, <1>4, <1>5, <1>6, AsksOnKeeps

\* The slot is given back, and whoever waits for one is woken.
LEMMA UploadOver ==
  ASSUME Inv, NEW r \in Worker, uploading' = uploading \ {r}, asleep' = Wake("upload")
  PROVE  Rests(r)
<1>1. Wake("upload") \in [Worker -> {"", "exit", "api", "browser", "upload"}] /\ uploading \subseteq Worker
  BY Sleepers DEF Inv, TypeOK, Pool
<1> QED BY <1>1 DEF Rests, SleepersTyped, UploadsKept

\* The references are up.
LEMMA UploadedKeeps ==
  ASSUME Inv, NEW r \in Worker, UNCHANGED fixed, Uploaded(r)
  PROVE  Inv'
<1> DEFINE next == IF platform(r) = "dola" THEN "pace" ELSE "form"
<1>1. /\ TypeOK /\ run[r].pc = "uploading" /\ uploading' = uploading \ {r} /\ asleep' = Wake("upload")
      /\ Hot(r, next) /\ UNCHANGED <<taskVars, pools, apis, cooling, down, pin, faults>>
  BY DEF Inv, Uploaded, At
<1>2. /\ run[r].pc \in Page /\ run[r].pc \notin {"answer", "record"}
      /\ next \in Page \ {"answer", "record"} /\ "defer" \in Submitless
  BY <1>1, PlacesAhead
<1> HIDE DEF next
<1>3. (Goto(r, next) \/ EndWith(r, "defer")) /\ Charging
  BY <1>1, HotStep
<1>4. Works(r) /\ AsksOn(r)
  BY <1>2, <1>3, Moves
<1>5. Rests(r)
  BY <1>1, UploadOver
<1>6. UNCHANGED pools /\ UNCHANGED <<found, heard>> /\ unsure' = unsure /\ UNCHANGED meta /\ NoFault
  BY <1>1 DEF taskVars, NoFault
<1>7. MetaKept(r)
  BY <1>1, <1>6, SubmissionMarks
<1> QED BY <1>2, <1>3, <1>4, <1>5, <1>6, <1>7, AsksOnKeeps

\* An upload fails.
LEMMA UploadFailsKeeps ==
  ASSUME Inv, NEW r \in Worker, UNCHANGED fixed, UploadFails(r)
  PROVE  Inv'
<1>1. /\ TypeOK /\ run[r].pc = "uploading" /\ uploading' = uploading \ {r} /\ asleep' = Wake("upload")
      /\ UNCHANGED pools /\ UNCHANGED <<found, heard>> /\ unsure' = unsure
      /\ Unharmed \/ CooldownActiveProxyTransport(r)
  BY DEF Inv, UploadFails, At
<1>2. /\ \/ UiError(r)
         \/ Fault /\ UNCHANGED meta /\ \E out \in {"infra", "uploadFailed"} : EndWith(r, out)
  BY DEF UploadFails
<1>3. /\ run[r].pc \in Page /\ run[r].pc \notin {"answer", "record"} /\ {"infra", "uploadFailed"} \subseteq Submitless
  BY <1>1, PlacesAhead
<1>4. Works(r) /\ AsksOn(r) /\ Fault /\ MetaKept(r)
  <2>1. CASE UiError(r)
    BY <1>3, <2>1, PageTrouble
  <2>2. CASE Fault /\ UNCHANGED meta /\ \E out \in {"infra", "uploadFailed"} : EndWith(r, out)
    <3>1. \E out \in Submitless : EndWith(r, out)
      BY <1>3, <2>2
    <3> QED BY <1>1, <1>3, <2>2, <3>1, Moves, SubmissionMarks
  <2> QED BY <1>2, <2>1, <2>2
<1>5. Rests(r) /\ Charging
  BY <1>1, UploadOver, ProxyCharged
<1> QED BY <1>1, <1>3, <1>4, <1>5, AsksOnKeeps

-----------------------------------------------------------------------------
(* Dola.                                                                       *)

\* Dola's page opens.
LEMMA DolaPageKeeps ==
  ASSUME Inv, NEW r \in Worker, UNCHANGED fixed, DolaPage(r)
  PROVE  Inv'
<1> DEFINE next == IF plan[r].images THEN "upload" ELSE "pace"
<1>1. /\ TypeOK /\ run[r].pc = "page" /\ UNCHANGED <<taskVars, pools, idle>> /\ (Fault \/ NoFault)
      /\ \/ Hot(r, next) /\ UNCHANGED <<cooling, down, pin, apis>>
         \/ EndWith(r, "infra") /\ (Unharmed \/ \E cools \in BOOLEAN : RecordActiveGatewayFailure(r, cools))
         \/ Unharmed /\ Raises(r)
  BY DEF Inv, DolaPage, At
<1>2. /\ run[r].pc \in Page /\ run[r].pc \notin {"answer", "record", "uploading"}
      /\ next \in Page \ {"answer", "record"} /\ {"defer", "infra"} \subseteq Submitless
  BY <1>1, PlacesAhead
<1> HIDE DEF next
<1>3. Works(r) /\ AsksOn(r) /\ Charging
  <2>1. CASE Hot(r, next) /\ UNCHANGED <<cooling, down, pin, apis>>
    <3>1. (Goto(r, next) \/ EndWith(r, "defer")) /\ Charging
      BY <1>1, <2>1, HotStep
    <3> QED BY <1>2, <3>1, Moves
  <2>2. CASE EndWith(r, "infra") /\ (Unharmed \/ \E cools \in BOOLEAN : RecordActiveGatewayFailure(r, cools))
    BY <1>1, <1>2, <2>2, Moves, ProxyCharged
  <2>3. CASE Unharmed /\ Raises(r)
    BY <1>1, <1>2, <2>3, Moves, ProxyCharged
  <2> QED BY <1>1, <2>1, <2>2, <2>3
<1>4. UNCHANGED pools /\ UNCHANGED idle /\ UNCHANGED <<found, heard>> /\ unsure' = unsure /\ UNCHANGED meta
  BY <1>1 DEF taskVars
<1>5. MetaKept(r) /\ Rests(r)
  BY <1>1, <1>2, <1>4, SubmissionMarks, Restful
<1> QED BY <1>1, <1>2, <1>3, <1>4, <1>5, AsksOnKeeps

\* Dola's page turns the attempt away.
LEMMA DolaTurnedAwayKeeps ==
  ASSUME Inv, NEW r \in Worker, UNCHANGED fixed, DolaTurnedAway(r)
  PROVE  Inv'
<1>1. \E pc \in {"page", "pace"}, out \in {"retry", "infra"} : Charged(r, pc, out)
  BY DEF DolaTurnedAway
<1>2. {"page", "pace"} \subseteq Page \ {"answer", "record", "uploading"} /\ {"retry", "infra"} \subseteq Submitless
  BY PlacesAhead
<1> QED BY <1>1, <1>2, ChargedKeeps

\* What the page reports of a request: it may not know, or say what is not so.
LEMMA DolaAnswersKeeps ==
  ASSUME Inv, NEW r \in Worker, UNCHANGED fixed, DolaAnswers(r)
  PROVE  Inv'
<1>1. /\ TypeOK /\ (\A x \in Worker : Told(x)) /\ Told(r) /\ run[r].pc = "answer" /\ platform(r) = "dola"
      /\ UNCHANGED <<meta, found, heard, quiet>>
  BY DEF Inv, DolaAnswers, At
<1>2. PICK a \in Answer \ {""} :
        /\ CASE heard[r] = "accepted" -> a \in {"conversation", "awaiting", "http", "gateway"}
             [] heard[r] = "refused" -> a \notin {"conversation", "gateway"}
             [] OTHER -> a \in {"awaiting", "http", "gateway"}
        /\ IF heard[r] = "accepted" /\ a \in {"http", "gateway"} THEN Fault ELSE NoFault
        /\ run' = [run EXCEPT ![r].pc = "record", ![r].answer = a]
        /\ unsure' = IF a = "awaiting" THEN [unsure EXCEPT ![r] = TRUE]
                     ELSE IF a = "conversation" THEN unsure ELSE Contradicted(r)
  BY Zenon DEF DolaAnswers
<1>3. run' = [run EXCEPT ![r].pc = "record", ![r].answer = a] /\ (Fault \/ NoFault) /\ a \in Answer
  BY <1>2
<1>4. (a = "conversation" => heard[r] = "accepted")
  BY <1>2
<1>5. /\ unsure' \in [Worker -> BOOLEAN] /\ \A x \in Worker \ {r} : unsure'[x] = unsure[x]
      /\ a = "awaiting" => unsure'[r]
      /\ ~unsure'[r] /\ a # "conversation" => heard[r] # "accepted"
  <2> DEFINE yes == TRUE
  <2>0. yes \in BOOLEAN /\ yes = TRUE /\ unsure \in [Worker -> BOOLEAN]
    BY <1>1 DEF TypeOK
  <2> HIDE DEF yes
  <2>1. CASE a = "awaiting"
    <3>1. unsure' = [unsure EXCEPT ![r] = yes]
      BY <1>2, <2>1 DEF yes
    <3> QED BY <2>0, <2>1, <3>1
  <2>2. CASE a = "conversation"
    <3>1. unsure' = unsure
      BY <1>2, <2>2
    <3> QED BY <2>0, <2>2, <3>1
  <2>3. CASE a \notin {"awaiting", "conversation"}
    <3>1. unsure' = Contradicted(r)
      BY <1>2, <2>3
    <3> QED BY <1>1, <2>3, <3>1, Contradicts
  <2> QED BY <2>1, <2>2, <2>3
<1>6. Works(r) /\ run'[r].pc = "record" /\ run'[r].answer = a
  <2>0. run[r] \in Run /\ "record" \in Place
    BY <1>1 DEF TypeOK, Place
  <2> DEFINE k == [run[r] EXCEPT !.pc = "record", !.answer = a]
  <2>1. k \in Run /\ k.pc = "record" /\ k.answer = a /\ k.slot = run[r].slot /\ k.browser = run[r].browser
    BY <1>3, <2>0 DEF Run
  <2>2. run' = [run EXCEPT ![r] = k]
    BY <1>3, Zenon
  <2> HIDE DEF k
  <2>3. run' \in [Worker -> Run] /\ Others(r) /\ run'[r] = k
    BY <1>1, <2>1, <2>2, RunStep
  <2> QED BY <1>1, <2>1, <2>3 DEF Works
<1>7. /\ run[r].pc \in Page /\ run[r].pc # "uploading" /\ "record" \in Page /\ "record" \notin Leaving
      /\ run[r].pc \notin Leaving \cup {"idle"}
  BY <1>1, PlacesAhead, Pages
<1>8. UNCHANGED pools /\ UNCHANGED idle /\ Unharmed
  BY <1>1 DEF quiet, Unharmed
<1>9. Charging /\ Rests(r) /\ faults' \in Nat
  BY <1>1, <1>3, <1>7, <1>8, ProxyCharged, Restful, FaultsTyped
<1>10. TasksTyped' /\ OthersTold(r)
  BY <1>1, <1>5, <1>6 DEF TasksTyped, TypeOK, OthersTold, Works, Others
<1>11. Told(r)'
  <2>1. /\ meta'[r] = meta[r] /\ found'[r] = found[r] /\ heard'[r] = heard[r] /\ platform(r)' = "dola"
    BY <1>1 DEF platform, fixed
  <2>2. meta[r].status \in {"running", "submitted", "canceled"} /\ meta[r].status # "submitted" /\ found[r] \notin Known
    BY <1>1, <1>7 DEF Told
  <2> QED BY <1>4, <1>5, <1>6, <1>7, <2>1, <2>2 DEF Told
<1> QED BY <1>6, <1>7, <1>8, <1>9, <1>10, <1>11, PageStep

\* A step that ends the attempt with what it learnt.
LEMMA ConcludesKeeps ==
  ASSUME Inv, NEW r \in Worker, UNCHANGED fixed, UNCHANGED pools, UNCHANGED idle,
         run[r].pc \in Page \ {"uploading"}, NEW out \in Outcome \ {""}, Concludes(r, out),
         Charging, Fault \/ NoFault,
         meta'[r].status \in {"running", "submitted", "canceled"},
         meta'[r].status = "submitted" => out = "done" /\ (~unsure'[r] => heard[r] = "accepted"),
         meta'[r].status = "running" =>
           /\ out # "done"
           /\ ~unsure'[r] => /\ out = "submitted" => heard[r] = "accepted" /\ platform(r) # "dola"
                             /\ out # "submitted" => heard[r] # "accepted"
                             /\ platform(r) = "dola" => found'[r] \notin Known
  PROVE  Inv'
<1>0. TypeOK /\ EndWith(r, out) /\ out \in Outcome /\ out # "" /\ run[r].pc \notin {"fetch", "closing"}
      /\ run[r].pc \in Page /\ run[r].pc # "uploading" /\ "close" \in Leaving
  BY Pages DEF Inv, Concludes, Leaving
<1>1. Works(r) /\ run'[r].pc = "close" /\ run'[r].out = out
  BY <1>0, Ending
<1>2. OthersTold(r)
  BY <1>1 DEF OthersTold, Concludes, Works, Others
<1>3. TasksTyped'
  BY <1>0 DEF TasksTyped, TypeOK, Concludes
<1>4. Told(r)'
  <2>1. heard'[r] = heard[r] /\ platform(r)' = platform(r)
    BY DEF Concludes, platform, fixed
  <2> QED BY <1>0, <1>1, <2>1 DEF Told
<1>5. Rests(r) /\ faults' \in Nat
  BY <1>0, Restful, FaultsTyped
<1>6. run'[r].pc \in Page \cup {"close"}
  BY <1>1
<1> QED BY <1>0, <1>1, <1>2, <1>3, <1>4, <1>5, <1>6, PageStep

\* The record with its evidence.
LEMMA Recorded ==
  ASSUME TypeOK, NEW r \in Worker, NEW m \in Meta, meta' = [meta EXCEPT ![r] = [m EXCEPT !.evidence = TRUE]]
  PROVE  /\ meta' \in [Worker -> Meta] /\ meta'[r].status = m.status
         /\ \A x \in Worker \ {r} : meta'[x] = meta[x]
<1> DEFINE c == [m EXCEPT !.evidence = TRUE]
<1>1. c \in Meta /\ c.status = m.status
  BY Evidence
<1>2. meta' = [meta EXCEPT ![r] = c] /\ meta \in [Worker -> Meta]
  BY DEF TypeOK
<1> HIDE DEF c
<1> QED BY <1>1, <1>2

\* Dola's submission raises.
LEMMA DolaSubmitRaisesKeeps ==
  ASSUME Inv, NEW r \in Worker, UNCHANGED fixed, DolaSubmitRaises(r)
  PROVE  Inv'
<1>1. /\ TypeOK /\ Told(r) /\ run[r].pc = "answer" /\ platform(r) = "dola" /\ Fault
      /\ heard' = heard /\ UNCHANGED pools /\ UNCHANGED idle
  BY DEF Inv, DolaSubmitRaises, At
<1>2. run[r].pc \in Page \ {"uploading"} /\ run[r].pc \notin Leaving \cup {"idle"}
  BY <1>1, PlacesAhead, Pages
<1> DEFINE yes == TRUE
           m == meta[r]
<1>3. CASE /\ EndWith(r, "submitted")
           /\ meta' = [meta EXCEPT ![r].evidence = TRUE] /\ found' = [found EXCEPT ![r] = "awaiting"]
           /\ unsure' = [unsure EXCEPT ![r] = yes]
           /\ Unharmed \/ CooldownActiveProxyTransport(r) \/ MarkActiveProxyUnavailable(r)
  <2>0. m \in Meta /\ yes \in BOOLEAN /\ yes = TRUE
    BY <1>1 DEF TypeOK
  <2> HIDE DEF yes
  <2>1. meta' = [meta EXCEPT ![r] = [m EXCEPT !.evidence = TRUE]]
    BY <1>3
  <2>2. m.status \in {"running", "canceled"}
    BY <1>1, <1>2 DEF Told
  <2> HIDE DEF m
  <2>3. /\ meta' \in [Worker -> Meta] /\ meta'[r].status = m.status
        /\ \A x \in Worker \ {r} : meta'[x] = meta[x]
    BY <1>1, <2>0, <2>1, Recorded
  <2>4. unsure' \in [Worker -> BOOLEAN] /\ unsure'[r] /\ \A x \in Worker \ {r} : unsure'[x] = unsure[x]
    BY <1>1, <1>3, <2>0 DEF TypeOK
  <2>5. Concludes(r, "submitted") /\ "submitted" \in Outcome \ {""}
    BY <1>1, <1>3, <2>3, <2>4 DEF Concludes, TypeOK, Outcome
  <2>6. Charging
    BY <1>1, <1>3, ProxyCharged
  <2> QED BY <1>1, <1>2, <2>2, <2>3, <2>4, <2>5, <2>6, ConcludesKeeps
<1>4. CASE meta' = Release(r) /\ EndWith(r, "retry") /\ unsure' = Contradicted(r) /\ UNCHANGED found /\ Unharmed
  <2>1. "retry" \in Submitless /\ run[r].pc \in Page
    BY <1>2, PlacesAhead
  <2>2. Works(r) /\ AsksOn(r) /\ MetaKept(r) /\ Charging /\ Rests(r)
    BY <1>1, <1>2, <1>4, <2>1, Moves, SubmissionMarks, ProxyCharged, Restful
  <2> QED BY <1>1, <1>4, <2>1, <2>2, AsksOnKeeps
<1> QED BY <1>3, <1>4 DEF DolaSubmitRaises

\* Dola's record of the answer raises.
LEMMA DolaRecordRaisesKeeps ==
  ASSUME Inv, NEW r \in Worker, UNCHANGED fixed, DolaRecordRaises(r)
  PROVE  Inv'
<1>1. /\ TypeOK /\ run[r].pc = "record" /\ Fault /\ Raises(r) /\ unsure' = Contradicted(r)
      /\ UNCHANGED meta /\ UNCHANGED <<found, heard>> /\ UNCHANGED quiet
  BY DEF Inv, DolaRecordRaises, At
<1>2. run[r].pc \in Page \ {"uploading"}
  BY <1>1, PlacesAhead
<1>3. Works(r) /\ AsksOn(r) /\ MetaKept(r)
  BY <1>1, <1>2, Moves, SubmissionMarks
<1> QED BY <1>1, <1>2, <1>3, QuietKeeps

\* A submission is kept, or its refusal.
LEMMA DolaRecordKeeps ==
  ASSUME Inv, NEW r \in Worker, UNCHANGED fixed, DolaRecord(r)
  PROVE  Inv'
<1> DEFINE a == run[r].answer
           m == meta[r]
           submitted == MarkSubmitted(m)
           released == ReleaseTaskSubmission(m)
<1>1. /\ TypeOK /\ Told(r) /\ run[r].pc = "record" /\ platform(r) = "dola" /\ NoFault
      /\ UNCHANGED <<heard, unsure>> /\ UNCHANGED pools /\ UNCHANGED idle
  BY DEF Inv, DolaRecord, At
<1>2. run[r].pc \in Page \ {"uploading"} /\ run[r].pc \notin Leaving \cup {"idle"}
  BY <1>1, PlacesAhead, Pages
<1>3. /\ m.status \in {"running", "canceled"} /\ (a = "awaiting" => unsure[r])
      /\ ~unsure[r] => (a = "conversation" <=> heard[r] = "accepted")
  BY <1>1, <1>2 DEF Told
<1>4. /\ m \in Meta /\ submitted \in Meta /\ released \in Meta /\ released.status = m.status
      /\ submitted.status = IF m.status = "running" THEN "submitted" ELSE m.status
  <2>1. m \in Meta
    BY <1>1 DEF TypeOK
  <2> HIDE DEF m
  <2> QED BY <2>1, StoreCalls
<1>5. CASE /\ a \in {"conversation", "awaiting"} /\ EndWith(r, "done")
           /\ found' = [found EXCEPT ![r] = a] /\ avoid' = [avoid EXCEPT ![r] = NoNode]
           /\ meta' = [meta EXCEPT ![r] = [submitted EXCEPT !.evidence = TRUE]]
           /\ UNCHANGED <<cooling, down, pin, apis>>
  <2> HIDE DEF a, submitted
  <2>1. /\ meta' \in [Worker -> Meta] /\ meta'[r].status = submitted.status
        /\ \A x \in Worker \ {r} : meta'[x] = meta[x]
    BY <1>1, <1>4, <1>5, Recorded
  <2>2. Concludes(r, "done") /\ "done" \in Outcome \ {""}
    BY <1>1, <1>5, <2>1 DEF Concludes, TypeOK, Outcome
  <2>3. Charging
    BY <1>1, <1>5, SlotAged DEF Charging, MarksTyped, TypeOK
  <2>4. meta'[r].status \in {"submitted", "canceled"} /\ (~unsure'[r] => heard[r] = "accepted")
    BY <1>1, <1>3, <1>4, <1>5, <2>1
  <2> QED BY <1>1, <1>2, <2>2, <2>3, <2>4, ConcludesKeeps
<1>6. CASE /\ a \notin {"conversation", "awaiting"}
           /\ found' = [found EXCEPT ![r] = "rejected"] /\ meta' = [Release(r) EXCEPT ![r].evidence = TRUE]
           /\ \E out \in {"retry", "infra"} : EndWith(r, out)
           /\ \/ Unharmed \/ MarkActiveProxyUnavailable(r)
              \/ avoid' = Avoided(r) /\ UNCHANGED <<cooling, down, pin, apis>>
              \/ \E cools \in BOOLEAN : RecordActiveGatewayFailure(r, cools)
  <2>1. meta' = [meta EXCEPT ![r] = [released EXCEPT !.evidence = TRUE]]
    <3>1. meta \in [Worker -> Meta]
      BY <1>1 DEF TypeOK
    <3>2. Release(r) = [meta EXCEPT ![r] = released]
      BY DEF Release
    <3> HIDE DEF released
    <3> QED BY <1>6, <3>1, <3>2
  <2> HIDE DEF a, released
  <2>2. /\ meta' \in [Worker -> Meta] /\ meta'[r].status = released.status
        /\ \A x \in Worker \ {r} : meta'[x] = meta[x]
    BY <1>1, <1>4, <2>1, Recorded
  <2>3. PICK out \in {"retry", "infra"} : EndWith(r, out)
    BY <1>6
  <2>4. Concludes(r, out) /\ out \in Outcome \ {""} /\ out \notin {"done", "submitted"}
    BY <1>1, <1>6, <2>2, <2>3 DEF Concludes, TypeOK, Outcome
  <2>5. Charging
    <3>1. CASE avoid' = Avoided(r) /\ UNCHANGED <<cooling, down, pin, apis>>
      <4>1. Avoided(r) \in [Worker -> Node \cup Entry \cup Endpoint \cup {NoNode}] /\ MarksTyped /\ Marked(apis)
        BY <1>1, Charges, SlotAged
      <4> QED BY <3>1, <4>1 DEF Charging, MarksTyped
    <3> QED BY <1>1, <1>6, <3>1, ProxyCharged
  <2>6. /\ meta'[r].status \in {"running", "canceled"} /\ found'[r] \notin Known
        /\ ~unsure'[r] => heard[r] # "accepted"
    BY <1>1, <1>3, <1>4, <1>6, <2>2 DEF TypeOK, Known
  <2> QED BY <1>1, <1>2, <2>4, <2>5, <2>6, ConcludesKeeps
<1>7. meta' = [meta EXCEPT ![r] = [MarkSubmitted(@) EXCEPT !.evidence = TRUE]]
        => meta' = [meta EXCEPT ![r] = [submitted EXCEPT !.evidence = TRUE]]
  OBVIOUS
<1> HIDE DEF submitted, released, m
<1> QED BY <1>5, <1>6, <1>7 DEF DolaRecord

-----------------------------------------------------------------------------
(* Doubao.                                                                     *)

\* Doubao's page opens or turns the attempt away.
LEMMA DoubaoPageKeeps ==
  ASSUME Inv, NEW r \in Worker, UNCHANGED fixed, DoubaoPage(r)
  PROVE  Inv'
<1>0. /\ {"page", "begin"} \subseteq Page \ {"answer", "record", "uploading"}
      /\ {"retry", "failed"} \subseteq Submitless
  BY PlacesAhead
<1>1. CASE Charged(r, "page", "retry")
  BY <1>0, <1>1, ChargedKeeps
<1>2. CASE /\ At(r, "page") /\ EndWith(r, "failed") /\ NoFault
           /\ UNCHANGED <<taskVars, quiet>>
  <2>1. /\ TypeOK /\ run[r].pc = "page" /\ UNCHANGED quiet /\ UNCHANGED <<found, heard>> /\ unsure' = unsure
        /\ UNCHANGED meta
    BY <1>2 DEF Inv, At, taskVars
  <2>2. run[r].pc \in Page \ {"answer", "record", "uploading"}
    BY <1>0, <2>1
  <2>3. Works(r) /\ AsksOn(r) /\ MetaKept(r)
    BY <1>0, <1>2, <2>1, <2>2, Moves, SubmissionMarks
  <2> QED BY <1>2, <2>1, <2>2, <2>3, QuietKeeps
<1>3. CASE Step(r, "page", "begin", {"retry", "failed"})
  BY <1>0, <1>3, StepKeeps
<1> QED BY <1>1, <1>2, <1>3 DEF DoubaoPage

\* One thing is filled in on doubao's page.
LEMMA FillKeeps ==
  ASSUME Inv, NEW r \in Worker, UNCHANGED fixed,
         NEW pc \in Page \ {"answer", "record", "uploading"}, NEW next \in Page \ {"answer", "record"},
         Fill(r, pc, next)
  PROVE  Inv'
<1>1. /\ TypeOK /\ run[r].pc = pc /\ UNCHANGED quiet /\ UNCHANGED <<found, heard>> /\ unsure' = unsure
      /\ (Goto(r, next) /\ NoFault /\ UNCHANGED meta) \/ UiError(r)
  BY DEF Inv, Fill, At
<1>2. run[r].pc \in Page \ {"answer", "record", "uploading"}
  BY <1>1
<1>3. MetaKept(r) /\ Works(r) /\ AsksOn(r) /\ (Fault \/ NoFault)
  <2>1. CASE Goto(r, next) /\ NoFault /\ UNCHANGED meta
    BY <1>1, <1>2, <2>1, Moves, SubmissionMarks
  <2>2. CASE UiError(r)
    BY <1>2, <2>2, PageTrouble
  <2> QED BY <1>1, <2>1, <2>2
<1> QED BY <1>1, <1>2, <1>3, QuietKeeps

\* The form of doubao's page.
LEMMA FormKeeps ==
  ASSUME Inv, NEW r \in Worker, UNCHANGED fixed,
         \/ OpenVideoEntry(r) \/ SelectVideoModel(r) \/ SelectVideoSettings(r) \/ FillForm(r)
  PROVE  Inv'
<1>0. /\ {"mode", "model", "settings", "form", "upload", "pace"} \subseteq Page \ {"answer", "record", "uploading"}
      /\ "retry" \in Submitless
  BY PlacesAhead
<1>1. CASE Fill(r, "mode", "model")
  BY <1>0, <1>1, FillKeeps
<1>2. CASE Fill(r, "model", "settings")
  BY <1>0, <1>2, FillKeeps
<1>3. CASE Fill(r, "settings", IF plan[r].images THEN "upload" ELSE "form")
  BY <1>0, <1>3, FillKeeps
<1>4. CASE Fill(r, "form", "pace")
  BY <1>0, <1>4, FillKeeps
<1>5. CASE /\ At(r, "mode") /\ Fault /\ meta' = Release(r) /\ EndWith(r, "retry")
           /\ MarkActiveProxyUnavailable(r) \/ Unharmed
           /\ UNCHANGED <<found, heard, unsure, pools, idle>>
  <2>1. /\ TypeOK /\ run[r].pc = "mode" /\ UNCHANGED <<found, heard>> /\ unsure' = unsure
        /\ UNCHANGED pools /\ UNCHANGED idle
    BY <1>5 DEF Inv, At
  <2>2. run[r].pc \in Page /\ run[r].pc \notin {"answer", "record", "uploading"}
    BY <1>0, <2>1
  <2>3. Works(r) /\ AsksOn(r) /\ MetaKept(r) /\ Charging /\ Rests(r)
    BY <1>0, <1>5, <2>1, <2>2, Moves, SubmissionMarks, ProxyCharged, Restful
  <2> QED BY <1>5, <2>1, <2>2, <2>3, AsksOnKeeps
<1> QED BY <1>1, <1>2, <1>3, <1>4, <1>5 DEF OpenVideoEntry, SelectVideoModel, SelectVideoSettings, FillForm

\* The answer came through: the request was taken.
LEMMA RecordReached ==
  ASSUME Inv, NEW r \in Worker, UNCHANGED fixed, run[r].pc = "answer", platform(r) # "dola",
         heard[r] = "accepted", Goto(r, "record"), NoFault, UNCHANGED <<meta, found, heard, unsure, quiet>>
  PROVE  Inv'
<1>1. TypeOK /\ Told(r) /\ UNCHANGED pools /\ UNCHANGED idle /\ Unharmed
  BY DEF Inv, quiet, Unharmed
<1>2. /\ run[r].pc \in Page /\ run[r].pc # "uploading" /\ "record" \in Page /\ "record" \in Place
      /\ "record" \notin Leaving /\ run[r].pc \notin {"fetch", "closing"} /\ run[r].pc \notin Leaving \cup {"idle"}
  BY PlacesAhead, Pages
<1>3. Works(r) /\ run'[r].pc = "record"
  BY <1>2, Going
<1>4. OthersTold(r) /\ TasksTyped'
  BY <1>1, <1>3 DEF OthersTold, TasksTyped, TypeOK, Works, Others
<1>5. Told(r)'
  <2>1. /\ meta'[r] = meta[r] /\ found'[r] = found[r] /\ heard'[r] = "accepted" /\ platform(r)' # "dola"
    BY DEF platform, fixed
  <2>2. meta[r].status \in {"running", "submitted", "canceled"} /\ meta[r].status # "submitted" /\ found[r] \notin Known
    BY <1>1, <1>2 DEF Told
  <2> QED BY <1>2, <1>3, <2>1, <2>2 DEF Told
<1>6. Charging /\ Rests(r) /\ faults' \in Nat
  BY <1>1, <1>2, ProxyCharged, Restful, FaultsTyped
<1> QED BY <1>1, <1>2, <1>3, <1>4, <1>5, <1>6, PageStep

\* Doubao's answer.
LEMMA DoubaoAnswersKeeps ==
  ASSUME Inv, NEW r \in Worker, UNCHANGED fixed, DoubaoAnswers(r)
  PROVE  Inv'
<1>1. /\ TypeOK /\ run[r].pc = "answer" /\ platform(r) = "doubao"
      /\ UNCHANGED <<found, heard>> /\ UNCHANGED pools /\ UNCHANGED idle
      /\ unsure' = IF run'[r].pc = "record" THEN unsure ELSE Contradicted(r)
  BY DEF Inv, DoubaoAnswers, At
<1>2. /\ run[r].pc \in Page /\ run[r].pc # "uploading" /\ "record" \in Place
      /\ run[r].pc \notin {"fetch", "closing"} /\ {"retry", "infra", "raised"} \subseteq Submitless
  BY <1>1, PlacesAhead, Pages
<1>3. CASE Acknowledged(r, TRUE) /\ Goto(r, "record") /\ UNCHANGED meta /\ Unharmed
  <2>1. run'[r].pc = "record"
    BY <1>1, <1>2, <1>3, GotoStep
  <2>2. heard[r] = "accepted" /\ NoFault /\ UNCHANGED <<meta, found, heard, unsure, quiet>>
    BY <1>1, <1>3, <2>1 DEF Acknowledged, quiet, Unharmed
  <2> QED BY <1>1, <1>3, <2>2, RecordReached
<1>4. CASE /\ UNCHANGED meta \/ meta' = Release(r)
           /\ \E out \in {"retry", "infra", "raised"} : EndWith(r, out)
           /\ Fault \/ NoFault
           /\ \/ Unharmed \/ MarkActiveProxyUnavailable(r) \/ CooldownServiceFrequent(r)
              \/ \E cools \in BOOLEAN : MarkDoubaoVerificationProxy(r, cools)
  <2>1. \E out \in Submitless : EndWith(r, out)
    BY <1>2, <1>4
  <2>2. Works(r) /\ AsksOn(r) /\ MetaKept(r) /\ Charging /\ Rests(r)
    BY <1>1, <1>2, <1>4, <2>1, Moves, SubmissionMarks, ProxyCharged, Restful
  <2>3. run'[r].pc = "close"
    <3>1. \A out \in Submitless : out \in Outcome
      BY DEF Submitless
    <3> QED BY <1>1, <2>1, <3>1, EndStep
  <2>4. unsure' = Contradicted(r)
    BY <1>1, <2>3
  <2> QED BY <1>1, <1>2, <1>4, <2>2, <2>4, AsksOnKeeps
<1>5. Acknowledged(r, FALSE) => Fault \/ NoFault
  BY DEF Acknowledged
<1> QED BY <1>3, <1>4, <1>5 DEF DoubaoAnswers

\* Doubao's record of the answer.
LEMMA DoubaoRecordKeeps ==
  ASSUME Inv, NEW r \in Worker, NodeFits(r), UNCHANGED fixed, DoubaoRecord(r)
  PROVE  Inv'
<1> DEFINE m == meta[r]
           submitted == MarkSubmitted(m)
<1>1. /\ TypeOK /\ Told(r) /\ run[r].pc = "record" /\ platform(r) = "doubao"
      /\ RecordDoubaoProxySuccess(r) /\ UNCHANGED <<found, heard>> /\ UNCHANGED pools /\ UNCHANGED idle
  BY DEF Inv, DoubaoRecord, At
<1>2. /\ run[r].pc \in Page /\ run[r].pc # "uploading" /\ run[r].pc \notin Leaving \cup {"idle"}
      /\ "raised" \in Submitless
  BY <1>1, PlacesAhead, Pages
<1>3. heard[r] = "accepted" /\ m.status \in {"running", "canceled"}
  BY <1>1, <1>2 DEF Told
<1>4. Charging
  <2>1. MarksTyped /\ Marked(apis) /\ pin \in [Worker -> Node \cup {NoNode}]
    BY <1>1, Charges, SlotAged DEF TypeOK
  <2>2. pin' \in [Worker -> Node \cup {NoNode}]
    BY <1>1, <2>1 DEF RecordDoubaoProxySuccess, NodeFits
  <2> QED BY <1>1, <2>1, <2>2 DEF RecordDoubaoProxySuccess, Charging, MarksTyped
<1>5. m \in Meta /\ submitted \in Meta /\ submitted.status = IF m.status = "running" THEN "submitted" ELSE m.status
  <2>1. m \in Meta
    BY <1>1 DEF TypeOK
  <2> HIDE DEF m
  <2> QED BY <2>1, StoreCalls
<1>6. CASE /\ EndWith(r, "done") /\ NoFault /\ UNCHANGED unsure
           /\ meta' = [meta EXCEPT ![r] = [submitted EXCEPT !.evidence = TRUE]]
  <2> HIDE DEF submitted
  <2>1. /\ meta' \in [Worker -> Meta] /\ meta'[r].status = submitted.status
        /\ \A x \in Worker \ {r} : meta'[x] = meta[x]
    BY <1>1, <1>5, <1>6, Recorded
  <2>2. Concludes(r, "done") /\ "done" \in Outcome \ {""}
    BY <1>1, <1>6, <2>1 DEF Concludes, TypeOK, Outcome
  <2>3. meta'[r].status \in {"submitted", "canceled"}
    BY <1>3, <1>5, <2>1
  <2> QED BY <1>1, <1>2, <1>3, <1>4, <1>6, <2>2, <2>3, ConcludesKeeps
<1>7. CASE EndWith(r, "raised") /\ Fault /\ unsure' = Contradicted(r) /\ UNCHANGED meta
  <2>1. Works(r) /\ AsksOn(r) /\ MetaKept(r) /\ Rests(r)
    BY <1>1, <1>2, <1>7, Moves, SubmissionMarks, Restful
  <2> QED BY <1>1, <1>2, <1>4, <1>7, <2>1, AsksOnKeeps
<1>8. meta' = [meta EXCEPT ![r] = [MarkSubmitted(@) EXCEPT !.evidence = TRUE]]
        => meta' = [meta EXCEPT ![r] = [submitted EXCEPT !.evidence = TRUE]]
  OBVIOUS
<1> HIDE DEF submitted, m
<1> QED BY <1>6, <1>7, <1>8 DEF DoubaoRecord

-----------------------------------------------------------------------------
(* Qianwen and its AI Studio.                                                  *)

\* The form of qianwen's page and of AI Studio.
LEMMA QianwenStepsKeep ==
  ASSUME Inv, NEW r \in Worker, UNCHANGED fixed,
         \/ QianwenPage(r) \/ ActivateVideoMode(r) \/ EnsureVideoModel(r) \/ EnsureVideoSettings(r)
         \/ UploadReferenceImages(r) \/ FillEditor(r) \/ SyncDailyCredit(r)
  PROVE  Inv'
<1>1. /\ {"page", "mode", "model", "settings", "form", "upload", "pace", "begin", "credit"}
           \subseteq Page \ {"answer", "record", "uploading"}
      /\ {"retry", "failed", "infra", "defer"} \subseteq Submitless
  BY PlacesAhead
<1>2. PICK pc \in {"page", "mode", "model", "settings", "upload", "form", "credit"},
           next \in {"mode", "model", "settings", "upload", "form", "begin", "pace"},
           outs \in {{"retry"}, {"failed"}, {"infra", "defer"}} : Step(r, pc, next, outs)
  <2> DEFINE filled == IF plan[r].images THEN "upload" ELSE "form"
  <2>1. filled \in {"upload", "form"}
    OBVIOUS
  <2> HIDE DEF filled
  <2>2. \/ Step(r, "page", "mode", {"retry"}) \/ Step(r, "mode", "model", {"retry"})
        \/ Step(r, "model", "settings", {"failed"}) \/ Step(r, "settings", filled, {"failed"})
        \/ Step(r, "upload", "form", {"retry"}) \/ Step(r, "form", "begin", {"retry"})
        \/ Step(r, "credit", "pace", {"infra", "defer"})
    BY DEF QianwenPage, ActivateVideoMode, EnsureVideoModel, EnsureVideoSettings,
           UploadReferenceImages, FillEditor, SyncDailyCredit, filled
  <2> QED BY <2>1, <2>2, Zenon
<1>3. /\ pc \in Page \ {"answer", "record", "uploading"} /\ next \in Page \ {"answer", "record"}
      /\ outs \in SUBSET Submitless
  BY <1>1
<1> QED BY <1>2, <1>3, StepKeeps

\* Qianwen's answer.
LEMMA QianwenAnswersKeeps ==
  ASSUME Inv, NEW r \in Worker, UNCHANGED fixed, QianwenAnswers(r)
  PROVE  Inv'
<1>1. /\ TypeOK /\ run[r].pc = "answer" /\ platform(r) \in {"qianwen", "studio"}
      /\ UNCHANGED meta /\ UNCHANGED <<found, heard>> /\ UNCHANGED quiet
  BY DEF Inv, QianwenAnswers, At
<1>2. run[r].pc \in Page \ {"uploading"} /\ {"retry", "failed", "defer"} \subseteq Submitless
  BY <1>1, PlacesAhead
<1>3. CASE heard[r] = "accepted" /\ Goto(r, "record") /\ NoFault /\ UNCHANGED unsure
  <2>1. UNCHANGED <<meta, found, heard, unsure, quiet>> /\ platform(r) # "dola"
    BY <1>1, <1>3
  <2> QED BY <1>1, <1>3, <2>1, RecordReached
<1>4. CASE /\ (Fault \/ NoFault) /\ unsure' = Contradicted(r)
           /\ Raises(r) \/ \E out \in {"retry", "failed", "defer"} : EndWith(r, out)
  <2>1. Raises(r) \/ \E out \in Submitless : EndWith(r, out)
    BY <1>2, <1>4
  <2>2. Works(r) /\ AsksOn(r) /\ MetaKept(r)
    BY <1>1, <1>2, <2>1, Moves, SubmissionMarks
  <2> QED BY <1>1, <1>2, <1>4, <2>2, QuietKeeps
<1> QED BY <1>3, <1>4 DEF QianwenAnswers

\* AI Studio loses the connection.
LEMMA StudioDisconnectsKeeps ==
  ASSUME Inv, NEW r \in Worker, UNCHANGED fixed, StudioDisconnects(r)
  PROVE  Inv'
<1>1. /\ TypeOK /\ run[r].pc = "answer" /\ Fault /\ MarkActiveProxyUnavailable(r) /\ EndWith(r, "infra")
      /\ unsure' = Contradicted(r) /\ UNCHANGED meta /\ UNCHANGED <<found, heard>>
      /\ UNCHANGED pools /\ UNCHANGED idle
  BY DEF Inv, StudioDisconnects, At
<1>2. run[r].pc \in Page /\ run[r].pc # "uploading" /\ "infra" \in Submitless
  BY <1>1, PlacesAhead
<1>3. Works(r) /\ AsksOn(r) /\ MetaKept(r) /\ Charging /\ Rests(r)
  BY <1>1, <1>2, Moves, SubmissionMarks, ProxyCharged, Restful
<1> QED BY <1>1, <1>2, <1>3, AsksOnKeeps

\* Qianwen's record of the answer.
LEMMA QianwenRecordKeeps ==
  ASSUME Inv, NEW r \in Worker, UNCHANGED fixed, QianwenRecord(r)
  PROVE  Inv'
<1> DEFINE m == meta[r]
<1>1. /\ TypeOK /\ Told(r) /\ run[r].pc = "record" /\ platform(r) # "dola"
      /\ UNCHANGED <<found, heard>> /\ UNCHANGED quiet
  BY DEF Inv, QianwenRecord, At
<1>2. run[r].pc \in Page \ {"uploading"} /\ run[r].pc \notin Leaving \cup {"idle"}
  BY <1>1, PlacesAhead, Pages
<1>3. heard[r] = "accepted" /\ m.status \in {"running", "canceled"} /\ m \in Meta
  BY <1>1, <1>2 DEF Told, TypeOK
<1>4. CASE EndWith(r, "submitted") /\ NoFault /\ UNCHANGED unsure /\ meta' = [meta EXCEPT ![r].evidence = TRUE]
  <2>1. meta' = [meta EXCEPT ![r] = [m EXCEPT !.evidence = TRUE]]
    BY <1>4
  <2> HIDE DEF m
  <2>2. /\ meta' \in [Worker -> Meta] /\ meta'[r].status = m.status
        /\ \A x \in Worker \ {r} : meta'[x] = meta[x]
    BY <1>1, <1>3, <2>1, Recorded
  <2>3. Concludes(r, "submitted") /\ "submitted" \in Outcome \ {""}
    BY <1>1, <1>4, <2>2 DEF Concludes, TypeOK, Outcome
  <2>4. UNCHANGED pools /\ UNCHANGED idle /\ Unharmed
    BY <1>1 DEF quiet, Unharmed
  <2>5. Charging
    BY <1>1, <2>4, ProxyCharged
  <2> QED BY <1>1, <1>2, <1>3, <1>4, <2>2, <2>3, <2>4, <2>5, ConcludesKeeps
<1>5. CASE Raises(r) /\ Fault /\ unsure' = Contradicted(r) /\ UNCHANGED meta
  <2>1. Works(r) /\ AsksOn(r) /\ MetaKept(r)
    BY <1>1, <1>2, <1>5, Moves, SubmissionMarks
  <2> QED BY <1>1, <1>2, <1>5, <2>1, QuietKeeps
<1> QED BY <1>4, <1>5 DEF QianwenRecord

-----------------------------------------------------------------------------
(* The outcome.                                                                *)

\* What the worker makes of an outcome tells what happened.
LEMMA OutcomeSteps ==
  ASSUME NEW r, NEW m \in Meta, NEW out \in Outcome \ {""}
  PROVE  Outcomed(r, m, out, Outcomes(r, m, out))
<1> DEFINE p == MarkPending(m)
           n == Outcomes(r, m, out)
<1>1. /\ p \in Meta /\ DeferTask(m) \in Meta /\ MarkFailed(m) \in Meta
      /\ RecordRetry(m) \in Meta /\ RecordInfrastructureRetry(m) \in Meta
      /\ m.status = "running" =>
           /\ p.status = "pending" /\ DeferTask(m).status = "pending"
           /\ MarkFailed(m).status = "failed"
           /\ RecordRetry(m).status \in {"pending", "failed"}
           /\ RecordInfrastructureRetry(m).status \in {"pending", "failed"}
      /\ m.status \in {"submitted", "canceled"} =>
           p = m /\ DeferTask(m) = m /\ RecordRetry(m) = m /\ RecordInfrastructureRetry(m) = m
      /\ m.status = "submitted" => MarkFailed(m).status = "failed"
      /\ m.status = "canceled" => MarkFailed(m) = m
  BY WorkerCalls
<1>2. /\ MarkSubmitted(m) \in Meta
      /\ MarkSubmitted(m).status = IF m.status = "running" THEN "submitted" ELSE m.status
  BY StoreCalls
<1> HIDE DEF p, n
<1> SUFFICES Outcomed(r, m, out, n)
  BY DEF n
<1>3. /\ RecordRetry(p) \in Meta /\ RecordInfrastructureRetry(p) \in Meta
      /\ m.status = "running" => /\ RecordRetry(p).status \in {"pending", "failed"}
                                 /\ RecordInfrastructureRetry(p).status \in {"pending", "failed"}
      /\ m.status \in {"submitted", "canceled"} => RecordRetry(p) = m /\ RecordInfrastructureRetry(p) = m
  <2>1. p \in Meta
    BY <1>1
  <2> QED BY <1>1, <2>1, WorkerCalls
<1>4. CASE out = "timeout"
  <2>1. n = TimedOut(r, m)
    BY <1>4 DEF n, Outcomes
  <2>2. CASE platform(r) = "dola"
    <3>1. TimedOut(r, m) = IF found[r] \in Known THEN MarkSubmitted(m) ELSE RecordInfrastructureRetry(m)
      BY <2>2 DEF TimedOut, Known
    <3> QED BY <1>1, <1>2, <1>4, <2>1, <2>2, <3>1 DEF Outcomed
  <2>3. CASE platform(r) = "doubao"
    <3>1. TimedOut(r, m) = IF m.status = "submitted" THEN MarkFailed(m) ELSE RecordRetry(p)
      BY <2>3 DEF TimedOut, p
    <3> QED BY <1>1, <1>3, <1>4, <2>1, <2>3, <3>1 DEF Outcomed
  <2>4. CASE platform(r) \notin {"dola", "doubao"}
    <3>1. TimedOut(r, m) = RecordRetry(p)
      BY <2>4 DEF TimedOut, p
    <3> QED BY <1>1, <1>3, <1>4, <2>1, <2>4, <3>1 DEF Outcomed
  <2> QED BY <2>2, <2>3, <2>4
<1>5. CASE out = "submitted"
  <2>1. n = MarkSubmitted(m)
    BY <1>5 DEF n, Outcomes
  <2> QED BY <1>2, <1>5, <2>1 DEF Outcomed
<1>6. CASE out = "done"
  <2>1. n = m
    BY <1>6 DEF n, Outcomes
  <2> QED BY <1>6, <2>1 DEF Outcomed
<1>7. CASE out \in {"defer", "retry", "failed", "stopped", "infra", "transport", "gateway", "uploadFailed",
                    "raised", "spared"}
  <2>1. CASE out = "defer"
    <3>1. n = DeferTask(m)
      BY <2>1 DEF n, Outcomes
    <3> QED BY <1>1, <2>1, <3>1 DEF Outcomed
  <2>2. CASE out = "stopped"
    <3>1. n = p
      BY <2>2 DEF n, Outcomes, p
    <3> QED BY <1>1, <2>2, <3>1 DEF Outcomed
  <2>3. CASE out = "failed"
    <3>1. n = MarkFailed(m)
      BY <2>3 DEF n, Outcomes
    <3> QED BY <1>1, <2>3, <3>1 DEF Outcomed
  <2>4. CASE out \in {"retry", "infra", "transport", "gateway", "uploadFailed"}
    <3>1. n \in {DeferTask(m), RecordRetry(m), RecordInfrastructureRetry(m)}
      BY <2>4 DEF n, Outcomes
    <3> QED BY <1>1, <2>4, <3>1 DEF Outcomed
  <2>5. CASE out \in {"raised", "spared"}
    <3>1. n = RecordInfrastructureRetry(p)
      BY <2>5 DEF n, Outcomes, p
    <3> QED BY <1>1, <1>3, <2>5, <3>1 DEF Outcomed
  <2> QED BY <1>7, <2>1, <2>2, <2>3, <2>4, <2>5
<1>8. out \in {"submitted", "done", "timeout", "defer", "retry", "failed", "stopped", "infra", "transport",
               "gateway", "uploadFailed", "raised", "spared"}
  BY DEF Outcome
<1> QED BY <1>4, <1>5, <1>6, <1>7, <1>8

\* The attempt returns, and the worker records its outcome.
LEMMA ReturnKeeps ==
  ASSUME Inv, NEW r \in Worker, UNCHANGED fixed, Return(r)
  PROVE  Inv'
<1> DEFINE m == meta[r]
           out == run[r].out
           n == Outcomes(r, m, out)
<1>1. /\ TypeOK /\ Located(r) /\ Told(r) /\ (\A x \in Worker : Told(x)) /\ run[r].pc = "return"
      /\ run' = [run EXCEPT ![r] = Idling] /\ UNCHANGED <<found, heard, unsure>>
      /\ UNCHANGED pools /\ UNCHANGED idle /\ NoFault
  BY DEF Inv, Return, At, NoFault
<1>2. meta' = [meta EXCEPT ![r] = n]
  BY DEF Return
<1>3. m \in Meta /\ out \in Outcome
  BY <1>1 DEF TypeOK, Run
<1>4. "return" \in Leaving /\ "return" # "idle"
  BY DEF Leaving
<1>5. /\ out # "" /\ m.status \in {"running", "submitted", "canceled"}
      /\ m.status = "submitted" =>
           /\ out \in {"done", "timeout", "stopped"}
           /\ ~unsure[r] => heard[r] = "accepted" /\ ~(platform(r) = "doubao" /\ out = "timeout")
      /\ m.status = "running" => out # "done"
      /\ m.status = "running" /\ ~unsure[r] =>
           /\ out = "submitted" => heard[r] = "accepted" /\ platform(r) # "dola"
           /\ out # "submitted" => heard[r] # "accepted"
           /\ platform(r) = "dola" => found[r] \notin Known
  BY <1>1, <1>4 DEF Told
<1>6. /\ m.status = "running" /\ out # "done" =>
           /\ n \in Meta /\ n.status \in {"pending", "failed", "submitted"}
           /\ n.status = "submitted" => \/ out = "submitted"
                                        \/ platform(r) = "dola" /\ found[r] \in Known
           /\ out = "submitted" => n.status = "submitted"
      /\ m.status = "submitted" /\ out \in {"done", "timeout", "stopped"} =>
           /\ n \in Meta /\ n.status \in {"submitted", "failed"}
           /\ ~(platform(r) = "doubao" /\ out = "timeout") => n.status = "submitted"
      /\ m.status = "canceled" => n \in Meta /\ n.status = "canceled"
  <2> HIDE DEF m, out, n
  <2>1. out \in Outcome \ {""}
    BY <1>3, <1>5
  <2>2. Outcomed(r, m, out, n)
    BY <1>3, <2>1, OutcomeSteps DEF n
  <2> QED BY <2>2 DEF Outcomed
<1>7. /\ n \in Meta /\ n.status \in {"pending", "submitted", "failed", "canceled"}
      /\ n.status # "canceled" /\ ~unsure[r] => (n.status = "submitted" <=> heard[r] = "accepted")
  <2> HIDE DEF m, out, n
  <2>1. CASE m.status = "running"
    BY <1>5, <1>6, <2>1
  <2>2. CASE m.status = "submitted"
    BY <1>5, <1>6, <2>2
  <2>3. CASE m.status = "canceled"
    BY <1>6, <2>3
  <2> QED BY <1>5, <2>1, <2>2, <2>3
<1> HIDE DEF m, out, n
<1>8. /\ meta' \in [Worker -> Meta] /\ meta'[r] = n /\ \A x \in Worker \ {r} : meta'[x] = meta[x]
  BY <1>1, <1>2, <1>7 DEF TypeOK
<1>9. /\ Idling \in Run /\ Idling.pc = "idle" /\ Idling.slot = NoSlot /\ Idling.browser = NoSlot
  <2>1. /\ "idle" \in Place /\ "" \in Outcome /\ "" \in Answer /\ FALSE \in BOOLEAN
        /\ {} \in SUBSET (Node \cup Endpoint) /\ {} \in SUBSET Node
    BY DEF Place, Outcome, Answer
  <2> QED BY <2>1 DEF Idling, Run
<1>10. run' \in [Worker -> Run] /\ Others(r) /\ run'[r] = Idling
  BY <1>1, <1>9, RunStep
<1>11. Works(r)
  <2>1. run[r].slot = NoSlot /\ run[r].browser = NoSlot
    BY <1>1 DEF Located
  <2> QED BY <1>1, <1>9, <1>10, <2>1 DEF Works
<1>12. /\ UNCHANGED <<fixed, exitVars, fetching, backoff, browsers, lostVars>>
       /\ lock' = lock /\ starts' \in Nat /\ faults' \in Nat
  BY <1>1 DEF pools, exitVars, TypeOK, NoFault
<1>13. Located(r)'
  <2>1. lock' # r /\ r \notin uploading'
    BY <1>1, <1>12 DEF Located, idle
  <2>2. run'[r].pc = "idle" /\ run'[r].slot = NoSlot /\ run'[r].browser = NoSlot
    BY <1>9, <1>10
  <2> QED BY <1>10, <2>1, <2>2 DEF Located
<1>14. Marked(apis') /\ MarksTyped'
  <2>1. \/ Unharmed \/ CooldownActiveProxyTransport(r)
        \/ \E cools \in BOOLEAN : RecordActiveGatewayFailure(r, cools)
    BY DEF Return
  <2> QED BY <1>1, <2>1, ProxyCharged DEF Charging
<1>15. SleepersTyped' /\ uploading' \subseteq Worker /\ UploadsKept(r)
  BY <1>1 DEF idle, SleepersTyped, UploadsKept, TypeOK
<1>16. TasksTyped' /\ OthersTold(r)
  BY <1>1, <1>8, <1>10 DEF TasksTyped, TypeOK, OthersTold, Others
<1>17. \A x \in Worker : Told(x)'
  <2>1. \A x \in Worker \ {r} : Told(x)'
    BY <1>1, <1>16, OthersKept
  <2>2. run'[r].pc = "idle" /\ "idle" \notin Leaving
    BY <1>9, <1>10 DEF Leaving
  <2>3. Told(r)'
    BY <1>1, <1>7, <1>8, <2>2 DEF Told
  <2> QED BY <2>1, <2>3
<1> QED BY <1>11, <1>12, <1>13, <1>14, <1>15, <1>16, <1>17, WorkStep

-----------------------------------------------------------------------------
(* The node of an attempt with a subscription.                                 *)

LEMMA FitsStill ==
  ASSUME NEW r \in Worker, NodesFit, UNCHANGED fixed, NodesKeep(r)
  PROVE  NodesFit'
BY DEF NodesFit, NodeFits, NodesKeep, Aside, source, fixed

LEMMA MovedNodes ==
  ASSUME TypeOK, NEW r \in Worker, Moved(r)
  PROVE  NodesKeep(r)
<1>1. run \in [Worker -> Run] /\ run[r] \in Run
  BY DEF TypeOK
<1>2. ASSUME NEW pc, Goto(r, pc) PROVE NodesKeep(r)
  <2> DEFINE k == [run[r] EXCEPT !.pc = pc]
  <2>1. k.node = run[r].node
    BY <1>1 DEF Run
  <2>2. run' = [run EXCEPT ![r] = k]
    BY <1>2 DEF Goto
  <2> HIDE DEF k
  <2> QED BY <1>1, <2>1, <2>2 DEF NodesKeep, Aside
<1>3. ASSUME NEW out, EndWith(r, out) PROVE NodesKeep(r)
  <2> DEFINE k == [run[r] EXCEPT !.pc = "close", !.out = out]
  <2>1. k.node = run[r].node
    BY <1>1 DEF Run
  <2>2. run' = [run EXCEPT ![r] = k]
    BY <1>3, Zenon DEF EndWith
  <2> HIDE DEF k
  <2> QED BY <1>1, <2>1, <2>2 DEF NodesKeep, Aside
<1>4. CASE UNCHANGED run
  BY <1>4 DEF NodesKeep, Aside
<1> QED BY <1>2, <1>3, <1>4 DEF Moved

LEMMA RaisesMoves ==
  ASSUME NEW r \in Worker, Raises(r)
  PROVE  Moved(r)
BY DEF Raises, Moved

\* Another record for the runner.
LEMMA RunsOn ==
  ASSUME TypeOK, NEW r \in Worker, NEW k, run' = [run EXCEPT ![r] = k],
         source(r) = "subscription" => k.node \in Node \cup {NoNode} \/ k.node = run[r].node
  PROVE  NodesKeep(r)
<1>1. run \in [Worker -> Run] /\ run'[r] = k /\ \A x \in Worker \ {r} : run'[x] = run[x]
  BY DEF TypeOK
<1> QED BY <1>1 DEF NodesKeep, Aside

\* A proxy that was obtained brings its node.
LEMMA AcquiredNode ==
  ASSUME TypeOK, NEW r \in Worker, NEW s, NEW n, Acquired(r, s, n),
         source(r) = "subscription" => n \in Node \cup {NoNode} \/ n = run[r].node
  PROVE  NodesKeep(r)
<1> DEFINE pc == AfterProxy(r)
           k == [run[r] EXCEPT !.pc = pc, !.slot = s, !.node = n, !.tried = {}, !.also = {}]
<1>1. run' = [run EXCEPT ![r] = k]
  BY Zenon DEF Acquired
<1>2. run[r] \in Run
  BY DEF TypeOK
<1> HIDE DEF pc
<1>3. k.node = n
  BY <1>2 DEF Run
<1> HIDE DEF k
<1> QED BY <1>1, <1>3, RunsOn

\* A failed acquisition leaves no node.
LEMMA FailedNode ==
  ASSUME TypeOK, NEW r \in Worker, AcquireFailed(r)
  PROVE  NodesKeep(r)
<1> DEFINE k == [run[r] EXCEPT !.pc = "close", !.out = "infra", !.slot = NoSlot,
                               !.node = NoNode, !.tried = {}, !.also = {}]
<1>1. run' = [run EXCEPT ![r] = k]
  BY Zenon DEF AcquireFailed
<1>2. run[r] \in Run
  BY DEF TypeOK
<1>3. k.node = NoNode
  BY <1>2 DEF Run
<1> HIDE DEF k
<1> QED BY <1>1, <1>3, RunsOn

\* The steps that only move the runner.
LEMMA PlatformNodes ==
  ASSUME NEW r \in Worker,
         \/ Start(r) \/ FetchFails(r) \/ BrowserLaunched(r) \/ ContextOpens(r) \/ EntryLaunched(r)
         \/ ReserveUpload(r) \/ UploadBusy(r) \/ Uploaded(r) \/ UploadFails(r)
         \/ DolaPage(r) \/ DolaTurnedAway(r) \/ DolaSubmitRaises(r) \/ DolaRecordRaises(r) \/ DolaRecord(r)
         \/ DoubaoPage(r) \/ OpenVideoEntry(r) \/ SelectVideoModel(r) \/ SelectVideoSettings(r)
         \/ FillForm(r) \/ DoubaoAnswers(r) \/ DoubaoRecord(r)
         \/ QianwenPage(r) \/ ActivateVideoMode(r) \/ EnsureVideoModel(r) \/ EnsureVideoSettings(r)
         \/ UploadReferenceImages(r) \/ FillEditor(r) \/ SyncDailyCredit(r) \/ QianwenAnswers(r)
         \/ StudioDisconnects(r) \/ QianwenRecord(r)
         \/ (\E next : Begin(r, next)) \/ Pace(r) \/ Send(r) \/ StartRelease(r)
         \/ \E admin \in BOOLEAN : Cancel(r, admin)
  PROVE  Moved(r)
<1>1. ASSUME NEW pc, NEW next, NEW outs, Step(r, pc, next, outs) PROVE Moved(r)
  BY <1>1, RaisesMoves DEF Step, Moved
<1>2. ASSUME NEW pc, NEW out, Charged(r, pc, out) PROVE Moved(r)
  BY <1>2 DEF Charged, Moved
<1>3. ASSUME UiError(r) PROVE Moved(r)
  BY <1>3 DEF UiError, Moved
<1>4. ASSUME NEW pc, NEW next, Fill(r, pc, next) PROVE Moved(r)
  BY <1>3, <1>4 DEF Fill, Moved
<1>5. ASSUME NEW next, Hot(r, next) PROVE Moved(r)
  BY <1>5 DEF Hot, Moved
<1>6. CASE Start(r) \/ FetchFails(r) \/ BrowserLaunched(r) \/ ContextOpens(r) \/ EntryLaunched(r)
  BY <1>6 DEF Start, FetchFails, BrowserLaunched, ContextOpens, EntryLaunched, Moved
<1>7. CASE ReserveUpload(r) \/ UploadBusy(r) \/ Uploaded(r) \/ UploadFails(r)
  BY <1>3, <1>5, <1>7 DEF ReserveUpload, UploadBusy, Uploaded, UploadFails, Moved
<1>8. CASE DolaPage(r)
  BY <1>5, <1>8, RaisesMoves DEF DolaPage, Moved
<1>9. CASE DolaTurnedAway(r) \/ DolaSubmitRaises(r) \/ DolaRecordRaises(r)
  BY <1>2, <1>9, RaisesMoves DEF DolaTurnedAway, DolaSubmitRaises, DolaRecordRaises, Moved
<1>10. CASE DolaRecord(r)
  BY <1>10 DEF DolaRecord, Moved
<1>11. CASE DoubaoPage(r)
  BY <1>1, <1>2, <1>11 DEF DoubaoPage, Moved
<1>12. CASE OpenVideoEntry(r) \/ SelectVideoModel(r) \/ SelectVideoSettings(r) \/ FillForm(r)
  BY <1>4, <1>12 DEF OpenVideoEntry, SelectVideoModel, SelectVideoSettings, FillForm, Moved
<1>13. CASE DoubaoAnswers(r) \/ DoubaoRecord(r)
  BY <1>13 DEF DoubaoAnswers, DoubaoRecord, Moved
<1>14. CASE \/ QianwenPage(r) \/ ActivateVideoMode(r) \/ EnsureVideoModel(r) \/ EnsureVideoSettings(r)
            \/ UploadReferenceImages(r) \/ FillEditor(r) \/ SyncDailyCredit(r)
  BY <1>1, <1>14 DEF QianwenPage, ActivateVideoMode, EnsureVideoModel, EnsureVideoSettings,
                     UploadReferenceImages, FillEditor, SyncDailyCredit
<1>15. CASE QianwenAnswers(r) \/ StudioDisconnects(r) \/ QianwenRecord(r)
  BY <1>15, RaisesMoves DEF QianwenAnswers, StudioDisconnects, QianwenRecord, Moved
<1>16. CASE \/ (\E next : Begin(r, next)) \/ Pace(r) \/ Send(r) \/ StartRelease(r)
            \/ \E admin \in BOOLEAN : Cancel(r, admin)
  BY <1>16 DEF Begin, Pace, Send, StartRelease, Cancel, Moved
<1> QED BY <1>6, <1>7, <1>8, <1>9, <1>10, <1>11, <1>12, <1>13, <1>14, <1>15, <1>16

\* The steps that change another field of the runner's record.
LEMMA FieldNodes ==
  ASSUME Inv, NEW r \in Worker,
         \/ Resend(r) \/ DolaAnswers(r) \/ BrowserFails(r) \/ ContextCloses(r) \/ ReleaseProxy(r)
         \/ LoseRelease(r) \/ Return(r) \/ Interrupt(r) \/ InterruptCleanup(r)
  PROVE  NodesKeep(r)
<1>1. TypeOK /\ run[r] \in Run
  BY DEF Inv, TypeOK
<1>2. CASE Resend(r)
  <2> DEFINE yes == TRUE
  <2>1. PICK next : run' = [run EXCEPT ![r].pc = next, ![r].again = yes]
    BY <1>2 DEF Resend
  <2> HIDE DEF yes
  <2> DEFINE k == [run[r] EXCEPT !.pc = next, !.again = yes]
  <2>2. run' = [run EXCEPT ![r] = k]
    BY <2>1, Zenon
  <2>3. k.node = run[r].node
    BY <1>1 DEF Run
  <2> HIDE DEF k
  <2> QED BY <1>1, <2>2, <2>3, RunsOn
<1>3. CASE DolaAnswers(r)
  <2>1. PICK a : run' = [run EXCEPT ![r].pc = "record", ![r].answer = a]
    BY <1>3, Zenon DEF DolaAnswers
  <2> DEFINE k == [run[r] EXCEPT !.pc = "record", !.answer = a]
  <2>2. run' = [run EXCEPT ![r] = k]
    BY <2>1, Zenon
  <2>3. k.node = run[r].node
    BY <1>1 DEF Run
  <2> HIDE DEF k
  <2> QED BY <1>1, <2>2, <2>3, RunsOn
<1>4. CASE BrowserFails(r)
  <2>1. PICK out : run' = [run EXCEPT ![r].pc = "close", ![r].out = out, ![r].browser = NoSlot]
    BY <1>4, Zenon DEF BrowserFails
  <2> DEFINE k == [run[r] EXCEPT !.pc = "close", !.out = out, !.browser = NoSlot]
  <2>2. run' = [run EXCEPT ![r] = k]
    BY <2>1, Zenon
  <2>3. k.node = run[r].node
    BY <1>1 DEF Run
  <2> HIDE DEF k
  <2> QED BY <1>1, <2>2, <2>3, RunsOn
<1>5. CASE ContextCloses(r)
  <2> DEFINE k == [run[r] EXCEPT !.pc = "unproxy", !.browser = NoSlot]
  <2>1. run' = [run EXCEPT ![r] = k]
    BY <1>5, Zenon DEF ContextCloses
  <2>2. k.node = run[r].node
    BY <1>1 DEF Run
  <2> HIDE DEF k
  <2> QED BY <1>1, <2>1, <2>2, RunsOn
<1>6. CASE ReleaseProxy(r) \/ LoseRelease(r)
  <2> DEFINE k == [run[r] EXCEPT !.pc = "return", !.slot = NoSlot]
  <2>1. Unleased(r)
    BY <1>6 DEF ReleaseProxy, LoseRelease
  <2>2. run' = [run EXCEPT ![r] = k]
    BY <2>1, Zenon DEF Unleased
  <2>3. k.node = run[r].node
    BY <1>1 DEF Run
  <2> HIDE DEF k
  <2> QED BY <1>1, <2>2, <2>3, RunsOn
<1>7. CASE Return(r)
  <2>1. run' = [run EXCEPT ![r] = Idling]
    BY <1>7 DEF Return
  <2>2. Idling.node = NoNode
    BY DEF Idling
  <2> QED BY <1>1, <2>1, <2>2, RunsOn
<1>8. CASE Interrupt(r) \/ InterruptCleanup(r)
  <2>1. PICK pc, out, s, b : run' = [run EXCEPT ![r] = [run[r] EXCEPT !.pc = pc, !.out = out, !.slot = s, !.browser = b]]
    <3> DEFINE k == run[r]
               exitLost == k.pc \in {"entryLaunch", "entryNotify"}
                           \/ (k.pc = "exitLaunch" /\ k.slot # NoSlot)
               browserLost == k.pc \in {"browserLaunch", "context"}
               skipped == platform(r) = "dola" \/ k.pc = "unproxy"
    <3>1. CASE Interrupt(r)
      <4>1. PICK kind : run' = [run EXCEPT ![r] = [k EXCEPT !.pc = "close", !.out = kind,
                                          !.slot = IF exitLost THEN NoSlot ELSE @,
                                          !.browser = IF browserLost THEN NoSlot ELSE @]]
        BY <3>1, Zenon DEF Interrupt
      <4> DEFINE s == IF exitLost THEN NoSlot ELSE run[r].slot
                 b == IF browserLost THEN NoSlot ELSE run[r].browser
      <4>2. run' = [run EXCEPT ![r] = [run[r] EXCEPT !.pc = "close", !.out = kind, !.slot = s, !.browser = b]]
        BY <4>1
      <4> HIDE DEF s, b
      <4> QED BY <4>2
    <3>2. CASE InterruptCleanup(r)
      <4>1. PICK kind : run' = [run EXCEPT ![r] = [k EXCEPT !.pc = IF skipped THEN "return" ELSE "unproxy",
                                          !.slot = IF skipped THEN NoSlot ELSE @,
                                          !.browser = NoSlot, !.out = kind]]
        BY <3>2, Zenon DEF InterruptCleanup
      <4> DEFINE s == IF skipped THEN NoSlot ELSE run[r].slot
                 pc == IF skipped THEN "return" ELSE "unproxy"
      <4>2. run' = [run EXCEPT ![r] = [run[r] EXCEPT !.pc = pc, !.out = kind, !.slot = s, !.browser = NoSlot]]
        <5>1. [k EXCEPT !.pc = pc, !.slot = s, !.browser = NoSlot, !.out = kind]
                = [run[r] EXCEPT !.pc = pc, !.out = kind, !.slot = s, !.browser = NoSlot]
          BY <1>1 DEF Run
        <5> QED BY <4>1, <5>1
      <4> HIDE DEF s, pc
      <4> QED BY <4>2
    <3> QED BY <1>8, <3>1, <3>2
  <2> DEFINE k == [run[r] EXCEPT !.pc = pc, !.out = out, !.slot = s, !.browser = b]
  <2>2. k.node = run[r].node
    BY <1>1 DEF Run
  <2>3. run' = [run EXCEPT ![r] = k]
    BY <2>1
  <2> HIDE DEF k
  <2> QED BY <1>1, <2>2, <2>3, RunsOn
<1> QED BY <1>2, <1>3, <1>4, <1>5, <1>6, <1>7, <1>8

\* An evicted browser takes nothing else from its closer.
LEMMA EvictedNodes ==
  ASSUME Inv, NEW r \in Worker, AcquireBrowser(r)
  PROVE  NodesKeep(r)
<1>1. run \in [Worker -> Run]
  BY DEF Inv, TypeOK
<1> DEFINE like(k, x) == /\ k.pc = run[x].pc /\ k.slot = run[x].slot
                         /\ k.node = run[x].node /\ k.also = run[x].also
<1>2. ASSUME NEW S PROVE \A x \in Worker : like(Evicted(S)[x], x)
  <2> SUFFICES ASSUME NEW x \in Worker PROVE like(Evicted(S)[x], x)
    OBVIOUS
  <2>1. run[x] \in Run
    BY <1>1
  <2>2. like([run[x] EXCEPT !.browser = NoSlot], x) /\ like(run[x], x)
    BY <2>1 DEF Run
  <2>3. Evicted(S)[x] = IF run[x].browser \in S THEN [run[x] EXCEPT !.browser = NoSlot] ELSE run[x]
    BY DEF Evicted
  <2> QED BY <2>2, <2>3
<1>3. \E S : run' = Evicted(S) \/ \E pc, s : Taking(r, S, pc, s)
  <2> DEFINE b(dead) == Remove(browsers, dead, NoBrowser)
  <2>1. PICK dead \in IF IdleDead(browsers) = {} THEN {{}} ELSE {{s} : s \in IdleDead(browsers)} :
          \/ \E s \in Usable(b(dead), Key(r)) :
                /\ browsers' = LeaseBrowser(b(dead), s) /\ UNCHANGED asleep
                /\ run' = [Evicted(dead) EXCEPT ![r].pc = "context", ![r].browser = s]
          \/ Vacant(b(dead)) # {} /\ Launches(r, b(dead), dead)
          \/ \E s \in Idle(b(dead)) : Launches(r, Remove(b(dead), {s}, NoBrowser), dead \cup {s})
          \/ browsers' = b(dead) /\ asleep' = Sleep(r, "browser") /\ run' = Evicted(dead)
    BY Zenon DEF AcquireBrowser, Launches, Evicted
  <2>2. \A f, S : Launches(r, f, S) => \E s : Taking(r, S, "browserLaunch", s)
    BY Zenon DEF Launches, Taking
  <2> HIDE DEF b
  <2> QED BY <2>1, <2>2, Zenon DEF Taking
<1>4. ASSUME NEW S, run' = Evicted(S) PROVE NodesKeep(r)
  BY <1>2, <1>4 DEF NodesKeep, Aside
<1>5. ASSUME NEW S, NEW pc, NEW s, Taking(r, S, pc, s) PROVE NodesKeep(r)
  <2> DEFINE f == Evicted(S)
             k == [f[r] EXCEPT !.pc = pc, !.browser = s]
  <2>1. run' = [f EXCEPT ![r] = k]
    BY <1>5, Zenon DEF Taking
  <2>2. /\ f = [x \in Worker |-> f[x]] /\ f[r].node = run[r].node
        /\ \A x \in Worker : like(f[x], x)
    BY <1>2 DEF Evicted
  <2>3. f[r] \in Run
    <3>1. run[r] \in Run /\ [run[r] EXCEPT !.browser = NoSlot] \in Run
      BY <1>1 DEF Run
    <3> QED BY <3>1 DEF Evicted
  <2> HIDE DEF f
  <2>4. k.node = f[r].node
    BY <2>3 DEF Run
  <2> HIDE DEF k
  <2> QED BY <2>1, <2>2, <2>4 DEF NodesKeep, Aside
<1> QED BY <1>3, <1>4, <1>5

\* An attempt without a subscription has no node that must fit.
LEMMA ElsewhereNodes ==
  ASSUME TypeOK, NEW r \in Worker, source(r) # "subscription", Others(r)
  PROVE  NodesKeep(r)
BY DEF NodesKeep, Aside, Others

LEMMA AcquiredElsewhere ==
  ASSUME TypeOK, NEW r \in Worker, NEW s, NEW n, Acquired(r, s, n)
  PROVE  Others(r)
<1> DEFINE pc == AfterProxy(r)
           k == [run[r] EXCEPT !.pc = pc, !.slot = s, !.node = n, !.tried = {}, !.also = {}]
<1>1. run' = [run EXCEPT ![r] = k]
  BY Zenon DEF Acquired
<1> HIDE DEF k
<1> QED BY <1>1 DEF TypeOK, Others

\* The steps that choose a source, or obtain an exit of the subscription.
LEMMA SourceNodes ==
  ASSUME Inv, NEW r \in Worker, ChooseSource(r) \/ NoEntry(r)
  PROVE  NodesKeep(r)
<1> DEFINE wait(n) == run' = [run EXCEPT ![r].pc = "entry", ![r].node = n]
<1>1. TypeOK /\ run[r] \in Run /\ run \in [Worker -> Run]
  BY DEF Inv, TypeOK
<1>2. \/ Goto(r, AfterProxy(r))
      \/ EndWith(r, CoolingDown(r))
      \/ Goto(r, "exit")
      \/ source(r) = "api" /\ Goto(r, "api")
      \/ source(r) = "account" /\ \E n \in Entry : wait(n)
      \/ AcquireFailed(r)
  BY Zenon DEF ChooseSource, NoEntry
<1>3. Moved(r) \/ AcquireFailed(r) \/ (source(r) = "account" /\ \E n \in Entry : wait(n))
  BY <1>2 DEF Moved
<1>4. ASSUME source(r) = "account", NEW n \in Entry, wait(n) PROVE NodesKeep(r)
  <2> DEFINE k == [run[r] EXCEPT !.pc = "entry", !.node = n]
  <2>1. run' = [run EXCEPT ![r] = k]
    BY <1>4, Zenon
  <2> HIDE DEF k
  <2> QED BY <1>1, <1>4, <2>1, RunsOn
<1> QED BY <1>1, <1>3, <1>4, MovedNodes, FailedNode

LEMMA ScanExitsNodes ==
  ASSUME Inv, NEW r \in Worker, ScanExits(r)
  PROVE  NodesKeep(r)
<1> DEFINE e == SweepForNode(exits, Allowed(r), cooling)
           ready == ReadyExits(e, Allowed(r) \ Excluded(r))
           choices == IF CanLaunch(r, e) THEN Choices(r, e) ELSE {}
           free == CHOOSE v \in Vacant(e) : TRUE
           launch(n) == run' = [run EXCEPT ![r].pc = "exitLaunch", ![r].slot = free, ![r].node = n]
           use(n) == run' = [run EXCEPT ![r].pc = "exitLaunch", ![r].node = n]
<1>1. TypeOK /\ run[r] \in Run /\ run \in [Worker -> Run]
  BY DEF Inv, TypeOK
<1>2. Swept(e)
  BY SweptExits
<1>3. Allowed(r) \subseteq Node /\ choices \subseteq Node
  BY <1>1, AllowedNodes
<1>4. \A s \in ready : e[s].node \in Node
  BY <1>2, <1>3 DEF ReadyExits, Present, Swept
<1>5. \/ \E n \in choices : launch(n) \/ use(n)
      \/ \E s \in ready : Acquired(r, s, e[s].node)
      \/ AcquireFailed(r)
      \/ UNCHANGED run
  BY DEF ScanExits
<1> HIDE DEF e, ready, choices, free
<1>6. ASSUME NEW n \in choices, launch(n) PROVE NodesKeep(r)
  <2> DEFINE k == [run[r] EXCEPT !.pc = "exitLaunch", !.slot = free, !.node = n]
  <2>1. run' = [run EXCEPT ![r] = k]
    BY <1>6, Zenon
  <2>2. k.node = n
    BY <1>1 DEF Run
  <2> HIDE DEF k
  <2> QED BY <1>1, <1>3, <2>1, <2>2, RunsOn
<1>7. ASSUME NEW n \in choices, use(n) PROVE NodesKeep(r)
  <2> DEFINE k == [run[r] EXCEPT !.pc = "exitLaunch", !.node = n]
  <2>1. run' = [run EXCEPT ![r] = k]
    BY <1>7, Zenon
  <2>2. k.node = n
    BY <1>1 DEF Run
  <2> HIDE DEF k
  <2> QED BY <1>1, <1>3, <2>1, <2>2, RunsOn
<1>8. ASSUME NEW s \in ready, Acquired(r, s, e[s].node) PROVE NodesKeep(r)
  BY <1>1, <1>4, <1>8, AcquiredNode
<1>9. CASE AcquireFailed(r) \/ UNCHANGED run
  BY <1>1, <1>9, MovedNodes, FailedNode DEF Moved
<1> HIDE DEF launch, use
<1> QED BY <1>5, <1>6, <1>7, <1>8, <1>9

LEMMA ExitLaunchedNodes ==
  ASSUME Inv, NEW r \in Worker, ExitLaunched(r)
  PROVE  NodesKeep(r)
<1> DEFINE n == run[r].node
           native == n \in NativeNode
           s == IF native THEN CHOOSE v \in Vacant(exits) : TRUE ELSE run[r].slot
           e == Remove(exits, {s}, NoExit)
           tried == run[r].tried \cup {n}
           again(d) == [run[r] EXCEPT !.pc = "exit", !.slot = NoSlot, !.node = NoNode,
                                      !.tried = tried, !.also = run[r].also \cup {e[d].node}]
<1>1. TypeOK /\ run[r] \in Run /\ run \in [Worker -> Run] /\ n \in Subscribed
  BY DEF Inv, TypeOK, ExitLaunched, At, Located
<1>2. Swept(exits) /\ n \in Node /\ address[n] \in Address
  BY <1>1, SweptExits, AllowedNodes DEF TypeOK, Subscribed
<1>3. \A t \in ExitSlot \ {s} : e[t] = exits[t]
  BY <1>2 DEF Remove, Swept
<1>4. ASSUME NEW x \in {address[n], n}, NEW d \in Duplicates(exits, s, x) PROVE e[d].node \in Node
  <2>1. d \in ExitSlot /\ d # s /\ exits[d].use # "free" /\ exits[d].exit = x
    BY <1>2 DEF Duplicates, Present, Swept
  <2>2. exits[d] \in Exit /\ ExitWell(exits[d]) /\ e[d] = exits[d]
    BY <1>2, <1>3, <2>1 DEF Swept
  <2>3. x \notin Entry \cup {NoNode}
    BY <1>2, PoolConstants
  <2>4. exits[d].use \in {"subscription", "bridge"}
    BY <2>1, <2>2 DEF Exit
  <2> QED BY <2>1, <2>2, <2>3, <2>4 DEF ExitWell
<1>5. \E x \in {address[n], n} :
        \/ Acquired(r, s, n)
        \/ \E d \in Duplicates(exits, s, x) :
             run' = [run EXCEPT ![r] = again(d)] \/ Acquired(r, d, e[d].node)
  BY Zenon DEF ExitLaunched
<1> HIDE DEF s, e
<1>6. ASSUME NEW t, NEW m \in Node, Acquired(r, t, m) PROVE NodesKeep(r)
  BY <1>1, <1>6, AcquiredNode
<1>7. ASSUME NEW d, run' = [run EXCEPT ![r] = again(d)] PROVE NodesKeep(r)
  <2> DEFINE k == again(d)
  <2>1. k.node = NoNode
    BY <1>1 DEF Run
  <2> HIDE DEF k
  <2> QED BY <1>1, <1>7, <2>1, RunsOn DEF k
<1> HIDE DEF again
<1> QED BY <1>2, <1>4, <1>5, <1>6, <1>7

LEMMA ExitLaunchFailsNodes ==
  ASSUME Inv, NEW r \in Worker, ExitLaunchFails(r)
  PROVE  NodesKeep(r)
<1> DEFINE tried == run[r].tried \cup {run[r].node}
           j == [run[r] EXCEPT !.pc = "exit", !.node = NoNode]
           k == [run[r] EXCEPT !.pc = "exit", !.slot = NoSlot, !.node = NoNode, !.tried = tried]
<1>1. TypeOK /\ run[r] \in Run /\ run \in [Worker -> Run]
  BY DEF Inv, TypeOK
<1>2. run' = [run EXCEPT ![r] = j] \/ AcquireFailed(r) \/ run' = [run EXCEPT ![r] = k]
  BY Zenon DEF ExitLaunchFails
<1>3. j.node = NoNode /\ k.node = NoNode
  BY <1>1 DEF Run
<1> HIDE DEF j, k
<1> QED BY <1>1, <1>2, <1>3, FailedNode, RunsOn

\* The steps that obtain a bridge or an endpoint.
LEMMA OtherSourceNodes ==
  ASSUME Inv, NEW r \in Worker,
         \/ ScanEntries(r) \/ EntryReady(r) \/ EntryLaunchFails(r)
         \/ ScanApis(r) \/ Fetched(r)
  PROVE  NodesKeep(r)
<1>1. TypeOK /\ Located(r) /\ run[r] \in Run /\ run \in [Worker -> Run]
  BY DEF Inv, TypeOK
<1>2. run[r].pc \in {"entry", "entryNotify", "entryLaunch", "api", "fetch"}
  BY DEF ScanEntries, EntryReady, EntryLaunchFails, ScanApis, Fetched, At
<1>3. source(r) # "subscription"
  BY <1>1, <1>2 DEF Located
<1>4. ASSUME NEW pc, NEW s, run' = [run EXCEPT ![r].pc = pc, ![r].slot = s] PROVE Others(r)
  <2> DEFINE k == [run[r] EXCEPT !.pc = pc, !.slot = s]
  <2>1. run' = [run EXCEPT ![r] = k]
    BY <1>4, Zenon
  <2> HIDE DEF k
  <2> QED BY <1>1, <2>1 DEF Others
<1>5. ASSUME NEW pc, NEW t, run' = [run EXCEPT ![r].pc = pc, ![r].tried = t] PROVE Others(r)
  <2> DEFINE k == [run[r] EXCEPT !.pc = pc, !.tried = t]
  <2>1. run' = [run EXCEPT ![r] = k]
    BY <1>5, Zenon
  <2> HIDE DEF k
  <2> QED BY <1>1, <2>1 DEF Others
<1>6. \/ \E s, n : Acquired(r, s, n)
      \/ \E pc, s : run' = [run EXCEPT ![r].pc = pc, ![r].slot = s]
      \/ \E pc, t : run' = [run EXCEPT ![r].pc = pc, ![r].tried = t]
      \/ \E pc : Goto(r, pc)
      \/ AcquireFailed(r)
      \/ UNCHANGED run
  <2>1. CASE ScanEntries(r)
    BY <2>1, Zenon DEF ScanEntries
  <2>2. CASE EntryReady(r) \/ EntryLaunchFails(r)
    BY <2>2, Zenon DEF EntryReady, EntryLaunchFails
  <2>3. CASE ScanApis(r)
    BY <2>3, Zenon DEF ScanApis
  <2>4. CASE Fetched(r)
    BY <2>4, Zenon DEF Fetched
  <2> QED BY <2>1, <2>2, <2>3, <2>4
<1>7. CASE \E s, n : Acquired(r, s, n)
  BY <1>1, <1>3, <1>7, AcquiredElsewhere, ElsewhereNodes
<1>8. CASE \/ \E pc, s : run' = [run EXCEPT ![r].pc = pc, ![r].slot = s]
           \/ \E pc, t : run' = [run EXCEPT ![r].pc = pc, ![r].tried = t]
  <2>1. Others(r)
    BY <1>4, <1>5, <1>8
  <2> QED BY <1>1, <1>3, <2>1, ElsewhereNodes
<1>9. CASE (\E pc : Goto(r, pc)) \/ AcquireFailed(r) \/ UNCHANGED run
  BY <1>1, <1>9, MovedNodes, FailedNode DEF Moved
<1> QED BY <1>6, <1>7, <1>8, <1>9

-----------------------------------------------------------------------------
(* Every step keeps the invariant, which the initial states satisfy.           *)

\* Every step of a runner keeps the nodes fitting.
LEMMA NodesMove ==
  ASSUME Inv, NEW r \in Worker, Attempted(r)
  PROVE  NodesKeep(r)
<1>1. TypeOK
  BY DEF Inv
<1>2. \/ Moved(r)
      \/ ChooseSource(r) \/ NoEntry(r) \/ ScanExits(r) \/ ExitLaunched(r) \/ ExitLaunchFails(r)
      \/ ScanEntries(r) \/ EntryReady(r) \/ EntryLaunchFails(r) \/ ScanApis(r) \/ Fetched(r)
      \/ AcquireBrowser(r)
      \/ Resend(r) \/ DolaAnswers(r) \/ BrowserFails(r) \/ ContextCloses(r) \/ ReleaseProxy(r)
      \/ LoseRelease(r) \/ Return(r) \/ Interrupt(r) \/ InterruptCleanup(r)
  BY PlatformNodes, Zenon DEF Attempted
<1>3. CASE Moved(r)
  BY <1>1, <1>3, MovedNodes
<1>4. CASE ChooseSource(r) \/ NoEntry(r)
  BY <1>4, SourceNodes
<1>5. CASE ScanExits(r)
  BY <1>5, ScanExitsNodes
<1>6. CASE ExitLaunched(r)
  BY <1>6, ExitLaunchedNodes
<1>7. CASE ExitLaunchFails(r)
  BY <1>7, ExitLaunchFailsNodes
<1>8. CASE ScanEntries(r) \/ EntryReady(r) \/ EntryLaunchFails(r) \/ ScanApis(r) \/ Fetched(r)
  BY <1>8, OtherSourceNodes
<1>9. CASE AcquireBrowser(r)
  BY <1>9, EvictedNodes
<1>10. CASE \/ Resend(r) \/ DolaAnswers(r) \/ BrowserFails(r) \/ ContextCloses(r) \/ ReleaseProxy(r)
            \/ LoseRelease(r) \/ Return(r) \/ Interrupt(r) \/ InterruptCleanup(r)
  BY <1>10, FieldNodes
<1> QED BY ONLY <1>2, <1>3, <1>4, <1>5, <1>6, <1>7, <1>8, <1>9, <1>10

\* A step that does not belong to any operation changes nothing.
LEMMA StutterKeeps ==
  ASSUME Inv, NodesFit, UNCHANGED vars
  PROVE  Inv' /\ NodesFit'
<1>1. /\ UNCHANGED <<plan, address, meta, found, heard, unsure, run, exits, lock>>
      /\ UNCHANGED <<apis, fetching, backoff, browsers, uploading, asleep>>
      /\ UNCHANGED <<cooling, down, pin, avoid, lost, lostFetch, starts, faults>>
  BY DEF vars, fixed, taskVars, exitVars, apiVars, marks, lostVars
<1>2. TypeOK'
  BY <1>1 DEF Inv, TypeOK
<1>3. SlotsMadeWell'
  BY <1>1 DEF Inv, SlotsMadeWell
<1>4. \A r \in Worker : Located(r)' /\ Told(r)'
  <2> SUFFICES ASSUME NEW r \in Worker PROVE Located(r)' /\ Told(r)'
    OBVIOUS
  <2>1. Located(r) /\ Told(r)
    BY DEF Inv
  <2>2. Located(r)'
    <3>1. Subscribed' = Subscribed /\ source(r)' = source(r) /\ Vacant(exits)' = Vacant(exits)
      BY <1>1 DEF Subscribed, source, Vacant, Present
    <3> QED BY <1>1, <2>1, <3>1 DEF Located
  <2>3. Told(r)'
    <3>1. platform(r)' = platform(r)
      BY <1>1 DEF platform
    <3> QED BY <1>1, <2>1, <3>1 DEF Told
  <2> QED BY <2>2, <2>3
<1>5. \A s : Leases(s)' = Leases(s)
  BY <1>1 DEF Leases, Holders
<1>6. ExitsHeld' /\ ApisHeld'
  BY <1>1, <1>5 DEF Inv, ExitsHeld, ApisHeld
<1>7. BrowsersHeld'
  BY <1>1, <1>5 DEF Inv, BrowsersHeld, Closers, At
<1>8. FetchesCounted'
  BY <1>1 DEF Inv, FetchesCounted, Fetchers, Present, At
<1>9. NodesFit'
  BY <1>1 DEF NodesFit, NodeFits, source
<1> QED BY <1>2, <1>3, <1>4, <1>6, <1>7, <1>8, <1>9 DEF Inv

\* Every step of a runner keeps the invariant.
LEMMA AttemptKeeps ==
  ASSUME Inv, NodesFit, UNCHANGED fixed, NEW r \in Worker, Attempted(r)
  PROVE  Inv'
<1>1. NodeFits(r)
  BY DEF NodesFit
<1>2. CASE Start(r) \/ ChooseSource(r) \/ NoEntry(r)
  BY <1>2, StartKeeps, ChooseSourceKeeps
<1>3. CASE ScanExits(r) \/ ExitLaunched(r) \/ ExitLaunchFails(r)
  BY <1>3, ScanExitsKeeps, ExitLaunchedKeeps, ExitLaunchFailsKeeps
<1>4. CASE ScanEntries(r) \/ EntryLaunched(r) \/ EntryReady(r) \/ EntryLaunchFails(r)
  BY <1>4, ScanEntriesKeeps, EntryLaunchedKeeps, EntryReadyKeeps
<1>5. CASE ScanApis(r) \/ Fetched(r) \/ FetchFails(r)
  BY <1>5, ScanApisKeeps, FetchedKeeps
<1>6. CASE AcquireBrowser(r) \/ BrowserLaunched(r) \/ ContextOpens(r) \/ BrowserFails(r)
  BY <1>6, AcquireBrowserKeeps, BrowserStartedKeeps, BrowserFailsKeeps
<1>7. CASE ReserveUpload(r) \/ UploadBusy(r) \/ Uploaded(r) \/ UploadFails(r)
  BY <1>7, ReserveUploadKeeps, UploadBusyKeeps, UploadedKeeps, UploadFailsKeeps
<1>8. CASE DolaPage(r) \/ DolaTurnedAway(r) \/ DolaAnswers(r)
  BY <1>8, DolaPageKeeps, DolaTurnedAwayKeeps, DolaAnswersKeeps
<1>9. CASE DolaSubmitRaises(r) \/ DolaRecordRaises(r) \/ DolaRecord(r)
  BY <1>9, DolaSubmitRaisesKeeps, DolaRecordRaisesKeeps, DolaRecordKeeps
<1>10. CASE \/ DoubaoPage(r) \/ OpenVideoEntry(r) \/ SelectVideoModel(r)
            \/ SelectVideoSettings(r) \/ FillForm(r)
  BY <1>10, DoubaoPageKeeps, FormKeeps
<1>11. CASE DoubaoAnswers(r) \/ DoubaoRecord(r)
  BY <1>1, <1>11, DoubaoAnswersKeeps, DoubaoRecordKeeps
<1>12. CASE \/ QianwenPage(r) \/ ActivateVideoMode(r) \/ EnsureVideoModel(r) \/ EnsureVideoSettings(r)
            \/ UploadReferenceImages(r) \/ FillEditor(r) \/ SyncDailyCredit(r)
  BY <1>12, QianwenStepsKeep
<1>13. CASE QianwenAnswers(r) \/ StudioDisconnects(r) \/ QianwenRecord(r)
  BY <1>13, QianwenAnswersKeeps, StudioDisconnectsKeeps, QianwenRecordKeeps
<1>14. CASE Begin(r, CASE platform(r) = "dola" -> "send" [] platform(r) = "doubao" -> "mode"
                       [] OTHER -> "pace")
  <2> DEFINE next == CASE platform(r) = "dola" -> "send" [] platform(r) = "doubao" -> "mode"
                       [] OTHER -> "pace"
  <2>1. next \in {"send", "mode", "pace"}
    OBVIOUS
  <2>2. Begin(r, next)
    BY <1>14
  <2> HIDE DEF next
  <2> QED BY <2>1, <2>2, BeginKeeps
<1>15. CASE Pace(r) \/ Send(r) \/ Resend(r)
  BY <1>15, PaceKeeps, SendKeeps, ResendKeeps
<1>16. CASE StartRelease(r) \/ ContextCloses(r) \/ ReleaseProxy(r) \/ LoseRelease(r) \/ Return(r)
  BY <1>16, StartReleaseKeeps, ContextClosesKeeps, ReleaseProxyKeeps, LoseReleaseKeeps, ReturnKeeps
<1>17. CASE Interrupt(r) \/ InterruptCleanup(r)
  BY <1>17, InterruptKeeps, InterruptCleanupKeeps
<1>18. CASE \E admin \in BOOLEAN : Cancel(r, admin)
  BY <1>18, CancelKeeps
<1> QED BY <1>2, <1>3, <1>4, <1>5, <1>6, <1>7, <1>8, <1>9, <1>10, <1>11, <1>12, <1>13, <1>14,
           <1>15, <1>16, <1>17, <1>18, Zenon DEF Attempted

\* Every step of a runner, of a pool or of the surroundings keeps the invariant.
LEMMA NextKeeps ==
  ASSUME Inv, NodesFit, [Next]_vars
  PROVE  Inv' /\ NodesFit'
<1>1. ASSUME NEW r \in Worker, Attempted(r), UNCHANGED fixed PROVE Inv' /\ NodesFit'
  BY <1>1, AttemptKeeps, NodesMove, FitsStill
<1>2. ASSUME Environment, UNCHANGED fixed PROVE Inv' /\ NodesFit'
  <2>1. UNCHANGED <<run, plan>>
    BY <1>2 DEF Environment, fixed
  <2>2. NodesFit'
    BY <2>1 DEF NodesFit, NodeFits, source
  <2> QED BY <1>2, <2>2, EnvironmentKeeps
<1>3. CASE UNCHANGED vars
  BY <1>3, StutterKeeps
<1> QED BY <1>1, <1>2, <1>3 DEF Next

\* At first every runner is idle, and every pool is empty.
LEMMA InitHolds ==
  ASSUME Init
  PROVE  Inv /\ NodesFit
<1>1. /\ plan \in [Worker -> Plan] /\ starts \in Nat /\ faults \in Nat
      /\ DOMAIN address \subseteq Node /\ address \in [DOMAIN address -> Address]
  BY AttemptConstants DEF Init
<1> DEFINE m == [NoMeta EXCEPT !.status = "pending"]
<1>2. m \in Meta /\ m.status = "pending"
  BY DEF NoMeta, Meta, Status, Id
<1> HIDE DEF m
<1>3. meta = [r \in Worker |-> m] /\ run = [r \in Worker |-> Idling]
  BY DEF Init, m
<1>4. /\ exits = [s \in ExitSlot |-> NoExit] /\ lock = NoRunner
      /\ apis = [s \in ApiSlot |-> NoApi] /\ fetching = 0 /\ backoff = FALSE
      /\ browsers = [s \in BrowserSlot |-> NoBrowser] /\ uploading = {}
      /\ asleep = [r \in Worker |-> ""] /\ lost = [s \in Slot |-> 0] /\ lostFetch = 0
  BY DEF Init
<1>5. /\ cooling = {} /\ down = {}
      /\ pin = [r \in Worker |-> NoNode] /\ avoid = [r \in Worker |-> NoNode]
      /\ found = [r \in Worker |-> ""] /\ heard = [r \in Worker |-> ""]
      /\ unsure = [r \in Worker |-> FALSE]
  BY DEF Init
<1>6. /\ Idling \in Run /\ Idling.pc = "idle" /\ Idling.slot = NoSlot /\ Idling.browser = NoSlot
      /\ Idling.node = NoNode
  BY DEF Idling, Run, Place, Answer, Outcome
<1>7. /\ NoExit \in Exit /\ NoExit.active = 0 /\ NoExit.use = "free"
      /\ NoApi \in Api /\ NoApi.active = 0 /\ NoApi.use = "free"
      /\ NoBrowser \in Browser /\ NoBrowser.active = 0 /\ NoBrowser.use = "free" /\ NoBrowser.closing = 0
  <2>1. 0 \in 0..PerEndpoint
    BY PoolConstants
  <2> QED BY <2>1 DEF NoExit, Exit, NoApi, Api, NoBrowser, Browser
<1>8. NoRunner \notin Worker /\ NoSlot \notin Slot
  BY AttemptConstants, PoolConstants DEF Slot
<1>9. TypeOK
  BY <1>1, <1>2, <1>3, <1>4, <1>5, <1>6, <1>7 DEF TypeOK
<1>20. /\ \A s \in ExitSlot : exits[s] = NoExit
       /\ \A s \in ApiSlot : apis[s] = NoApi
       /\ \A s \in BrowserSlot : browsers[s] = NoBrowser
       /\ \A s \in Slot : lost[s] = 0
  BY <1>4
<1>10. SlotsMadeWell
  <2>1. ExitWell(NoExit)
    BY <1>7 DEF ExitWell
  <2>2. ApiWell(NoApi)
    BY <1>7 DEF ApiWell
  <2>3. BrowserWell(NoBrowser)
    BY <1>7 DEF BrowserWell
  <2> QED BY <1>20, <2>1, <2>2, <2>3 DEF SlotsMadeWell
<1>11. ASSUME NEW r \in Worker PROVE Located(r) /\ Told(r)
  <2>1. run[r] = Idling /\ lock # r /\ r \notin uploading
    BY <1>3, <1>4, <1>8
  <2>2. Located(r)
    BY <1>6, <2>1 DEF Located
  <2>3. meta[r] = m /\ heard[r] = "" /\ unsure[r] = FALSE
    BY <1>3, <1>5
  <2>4. Told(r)
    BY <1>2, <1>6, <2>1, <2>3 DEF Told, Leaving
  <2> QED BY <2>2, <2>4
<1>12. Cardinality({}) = 0
  BY FS_EmptySet
<1>13. ASSUME NEW s \in Slot PROVE Leases(s) = 0
  <2>1. Holders(s) = {}
    BY <1>3, <1>6, <1>8 DEF Holders
  <2>2. Leases(s) = Cardinality(Holders(s)) + lost[s]
    BY DEF Leases
  <2> QED BY <1>12, <1>20, <2>1, <2>2
<1>14. ExitsHeld /\ ApisHeld
  <2>1. \A s \in ExitSlot \cup ApiSlot : Leases(s) = 0
    BY <1>13 DEF Slot
  <2> QED BY <1>7, <1>20, <2>1 DEF ExitsHeld, ApisHeld
<1>15. BrowsersHeld
  <2>1. \A s \in BrowserSlot : Closers(s) = {}
    BY <1>3, <1>6 DEF Closers, At
  <2>2. \A s \in BrowserSlot : Leases(s) = 0
    BY <1>13 DEF Slot
  <2> QED BY <1>7, <1>12, <1>20, <2>1, <2>2 DEF BrowsersHeld
<1>16. FetchesCounted
  <2>1. Fetchers = {} /\ Present(apis) = {}
    BY <1>3, <1>4, <1>6, <1>7 DEF Fetchers, At, Present
  <2>2. Cardinality(ApiSlot) \in Nat
    BY PoolConstants, FS_CardinalityType
  <2>3. fetching = 0 /\ lostFetch = 0
    BY <1>4
  <2> QED BY <1>12, <2>1, <2>2, <2>3 DEF FetchesCounted
<1>17. NodesFit
  BY <1>3, <1>6 DEF NodesFit, NodeFits
<1> QED BY <1>9, <1>10, <1>11, <1>14, <1>15, <1>16, <1>17 DEF Inv

\* The invariant says of every state what the runs check.
LEMMA InvSays ==
  ASSUME Inv
  PROVE  TypeOK /\ LeasesStand /\ SubmissionRecorded
<1>1. TypeOK
  BY DEF Inv
<1>2. LeasesStand
  <2>1. ExitsHeld /\ ApisHeld /\ BrowsersHeld /\ FetchesCounted
    BY DEF Inv
  <2>2. ASSUME NEW r \in Worker, At(r, "idle")
        PROVE  run[r] = Idling /\ r \notin uploading /\ lock # r
    BY <2>2 DEF Inv, Located, At
  <2>3. \A s : Closers(s) = {r \in Worker : run[r].browser = s /\ At(r, "closing")}
    BY DEF Closers
  <2>4. Fetchers = {r \in Worker : At(r, "fetch")}
    BY DEF Fetchers
  <2> QED BY <2>1, <2>2, <2>3, <2>4
             DEF LeasesStand, ExitsHeld, ApisHeld, BrowsersHeld, FetchesCounted
<1>3. SubmissionRecorded
  BY DEF Inv, SubmissionRecorded, Told, At
<1> QED BY <1>1, <1>2, <1>3

-----------------------------------------------------------------------------
(* Who sleeps, sleeps for a reason.                                            *)

\* What a runner can be waiting for does not change under it.
LEMMA WantsStand ==
  ASSUME NEW x \in Worker, Aside(x), UNCHANGED fixed, pin'[x] = pin[x], avoid'[x] = avoid[x]
  PROVE  /\ Excluded(x)' = Excluded(x) /\ Wanted(x)' = Wanted(x) /\ Key(x)' = Key(x)
         /\ platform(x)' = platform(x)
<1>1. platform(x)' = platform(x) /\ source(x)' = source(x) /\ Subscribed' = Subscribed
  BY DEF fixed, platform, source, Subscribed
<1>2. Pinned(x)' = Pinned(x)
  BY <1>1 DEF Pinned
<1>3. Excluded(x)' = Excluded(x) /\ Allowed(x)' = Allowed(x)
  BY <1>1, <1>2 DEF Excluded, Allowed, Aside
<1>4. Wanted(x)' = Wanted(x)
  BY <1>3 DEF Wanted, Aside, At
<1> QED BY <1>1, <1>3, <1>4 DEF Key, Aside

\* A runner that waits for an exit goes on waiting for a reason.
LEMMA ExitStaysShut ==
  ASSUME NEW x \in Worker, Aside(x), UNCHANGED fixed, pin'[x] = pin[x], avoid'[x] = avoid[x],
         ExitsCalm, ExitShut(x)
  PROVE  ExitShut(x)'
<1>1. Excluded(x)' = Excluded(x) /\ Wanted(x)' = Wanted(x) /\ run'[x].also = run[x].also
  BY WantsStand DEF Aside
<1>2. \A s \in ExitSlot : /\ Ready(exits'[s]) => Ready(exits[s]) /\ exits'[s].node = exits[s].node
                          /\ Busy(exits[s]) => Busy(exits'[s])
  BY DEF ExitsCalm, ExitCalm
<1>3. run'[x].also = {} => \A s \in ExitSlot : Ready(exits'[s]) => exits'[s].node \notin Wanted(x)
  BY <1>1, <1>2 DEF ExitShut
<1>4. Excluded(x) # {} \/ \E s \in ExitSlot : Busy(exits'[s])
  BY <1>2 DEF ExitShut
<1> QED BY <1>1, <1>3, <1>4 DEF ExitShut, Ready, Busy

LEMMA ApiStaysShut ==
  ASSUME NEW x \in Worker, Aside(x), UNCHANGED fixed, pin'[x] = pin[x], avoid'[x] = avoid[x],
         ApisCalm, ApiShut(x)
  PROVE  ApiShut(x)'
<1>1. Excluded(x)' = Excluded(x)
  BY WantsStand
<1>2. \A s \in ApiSlot : Open(apis'[s]) => apis'[s].node \in Excluded(x)
  BY DEF ApisCalm, ApiCalm, ApiShut
<1>3. \/ fetching' > 0
      \/ \E s \in ApiSlot : apis'[s].use # "free" /\ (apis'[s].active > 0 \/ apis'[s].node \in Excluded(x))
  BY DEF ApisCalm, ApiCalm, ApiShut
<1> QED BY <1>1, <1>2, <1>3 DEF ApiShut, Open

\* A key is an exit's port only while the runner holds the exit.
LEMMA KeyHeld ==
  ASSUME Inv, NEW x \in Worker
  PROVE  Key(x) # "old" /\ ~Idled(Key(x))
<1>1. run[x] \in Run
  BY DEF Inv, TypeOK
<1>2. run[x].node \in Node \cup Entry \cup Endpoint \cup {NoNode} /\ run[x].slot \in ExitSlot \cup ApiSlot \cup {NoSlot}
  BY <1>1 DEF Run
<1>3. CASE run[x].node = NoNode
  <2>1. Key(x) = "direct"
    BY <1>3 DEF Key
  <2> QED BY <2>1, PoolConstants DEF Idled
<1>4. CASE run[x].node # NoNode /\ run[x].slot \in ExitSlot /\ run[x].node \notin NativeNode
  <2>1. Key(x) = run[x].slot
    BY <1>4 DEF Key
  <2>2. exits[run[x].slot].active = 1
    BY <1>4, HeldExit
  <2> QED BY <1>4, <2>1, <2>2, PoolConstants DEF Idled
<1>5. CASE run[x].node # NoNode /\ ~(run[x].slot \in ExitSlot /\ run[x].node \notin NativeNode)
  <2>1. Key(x) = run[x].node
    BY <1>5 DEF Key
  <2> QED BY <1>2, <1>5, <2>1, PoolConstants DEF Idled
<1> QED BY <1>3, <1>4, <1>5

LEMMA BrowserStaysShut ==
  ASSUME Inv, NEW x \in Worker, Aside(x), UNCHANGED fixed, pin'[x] = pin[x], avoid'[x] = avoid[x],
         BrowsersCalm, BrowserShut(x)
  PROVE  BrowserShut(x)'
<1>1. Key(x)' = Key(x) /\ Key(x) # "old" /\ ~Idled(Key(x))
  BY WantsStand, KeyHeld
<1>2. \A s \in BrowserSlot :
        /\ Ready(browsers'[s]) => Ready(browsers[s]) /\ browsers'[s].key \in {browsers[s].key, "old"}
        /\ Rising(browsers[s]) => Rising(browsers'[s]) /\ (browsers'[s].key = browsers[s].key \/ Idled(browsers[s].key))
        /\ browsers'[s].use = "free" => browsers[s].use = "free" \/ Spare(browsers[s])
        /\ Spare(browsers'[s]) => Spare(browsers[s])
  BY DEF BrowsersCalm, BrowserCalm
<1>3. \A s \in BrowserSlot : Ready(browsers'[s]) => browsers'[s].key # Key(x)
  BY <1>1, <1>2 DEF BrowserShut
<1>4. \/ \E s \in BrowserSlot : Rising(browsers'[s]) /\ browsers'[s].key = Key(x)
      \/ \A s \in BrowserSlot : browsers'[s].use # "free" /\ ~Spare(browsers'[s])
  BY <1>1, <1>2 DEF BrowserShut
<1> QED BY <1>1, <1>3, <1>4 DEF BrowserShut, Ready, Rising, Spare

\* A step that wakes whom it should leaves the others with a reason to sleep.
LEMMA OthersSleep ==
  ASSUME Inv, Inv', NEW r, UNCHANGED fixed, Calm(r), NEW x \in Worker, x # r, Aside(x), Sleeps(x)
  PROVE  Sleeps(x)'
<1>1. /\ asleep'[x] \in {asleep[x], ""} /\ pin'[x] = pin[x] /\ avoid'[x] = avoid[x]
      /\ run'[x].pc = run[x].pc /\ platform(x)' = platform(x)
  BY WantsStand DEF Calm, Aside
<1>2. asleep'[x] = "exit" => run'[x].pc \in {"exit", "entry"} /\ ExitShut(x)'
  <2> SUFFICES ASSUME asleep'[x] = "exit" PROVE run'[x].pc \in {"exit", "entry"} /\ ExitShut(x)'
    OBVIOUS
  <2>1. ExitsCalm /\ asleep[x] = "exit"
    BY <1>1 DEF Calm, Roused
  <2> QED BY <1>1, <2>1, ExitStaysShut DEF Sleeps
<1>3. asleep'[x] = "api" => run'[x].pc = "api" /\ ApiShut(x)'
  <2> SUFFICES ASSUME asleep'[x] = "api" PROVE run'[x].pc = "api" /\ ApiShut(x)'
    OBVIOUS
  <2>1. ApisCalm /\ asleep[x] = "api"
    BY <1>1 DEF Calm, Roused
  <2> QED BY <1>1, <2>1, ApiStaysShut DEF Sleeps
<1>4. asleep'[x] = "browser" => run'[x].pc = "browser" /\ BrowserShut(x)'
  <2> SUFFICES ASSUME asleep'[x] = "browser" PROVE run'[x].pc = "browser" /\ BrowserShut(x)'
    OBVIOUS
  <2>1. BrowsersCalm /\ asleep[x] = "browser"
    BY <1>1 DEF Calm, Roused
  <2> QED BY <1>1, <2>1, BrowserStaysShut DEF Sleeps
<1>5. asleep'[x] = "upload" => /\ run'[x].pc = "upload" /\ platform(x)' \in {"dola", "doubao"}
                               /\ Cardinality(uploading') >= UploadSlots
  <2> SUFFICES ASSUME asleep'[x] = "upload"
               PROVE  /\ run'[x].pc = "upload" /\ platform(x) \in {"dola", "doubao"}
                      /\ Cardinality(uploading') >= UploadSlots
    BY <1>1
  <2>1. uploading \subseteq uploading' /\ asleep[x] = "upload"
    BY <1>1 DEF Calm, Roused
  <2>2. IsFiniteSet(uploading') /\ uploading' \subseteq Worker
    BY AttemptConstants, FS_Subset DEF Inv, TypeOK
  <2>3. Cardinality(uploading) <= Cardinality(uploading') /\ Cardinality(uploading') \in Nat
    BY <2>1, <2>2, FS_Subset, FS_CardinalityType
  <2>4. IsFiniteSet(uploading) /\ Cardinality(uploading) \in Nat /\ UploadSlots \in Nat
    BY <2>1, <2>2, FS_Subset, FS_CardinalityType, AttemptConstants
  <2>5. run[x].pc = "upload" /\ platform(x) \in {"dola", "doubao"} /\ Cardinality(uploading) >= UploadSlots
    BY <2>1 DEF Sleeps
  <2> QED BY <1>1, <2>3, <2>4, <2>5
<1> QED BY <1>2, <1>3, <1>4, <1>5 DEF Sleeps

\* What is left alone is calm.
LEMMA CalmSelf ==
  /\ \A k : ExitCalm(k, k) /\ ApiCalm(k, k) /\ BrowserCalm(k, k)
  /\ exits' = exits => ExitsCalm
  /\ apis' = apis /\ fetching' = fetching => ApisCalm
  /\ browsers' = browsers => BrowsersCalm
<1>1. \A k : ExitCalm(k, k) /\ ApiCalm(k, k) /\ BrowserCalm(k, k)
  BY DEF ExitCalm, ApiCalm, BrowserCalm
<1> QED BY <1>1 DEF ExitsCalm, ApisCalm, BrowsersCalm

LEMMA AloofCalm ==
  ASSUME NEW r \in Worker, Aloof(r), asleep[r] = ""
  PROVE  StaysCalm(r)
<1>1. asleep' = asleep /\ uploading' = uploading /\ MarksAside(r) /\ IdleValid'
  BY DEF Aloof, ApisMarked
<1>2. ExitsCalm /\ ApisCalm /\ BrowsersCalm
  BY CalmSelf DEF Aloof, ApisMarked, ApisCalm
<1>3. Calm(r)
  BY <1>1, <1>2 DEF Calm, MarksAside
<1>4. Sleeps(r)'
  BY <1>1 DEF Sleeps
<1> QED BY <1>1, <1>3, <1>4 DEF StaysCalm

LEMMA AwakeElsewhere ==
  ASSUME TypeOK, NEW r \in Worker, Sleeps(r),
         run[r].pc \notin Waiting \/ (run[r].pc = "upload" /\ platform(r) = "qianwen")
  PROVE  asleep[r] = ""
BY DEF TypeOK, Sleeps, Waiting

\* An endpoint that is marked is the runner's own.
LEMMA OwnEndpointMarked ==
  ASSUME Inv, IdleValid, NEW r \in Worker,
         \/ apis' = apis
         \/ apis' = [apis EXCEPT ![run[r].slot].invalid = TRUE]
         \/ apis' = [apis EXCEPT ![run[r].slot].cooling = TRUE]
  PROVE  ApisMarked
<1> DEFINE t == run[r].slot
           yes == TRUE
<1>0. apis \in [ApiSlot -> Api] /\ yes = TRUE
  BY DEF Inv, TypeOK
<1>1. CASE apis' = apis \/ t \notin ApiSlot
  <2>1. apis' = apis
    BY <1>0, <1>1
  <2> QED BY <2>1, CalmSelf DEF ApisMarked, IdleValid
<1>2. CASE t \in ApiSlot /\ apis' # apis
  <2> DEFINE k == [apis[t] EXCEPT !.invalid = yes]
             c == [apis[t] EXCEPT !.cooling = yes]
  <2>1. apis[t] \in Api /\ apis[t].active > 0
    BY <1>0, <1>2, HeldApi
  <2> HIDE DEF yes
  <2>2. ApiCalm(apis[t], k) /\ ApiCalm(apis[t], c) /\ c.invalid = apis[t].invalid
        /\ k.active = apis[t].active /\ c.active = apis[t].active
    BY <1>0, <2>1 DEF Api, ApiCalm, Open
  <2>3. apis' = [apis EXCEPT ![t] = k] \/ apis' = [apis EXCEPT ![t] = c]
    BY <1>0, <1>2
  <2> HIDE DEF k, c, t
  <2>4. \A s \in ApiSlot \ {t} : apis'[s] = apis[s]
    BY <1>0, <2>3
  <2>5. apis'[t] \in {k, c}
    BY <1>0, <1>2, <2>3
  <2>6. \A s \in ApiSlot : ApiCalm(apis[s], apis'[s])
    BY <2>2, <2>4, <2>5, CalmSelf
  <2>7. IdleValid'
    BY <2>1, <2>2, <2>4, <2>5 DEF IdleValid
  <2> QED BY <2>6, <2>7 DEF ApisMarked
<1> QED BY <1>1, <1>2

LEMMA ChargedAside ==
  ASSUME Inv, IdleValid, NEW r \in Worker, Charge(r)
  PROVE  MarksAside(r) /\ ApisMarked
<1>1. \A x \in Worker \ {r} : Unpinned(r)[x] = pin[x] /\ Avoided(r)[x] = avoid[x]
  BY DEF Inv, TypeOK, Unpinned, Avoided
<1>2. /\ pin' \in {pin, Unpinned(r)} /\ avoid' \in {avoid, Avoided(r)}
      /\ \/ apis' = apis
         \/ apis' = [apis EXCEPT ![run[r].slot].invalid = TRUE]
         \/ apis' = [apis EXCEPT ![run[r].slot].cooling = TRUE]
  <2>1. CASE Unharmed
    BY <2>1 DEF Unharmed, marks
  <2>2. CASE MarkActiveProxyUnavailable(r)
    BY <2>2 DEF MarkActiveProxyUnavailable
  <2>3. CASE CooldownActiveProxyTransport(r)
    BY <2>3 DEF CooldownActiveProxyTransport
  <2>4. CASE CooldownServiceFrequent(r)
    BY <2>4 DEF CooldownServiceFrequent
  <2>5. ASSUME NEW cools \in BOOLEAN, RecordActiveGatewayFailure(r, cools)
        PROVE  /\ pin' \in {pin, Unpinned(r)} /\ avoid' \in {avoid, Avoided(r)}
               /\ apis' = apis \/ apis' = [apis EXCEPT ![run[r].slot].invalid = TRUE]
    BY <2>5 DEF RecordActiveGatewayFailure
  <2>6. ASSUME NEW cools \in BOOLEAN, MarkDoubaoVerificationProxy(r, cools)
        PROVE  /\ pin' \in {pin, Unpinned(r)} /\ avoid' \in {avoid, Avoided(r)}
               /\ apis' = apis \/ apis' = [apis EXCEPT ![run[r].slot].cooling = TRUE]
    BY <2>6 DEF MarkDoubaoVerificationProxy
  <2> QED BY <2>1, <2>2, <2>3, <2>4, <2>5, <2>6 DEF Charge
<1>3. ApisMarked
  BY <1>2, OwnEndpointMarked
<1>4. MarksAside(r)
  BY <1>1, <1>2 DEF MarksAside
<1> QED BY <1>3, <1>4

LEMMA QuietAloof ==
  ASSUME IdleValid, NEW r \in Worker, UNCHANGED quiet
  PROVE  Aloof(r)
<1>1. /\ UNCHANGED <<exits, fetching, browsers, uploading, asleep, pin, avoid>>
      /\ apis' = apis
  BY DEF quiet, pools, idle, marks, exitVars
<1> QED BY <1>1, CalmSelf DEF Aloof, MarksAside, ApisMarked, IdleValid

LEMMA ChargedAloof ==
  ASSUME Inv, IdleValid, NEW r \in Worker, UNCHANGED <<pools, idle>>, Charge(r)
  PROVE  Aloof(r)
<1>1. UNCHANGED <<exits, fetching, browsers, uploading, asleep>>
  BY DEF pools, idle, exitVars
<1> QED BY <1>1, ChargedAside DEF Aloof

\* The marks of the task change, and nothing else that a runner waits for.
LEMMA AvoidAloof ==
  ASSUME Inv, IdleValid, NEW r \in Worker, UNCHANGED <<pools, idle, apis>>, MarksAside(r)
  PROVE  Aloof(r)
<1>1. UNCHANGED <<exits, fetching, browsers, uploading, asleep>> /\ apis' = apis
  BY DEF pools, idle, exitVars
<1> QED BY <1>1, CalmSelf DEF Aloof, ApisMarked, IdleValid

LEMMA MarksOf ==
  ASSUME TypeOK, NEW r \in Worker, pin' = pin \/ \E n : pin' = [pin EXCEPT ![r] = n],
         avoid' = avoid \/ \E n : avoid' = [avoid EXCEPT ![r] = n]
  PROVE  MarksAside(r)
BY DEF TypeOK, MarksAside

LEMMA HotAside ==
  ASSUME TypeOK, NEW r \in Worker, NEW next, Hot(r, next), UNCHANGED pin
  PROVE  MarksAside(r)
<1>1. avoid' = avoid \/ avoid' = Avoided(r)
  BY DEF Hot
<1>2. avoid' = avoid \/ \E n : avoid' = [avoid EXCEPT ![r] = n]
  BY <1>1 DEF Avoided
<1> QED BY <1>2, MarksOf

\* What an attempt does on the page of its platform.
LEMMA PageAloof ==
  ASSUME Inv, IdleValid, NEW r \in Worker,
         \/ ContextOpens(r)
         \/ DolaPage(r) \/ DolaTurnedAway(r) \/ DolaAnswers(r) \/ DolaSubmitRaises(r)
         \/ DolaRecordRaises(r) \/ DolaRecord(r)
         \/ DoubaoPage(r) \/ OpenVideoEntry(r) \/ SelectVideoModel(r) \/ SelectVideoSettings(r)
         \/ FillForm(r) \/ DoubaoAnswers(r) \/ DoubaoRecord(r)
         \/ QianwenPage(r) \/ ActivateVideoMode(r) \/ EnsureVideoModel(r) \/ EnsureVideoSettings(r)
         \/ UploadReferenceImages(r) \/ FillEditor(r) \/ SyncDailyCredit(r) \/ QianwenAnswers(r)
         \/ StudioDisconnects(r) \/ QianwenRecord(r)
         \/ (\E next : Begin(r, next)) \/ Pace(r) \/ Send(r) \/ Resend(r)
  PROVE  /\ Aloof(r)
         /\ run[r].pc \notin Waiting \/ (run[r].pc = "upload" /\ platform(r) = "qianwen")
<1>0. TypeOK
  BY DEF Inv
<1> DEFINE There == run[r].pc \notin Waiting \/ (run[r].pc = "upload" /\ platform(r) = "qianwen")
<1>1. ASSUME NEW pc, NEW next, NEW outs, Step(r, pc, next, outs)
      PROVE  Aloof(r) /\ run[r].pc = pc
  <2>1. UNCHANGED quiet /\ run[r].pc = pc
    BY <1>1 DEF Step, At
  <2> QED BY <2>1, QuietAloof
<1>2. ASSUME NEW pc, NEW out, Charged(r, pc, out)
      PROVE  Aloof(r) /\ run[r].pc = pc
  <2>1. UNCHANGED <<pools, idle>> /\ Charge(r) /\ run[r].pc = pc
    BY <1>2 DEF Charged, At, Charge
  <2> QED BY <2>1, ChargedAloof
<1>3. ASSUME NEW pc, NEW next, Fill(r, pc, next)
      PROVE  Aloof(r) /\ run[r].pc = pc
  <2>1. UNCHANGED quiet /\ run[r].pc = pc
    BY <1>3 DEF Fill, At
  <2> QED BY <2>1, QuietAloof
<1>4. CASE ContextOpens(r)
  <2>1. UNCHANGED <<pools, idle, apis>> /\ pin' = pin /\ avoid' = avoid /\ run[r].pc = "context"
    <3>1. UNCHANGED <<exits, lock, apis, fetching, backoff, uploading, cooling, down, pin, avoid, lost, lostFetch, starts>>
      BY <1>4 DEF ContextOpens, exitVars, apiVars, marks, lostVars
    <3>2. UNCHANGED <<browsers, asleep>>
      BY <1>4 DEF ContextOpens
    <3> QED BY <1>4, <3>1, <3>2 DEF pools, idle, exitVars, lostVars, ContextOpens, At
  <2> QED BY <2>1, AvoidAloof DEF MarksAside, Waiting
<1>5. CASE DolaPage(r)
  <2>1. UNCHANGED <<pools, idle>> /\ run[r].pc = "page"
    BY <1>5 DEF DolaPage, At
  <2>2. \/ (\E next : Hot(r, next)) /\ UNCHANGED <<cooling, down, pin, apis>>
        \/ Charge(r)
    BY <1>5 DEF DolaPage, Charge
  <2>3. ASSUME NEW next, Hot(r, next), UNCHANGED <<cooling, down, pin, apis>> PROVE Aloof(r)
    <3>1. MarksAside(r)
      BY <1>0, <2>3, HotAside
    <3> QED BY <2>1, <2>3, <3>1, AvoidAloof
  <2> QED BY <2>1, <2>2, <2>3, ChargedAloof DEF Waiting
<1>6. CASE DolaTurnedAway(r)
  <2>1. \E pc \in {"page", "pace"} : \E out : Charged(r, pc, out)
    BY <1>6 DEF DolaTurnedAway
  <2> QED BY <1>2, <2>1 DEF Waiting
<1>7. CASE DolaAnswers(r) \/ DolaRecordRaises(r) \/ QianwenAnswers(r) \/ QianwenRecord(r) \/ Send(r) \/ Resend(r)
  <2>1. UNCHANGED quiet /\ run[r].pc \in {"answer", "record", "send"}
    BY <1>7 DEF DolaAnswers, DolaRecordRaises, QianwenAnswers, QianwenRecord, Send, Resend, At
  <2> QED BY <2>1, QuietAloof DEF Waiting
<1>8. CASE Pace(r) \/ (\E next : Begin(r, next))
  <2>1. UNCHANGED quiet /\ run[r].pc \in {"pace", "begin"}
    BY <1>8 DEF Pace, Begin, At
  <2> QED BY <2>1, QuietAloof DEF Waiting
<1>9. CASE DolaSubmitRaises(r)
  <2>1. UNCHANGED <<pools, idle>> /\ run[r].pc = "answer" /\ Charge(r)
    BY <1>9 DEF DolaSubmitRaises, At, Charge
  <2> QED BY <2>1, ChargedAloof DEF Waiting
<1>10. CASE DolaRecord(r)
  <2>1. UNCHANGED <<pools, idle>> /\ run[r].pc = "record"
    BY <1>10 DEF DolaRecord, At
  <2>2. \/ Charge(r)
        \/ /\ UNCHANGED <<cooling, down, pin, apis>>
           /\ avoid' = [avoid EXCEPT ![r] = NoNode] \/ avoid' = Avoided(r)
    BY <1>10 DEF DolaRecord, Charge
  <2>3. CASE /\ UNCHANGED <<cooling, down, pin, apis>>
             /\ avoid' = [avoid EXCEPT ![r] = NoNode] \/ avoid' = Avoided(r)
    <3>1. avoid' = avoid \/ \E n : avoid' = [avoid EXCEPT ![r] = n]
      BY <2>3 DEF Avoided
    <3>2. MarksAside(r)
      BY <1>0, <2>3, <3>1, MarksOf
    <3> QED BY <2>1, <2>3, <3>2, AvoidAloof DEF Waiting
  <2> QED BY <2>1, <2>2, <2>3, ChargedAloof DEF Waiting
<1>11. CASE DoubaoPage(r)
  <2>1. \/ \E out : Charged(r, "page", out)
        \/ UNCHANGED quiet /\ run[r].pc = "page"
        \/ \E next, outs : Step(r, "page", next, outs)
    BY <1>11 DEF DoubaoPage, At
  <2> QED BY <1>1, <1>2, <2>1, QuietAloof DEF Waiting
<1>12. CASE OpenVideoEntry(r)
  <2>1. \/ Fill(r, "mode", "model")
        \/ UNCHANGED <<pools, idle>> /\ run[r].pc = "mode" /\ Charge(r)
    BY <1>12 DEF OpenVideoEntry, At, Charge
  <2> QED BY <1>3, <2>1, ChargedAloof DEF Waiting
<1>13. CASE SelectVideoModel(r) \/ SelectVideoSettings(r) \/ FillForm(r)
  <2>1. \E pc \in {"model", "settings", "form"} : \E next : Fill(r, pc, next)
    BY <1>13 DEF SelectVideoModel, SelectVideoSettings, FillForm
  <2> QED BY <1>3, <2>1 DEF Waiting
<1>14. CASE DoubaoAnswers(r)
  <2>1. UNCHANGED <<pools, idle>> /\ run[r].pc = "answer" /\ Charge(r)
    BY <1>14 DEF DoubaoAnswers, At, Charge
  <2> QED BY <2>1, ChargedAloof DEF Waiting
<1>15. CASE DoubaoRecord(r)
  <2>1. UNCHANGED <<pools, idle, apis>> /\ run[r].pc = "record" /\ avoid' = avoid
    BY <1>15 DEF DoubaoRecord, RecordDoubaoProxySuccess, At
  <2>2. pin' = pin \/ \E n : pin' = [pin EXCEPT ![r] = n]
    BY <1>15 DEF DoubaoRecord, RecordDoubaoProxySuccess
  <2>3. MarksAside(r)
    BY <1>0, <2>1, <2>2, MarksOf
  <2> QED BY <2>1, <2>3, AvoidAloof DEF Waiting
<1>16. CASE \/ QianwenPage(r) \/ ActivateVideoMode(r) \/ EnsureVideoModel(r) \/ EnsureVideoSettings(r)
            \/ FillEditor(r) \/ SyncDailyCredit(r)
  <2>1. \E pc \in {"page", "mode", "model", "settings", "form", "credit"} : \E next, outs : Step(r, pc, next, outs)
    BY <1>16 DEF QianwenPage, ActivateVideoMode, EnsureVideoModel, EnsureVideoSettings, FillEditor, SyncDailyCredit
  <2> QED BY <1>1, <2>1 DEF Waiting
<1>17. CASE UploadReferenceImages(r)
  <2>1. platform(r) = "qianwen" /\ \E next, outs : Step(r, "upload", next, outs)
    BY <1>17 DEF UploadReferenceImages
  <2> QED BY <1>1, <2>1
<1>18. CASE StudioDisconnects(r)
  <2>1. UNCHANGED <<pools, idle>> /\ run[r].pc = "answer" /\ Charge(r)
    BY <1>18 DEF StudioDisconnects, At, Charge
  <2> QED BY <2>1, ChargedAloof DEF Waiting
<1> QED BY <1>4, <1>5, <1>6, <1>7, <1>8, <1>9, <1>10, <1>11, <1>12, <1>13, <1>14, <1>15, <1>16,
           <1>17, <1>18

\* The steps before the page and after it that do not touch a pool.
LEMMA EdgeAloof ==
  ASSUME Inv, IdleValid, NEW r \in Worker,
         Start(r) \/ ChooseSource(r) \/ NoEntry(r) \/ LoseRelease(r) \/ Return(r)
  PROVE  Aloof(r) /\ run[r].pc \notin Waiting
<1>0. TypeOK
  BY DEF Inv
<1>1. ASSUME UNCHANGED <<exits, fetching, browsers, uploading, asleep>>, apis' = apis,
             pin' = pin \/ \E n : pin' = [pin EXCEPT ![r] = n],
             avoid' = avoid \/ \E n : avoid' = [avoid EXCEPT ![r] = n]
      PROVE  Aloof(r)
  <2>1. MarksAside(r)
    BY <1>0, <1>1, MarksOf
  <2>2. ApisMarked
    BY <1>1, CalmSelf DEF ApisMarked, IdleValid
  <2> QED BY <1>1, <2>1, <2>2 DEF Aloof
<1>2. CASE Start(r)
  <2>1. UNCHANGED <<exits, fetching, browsers, uploading, asleep, apis, pin, avoid>>
    BY <1>2 DEF Start, exitVars, apiVars, idle, marks
  <2> QED BY <1>1, <1>2, <2>1 DEF Start, At, Waiting
<1>3. CASE ChooseSource(r)
  <2>1. UNCHANGED <<exits, fetching, browsers, uploading, asleep, apis, avoid>>
    BY <1>3 DEF ChooseSource, exitVars, apiVars
  <2>2. pin' = pin \/ \E n : pin' = [pin EXCEPT ![r] = n]
    BY <1>3 DEF ChooseSource
  <2> QED BY <1>1, <1>3, <2>1, <2>2 DEF ChooseSource, At, Waiting
<1>4. CASE NoEntry(r)
  <2>1. UNCHANGED <<exits, fetching, browsers, uploading, asleep, apis>>
    BY <1>4 DEF NoEntry, exitVars, apiVars
  <2>2. UNCHANGED <<pin, avoid>>
    BY <1>4 DEF NoEntry, AcquireFailed
  <2> QED BY <1>1, <1>4, <2>1, <2>2 DEF NoEntry, At, Waiting
<1>5. CASE LoseRelease(r)
  <2>1. UNCHANGED <<exits, fetching, browsers, uploading, asleep, apis>>
    BY <1>5 DEF LoseRelease, exitVars, apiVars
  <2>2. pin' \in {pin, Unpinned(r)} /\ avoid' \in {avoid, Avoided(r)}
    BY <1>5 DEF LoseRelease
  <2>3. pin' = pin \/ \E n : pin' = [pin EXCEPT ![r] = n]
    BY <2>2 DEF Unpinned
  <2>4. avoid' = avoid \/ \E n : avoid' = [avoid EXCEPT ![r] = n]
    BY <2>2 DEF Avoided
  <2> QED BY <1>1, <1>5, <2>1, <2>3, <2>4 DEF LoseRelease, At, Waiting
<1>6. CASE Return(r)
  <2>1. UNCHANGED <<pools, idle>> /\ run[r].pc = "return"
    BY <1>6 DEF Return, At
  <2>2. Charge(r)
    BY <1>6 DEF Return, Charge
  <2> QED BY <2>1, <2>2, ChargedAloof DEF Waiting
<1> QED BY <1>2, <1>3, <1>4, <1>5, <1>6

\* Such a step leaves every sleeper its reason.
LEMMA AloofSteps ==
  ASSUME Inv, SleepersShut, NEW r \in Worker,
         \/ Start(r) \/ ChooseSource(r) \/ NoEntry(r) \/ LoseRelease(r) \/ Return(r)
         \/ ContextOpens(r)
         \/ DolaPage(r) \/ DolaTurnedAway(r) \/ DolaAnswers(r) \/ DolaSubmitRaises(r)
         \/ DolaRecordRaises(r) \/ DolaRecord(r)
         \/ DoubaoPage(r) \/ OpenVideoEntry(r) \/ SelectVideoModel(r) \/ SelectVideoSettings(r)
         \/ FillForm(r) \/ DoubaoAnswers(r) \/ DoubaoRecord(r)
         \/ QianwenPage(r) \/ ActivateVideoMode(r) \/ EnsureVideoModel(r) \/ EnsureVideoSettings(r)
         \/ UploadReferenceImages(r) \/ FillEditor(r) \/ SyncDailyCredit(r) \/ QianwenAnswers(r)
         \/ StudioDisconnects(r) \/ QianwenRecord(r)
         \/ (\E next : Begin(r, next)) \/ Pace(r) \/ Send(r) \/ Resend(r)
  PROVE  StaysCalm(r)
<1>1. /\ Aloof(r)
      /\ run[r].pc \notin Waiting \/ (run[r].pc = "upload" /\ platform(r) = "qianwen")
  BY PageAloof, EdgeAloof DEF SleepersShut
<1>2. asleep[r] = ""
  BY <1>1, AwakeElsewhere DEF SleepersShut, Inv
<1> QED BY <1>1, <1>2, AloofCalm

\* Who is woken, and who goes to sleep.
LEMMA Wakes ==
  ASSUME TypeOK, NEW p \in Pool, asleep' = Wake(p)
  PROVE  /\ \A x \in Worker : asleep'[x] \in {asleep[x], ""} /\ asleep'[x] # p
         /\ \A r : Roused(r, p)
BY DEF Wake, Pool, Roused

LEMMA FallsAsleep ==
  ASSUME TypeOK, NEW r \in Worker, NEW p, asleep' = Sleep(r, p)
  PROVE  asleep'[r] = p /\ \A x \in Worker \ {r} : asleep'[x] = asleep[x]
BY DEF TypeOK, Sleep

\* The steps of an upload.
LEMMA UploadSteps ==
  ASSUME Inv, SleepersShut, UNCHANGED fixed, NEW r \in Worker,
         ReserveUpload(r) \/ UploadBusy(r) \/ Uploaded(r) \/ UploadFails(r)
  PROVE  StaysCalm(r)
<1>0. TypeOK /\ IdleValid /\ Sleeps(r)
  BY DEF Inv, SleepersShut
<1>1. UNCHANGED <<exits, fetching, browsers>>
  BY DEF ReserveUpload, UploadBusy, Uploaded, UploadFails, pools, exitVars
<1>2. MarksAside(r) /\ ApisMarked
  <2>1. CASE ReserveUpload(r) \/ UploadBusy(r)
    BY <1>0, <2>1, CalmSelf DEF ReserveUpload, UploadBusy, marks, MarksAside, ApisMarked, IdleValid
  <2>2. CASE Uploaded(r)
    <3>1. apis' = apis /\ pin' = pin /\ \E next : Hot(r, next)
      BY <2>2 DEF Uploaded
    <3> QED BY <1>0, <3>1, HotAside, CalmSelf DEF ApisMarked, IdleValid
  <2>3. CASE UploadFails(r)
    <3>1. Charge(r)
      BY <2>3 DEF UploadFails, Charge
    <3> QED BY <1>0, <3>1, ChargedAside
  <2> QED BY <2>1, <2>2, <2>3
<1>3. ExitsCalm /\ ApisCalm /\ BrowsersCalm
  BY <1>1, <1>2, CalmSelf DEF ApisMarked, ApisCalm
<1>4. ASSUME \A x \in Worker \ {r} : asleep'[x] \in {asleep[x], ""},
             Roused(r, "upload") \/ uploading \subseteq uploading'
      PROVE  Calm(r) /\ IdleValid'
  BY <1>2, <1>3, <1>4 DEF Calm, MarksAside, ApisMarked
<1>5. CASE ReserveUpload(r) /\ Cardinality(uploading) < UploadSlots /\ asleep' = asleep
  <2>1. uploading \subseteq uploading' /\ asleep'[r] = ""
    <3>1. uploading' = uploading \cup {r} \/ uploading' = uploading
      BY <1>5 DEF ReserveUpload
    <3> QED BY <1>5, <3>1 DEF ReserveUpload, Awake
  <2>2. Calm(r) /\ IdleValid'
    BY <1>4, <1>5, <2>1
  <2> QED BY <2>1, <2>2 DEF StaysCalm, Sleeps
<1>6. CASE /\ At(r, "upload") /\ platform(r) \in {"dola", "doubao"}
           /\ Cardinality(uploading) >= UploadSlots
           /\ asleep' = Sleep(r, "upload") /\ UNCHANGED <<run, uploading>>
  <2>1. asleep'[r] = "upload" /\ \A x \in Worker \ {r} : asleep'[x] = asleep[x]
    BY <1>0, <1>6, FallsAsleep
  <2>2. Calm(r) /\ IdleValid'
    BY <1>4, <1>6, <2>1
  <2>3. platform(r)' = platform(r) /\ uploading' = uploading /\ run' = run
    BY <1>6 DEF platform, fixed
  <2>4. Sleeps(r)'
    BY <1>6, <2>1, <2>3 DEF Sleeps, At
  <2> QED BY <2>2, <2>4 DEF StaysCalm
<1>7. CASE UploadBusy(r)
  <2>1. asleep'[r] = "" /\ \A x \in Worker \ {r} : asleep'[x] = asleep[x]
    BY <1>0, <1>7, FallsAsleep DEF UploadBusy
  <2>2. Calm(r) /\ IdleValid'
    BY <1>4, <1>7, <2>1 DEF UploadBusy
  <2> QED BY <2>1, <2>2 DEF StaysCalm, Sleeps
<1>8. CASE Uploaded(r) \/ UploadFails(r)
  <2>1. asleep' = Wake("upload") /\ run[r].pc = "uploading"
    BY <1>8 DEF Uploaded, UploadFails, At
  <2>2. /\ \A x \in Worker : asleep'[x] \in {asleep[x], ""} /\ asleep'[x] # "upload"
        /\ Roused(r, "upload")
    BY <1>0, <2>1, Wakes DEF Pool
  <2>3. asleep'[r] = ""
    BY <1>0, <2>1, <2>2, AwakeElsewhere DEF Waiting
  <2>4. Calm(r) /\ IdleValid'
    BY <1>4, <2>2
  <2> QED BY <2>3, <2>4 DEF StaysCalm, Sleeps
<1> QED BY <1>5, <1>6, <1>7, <1>8 DEF ReserveUpload

\* The steps of the browsers: who gives one back wakes the others.
LEMMA BrowserWakes ==
  ASSUME Inv, SleepersShut, NEW r \in Worker,
         UNCHANGED <<exits, fetching, apis, uploading, pin, avoid>>, asleep' = Wake("browser"),
         run[r].pc \notin Waiting
  PROVE  StaysCalm(r)
<1>0. TypeOK /\ IdleValid /\ Sleeps(r)
  BY DEF Inv, SleepersShut
<1>1. /\ \A x \in Worker : asleep'[x] \in {asleep[x], ""} /\ asleep'[x] # "browser"
      /\ Roused(r, "browser")
  BY <1>0, Wakes DEF Pool
<1>2. ExitsCalm /\ ApisCalm /\ IdleValid'
  BY <1>0, CalmSelf DEF IdleValid
<1>3. asleep'[r] = ""
  BY <1>0, <1>1, AwakeElsewhere
<1>4. Calm(r)
  BY <1>1, <1>2 DEF Calm
<1> QED BY <1>2, <1>3, <1>4 DEF StaysCalm, Sleeps

LEMMA BrowserSteps ==
  ASSUME Inv, SleepersShut, NEW r \in Worker,
         BrowserLaunched(r) \/ BrowserFails(r) \/ StartRelease(r) \/ ContextCloses(r)
  PROVE  StaysCalm(r)
<1>1. UNCHANGED <<exits, fetching, apis, uploading, pin, avoid>>
  BY DEF BrowserLaunched, BrowserFails, StartRelease, ContextCloses, exitVars, apiVars, marks
<1>2. run[r].pc \notin Waiting
  BY DEF BrowserLaunched, BrowserFails, StartRelease, ContextCloses, At, Waiting
<1>3. asleep' = Wake("browser") \/ (asleep' = asleep /\ browsers' = browsers)
  BY DEF BrowserLaunched, BrowserFails, StartRelease, ContextCloses, FinishRelease
<1>4. CASE asleep' = asleep /\ browsers' = browsers
  <2>1. asleep[r] = "" /\ IdleValid
    BY <1>2, AwakeElsewhere DEF SleepersShut, Inv
  <2>2. Aloof(r)
    BY <1>1, <1>4, <2>1, CalmSelf DEF Aloof, MarksAside, ApisMarked, IdleValid
  <2> QED BY <2>1, <2>2, AloofCalm
<1> QED BY <1>1, <1>2, <1>3, <1>4, BrowserWakes

\* What an acquirer does to a browser: it drops one that nobody uses, leases one
\* that is ready, or starts one.
LEMMA BrowserTurns ==
  /\ \A k, l : Spare(k) /\ l.use = "free" => BrowserCalm(k, l)
  /\ \A k \in Browser : BrowserCalm(k, [k EXCEPT !.active = 1])
  /\ \A k, l : /\ k.use = "free" \/ Spare(k)
               /\ l.use # "free" /\ l.launching /\ l.active = 1
               => BrowserCalm(k, l)
<1>1. \A k, l : Spare(k) /\ l.use = "free" => BrowserCalm(k, l)
  BY DEF Spare, BrowserCalm, Ready, Rising
<1>2. ASSUME NEW k \in Browser PROVE BrowserCalm(k, [k EXCEPT !.active = 1])
  BY DEF Spare, BrowserCalm, Ready, Rising, Browser
<1>3. \A k, l : /\ k.use = "free" \/ Spare(k)
                /\ l.use # "free" /\ l.launching /\ l.active = 1
                => BrowserCalm(k, l)
  BY DEF Spare, BrowserCalm, Ready, Rising
<1> QED BY <1>1, <1>2, <1>3

LEMMA Prunes ==
  ASSUME TypeOK, NEW f, Pruned(f), NEW S, \A s \in S \cap BrowserSlot : Spare(f[s])
  PROVE  Pruned(Remove(f, S, NoBrowser))
<1>1. Remove(f, S, NoBrowser) = [s \in BrowserSlot |-> IF s \in S THEN NoBrowser ELSE f[s]]
  BY DEF Remove, Pruned
<1>2. ~Spare(NoBrowser)
  BY DEF Spare, NoBrowser
<1> QED BY <1>1, <1>2 DEF Pruned

LEMMA PrunedCalm ==
  ASSUME TypeOK, NEW f, Pruned(f)
  PROVE  /\ browsers' = f => BrowsersCalm
         /\ \A s \in BrowserSlot : Ready(f[s]) /\ browsers' = LeaseBrowser(f, s) => BrowsersCalm
         /\ \A s \in BrowserSlot : \A key : f[s].use = "free" /\ browsers' = LaunchBrowser(f, s, key) => BrowsersCalm
<1>1. NoBrowser.use = "free" /\ NoBrowser.active = 0
  BY DEF NoBrowser
<1>2. ASSUME NEW s \in BrowserSlot PROVE BrowserCalm(browsers[s], f[s])
  BY <1>1, CalmSelf, BrowserTurns DEF Pruned
<1>3. ASSUME browsers' = f PROVE BrowsersCalm
  BY <1>2, <1>3 DEF BrowsersCalm
<1>4. ASSUME NEW s \in BrowserSlot, Ready(f[s]), browsers' = LeaseBrowser(f, s) PROVE BrowsersCalm
  <2> DEFINE k == [f[s] EXCEPT !.active = 1]
  <2>1. f[s] = browsers[s] /\ browsers[s] \in Browser
    BY <1>1, <1>4 DEF Pruned, Ready, TypeOK
  <2>2. BrowserCalm(browsers[s], k)
    BY <2>1, BrowserTurns
  <2>3. browsers' = [f EXCEPT ![s] = k]
    BY <1>4, Zenon DEF LeaseBrowser
  <2> HIDE DEF k
  <2>4. browsers'[s] = k /\ \A t \in BrowserSlot \ {s} : browsers'[t] = f[t]
    BY <2>3 DEF Pruned
  <2> QED BY <1>2, <2>2, <2>4 DEF BrowsersCalm
<1>5. ASSUME NEW s \in BrowserSlot, NEW key, f[s].use = "free", browsers' = LaunchBrowser(f, s, key)
      PROVE  BrowsersCalm
  <2> DEFINE k == [NoBrowser EXCEPT !.use = "browser", !.key = key, !.active = 1, !.launching = TRUE]
  <2>1. k.use # "free" /\ k.launching /\ k.active = 1
    BY DEF NoBrowser
  <2>2. browsers[s].use = "free" \/ Spare(browsers[s])
    BY <1>5 DEF Pruned
  <2>3. browsers' = [f EXCEPT ![s] = k]
    BY <1>5 DEF LaunchBrowser
  <2> HIDE DEF k
  <2>4. browsers'[s] = k /\ \A t \in BrowserSlot \ {s} : browsers'[t] = f[t]
    BY <2>3 DEF Pruned
  <2>5. BrowserCalm(browsers[s], k)
    BY <2>1, <2>2, BrowserTurns
  <2> QED BY <1>2, <2>4, <2>5 DEF BrowsersCalm
<1> QED BY <1>3, <1>4, <1>5

\* Who looks for a browser finds one, starts one or sleeps for a reason.
LEMMA AcquireBrowserCalm ==
  ASSUME Inv, SleepersShut, UNCHANGED fixed, NEW r \in Worker, AcquireBrowser(r)
  PROVE  StaysCalm(r)
<1>0. TypeOK /\ IdleValid /\ Sleeps(r) /\ asleep[r] = "" /\ run[r].pc = "browser"
  BY DEF Inv, SleepersShut, AcquireBrowser, Awake, At
<1> DEFINE b(dead) == Remove(browsers, dead, NoBrowser)
           waits(dead) == /\ Usable(b(dead), Key(r)) = {}
                          /\ Starting(b(dead), Key(r)) \/ (Vacant(b(dead)) = {} /\ Idle(b(dead)) = {})
                          /\ browsers' = b(dead) /\ asleep' = Sleep(r, "browser") /\ run' = Evicted(dead)
<1>1. PICK dead \in IF IdleDead(browsers) = {} THEN {{}} ELSE {{s} : s \in IdleDead(browsers)} :
        \/ \E s \in Usable(b(dead), Key(r)) : browsers' = LeaseBrowser(b(dead), s) /\ UNCHANGED asleep
        \/ Vacant(b(dead)) # {} /\ Launches(r, b(dead), dead)
        \/ Vacant(b(dead)) = {} /\ \E s \in Idle(b(dead)) : Launches(r, Remove(b(dead), {s}, NoBrowser), dead \cup {s})
        \/ waits(dead)
  BY Zenon DEF AcquireBrowser, Launches, Evicted
<1>2. Pruned(browsers) /\ dead \subseteq IdleDead(browsers) /\ Pruned(b(dead))
  <2>1. Pruned(browsers)
    BY <1>0 DEF Pruned, TypeOK
  <2>2. dead \subseteq IdleDead(browsers)
    BY <1>1
  <2>3. \A s \in dead \cap BrowserSlot : Spare(browsers[s])
    BY <2>2 DEF IdleDead, Present, Spare
  <2> QED BY <1>0, <2>1, <2>2, <2>3, Prunes
<1>3. UNCHANGED <<exits, fetching, apis, uploading, pin, avoid>>
  BY DEF AcquireBrowser, exitVars, apiVars, marks
<1> DEFINE f == b(dead)
<1> HIDE DEF b
<1>4. \A s : s \in Vacant(f) <=> s \in BrowserSlot /\ f[s].use = "free"
  BY <1>2 DEF Vacant, Present, Pruned
<1>5. \A g, S : Launches(r, g, S) /\ Vacant(g) # {} =>
         asleep' = asleep /\ \E s \in Vacant(g) : browsers' = LaunchBrowser(g, s, Key(r))
  BY Zenon DEF Launches
<1>6. CASE \/ \E s \in Usable(f, Key(r)) : browsers' = LeaseBrowser(f, s) /\ UNCHANGED asleep
           \/ Vacant(f) # {} /\ Launches(r, f, dead)
           \/ \E s \in Idle(f) : Launches(r, Remove(f, {s}, NoBrowser), dead \cup {s})
  <2>1. asleep' = asleep /\ BrowsersCalm
    <3>1. ASSUME NEW s \in Usable(f, Key(r)), browsers' = LeaseBrowser(f, s) PROVE BrowsersCalm
      <4>1. s \in BrowserSlot /\ Ready(f[s])
        BY <1>2 DEF Usable, Present, Ready, Pruned
      <4> QED BY <1>0, <1>2, <3>1, <4>1, PrunedCalm
    <3>2. CASE Vacant(f) # {} /\ Launches(r, f, dead)
      BY <1>0, <1>2, <1>4, <1>5, <3>2, PrunedCalm
    <3>3. ASSUME NEW s \in Idle(f), Launches(r, Remove(f, {s}, NoBrowser), dead \cup {s})
          PROVE  asleep' = asleep /\ BrowsersCalm
      <4> DEFINE g == Remove(f, {s}, NoBrowser)
      <4>1. s \in BrowserSlot /\ Spare(f[s])
        BY <1>2 DEF Idle, Present, Spare, Pruned
      <4>2. Pruned(g)
        BY <1>0, <1>2, <4>1, Prunes
      <4>3. g[s].use = "free"
        BY <1>2, <4>1 DEF Remove, Pruned, NoBrowser
      <4> HIDE DEF g
      <4>4. \A t : t \in Vacant(g) <=> t \in BrowserSlot /\ g[t].use = "free"
        BY <4>2 DEF Vacant, Present, Pruned
      <4>5. Launches(r, g, dead \cup {s})
        BY <3>3 DEF g
      <4> QED BY <1>0, <1>5, <4>1, <4>2, <4>3, <4>4, <4>5, PrunedCalm
    <3> QED BY <1>5, <1>6, <3>1, <3>2, <3>3
  <2>2. ExitsCalm /\ ApisCalm /\ IdleValid'
    BY <1>0, <1>3, CalmSelf DEF IdleValid
  <2>3. Calm(r)
    BY <1>3, <2>1, <2>2 DEF Calm
  <2> QED BY <1>0, <2>1, <2>2, <2>3 DEF StaysCalm, Sleeps
<1>7. CASE waits(dead)
  <2>1. /\ Usable(f, Key(r)) = {}
        /\ Starting(f, Key(r)) \/ (Vacant(f) = {} /\ Idle(f) = {})
        /\ browsers' = f /\ asleep' = Sleep(r, "browser") /\ run' = Evicted(dead)
    BY <1>7
  <2>2. BrowsersCalm /\ ExitsCalm /\ ApisCalm /\ IdleValid'
    BY <1>0, <1>2, <1>3, <2>1, CalmSelf, PrunedCalm DEF IdleValid
  <2>3. asleep'[r] = "browser" /\ \A x \in Worker \ {r} : asleep'[x] = asleep[x]
    BY <1>0, <2>1, FallsAsleep
  <2>4. Calm(r)
    BY <1>3, <2>2, <2>3 DEF Calm
  <2>5. Aside(r)
    <3>1. run[r] \in Run
      BY <1>0 DEF TypeOK
    <3>2. run'[r] \in {run[r], [run[r] EXCEPT !.browser = NoSlot]}
      BY <2>1 DEF Evicted
    <3> QED BY <3>1, <3>2 DEF Run, Aside
  <2>6. Key(r)' = Key(r) /\ run'[r].pc = "browser"
    BY <1>0, <1>3, <2>5, WantsStand DEF Aside
  <2>7. \A s \in BrowserSlot : Ready(f[s]) => f[s].key # Key(r)
    BY <1>2, <2>1 DEF Usable, Present, Ready, Pruned
  <2>8. Starting(f, Key(r)) => \E s \in BrowserSlot : Rising(f[s]) /\ f[s].key = Key(r)
    BY <1>2 DEF Starting, Present, Rising, Pruned
  <2>9. Vacant(f) = {} /\ Idle(f) = {} => \A s \in BrowserSlot : f[s].use # "free" /\ ~Spare(f[s])
    BY <1>2, <1>4 DEF Idle, Present, Spare, Pruned
  <2>10. BrowserShut(r)'
    <3>1. \A s \in BrowserSlot : Ready(browsers'[s]) => browsers'[s].key # Key(r)
      BY <2>1, <2>7
    <3>2. \/ \E s \in BrowserSlot : Rising(browsers'[s]) /\ browsers'[s].key = Key(r)
          \/ \A s \in BrowserSlot : browsers'[s].use # "free" /\ ~Spare(browsers'[s])
      BY <2>1, <2>8, <2>9
    <3> QED BY <2>6, <3>1, <3>2 DEF BrowserShut, Ready, Rising, Spare
  <2>11. Sleeps(r)'
    BY <2>3, <2>6, <2>10 DEF Sleeps
  <2> QED BY <2>2, <2>4, <2>11 DEF StaysCalm
<1> QED BY <1>1, <1>6, <1>7

\* A step that wakes who waits for the pool it changes.
LEMMA WakesCalm ==
  ASSUME TypeOK, NEW r \in Worker, asleep[r] = "", NEW p \in Pool, asleep' = Wake(p),
         MarksAside(r), IdleValid',
         p = "exit" \/ ExitsCalm, p = "api" \/ ApisCalm, p = "browser" \/ BrowsersCalm,
         p = "upload" \/ uploading' = uploading
  PROVE  StaysCalm(r)
<1>1. (\A x \in Worker : asleep'[x] \in {asleep[x], ""}) /\ Roused(r, p) /\ asleep'[r] = ""
  BY Wakes
<1>2. Calm(r)
  BY <1>1 DEF Calm, MarksAside
<1> QED BY <1>1, <1>2 DEF StaysCalm, Sleeps

\* A proxy that was obtained changes the marks of its own task.
LEMMA AcquiredAside ==
  ASSUME TypeOK, NEW r \in Worker, NEW s, NEW n, Acquired(r, s, n)
  PROVE  MarksAside(r)
<1>1. avoid' = avoid \/ \E m : avoid' = [avoid EXCEPT ![r] = m]
  BY DEF Acquired
<1>2. pin' = pin \/ \E m : pin' = [pin EXCEPT ![r] = m]
  BY DEF Acquired
<1> QED BY <1>1, <1>2, MarksOf

\* No endpoint is dropped on the way.
LEMMA NothingDropped ==
  ASSUME TypeOK, IdleValid
  PROVE  DropInvalid(apis) = apis
<1> DEFINE out == {s \in Present(apis) : apis[s].invalid /\ apis[s].active = 0}
<1>1. apis \in [ApiSlot -> Api]
  BY DEF TypeOK
<1>2. out = {}
  BY <1>1 DEF Present, IdleValid
<1>3. DropInvalid(apis) = Remove(apis, {}, NoApi)
  BY <1>2 DEF DropInvalid
<1> QED BY <1>1, <1>3 DEF Remove

LEMMA EndpointTaken ==
  ASSUME TypeOK, IdleValid, NEW s \in ApiSlot, Open(apis[s]), apis' = LeaseEndpoint(apis, s)
  PROVE  ApisMarked
<1> DEFINE n == apis[s].active + 1
           k == [apis[s] EXCEPT !.active = n]
<1>1. apis[s] \in Api /\ apis[s].active \in Nat
  BY Numbers DEF TypeOK, Api
<1>2. apis' = [apis EXCEPT ![s] = k]
  BY DEF LeaseEndpoint
<1>3. n > 0
  BY <1>1
<1> HIDE DEF n
<1>4. k.active > 0 /\ ApiCalm(apis[s], k)
  BY <1>1, <1>3 DEF Api, ApiCalm, Open
<1> HIDE DEF k
<1>5. apis'[s] = k /\ \A t \in ApiSlot \ {s} : apis'[t] = apis[t]
  BY <1>2 DEF TypeOK
<1>6. IdleValid'
  BY <1>4, <1>5 DEF IdleValid
<1> QED BY <1>4, <1>5, <1>6, CalmSelf DEF ApisMarked

\* Who asks for an endpoint takes one, fetches one or sleeps for a reason.
LEMMA ScanApisCalm ==
  ASSUME Inv, SleepersShut, UNCHANGED fixed, NEW r \in Worker, ScanApis(r)
  PROVE  StaysCalm(r)
<1>0. /\ TypeOK /\ IdleValid /\ asleep[r] = "" /\ run[r].pc = "api"
      /\ apis \in [ApiSlot -> Api] /\ fetching \in Nat
  BY DEF Inv, TypeOK, SleepersShut, ScanApis, Awake, At
<1> DEFINE candidates == Candidates(apis, Excluded(r))
           room == Cardinality(Present(apis)) + fetching < Cardinality(ApiSlot) /\ fetching < MaxFetches
<1>1. \/ /\ \E s \in LeastActive(apis, candidates) :
              apis' = LeaseEndpoint(apis, s) /\ Acquired(r, s, apis[s].node)
         /\ UNCHANGED <<fetching, asleep>>
      \/ apis' = apis /\ fetching' = fetching + 1 /\ UNCHANGED <<asleep, pin, avoid>>
      \/ /\ ~room /\ Free(apis, Excluded(r)) = {} /\ apis' = apis
         /\ asleep' = Sleep(r, "api") /\ UNCHANGED <<run, fetching, pin, avoid>>
  BY <1>0, NothingDropped DEF ScanApis
<1>2. UNCHANGED <<exits, browsers, uploading>>
  BY DEF ScanApis, exitVars
<1>3. ExitsCalm /\ BrowsersCalm
  BY <1>2, CalmSelf
<1>7. fetching \in Nat /\ IdleValid
  BY <1>0
<1>4. ASSUME NEW s \in LeastActive(apis, candidates), apis' = LeaseEndpoint(apis, s),
             Acquired(r, s, apis[s].node), UNCHANGED <<fetching, asleep>>
      PROVE  StaysCalm(r)
  <2>1. s \in ApiSlot /\ Open(apis[s])
    BY <1>0 DEF LeastActive, Candidates, Free, Present, Open
  <2>2. ApisMarked /\ MarksAside(r)
    BY <1>0, <1>4, <2>1, EndpointTaken, AcquiredAside
  <2>3. Aloof(r)
    BY <1>2, <1>4, <2>2 DEF Aloof
  <2> QED BY <1>0, <2>3, AloofCalm
<1>5. CASE apis' = apis /\ fetching' = fetching + 1 /\ UNCHANGED <<asleep, pin, avoid>>
  <2>1. ApisCalm /\ IdleValid'
    <3>1. fetching > 0 => fetching' > 0
      <4>1. fetching' = fetching + 1
        BY <1>5
      <4> QED BY <1>7, <4>1
    <3> QED BY <1>0, <1>5, <3>1, CalmSelf DEF ApisCalm, IdleValid
  <2>2. Calm(r)
    BY <1>2, <1>3, <1>5, <2>1 DEF Calm
  <2> QED BY <1>0, <1>5, <2>1, <2>2 DEF StaysCalm, Sleeps
<1>6. CASE /\ ~room /\ Free(apis, Excluded(r)) = {} /\ apis' = apis
           /\ asleep' = Sleep(r, "api") /\ UNCHANGED <<run, fetching, pin, avoid>>
  <2>1. ApisCalm /\ IdleValid'
    BY <1>0, <1>6, CalmSelf DEF IdleValid
  <2>2. asleep'[r] = "api" /\ \A x \in Worker \ {r} : asleep'[x] = asleep[x]
    BY <1>0, <1>6, FallsAsleep
  <2>3. Calm(r)
    BY <1>2, <1>3, <1>6, <2>1, <2>2 DEF Calm
  <2>4. Aside(r) /\ Excluded(r)' = Excluded(r)
    BY <1>6, WantsStand DEF Aside
  <2>5. \A s \in ApiSlot : Open(apis[s]) => apis[s].node \in Excluded(r)
    BY <1>0, <1>6 DEF Free, Present, Open
  <2>6. \/ fetching > 0
        \/ \E s \in ApiSlot : apis[s].use # "free" /\ (apis[s].active > 0 \/ apis[s].node \in Excluded(r))
    <3> SUFFICES ASSUME fetching = 0
                 PROVE  \E s \in ApiSlot : apis[s].use # "free" /\ (apis[s].active > 0 \/ apis[s].node \in Excluded(r))
      BY <1>7
    <3>1. ~(Cardinality(Present(apis)) < Cardinality(ApiSlot))
      <4>1. Present(apis) \subseteq ApiSlot /\ IsFiniteSet(ApiSlot)
        BY <1>0, PoolConstants DEF Present
      <4>2. Cardinality(Present(apis)) \in Nat /\ MaxFetches \in Nat \ {0}
        BY <4>1, FS_Subset, FS_CardinalityType, AttemptConstants
      <4> QED BY <1>6, <4>2
    <3>2. Present(apis) # {}
      <4>1. IsFiniteSet(ApiSlot) /\ ApiSlot # {}
        BY PoolConstants
      <4>2. Cardinality(ApiSlot) \in Nat /\ Cardinality(ApiSlot) # 0 /\ Cardinality({}) = 0
        BY <4>1, FS_CardinalityType, FS_EmptySet
      <4> QED BY <3>1, <4>2
    <3>3. PICK s \in ApiSlot : apis[s].use # "free"
      BY <1>0, <3>2 DEF Present
    <3>4. apis[s] \in Api /\ apis[s].active \in Nat /\ PerEndpoint \in Nat \ {0}
      BY <1>0, Numbers, PoolConstants DEF Api
    <3>5. apis[s].invalid \/ apis[s].node \in Excluded(r) \/ apis[s].active >= PerEndpoint
      BY <2>5, <3>3, <3>4 DEF Open
    <3>6. apis[s].invalid => apis[s].active > 0
      BY <1>7 DEF IdleValid
    <3>7. apis[s].active > 0 \/ apis[s].node \in Excluded(r)
      BY <3>4, <3>5, <3>6
    <3> QED BY <3>3, <3>7
  <2>7. ApiShut(r)'
    BY <1>6, <2>4, <2>5, <2>6 DEF ApiShut, Open
  <2>8. Sleeps(r)'
    BY <1>0, <1>6, <2>2, <2>7 DEF Sleeps
  <2> QED BY <2>1, <2>3, <2>8 DEF StaysCalm
<1> QED BY <1>1, <1>4, <1>5, <1>6

LEMMA FetchCalm ==
  ASSUME Inv, SleepersShut, NEW r \in Worker, Fetched(r) \/ FetchFails(r)
  PROVE  StaysCalm(r)
<1>0. /\ TypeOK /\ IdleValid /\ apis \in [ApiSlot -> Api]
      /\ run[r].pc = "fetch" /\ asleep' = Wake("api") /\ UNCHANGED <<exits, browsers, uploading>>
  BY DEF Inv, TypeOK, SleepersShut, Fetched, FetchFails, At, exitVars
<1>1. asleep[r] = ""
  BY <1>0, AwakeElsewhere DEF SleepersShut, Waiting
<1>2. ExitsCalm /\ BrowsersCalm
  BY <1>0, CalmSelf
<1>3. MarksAside(r) /\ IdleValid'
  <2>1. CASE FetchFails(r)
    BY <1>0, <2>1 DEF FetchFails, marks, MarksAside, IdleValid
  <2>2. CASE Fetched(r)
    <3>1. PICK n : \/ \E s \in Vacant(apis) : apis' = AddEndpoint(apis, s, n) /\ Acquired(r, s, n)
                   \/ \E s \in {t \in Present(apis) : apis[t].node = n /\ ~apis[t].invalid} :
                        \/ apis[s].active < PerEndpoint /\ apis' = LeaseEndpoint(apis, s) /\ Acquired(r, s, n)
                        \/ UNCHANGED <<apis, pin, avoid>>
      BY <2>2 DEF Fetched
    <3>2. ASSUME NEW s \in Vacant(apis), apis' = AddEndpoint(apis, s, n), Acquired(r, s, n)
          PROVE  MarksAside(r) /\ IdleValid'
      <4> DEFINE k == [NoApi EXCEPT !.use = "api", !.node = n, !.active = 1]
      <4>1. apis' = [apis EXCEPT ![s] = k] /\ s \in ApiSlot
        BY <1>0, <3>2 DEF AddEndpoint, Vacant
      <4>2. k.active > 0
        BY DEF NoApi
      <4> HIDE DEF k
      <4>3. apis'[s] = k /\ \A t \in ApiSlot \ {s} : apis'[t] = apis[t]
        BY <1>0, <4>1
      <4>4. IdleValid'
        BY <1>0, <4>2, <4>3 DEF IdleValid
      <4> QED BY <1>0, <3>2, <4>4, AcquiredAside
    <3>3. ASSUME NEW s \in Present(apis), ~apis[s].invalid, apis[s].active < PerEndpoint,
                 apis' = LeaseEndpoint(apis, s), Acquired(r, s, n)
          PROVE  MarksAside(r) /\ IdleValid'
      <4>1. s \in ApiSlot /\ Open(apis[s])
        BY <1>0, <3>3 DEF Present, Open
      <4> QED BY <1>0, <3>3, <4>1, EndpointTaken, AcquiredAside DEF ApisMarked
    <3>4. CASE UNCHANGED <<apis, pin, avoid>>
      BY <1>0, <3>4 DEF MarksAside, IdleValid
    <3> QED BY <3>1, <3>2, <3>3, <3>4
  <2> QED BY <2>1, <2>2
<1> QED BY <1>0, <1>1, <1>2, <1>3, WakesCalm DEF Pool

\* An endpoint that is given back, spoiled or not, wakes who waits for one.
LEMMA EndpointReleased ==
  ASSUME Inv, IdleValid, NEW s \in ApiSlot, apis[s].active > 0, NEW bad \in BOOLEAN,
         apis' = ReleaseEndpoint([apis EXCEPT ![s].invalid = bad], s)
  PROVE  IdleValid'
<1> DEFINE j == [apis[s] EXCEPT !.invalid = bad]
           p == [apis EXCEPT ![s] = j]
           n == p[s].active - 1
           k == [p[s] EXCEPT !.active = n]
           l == IF k.invalid /\ k.active = 0 THEN NoApi ELSE k
<1>1. TypeOK /\ apis \in [ApiSlot -> Api] /\ apis[s] \in Api /\ apis[s].active \in Nat
  BY Numbers DEF Inv, TypeOK
<1>2. p[s] = j /\ j.active = apis[s].active /\ DOMAIN p = ApiSlot /\ \A t \in ApiSlot \ {s} : p[t] = apis[t]
  BY <1>1 DEF Api
<1>3. apis' = [p EXCEPT ![s] = l]
  BY Zenon DEF ReleaseEndpoint
<1>4. n \in Nat
  BY <1>1, <1>2
<1>5. p[s] \in Api
  BY <1>1, <1>2 DEF Api
<1> HIDE DEF p, j, n
<1>6. l.invalid => l.active > 0
  <2>1. k.active = n
    BY <1>5 DEF Api
  <2>2. NoApi.invalid = FALSE
    BY DEF NoApi
  <2> HIDE DEF k
  <2> QED BY <1>4, <2>1, <2>2
<1> HIDE DEF l
<1>7. apis'[s] = l /\ \A t \in ApiSlot \ {s} : apis'[t] = apis[t]
  BY <1>2, <1>3
<1> QED BY <1>6, <1>7 DEF IdleValid

LEMMA ReleaseProxyCalm ==
  ASSUME Inv, SleepersShut, NEW r \in Worker, ReleaseProxy(r)
  PROVE  StaysCalm(r)
<1> DEFINE s == run[r].slot
<1>0. TypeOK /\ IdleValid /\ run[r].pc = "unproxy" /\ UNCHANGED <<fetching, browsers, uploading>>
  BY DEF Inv, SleepersShut, ReleaseProxy, At
<1>1. asleep[r] = ""
  BY <1>0, AwakeElsewhere DEF SleepersShut, Waiting
<1>2. MarksAside(r)
  <2>1. pin' \in {pin, Unpinned(r)} /\ avoid' \in {avoid, Avoided(r)}
    BY DEF ReleaseProxy
  <2>2. pin' = pin \/ \E n : pin' = [pin EXCEPT ![r] = n]
    BY <2>1 DEF Unpinned
  <2>3. avoid' = avoid \/ \E n : avoid' = [avoid EXCEPT ![r] = n]
    BY <2>1 DEF Avoided
  <2> QED BY <1>0, <2>2, <2>3, MarksOf
<1>3. \/ UNCHANGED <<exits, apis, asleep>>
      \/ asleep' = Wake("exit") /\ UNCHANGED apis
      \/ /\ s \in ApiSlot /\ asleep' = Wake("api") /\ UNCHANGED exits
         /\ apis' = ReleaseEndpoint([apis EXCEPT ![s].invalid = @ \/ run[r].out = "raised"], s)
  BY Zenon DEF ReleaseProxy
<1>4. CASE UNCHANGED <<exits, apis, asleep>>
  <2>1. Aloof(r)
    BY <1>0, <1>2, <1>4, CalmSelf DEF Aloof, ApisMarked, IdleValid
  <2> QED BY <1>1, <2>1, AloofCalm
<1>5. CASE asleep' = Wake("exit") /\ UNCHANGED apis
  <2>1. ApisCalm /\ BrowsersCalm /\ IdleValid'
    BY <1>0, <1>5, CalmSelf DEF IdleValid
  <2> QED BY <1>0, <1>1, <1>2, <1>5, <2>1, WakesCalm DEF Pool
<1>6. CASE /\ s \in ApiSlot /\ asleep' = Wake("api") /\ UNCHANGED exits
           /\ apis' = ReleaseEndpoint([apis EXCEPT ![s].invalid = @ \/ run[r].out = "raised"], s)
  <2> DEFINE bad == apis[s].invalid \/ run[r].out = "raised"
  <2>1. apis' = ReleaseEndpoint([apis EXCEPT ![s].invalid = bad], s) /\ bad \in BOOLEAN
    <3>1. apis[s] \in Api
      BY <1>0, <1>6, Numbers
    <3> QED BY <1>6, <3>1 DEF Api
  <2>2. apis[s].active > 0
    BY <1>6, HeldApi
  <2> HIDE DEF bad, s
  <2>3. IdleValid'
    BY <1>0, <1>6, <2>1, <2>2, EndpointReleased
  <2>4. ExitsCalm /\ BrowsersCalm
    BY <1>0, <1>6, CalmSelf
  <2> QED BY <1>0, <1>1, <1>2, <1>6, <2>3, <2>4, WakesCalm DEF Pool
<1> QED BY <1>3, <1>4, <1>5, <1>6

\* Whoever is interrupted sleeps no more, and the others are not disturbed.
LEMMA InterruptCalm ==
  ASSUME Inv, SleepersShut, NEW r \in Worker, Interrupt(r)
  PROVE  StaysCalm(r)
<1>0. /\ TypeOK /\ IdleValid /\ Located(r) /\ Sleeps(r)
      /\ UNCHANGED <<exits, apis, fetching, browsers, pin, avoid>>
      /\ uploading' = uploading \ {r}
      /\ asleep' = IF r \in uploading THEN Wake("upload") ELSE Sleep(r, "")
  BY DEF Inv, SleepersShut, Interrupt, apiVars, marks
<1>1. ExitsCalm /\ ApisCalm /\ BrowsersCalm /\ IdleValid' /\ MarksAside(r)
  BY <1>0, CalmSelf DEF IdleValid, MarksAside
<1>2. CASE r \in uploading
  <2>1. run[r].pc = "uploading"
    BY <1>0, <1>2 DEF Located
  <2>2. asleep[r] = ""
    BY <1>0, <2>1, AwakeElsewhere DEF Waiting
  <2> QED BY <1>0, <1>1, <1>2, <2>2, WakesCalm DEF Pool
<1>3. CASE r \notin uploading
  <2>1. asleep'[r] = "" /\ \A x \in Worker \ {r} : asleep'[x] = asleep[x]
    BY <1>0, <1>3, FallsAsleep
  <2>2. uploading' = uploading
    BY <1>0, <1>3
  <2>3. Calm(r)
    BY <1>1, <2>1, <2>2 DEF Calm, MarksAside
  <2> QED BY <1>1, <2>1, <2>3 DEF StaysCalm, Sleeps
<1> QED BY <1>2, <1>3

LEMMA InterruptCleanupCalm ==
  ASSUME Inv, SleepersShut, NEW r \in Worker, InterruptCleanup(r)
  PROVE  StaysCalm(r)
<1>0. /\ TypeOK /\ IdleValid
      /\ UNCHANGED <<exits, apis, fetching, uploading, pin, avoid>>
      /\ asleep' = Wake("browser") \/ UNCHANGED <<browsers, asleep>>
      /\ run[r].pc \in {"close", "closing", "unproxy"}
  BY DEF Inv, SleepersShut, InterruptCleanup, FinishRelease, exitVars, apiVars, marks
<1>1. ExitsCalm /\ ApisCalm /\ IdleValid' /\ MarksAside(r)
  BY <1>0, CalmSelf DEF IdleValid, MarksAside
<1>2. asleep[r] = ""
  BY <1>0, AwakeElsewhere DEF SleepersShut, Waiting
<1>3. CASE asleep' = Wake("browser")
  BY <1>0, <1>1, <1>2, <1>3, WakesCalm DEF Pool
<1>4. CASE UNCHANGED <<browsers, asleep>>
  <2>1. Aloof(r)
    BY <1>0, <1>1, <1>4, CalmSelf DEF Aloof, ApisMarked
  <2> QED BY <1>2, <2>1, AloofCalm
<1> QED BY <1>0, <1>3, <1>4

LEMMA SweepEases ==
  ASSUME TypeOK, NEW gone
  PROVE  /\ Eased(Retire(exits, gone))
         /\ \A s \in ExitSlot : LET k == Retire(exits, gone)[s] IN
              k.use # "free" => Busy(k) \/ (k = exits[s] /\ s \notin gone /\ ~k.retiring)
<1> DEFINE yes == TRUE
           mark(s) == IF s \in gone THEN [exits[s] EXCEPT !.retiring = yes] ELSE exits[s]
           m == [s \in DOMAIN exits |-> mark(s)]
           out == {s \in Present(m) : m[s].retiring /\ m[s].active = 0 /\ ~m[s].launching}
           e == Retire(exits, gone)
<1>0. yes = TRUE /\ NoExit.use = "free"
  BY DEF NoExit
<1>1. DOMAIN exits = ExitSlot
  BY DEF TypeOK
<1>2. e = Remove(m, out, NoExit)
  BY DEF Retire
<1> HIDE DEF yes
<1>3. ASSUME NEW s \in ExitSlot
      PROVE  /\ mark(s).use = exits[s].use /\ mark(s).active = exits[s].active
             /\ mark(s).launching = exits[s].launching /\ mark(s).active \in Nat
             /\ s \in gone => mark(s).retiring
             /\ s \notin gone => mark(s) = exits[s]
             /\ ExitCalm(exits[s], mark(s))
  <2>1. exits[s] \in Exit /\ exits[s].active \in Nat
    BY Numbers
  <2>2. CASE s \in gone
    <3> DEFINE k == [exits[s] EXCEPT !.retiring = yes]
    <3>1. /\ k.use = exits[s].use /\ k.active = exits[s].active /\ k.launching = exits[s].launching
          /\ k.retiring
      BY <1>0, <2>1 DEF Exit
    <3>2. mark(s) = k
      BY <2>2
    <3> HIDE DEF k, mark
    <3> QED BY <2>1, <2>2, <3>1, <3>2 DEF ExitCalm, Ready, Busy
  <2>3. CASE s \notin gone
    BY <2>1, <2>3, CalmSelf
  <2> QED BY <2>2, <2>3
<1> HIDE DEF mark
<1>4. m = [s \in ExitSlot |-> mark(s)]
  BY <1>1
<1> HIDE DEF m
<1>5. e = [s \in ExitSlot |-> IF s \in out THEN NoExit ELSE m[s]]
  BY <1>2, <1>4 DEF Remove
<1> HIDE DEF e
<1>6. ASSUME NEW s \in ExitSlot
      PROVE  /\ ExitCalm(exits[s], e[s])
             /\ e[s].use # "free" => Busy(e[s]) \/ (e[s] = exits[s] /\ s \notin gone /\ ~e[s].retiring)
  <2>1. m[s] = mark(s)
    BY <1>4
  <2>2. CASE s \in out
    <3>1. e[s] = NoExit /\ ~Busy(exits[s])
      BY <1>3, <1>5, <2>1, <2>2 DEF Busy
    <3> QED BY <1>0, <3>1 DEF ExitCalm, Ready
  <2>3. CASE s \notin out
    <3>1. e[s] = mark(s)
      BY <1>5, <2>1, <2>3
    <3>2. mark(s).use # "free" => ~(mark(s).retiring /\ mark(s).active = 0 /\ ~mark(s).launching)
      BY <1>4, <2>1, <2>3 DEF Present
    <3> QED BY <1>3, <3>1, <3>2 DEF Busy
  <2> QED BY <2>2, <2>3
<1>7. DOMAIN e = ExitSlot
  BY <1>5
<1> QED BY <1>6, <1>7 DEF Eased, e

\* Another slot in the place of one that nobody uses.
LEMMA EasedFurther ==
  ASSUME NEW e, Eased(e), NEW s \in ExitSlot, ~Busy(e[s])
  PROVE  /\ \A k : ~Ready(k) => Eased([e EXCEPT ![s] = k])
         /\ Eased(Remove(e, {s}, NoExit))
<1>1. ASSUME NEW k, ~Ready(k) PROVE Eased([e EXCEPT ![s] = k])
  <2>1. ExitCalm(exits[s], k)
    BY <1>1 DEF Eased, ExitCalm
  <2> QED BY <2>1 DEF Eased
<1>2. Remove(e, {s}, NoExit) = [e EXCEPT ![s] = NoExit]
  BY DEF Remove, Eased
<1>3. ~Ready(NoExit)
  BY DEF Ready, NoExit
<1> QED BY <1>1, <1>2, <1>3

\* The port of a new exit.
LEMMA RekeyedCalm ==
  ASSUME TypeOK, NEW s \in ExitSlot, exits[s].active = 0, browsers' = OldKeys(browsers, s)
  PROVE  BrowsersCalm
<1> DEFINE old(t) == [browsers[t] EXCEPT !.key = "old"]
<1>1. browsers' = [t \in BrowserSlot |-> IF browsers[t].key = s THEN old(t) ELSE browsers[t]]
  BY DEF TypeOK, OldKeys
<1>2. ASSUME NEW t \in BrowserSlot PROVE BrowserCalm(browsers[t], browsers'[t])
  <2>1. CASE browsers[t].key = s
    <3>1. browsers[t] \in Browser
      BY DEF TypeOK
    <3>2. /\ old(t).use = browsers[t].use /\ old(t).launching = browsers[t].launching
          /\ old(t).retiring = browsers[t].retiring /\ old(t).active = browsers[t].active
          /\ old(t).up = browsers[t].up /\ old(t).key = "old"
      BY <3>1 DEF Browser
    <3>3. browsers'[t] = old(t)
      BY <1>1, <2>1
    <3> HIDE DEF old
    <3> QED BY <2>1, <3>2, <3>3 DEF BrowserCalm, Ready, Rising, Spare, Idled
  <2>2. CASE browsers[t].key # s
    BY <1>1, <2>2, CalmSelf
  <2> QED BY <2>1, <2>2
<1> QED BY <1>2 DEF BrowsersCalm

LEMMA EasedCalm ==
  ASSUME TypeOK, IdleValid, NEW r \in Worker, Eased(exits'), BrowsersCalm, ExitsOnly, MarksAside(r),
         \A x \in Worker \ {r} : asleep'[x] = asleep[x], Sleeps(r)'
  PROVE  StaysCalm(r)
<1>1. ApisCalm /\ IdleValid' /\ ExitsCalm
  BY CalmSelf DEF ExitsOnly, IdleValid, Eased, ExitsCalm
<1> QED BY <1>1 DEF Calm, MarksAside, ExitsOnly, StaysCalm

LEMMA ExitWakes ==
  ASSUME TypeOK, IdleValid, NEW r \in Worker, asleep[r] = "", asleep' = Wake("exit"), BrowsersCalm,
         ExitsOnly, MarksAside(r)
  PROVE  StaysCalm(r)
<1>1. ApisCalm /\ IdleValid'
  BY CalmSelf DEF ExitsOnly, IdleValid
<1> QED BY <1>1, WakesCalm DEF Pool, ExitsOnly

LEMMA NewExitBusy ==
  \A use, n, x : ~Ready(NewExit(use, n, TRUE, x)) /\ ~Ready(NewExit(use, n, FALSE, x))
BY DEF Ready, NewExit, NoExit

\* An acquirer that finds nothing ready, and nothing it could start, sees somebody at
\* work on an exit, or avoids what is there.
LEMMA SomebodyWorks ==
  ASSUME TypeOK, NEW r \in Worker, run[r].pc = "exit", Excluded(r) = {}, NEW e,
         e = SweepForNode(exits, Allowed(r), cooling),
         ReadyExits(e, Allowed(r) \ Excluded(r)) = {}, ~(CanLaunch(r, e) /\ Present(e) = {})
  PROVE  \E s \in ExitSlot : Busy(e[s])
<1> DEFINE gone == {s \in Present(exits) : \/ exits[s].use = "bridge" \/ ~exits[s].fresh
                                           \/ exits[s].node \in cooling \/ exits[s].node \notin Allowed(r)
                                           \/ ~exits[s].up}
<1>1. e = Retire(exits, gone)
  BY DEF SweepForNode
<1>2. Eased(e) /\ \A s \in ExitSlot :
        e[s].use # "free" => Busy(e[s]) \/ (e[s] = exits[s] /\ s \notin gone /\ ~e[s].retiring)
  BY <1>1, SweepEases
<1>3. Present(e) # {}
  <2> SUFFICES ASSUME Present(e) = {} PROVE FALSE
    OBVIOUS
  <2>1. Vacant(e) # {}
    BY <1>2, PoolConstants DEF Vacant, Eased
  <2>2. Matching(e) = {}
    BY DEF Matching
  <2> QED BY <2>1, <2>2 DEF CanLaunch
<1>4. PICK s \in ExitSlot : e[s].use # "free"
  BY <1>2, <1>3 DEF Present, Eased
<1>5. SUFFICES ASSUME e[s] = exits[s], s \notin gone, ~e[s].retiring PROVE Busy(e[s])
  BY <1>2, <1>4
<1>6. exits[s] \in Exit /\ exits[s].active \in Nat /\ DOMAIN exits = ExitSlot
  BY Numbers DEF TypeOK
<1>7. e[s].node \in Allowed(r) /\ e[s].up
  BY <1>4, <1>5, <1>6 DEF Present
<1>8. s \notin ReadyExits(e, Allowed(r) \ Excluded(r)) /\ s \in Present(e)
  BY <1>2, <1>4 DEF Present, Eased
<1>9. e[s].launching \/ e[s].active # 0
  BY <1>5, <1>7, <1>8 DEF ReadyExits
<1> QED BY <1>4, <1>5, <1>6, <1>9 DEF Busy

LEMMA ScanExitsCalm ==
  ASSUME Inv, SleepersShut, UNCHANGED fixed, NEW r \in Worker, ScanExits(r)
  PROVE  StaysCalm(r)
<1> DEFINE e == SweepForNode(exits, Allowed(r), cooling)
           free == CHOOSE v \in Vacant(e) : TRUE
           waits == /\ ReadyExits(e, Allowed(r) \ Excluded(r)) = {}
                    /\ ~(CanLaunch(r, e) /\ Present(e) = {})
                    /\ exits' = e /\ asleep' = Sleep(r, "exit") /\ UNCHANGED <<run, browsers, pin, avoid>>
<1>0. /\ TypeOK /\ IdleValid /\ Sleeps(r) /\ asleep[r] = "" /\ run[r].pc = "exit"
      /\ ExitsOnly
  BY DEF Inv, SleepersShut, ScanExits, Awake, At, apiVars, ExitsOnly
<1>1. Eased(e)
  BY <1>0, SweepEases DEF SweepForNode
<1>2. \/ /\ Vacant(e) # {} /\ UNCHANGED <<asleep, pin, avoid>> /\ browsers' = OldKeys(browsers, free)
         /\ \E n : exits' = [e EXCEPT ![free] = NewExit("subscription", n, TRUE, NoNode)]
      \/ exits' = e /\ UNCHANGED <<asleep, pin, avoid, browsers>>
      \/ asleep' = Wake("exit") /\ UNCHANGED browsers /\ \E s, n : Acquired(r, s, n)
      \/ waits
  BY Zenon DEF ScanExits, CanLaunch, AcquireFailed
<1>3. CASE /\ Vacant(e) # {} /\ UNCHANGED <<asleep, pin, avoid>> /\ browsers' = OldKeys(browsers, free)
           /\ \E n : exits' = [e EXCEPT ![free] = NewExit("subscription", n, TRUE, NoNode)]
  <2>1. Swept(e) /\ free \in Vacant(e)
    BY <1>3, SweptExits
  <2>2. free \in ExitSlot /\ e[free].active = 0 /\ e[free].use = "free"
    BY <1>0, <2>1, VacantSlots DEF Vacant, Present
  <2>3. exits[free].active = 0
    BY <2>1, <2>2 DEF Swept
  <2> HIDE DEF e, free
  <2>4. Eased(exits')
    <3>1. PICK n : exits' = [e EXCEPT ![free] = NewExit("subscription", n, TRUE, NoNode)]
      BY <1>3
    <3> DEFINE k == NewExit("subscription", n, TRUE, NoNode)
    <3>2. ~Ready(k) /\ ~Busy(e[free])
      BY <2>2, NewExitBusy DEF Busy
    <3> HIDE DEF k
    <3>3. Eased([e EXCEPT ![free] = k])
      BY <1>1, <2>2, <3>2, EasedFurther
    <3> QED BY <3>1, <3>3 DEF k
  <2>5. BrowsersCalm
    BY <1>0, <1>3, <2>2, <2>3, RekeyedCalm
  <2> QED BY <1>0, <1>3, <2>4, <2>5, EasedCalm DEF MarksAside, Sleeps
<1>4. CASE exits' = e /\ UNCHANGED <<asleep, pin, avoid, browsers>>
  <2>1. BrowsersCalm
    BY <1>4, CalmSelf
  <2> QED BY <1>0, <1>1, <1>4, <2>1, EasedCalm DEF MarksAside, Sleeps
<1>5. CASE asleep' = Wake("exit") /\ UNCHANGED browsers /\ \E s, n : Acquired(r, s, n)
  <2>1. BrowsersCalm /\ MarksAside(r)
    BY <1>0, <1>5, CalmSelf, AcquiredAside
  <2> QED BY <1>0, <1>5, <2>1, ExitWakes
<1>6. CASE waits
  <2>0. /\ ReadyExits(e, Allowed(r) \ Excluded(r)) = {} /\ ~(CanLaunch(r, e) /\ Present(e) = {})
        /\ exits' = e /\ asleep' = Sleep(r, "exit") /\ UNCHANGED <<run, browsers, pin, avoid>>
    BY <1>6
  <2>1. BrowsersCalm /\ MarksAside(r) /\ Aside(r)
    BY <2>0, CalmSelf DEF MarksAside, Aside
  <2>2. asleep'[r] = "exit" /\ \A x \in Worker \ {r} : asleep'[x] = asleep[x]
    BY <1>0, <2>0, FallsAsleep
  <2>3. Excluded(r)' = Excluded(r) /\ Wanted(r)' = Wanted(r)
    BY <2>0, <2>1, WantsStand
  <2>4. Wanted(r) = Allowed(r) \ Excluded(r)
    BY <1>0 DEF Wanted, At
  <2>5. Excluded(r) # {} \/ \E s \in ExitSlot : Busy(e[s])
    BY <1>0, <2>0, SomebodyWorks
  <2>6. \A s \in ExitSlot : Ready(e[s]) => e[s].node \notin Wanted(r)
    BY <1>1, <2>0, <2>4 DEF ReadyExits, Present, Ready, Eased
  <2>7. ExitShut(r)'
    <3>1. \A s \in ExitSlot : Ready(exits'[s]) => exits'[s].node \notin Wanted(r)
      BY <2>0, <2>6
    <3>2. Excluded(r) # {} \/ \E s \in ExitSlot : Busy(exits'[s])
      BY <2>0, <2>5
    <3> QED BY <2>3, <3>1, <3>2 DEF ExitShut, Ready, Busy
  <2>8. Sleeps(r)'
    BY <1>0, <2>0, <2>2, <2>7 DEF Sleeps
  <2> QED BY <1>0, <1>1, <2>0, <2>1, <2>2, <2>8, EasedCalm
<1> QED BY <1>2, <1>3, <1>4, <1>5, <1>6

\* An exit that was started is leased, dropped for the next node, or waited for.
LEMMA ExitLaunchedCalm ==
  ASSUME Inv, SleepersShut, UNCHANGED fixed, NEW r \in Worker, ExitLaunched(r)
  PROVE  StaysCalm(r)
<1> DEFINE n == run[r].node
           native == n \in NativeNode
           s == IF native THEN CHOOSE v \in Vacant(exits) : TRUE ELSE run[r].slot
           e == Remove(exits, {s}, NoExit)
           tried == run[r].tried \cup {n}
           again(d) == [run[r] EXCEPT !.pc = "exit", !.slot = NoSlot, !.node = NoNode,
                                      !.tried = tried, !.also = run[r].also \cup {e[d].node}]
           waits(d) == /\ e[d].active = 1 /\ exits' = e /\ UNCHANGED <<pin, avoid>>
                       /\ run' = [run EXCEPT ![r] = again(d)]
                       /\ asleep' = [(IF native THEN asleep ELSE Wake("exit")) EXCEPT ![r] = "exit"]
<1>0. /\ TypeOK /\ IdleValid /\ Sleeps(r) /\ run[r].pc = "exitLaunch" /\ Located(r)
      /\ ExitsOnly /\ UNCHANGED browsers /\ run[r] \in Run
  BY DEF Inv, TypeOK, SleepersShut, ExitLaunched, At, apiVars, ExitsOnly
<1>1. asleep[r] = "" /\ BrowsersCalm
  BY <1>0, AwakeElsewhere, CalmSelf DEF Waiting
<1>2. \/ asleep' = Wake("exit") /\ ((\E t, m : Acquired(r, t, m)) \/ UNCHANGED <<pin, avoid>>)
      \/ \E x : \E d \in Duplicates(exits, s, x) : waits(d)
  BY Zenon DEF ExitLaunched
<1>3. CASE asleep' = Wake("exit") /\ ((\E t, m : Acquired(r, t, m)) \/ UNCHANGED <<pin, avoid>>)
  <2>1. MarksAside(r)
    BY <1>0, <1>3, AcquiredAside DEF MarksAside
  <2> QED BY <1>0, <1>1, <1>3, <2>1, ExitWakes
<1>4. ASSUME NEW x, NEW d \in Duplicates(exits, s, x), waits(d) PROVE StaysCalm(r)
  <2>0. /\ e[d].active = 1 /\ exits' = e /\ UNCHANGED <<pin, avoid>>
        /\ run' = [run EXCEPT ![r] = again(d)]
        /\ asleep' = [(IF native THEN asleep ELSE Wake("exit")) EXCEPT ![r] = "exit"]
    BY <1>4
  <2>1. d \in ExitSlot /\ d # s /\ exits[d].use # "free" /\ DOMAIN exits = ExitSlot
    BY <1>0 DEF Duplicates, Present, TypeOK
  <2>2. e[d] = exits[d]
    BY <2>1 DEF Remove
  <2>3. run'[r].pc = "exit" /\ run'[r].also # {}
    <3>1. run'[r] = again(d)
      BY <1>0, <2>0 DEF TypeOK
    <3>2. again(d).pc = "exit" /\ again(d).also = run[r].also \cup {e[d].node}
      BY <1>0 DEF Run
    <3> HIDE DEF again
    <3> QED BY <3>1, <3>2
  <2> HIDE DEF again, waits
  <2>4. Busy(exits'[d])
    BY <2>0, <2>1, <2>2 DEF Busy
  <2>5. ExitShut(r)'
    BY <2>1, <2>3, <2>4 DEF ExitShut, Busy
  <2>6. asleep'[r] = "exit" /\ Sleeps(r)'
    <3>1. asleep'[r] = "exit"
      BY <1>0, <2>0 DEF TypeOK, Wake
    <3> QED BY <2>3, <2>5, <3>1 DEF Sleeps
  <2>7. CASE native
    <3>1. s \in Vacant(exits)
      BY <1>0, <2>7 DEF Located
    <3>2. s \in ExitSlot /\ ~Busy(exits[s])
      BY <2>1, <3>1 DEF Vacant, Present, Busy
    <3>3. Eased(exits)
      BY <2>1, CalmSelf DEF Eased
    <3> HIDE DEF s
    <3>4. Eased(exits')
      BY <2>0, <3>2, <3>3, EasedFurther
    <3>5. \A y \in Worker \ {r} : asleep'[y] = asleep[y]
      BY <1>0, <2>0, <2>7 DEF TypeOK
    <3> QED BY <1>0, <1>1, <2>0, <2>6, <3>4, <3>5, EasedCalm DEF MarksAside
  <2>8. CASE ~native
    <3>1. \A y \in Worker \ {r} : asleep'[y] = Wake("exit")[y]
      BY <2>0, <2>8 DEF Wake
    <3>2. \A y \in Worker \ {r} : asleep'[y] \in {asleep[y], ""} /\ asleep'[y] # "exit"
      BY <3>1 DEF Wake
    <3>3. ApisCalm /\ IdleValid' /\ uploading' = uploading
      BY <1>0, CalmSelf DEF ExitsOnly, IdleValid
    <3>4. Calm(r)
      BY <1>1, <2>0, <3>2, <3>3 DEF Calm, Roused
    <3> QED BY <2>6, <3>3, <3>4 DEF StaysCalm
  <2> QED BY <2>7, <2>8
<1> HIDE DEF waits, s
<1> QED BY <1>2, <1>3, <1>4

LEMMA ExitLaunchFailsCalm ==
  ASSUME Inv, SleepersShut, NEW r \in Worker, ExitLaunchFails(r)
  PROVE  StaysCalm(r)
<1>0. /\ TypeOK /\ IdleValid /\ run[r].pc = "exitLaunch" /\ ExitsOnly /\ UNCHANGED browsers
  BY DEF Inv, SleepersShut, ExitLaunchFails, At, apiVars, ExitsOnly
<1>1. asleep[r] = "" /\ BrowsersCalm
  BY <1>0, AwakeElsewhere, CalmSelf DEF Waiting, SleepersShut
<1>2. UNCHANGED <<pin, avoid>>
  BY DEF ExitLaunchFails, AcquireFailed
<1>3. MarksAside(r)
  BY <1>2 DEF MarksAside
<1>4. CASE UNCHANGED <<exits, asleep>>
  <2>1. Aloof(r)
    BY <1>0, <1>3, <1>4, CalmSelf DEF Aloof, ExitsOnly, ApisMarked, IdleValid
  <2> QED BY <1>1, <2>1, AloofCalm
<1>5. CASE asleep' = Wake("exit")
  BY <1>0, <1>1, <1>3, <1>5, ExitWakes
<1> QED BY <1>4, <1>5 DEF ExitLaunchFails

\* Who asks for a bridge takes one, starts one or sleeps for a reason.
LEMMA ScanEntriesCalm ==
  ASSUME Inv, SleepersShut, UNCHANGED fixed, NEW r \in Worker, ScanEntries(r)
  PROVE  StaysCalm(r)
<1> DEFINE n == run[r].node
           e == SweepForEntry(exits, cooling)
           none(f) == Remove(e, f, NoExit)
           launch(f) == \E s \in Vacant(f) :
                          /\ exits' = [f EXCEPT ![s] = NewExit("bridge", n, TRUE, NoNode)]
                          /\ browsers' = OldKeys(browsers, s)
                          /\ UNCHANGED <<asleep, pin, avoid>>
           unused == {s \in Present(e) : ~e[s].launching /\ e[s].active = 0}
           waits == /\ ReadyExits(e, {n}) = {} /\ Vacant(e) = {} /\ unused = {}
                    /\ exits' = e /\ asleep' = Sleep(r, "exit") /\ UNCHANGED <<run, browsers, pin, avoid>>
<1>0. /\ TypeOK /\ IdleValid /\ asleep[r] = "" /\ run[r].pc = "entry" /\ ExitsOnly
  BY DEF Inv, SleepersShut, ScanEntries, Awake, At, apiVars, ExitsOnly
<1>1. Eased(e) /\ Swept(e)
  BY <1>0, SweepEases, SweptExits DEF SweepForEntry
<1>2. \/ asleep' = Wake("exit") /\ UNCHANGED browsers /\ \E s, m : Acquired(r, s, m)
      \/ launch(e)
      \/ \E s \in unused : launch(none({s}))
      \/ waits
  BY Zenon DEF ScanEntries
<1>3. CASE asleep' = Wake("exit") /\ UNCHANGED browsers /\ \E s, m : Acquired(r, s, m)
  <2>1. BrowsersCalm /\ MarksAside(r)
    BY <1>0, <1>3, CalmSelf, AcquiredAside
  <2> QED BY <1>0, <1>3, <2>1, ExitWakes
<1>4. ASSUME NEW f, Eased(f), Swept(f), launch(f) PROVE StaysCalm(r)
  <2>1. PICK s \in Vacant(f) :
          /\ exits' = [f EXCEPT ![s] = NewExit("bridge", n, TRUE, NoNode)]
          /\ browsers' = OldKeys(browsers, s)
          /\ UNCHANGED <<asleep, pin, avoid>>
    BY <1>4
  <2>2. s \in ExitSlot /\ f[s].active = 0 /\ f[s].use = "free"
    BY <1>0, <1>4, VacantSlots DEF Vacant, Present
  <2>3. exits[s].active = 0
    BY <1>4, <2>2 DEF Swept
  <2>4. Eased(exits')
    <3> DEFINE k == NewExit("bridge", n, TRUE, NoNode)
    <3>1. ~Ready(k) /\ ~Busy(f[s])
      BY <2>2, NewExitBusy DEF Busy
    <3> HIDE DEF k
    <3>2. Eased([f EXCEPT ![s] = k])
      BY <1>4, <2>2, <3>1, EasedFurther
    <3> QED BY <2>1, <3>2 DEF k
  <2>5. BrowsersCalm
    BY <1>0, <2>1, <2>2, <2>3, RekeyedCalm
  <2> QED BY <1>0, <2>1, <2>4, <2>5, EasedCalm DEF MarksAside, Sleeps
<1>5. ASSUME NEW s \in unused, launch(none({s})) PROVE StaysCalm(r)
  <2>1. s \in ExitSlot /\ e[s].active = 0 /\ ~Busy(e[s])
    BY <1>1 DEF Present, Eased, Busy
  <2>2. Eased(none({s})) /\ Swept(none({s}))
    BY <1>0, <1>1, <2>1, EasedFurther, SweptRemoved
  <2> HIDE DEF none, launch
  <2> QED BY <1>4, <1>5, <2>2
<1>6. CASE waits
  <2>0. /\ ReadyExits(e, {n}) = {} /\ Vacant(e) = {} /\ unused = {}
        /\ exits' = e /\ asleep' = Sleep(r, "exit") /\ UNCHANGED <<run, browsers, pin, avoid>>
    BY <1>6
  <2>1. BrowsersCalm /\ MarksAside(r) /\ Aside(r)
    BY <2>0, CalmSelf DEF MarksAside, Aside
  <2>2. asleep'[r] = "exit" /\ \A x \in Worker \ {r} : asleep'[x] = asleep[x]
    BY <1>0, <2>0, FallsAsleep
  <2>3. Wanted(r)' = Wanted(r) /\ Wanted(r) = {n}
    BY <1>0, <2>0, <2>1, WantsStand DEF Wanted, At
  <2>4. \E s \in ExitSlot : Busy(e[s])
    <3>1. PICK s \in ExitSlot : TRUE
      BY PoolConstants
    <3>2. s \in Present(e) /\ s \notin unused /\ e[s].active \in Nat
      BY <1>0, <1>1, <2>0, Numbers DEF Vacant, Eased, Swept
    <3> QED BY <3>2 DEF Present, Busy
  <2>5. \A s \in ExitSlot : Ready(e[s]) => e[s].node \notin Wanted(r)
    BY <1>1, <2>0, <2>3 DEF ReadyExits, Present, Ready, Eased
  <2>6. ExitShut(r)'
    <3>1. \A s \in ExitSlot : Ready(exits'[s]) => exits'[s].node \notin Wanted(r)
      BY <2>0, <2>5
    <3>2. \E s \in ExitSlot : Busy(exits'[s])
      BY <2>0, <2>4
    <3> QED BY <2>3, <3>1, <3>2 DEF ExitShut, Ready, Busy
  <2>7. Sleeps(r)'
    BY <1>0, <2>0, <2>2, <2>6 DEF Sleeps
  <2> QED BY <1>0, <1>1, <2>0, <2>1, <2>2, <2>7, EasedCalm
<1> HIDE DEF launch, unused, none, waits
<1> QED BY <1>1, <1>2, <1>3, <1>4, <1>5, <1>6

\* The launch of a bridge.
LEMMA EntryLaunchedCalm ==
  ASSUME Inv, SleepersShut, NEW r \in Worker, EntryLaunched(r)
  PROVE  StaysCalm(r)
<1> DEFINE s == run[r].slot
           no == FALSE
           k == [exits[s] EXCEPT !.launching = no, !.exit = run[r].node]
<1>0. /\ TypeOK /\ IdleValid /\ run[r].pc = "entryLaunch" /\ s \in ExitSlot
      /\ UNCHANGED <<apis, fetching, uploading, browsers, asleep, pin, avoid>>
  BY DEF Inv, Located, SleepersShut, EntryLaunched, At, apiVars, marks
<1>1. asleep[r] = "" /\ BrowsersCalm
  BY <1>0, AwakeElsewhere, CalmSelf DEF Waiting, SleepersShut
<1>2. exits[s].active = 1 /\ exits[s].use # "free" /\ exits[s] \in Exit
  BY <1>0, HeldExit, Numbers
<1>3. exits' = [exits EXCEPT ![s] = k]
  BY Zenon DEF EntryLaunched
<1> HIDE DEF no
<1>4. k.active = 1 /\ k.use # "free"
  BY <1>2 DEF Exit
<1> HIDE DEF k
<1>5. ExitCalm(exits[s], k)
  BY <1>2, <1>4 DEF ExitCalm, Ready, Busy
<1>6. Eased(exits')
  BY <1>0, <1>3, <1>5, CalmSelf DEF Eased, TypeOK
<1> QED BY <1>0, <1>1, <1>6, EasedCalm DEF ExitsOnly, MarksAside, Sleeps

LEMMA EntryEndsCalm ==
  ASSUME Inv, SleepersShut, NEW r \in Worker, EntryReady(r) \/ EntryLaunchFails(r)
  PROVE  StaysCalm(r)
<1>0. /\ TypeOK /\ IdleValid /\ run[r].pc \in {"entryLaunch", "entryNotify"} /\ asleep' = Wake("exit")
      /\ UNCHANGED <<apis, fetching, uploading, browsers>>
  BY DEF Inv, SleepersShut, EntryReady, EntryLaunchFails, At, apiVars
<1>1. asleep[r] = "" /\ BrowsersCalm
  BY <1>0, AwakeElsewhere, CalmSelf DEF Waiting, SleepersShut
<1>2. (\E s, n : Acquired(r, s, n)) \/ UNCHANGED <<pin, avoid>>
  BY DEF EntryReady, EntryLaunchFails, AcquireFailed
<1>3. MarksAside(r)
  BY <1>0, <1>2, AcquiredAside DEF MarksAside
<1> QED BY <1>0, <1>1, <1>3, ExitWakes DEF ExitsOnly

\* A step of nobody that leaves the pools calm.
LEMMA NobodyCalm ==
  ASSUME Inv, Inv', SleepersShut, UNCHANGED fixed, UNCHANGED <<run, fetching, uploading, asleep, pin, avoid>>,
         ExitsCalm, ApisCalm, BrowsersCalm, IdleValid'
  PROVE  SleepersShut'
<1>1. Calm(NoRunner)
  BY DEF Calm
<1>2. ASSUME NEW x \in Worker PROVE Sleeps(x)'
  <2>1. Aside(x) /\ x # NoRunner /\ Sleeps(x)
    BY AttemptConstants DEF Aside, SleepersShut
  <2> QED BY <1>1, <2>1, OthersSleep
<1> QED BY <1>2 DEF SleepersShut

\* What the pools do by themselves makes nothing available.
LEMMA EnvironmentCalm ==
  ASSUME Inv, SleepersShut, Environment
  PROVE  ExitsCalm /\ ApisCalm /\ BrowsersCalm /\ IdleValid'
<1> DEFINE no == FALSE
           aged(s) == IF exits[s].use = "subscription" THEN [exits[s] EXCEPT !.fresh = no] ELSE exits[s]
<1>0. TypeOK /\ IdleValid /\ fetching' = fetching /\ no = FALSE
  BY DEF Inv, SleepersShut, Environment
<1>1. \/ UNCHANGED <<exits, apis, browsers>>
      \/ UNCHANGED <<exits, browsers>> /\ \E s \in ApiSlot : apis' = [apis EXCEPT ![s].cooling = no]
      \/ UNCHANGED <<apis, browsers>> /\ \E s \in ExitSlot : exits' = [exits EXCEPT ![s].up = no]
      \/ UNCHANGED <<exits, apis>> /\ \E s \in BrowserSlot : browsers' = [browsers EXCEPT ![s].up = no]
      \/ UNCHANGED <<apis, browsers>> /\ exits' = [s \in ExitSlot |-> aged(s)]
  BY <1>0 DEF Environment, Present, TypeOK
<1> HIDE DEF no
<1>2. CASE UNCHANGED <<exits, apis, browsers>>
  BY <1>0, <1>2, CalmSelf DEF IdleValid
<1>3. ASSUME UNCHANGED <<exits, browsers>>, NEW s \in ApiSlot, apis' = [apis EXCEPT ![s].cooling = no]
      PROVE  ExitsCalm /\ ApisCalm /\ BrowsersCalm /\ IdleValid'
  <2> DEFINE k == [apis[s] EXCEPT !.cooling = no]
  <2>1. apis[s] \in Api
    BY <1>0, Numbers
  <2>2. ApiCalm(apis[s], k) /\ k.invalid = apis[s].invalid /\ k.active = apis[s].active
    BY <2>1 DEF Api, ApiCalm, Open
  <2>3. apis' = [apis EXCEPT ![s] = k]
    BY <1>3
  <2> HIDE DEF k
  <2>4. apis'[s] = k /\ \A t \in ApiSlot \ {s} : apis'[t] = apis[t]
    BY <1>0, <2>3 DEF TypeOK
  <2>5. ApisCalm /\ IdleValid'
    BY <1>0, <2>2, <2>4, CalmSelf DEF ApisCalm, IdleValid
  <2> QED BY <1>3, <2>5, CalmSelf
<1>4. ASSUME UNCHANGED <<apis, browsers>>, NEW s \in ExitSlot, exits' = [exits EXCEPT ![s].up = no]
      PROVE  ExitsCalm /\ ApisCalm /\ BrowsersCalm /\ IdleValid'
  <2> DEFINE k == [exits[s] EXCEPT !.up = no]
  <2>1. exits[s] \in Exit
    BY <1>0, Numbers
  <2>2. ExitCalm(exits[s], k)
    BY <1>0, <2>1 DEF Exit, ExitCalm, Ready, Busy
  <2>3. exits' = [exits EXCEPT ![s] = k]
    BY <1>4
  <2> HIDE DEF k
  <2>4. exits'[s] = k /\ \A t \in ExitSlot \ {s} : exits'[t] = exits[t]
    BY <1>0, <2>3 DEF TypeOK
  <2>5. ExitsCalm
    BY <2>2, <2>4, CalmSelf DEF ExitsCalm
  <2> QED BY <1>0, <1>4, <2>5, CalmSelf DEF IdleValid
<1>5. ASSUME UNCHANGED <<exits, apis>>, NEW s \in BrowserSlot, browsers' = [browsers EXCEPT ![s].up = no]
      PROVE  ExitsCalm /\ ApisCalm /\ BrowsersCalm /\ IdleValid'
  <2> DEFINE k == [browsers[s] EXCEPT !.up = no]
  <2>1. browsers[s] \in Browser
    BY <1>0, Numbers
  <2>2. BrowserCalm(browsers[s], k)
    BY <1>0, <2>1 DEF Browser, BrowserCalm, Ready, Rising, Spare
  <2>3. browsers' = [browsers EXCEPT ![s] = k]
    BY <1>5
  <2> HIDE DEF k
  <2>4. browsers'[s] = k /\ \A t \in BrowserSlot \ {s} : browsers'[t] = browsers[t]
    BY <1>0, <2>3 DEF TypeOK
  <2>5. BrowsersCalm
    BY <2>2, <2>4, CalmSelf DEF BrowsersCalm
  <2> QED BY <1>0, <1>5, <2>5, CalmSelf DEF IdleValid
<1>6. CASE UNCHANGED <<apis, browsers>> /\ exits' = [s \in ExitSlot |-> aged(s)]
  <2>1. ASSUME NEW s \in ExitSlot PROVE ExitCalm(exits[s], exits'[s])
    <3> DEFINE k == [exits[s] EXCEPT !.fresh = no]
    <3>1. exits[s] \in Exit
      BY <1>0, Numbers
    <3>2. ExitCalm(exits[s], k)
      BY <3>1 DEF Exit, ExitCalm, Ready, Busy
    <3>3. exits'[s] = aged(s)
      BY <1>6
    <3>4. aged(s) \in {k, exits[s]}
      OBVIOUS
    <3> HIDE DEF k, aged
    <3> QED BY <3>2, <3>3, <3>4, CalmSelf
  <2>2. ExitsCalm
    BY <2>1 DEF ExitsCalm
  <2> QED BY <1>0, <1>6, <2>2, CalmSelf DEF IdleValid
<1> HIDE DEF aged
<1> QED BY <1>1, <1>2, <1>3, <1>4, <1>5, <1>6

\* Every step of an attempt that is not a cancellation is calm.
LEMMA AttemptCalm ==
  ASSUME Inv, SleepersShut, UNCHANGED fixed, NEW r \in Worker, Attempted(r)
  PROVE  StaysCalm(r) \/ \E admin \in BOOLEAN : Cancel(r, admin)
<1> DEFINE next == CASE platform(r) = "dola" -> "send" [] platform(r) = "doubao" -> "mode" [] OTHER -> "pace"
<1>1. CASE \/ ScanExits(r) \/ ExitLaunched(r) \/ ExitLaunchFails(r)
           \/ ScanEntries(r) \/ EntryLaunched(r) \/ EntryReady(r) \/ EntryLaunchFails(r)
  BY <1>1, ScanExitsCalm, ExitLaunchedCalm, ExitLaunchFailsCalm, ScanEntriesCalm, EntryLaunchedCalm, EntryEndsCalm
<1>2. CASE ScanApis(r) \/ Fetched(r) \/ FetchFails(r)
  BY <1>2, ScanApisCalm, FetchCalm
<1>3. CASE \/ AcquireBrowser(r) \/ BrowserLaunched(r) \/ BrowserFails(r)
           \/ StartRelease(r) \/ ContextCloses(r)
  BY <1>3, AcquireBrowserCalm, BrowserSteps
<1>4. CASE ReserveUpload(r) \/ UploadBusy(r) \/ Uploaded(r) \/ UploadFails(r)
  BY <1>4, UploadSteps
<1>5. CASE ReleaseProxy(r) \/ Interrupt(r) \/ InterruptCleanup(r)
  BY <1>5, ReleaseProxyCalm, InterruptCalm, InterruptCleanupCalm
<1>6. CASE \/ Start(r) \/ ChooseSource(r) \/ NoEntry(r) \/ LoseRelease(r) \/ Return(r)
           \/ ContextOpens(r)
           \/ DolaPage(r) \/ DolaTurnedAway(r) \/ DolaAnswers(r) \/ DolaSubmitRaises(r)
           \/ DolaRecordRaises(r) \/ DolaRecord(r)
           \/ DoubaoPage(r) \/ OpenVideoEntry(r) \/ SelectVideoModel(r) \/ SelectVideoSettings(r)
           \/ FillForm(r) \/ DoubaoAnswers(r) \/ DoubaoRecord(r)
           \/ QianwenPage(r) \/ ActivateVideoMode(r) \/ EnsureVideoModel(r) \/ EnsureVideoSettings(r)
           \/ UploadReferenceImages(r) \/ FillEditor(r) \/ SyncDailyCredit(r) \/ QianwenAnswers(r)
           \/ StudioDisconnects(r) \/ QianwenRecord(r)
           \/ Begin(r, next) \/ Pace(r) \/ Send(r) \/ Resend(r)
  BY <1>6, AloofSteps, Zenon
<1> QED BY <1>1, <1>2, <1>3, <1>4, <1>5, <1>6, Zenon DEF Attempted

\* Every step leaves the sleepers a reason to sleep.
LEMMA SleepersKeep ==
  ASSUME Inv, NodesFit, SleepersShut, [Next]_vars
  PROVE  SleepersShut'
<1>0. Inv'
  BY NextKeeps
<1>1. ASSUME NEW r \in Worker, StaysCalm(r), UNCHANGED fixed, Attempted(r) PROVE SleepersShut'
  <2>1. \A x \in Worker \ {r} : Aside(x)
    BY <1>1, NodesMove DEF NodesKeep
  <2>2. \A x \in Worker \ {r} : Sleeps(x)'
    BY <1>0, <1>1, <2>1, OthersSleep DEF StaysCalm, SleepersShut
  <2> QED BY <1>1, <2>2 DEF StaysCalm, SleepersShut
<1>2. ASSUME NEW r \in Worker, NEW admin \in BOOLEAN, Cancel(r, admin), UNCHANGED fixed PROVE SleepersShut'
  <2>1. UNCHANGED <<run, exits, apis, fetching, browsers, uploading, asleep, pin, avoid>>
    BY <1>2 DEF Cancel, quiet, pools, idle, marks, exitVars
  <2>2. ExitsCalm /\ ApisCalm /\ BrowsersCalm /\ IdleValid'
    BY <2>1, CalmSelf DEF SleepersShut, IdleValid
  <2> QED BY <1>0, <1>2, <2>1, <2>2, NobodyCalm
<1>3. ASSUME Environment, UNCHANGED fixed PROVE SleepersShut'
  <2>1. UNCHANGED <<run, fetching, uploading, asleep, pin, avoid>>
    BY <1>3 DEF Environment
  <2> QED BY <1>0, <1>3, <2>1, EnvironmentCalm, NobodyCalm
<1>4. CASE UNCHANGED vars
  <2>1. UNCHANGED <<run, exits, apis, fetching, browsers, uploading, asleep, pin, avoid, fixed>>
    BY <1>4 DEF vars, exitVars, apiVars, marks
  <2>2. ExitsCalm /\ ApisCalm /\ BrowsersCalm /\ IdleValid'
    BY <2>1, CalmSelf DEF SleepersShut, IdleValid
  <2> QED BY <1>0, <2>1, <2>2, NobodyCalm
<1> QED BY <1>1, <1>2, <1>3, <1>4, AttemptCalm DEF Next

LEMMA SleepersInit ==
  ASSUME Init
  PROVE  SleepersShut
<1>1. \A x \in Worker : asleep[x] = ""
  BY DEF Init
<1>2. \A s \in ApiSlot : ~apis[s].invalid
  BY DEF Init, NoApi
<1> QED BY <1>1, <1>2 DEF SleepersShut, IdleValid, Sleeps

LEMMA SleepersSay ==
  ASSUME Inv, SleepersShut
  PROVE  NoMissedWakeup
<1>1. /\ DOMAIN exits = ExitSlot /\ DOMAIN apis = ApiSlot /\ DOMAIN browsers = BrowserSlot
      /\ \A s \in ExitSlot : exits[s] \in Exit
  BY Numbers DEF Inv, TypeOK
<1> SUFFICES ASSUME NEW r \in Worker
             PROVE  /\ asleep[r] = "exit" =>
                         /\ run[r].also = {} => ReadyExits(exits, Wanted(r)) = {}
                         /\ \/ Excluded(r) # {}
                            \/ \E s \in Present(exits) : exits[s].active > 0 \/ exits[s].launching
                    /\ asleep[r] = "api" =>
                         /\ Candidates(apis, Excluded(r)) = {}
                         /\ \/ fetching > 0
                            \/ \E s \in Present(apis) : apis[s].active > 0 \/ apis[s].node \in Excluded(r)
                    /\ asleep[r] = "browser" =>
                         /\ Usable(browsers, Key(r)) = {}
                         /\ Starting(browsers, Key(r)) \/ (Vacant(browsers) = {} /\ Idle(browsers) = {})
                    /\ asleep[r] = "upload" => Cardinality(uploading) >= UploadSlots
  BY DEF NoMissedWakeup
<1>2. Sleeps(r)
  BY DEF SleepersShut
<1>3. ASSUME asleep[r] = "exit"
      PROVE  /\ run[r].also = {} => ReadyExits(exits, Wanted(r)) = {}
             /\ \/ Excluded(r) # {}
                \/ \E s \in Present(exits) : exits[s].active > 0 \/ exits[s].launching
  <2>1. ExitShut(r)
    BY <1>2, <1>3 DEF Sleeps
  <2>2. run[r].also = {} => ReadyExits(exits, Wanted(r)) = {}
    BY <1>1, <2>1 DEF ExitShut, ReadyExits, Present, Ready
  <2>3. \/ Excluded(r) # {}
        \/ \E s \in Present(exits) : exits[s].active > 0 \/ exits[s].launching
    BY <1>1, <2>1 DEF ExitShut, Present, Busy
  <2> QED BY <2>2, <2>3
<1>4. ASSUME asleep[r] = "api"
      PROVE  /\ Candidates(apis, Excluded(r)) = {}
             /\ \/ fetching > 0
                \/ \E s \in Present(apis) : apis[s].active > 0 \/ apis[s].node \in Excluded(r)
  <2>1. ApiShut(r)
    BY <1>2, <1>4 DEF Sleeps
  <2> QED BY <1>1, <2>1 DEF ApiShut, Candidates, Free, Present, Open
<1>5. ASSUME asleep[r] = "browser"
      PROVE  /\ Usable(browsers, Key(r)) = {}
             /\ Starting(browsers, Key(r)) \/ (Vacant(browsers) = {} /\ Idle(browsers) = {})
  <2>1. BrowserShut(r)
    BY <1>2, <1>5 DEF Sleeps
  <2> QED BY <1>1, <2>1 DEF BrowserShut, Usable, Starting, Vacant, Idle, Present, Ready, Rising, Spare
<1> QED BY <1>2, <1>3, <1>4, <1>5 DEF Sleeps

-----------------------------------------------------------------------------
(* The theorems.                                                               *)

\* Whatever the runners, the platforms and the pools do, every variable keeps its
\* type: what the handlers write into records, slots and marks is what they read.
THEOREM SubmissionTypes == Spec => []TypeOK
<1>1. Init => Inv /\ NodesFit
  BY InitHolds
<1>2. Inv /\ NodesFit /\ [Next]_vars => Inv' /\ NodesFit'
  BY NextKeeps
<1>3. Inv => TypeOK
  BY InvSays
<1> QED BY <1>1, <1>2, <1>3, PTL DEF Spec

\* Leases of exits, endpoints and browsers are neither dropped nor counted twice by
\* any path through the finally blocks of an attempt: a slot's count is the number of
\* attempts that use it or lost it, a leased slot stays in its pool, and an attempt
\* that has ended holds nothing.
THEOREM LeasesKept == Spec => []LeasesStand
<1>1. Init => Inv /\ NodesFit
  BY InitHolds
<1>2. Inv /\ NodesFit /\ [Next]_vars => Inv' /\ NodesFit'
  BY NextKeeps
<1>3. Inv => LeasesStand
  BY InvSays
<1> QED BY <1>1, <1>2, <1>3, PTL DEF Spec

\* After any attempt on any platform the record of the task says that it is submitted
\* exactly when the platform took the request, unless the task was canceled or the
\* attempt lost or contradicted the answer.
THEOREM SubmissionTold == Spec => []SubmissionRecorded
<1>1. Init => Inv /\ NodesFit
  BY InitHolds
<1>2. Inv /\ NodesFit /\ [Next]_vars => Inv' /\ NodesFit'
  BY NextKeeps
<1>3. Inv => SubmissionRecorded
  BY InvSays
<1> QED BY <1>1, <1>2, <1>3, PTL DEF Spec

\* No attempt sleeps on a pool that could serve it: whatever frees or breaks a slot,
\* starts or gives up a launch or a fetch, or cuts an attempt short, wakes who waits
\* for that pool, or leaves somebody at work on it who will.
THEOREM NobodyForgotten == Spec => []NoMissedWakeup
<1>1. Init => Inv /\ NodesFit /\ SleepersShut
  BY InitHolds, SleepersInit
<1>2. Inv /\ NodesFit /\ SleepersShut /\ [Next]_vars => Inv' /\ NodesFit' /\ SleepersShut'
  BY NextKeeps, SleepersKeep
<1>3. Inv /\ SleepersShut => NoMissedWakeup
  BY SleepersSay
<1> QED BY <1>1, <1>2, <1>3, PTL DEF Spec

=============================================================================
