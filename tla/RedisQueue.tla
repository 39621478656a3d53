------------------------------ MODULE RedisQueue ------------------------------
(* What Redis holds about one task (app/task_queue.py), and the effect of each *)
(* script, pipeline and command on it.  The ready lists are kept as the number *)
(* of occurrences of the task: LPUSH can enter a task twice, LREM 0 removes    *)
(* every occurrence and LMOVE takes one.  Nothing here depends on the order of *)
(* the lists (module ClaimLanes is about which list is served).                *)
EXTENDS Naturals

CONSTANTS
  Id,        \* worker ids, NoWorker among them
  NoWorker

Entry == [ready        : Nat,
          retryReady   : Nat,
          processing   : BOOLEAN,
          delayed      : {"no", "future", "due"},   \* member of the zset, score past or not
          retryDelayed : {"no", "future", "due"},
          lease        : {"none", "live", "expired"},
          owner        : Id,
          known        : BOOLEAN]

NoEntry == [ready |-> 0, retryReady |-> 0, processing |-> FALSE, delayed |-> "no",
            retryDelayed |-> "no", lease |-> "none", owner |-> NoWorker, known |-> FALSE]

Queued(e) == e.ready > 0 \/ e.retryReady > 0 \/ e.delayed # "no" \/ e.retryDelayed # "no"

When(future) == IF future THEN "future" ELSE "due"

LPush(e, retry) == IF retry THEN [e EXCEPT !.retryReady = @ + 1] ELSE [e EXCEPT !.ready = @ + 1]

ZAdd(e, retry, future) ==
  IF retry THEN [e EXCEPT !.retryDelayed = When(future)] ELSE [e EXCEPT !.delayed = When(future)]

\* SADD known guards the push: a task already known is left alone.
Enqueue(e, retry, future) ==
  IF e.known THEN e
  ELSE IF future THEN ZAdd([e EXCEPT !.known = TRUE], retry, TRUE)
  ELSE LPush([e EXCEPT !.known = TRUE], retry)

\* One script: out of every list and set, lease and owner dropped, then one entry.
Requeue(e, retry, future) ==
  LET clean == [NoEntry EXCEPT !.known = TRUE]
  IN IF future THEN ZAdd(clean, retry, TRUE) ELSE LPush(clean, retry)

\* Mutant: only the retry lane is promoted.
PromoteRetryLaneOnly(e) ==
  [e EXCEPT !.retryReady = IF e.retryDelayed = "due" THEN @ + 1 ELSE @,
            !.retryDelayed = IF @ = "due" THEN "no" ELSE @]

\* _promote: each due member of a zset moves to its ready list.
Promote(e) ==
  [e EXCEPT !.ready = IF e.delayed = "due" THEN @ + 1 ELSE @,
            !.delayed = IF @ = "due" THEN "no" ELSE @,
            !.retryReady = IF e.retryDelayed = "due" THEN @ + 1 ELSE @,
            !.retryDelayed = IF @ = "due" THEN "no" ELSE @]

\* Mutant: the entry is taken off the other list.
LMoveFromOtherList(e, retry) ==
  IF retry THEN [e EXCEPT !.ready = @ - 1, !.processing = TRUE]
           ELSE [e EXCEPT !.retryReady = @ - 1, !.processing = TRUE]

\* LMOVE ready|retry-ready -> processing.
LMove(e, retry) ==
  IF retry THEN [e EXCEPT !.retryReady = @ - 1, !.processing = TRUE]
           ELSE [e EXCEPT !.ready = @ - 1, !.processing = TRUE]

\* The pipeline that closes a claim: HSET owners, ZADD leases.
TakeLease(e, w) == [e EXCEPT !.owner = w, !.lease = "live"]

DelayClaimed(e, retry, future) ==
  [e EXCEPT !.processing = FALSE, !.lease = "none", !.owner = NoWorker,
            !.delayed = IF retry THEN "no" ELSE When(future),
            !.retryDelayed = IF retry THEN When(future) ELSE "no"]

Ack(e) == NoEntry

\* Only the owner may refresh, and only a lease that still exists.
Heartbeat(e, w) == IF e.owner = w /\ e.lease # "none" THEN [e EXCEPT !.lease = "live"] ELSE e

\* Mutant: the delayed task keeps its lease and owner.
DelayOwnedKeepsLease(e, w, retry, future) ==
  IF e.owner # w THEN e ELSE ZAdd([e EXCEPT !.processing = FALSE], retry, future)

DelayOwned(e, w, retry, future) ==
  IF e.owner # w THEN e
  ELSE ZAdd([e EXCEPT !.processing = FALSE, !.lease = "none", !.owner = NoWorker], retry, future)

\* The script acts for the owner only; the two commands after it act for anyone.
AckOwned(e, w) ==
  LET acked == IF e.owner # w THEN e
               ELSE [e EXCEPT !.processing = FALSE, !.lease = "none", !.owner = NoWorker,
                              !.delayed = "no", !.known = FALSE]
  IN [acked EXCEPT !.retryReady = 0, !.retryDelayed = "no"]

\* Mutant: the owners hash keeps the owner of an expired lease.
DropLeaseOnly(e) == [e EXCEPT !.lease = "none", !.processing = FALSE]

\* recover's script: an expired lease is removed with its owner and processing entry.
DropExpired(e) == [e EXCEPT !.lease = "none", !.owner = NoWorker, !.processing = FALSE]

SRem(e) == [e EXCEPT !.known = FALSE]
=============================================================================
