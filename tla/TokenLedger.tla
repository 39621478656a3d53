----------------------------- MODULE TokenLedger -----------------------------
(* The row of one client token, app/temp_access.py: its video quota, its      *)
(* points and the charge of every task.  Every function is one row-locked     *)
(* read-modify-write (postgres.mutate_temp_token), here an operator from the  *)
(* row before to the row after.  Amounts are counted in units (a tenth of a   *)
(* point); rows are of billing version 3.                                     *)
EXTENDS Integers

CONSTANTS Task

\* status "none": no entry for the task.  free: paid from the video quota.
Reservation == [status : {"none", "reserved", "refunded"}, free : BOOLEAN, units : Nat]
NoReservation == [status |-> "none", free |-> FALSE, units |-> 0]

\* video, credit, conc and first are video_quota_units, credit_units, concurrency
\* and billing_priority.
Entry == [video : Nat, credit : Nat, conc : Nat,
          first : {"video", "points"}, res : [Task -> Reservation]]
NoEntry == [gone |-> TRUE]

CreateTempToken(limit) ==
  [video |-> limit, credit |-> 0, conc |-> 1, first |-> "video",
   res |-> [t \in Task |-> NoReservation]]

AddTempCredit(e, units) == [e EXCEPT !.credit = @ + units]

\* Each answers with ValueError, and changes nothing, when the balance is short.
CanDeduct(e, units) == e.credit >= units
DeductTempPoints(e, units) == [e EXCEPT !.credit = @ - units]

CanAdjust(e, change) == e.video + change >= 0
AdjustTempVideoQuota(e, change) == [e EXCEPT !.video = @ + change]

\* The concurrency becomes the package's, whichever membership is active.
PurchaseTempMembership(e, price, bonus, conc) ==
  [e EXCEPT !.credit = @ - price, !.video = @ + bonus, !.conc = conc]

UpdateConcurrency(e, conc) == [e EXCEPT !.conc = conc]
SetBillingPriority(e, first) == [e EXCEPT !.first = first]

\* The video quota pays, unless the owner prefers points and has enough.
FreeUsed(e, cost, video) ==
  e.video >= video /\ ~(e.first = "points" /\ e.credit >= cost)

\* A reservation that stands is kept; a closed one, or an empty balance, refuses
\* (QuotaExceeded).
CanReserve(e, t, cost, video) ==
  \/ e.res[t].status = "reserved"
  \/ e.res[t].status = "none" /\ (FreeUsed(e, cost, video) \/ e.credit >= cost)

\* Mutant: a repeated reservation of the same task charges again.
ReserveAgain(e, t, cost, video) ==
  IF FreeUsed(e, cost, video)
    THEN [e EXCEPT !.video = @ - video,
                   !.res[t] = [status |-> "reserved", free |-> TRUE, units |-> video]]
    ELSE [e EXCEPT !.credit = @ - cost,
                   !.res[t] = [status |-> "reserved", free |-> FALSE, units |-> cost]]

ReserveTempQuota(e, t, cost, video) ==
  IF e.res[t].status = "reserved" THEN e
  ELSE IF FreeUsed(e, cost, video)
    THEN [e EXCEPT !.video = @ - video,
                   !.res[t] = [status |-> "reserved", free |-> TRUE, units |-> video]]
    ELSE [e EXCEPT !.credit = @ - cost,
                   !.res[t] = [status |-> "reserved", free |-> FALSE, units |-> cost]]

\* What was charged goes back where it came from, whatever the price is now.
RefundTempQuota(e, t) ==
  LET r == e.res[t]
  IN  IF r.status # "reserved" THEN e
      ELSE [e EXCEPT !.video = IF r.free THEN @ + r.units ELSE @,
                     !.credit = IF r.free THEN @ ELSE @ + r.units,
                     !.res[t].status = "refunded"]
=============================================================================
