---------------------------- MODULE FairCapacity ----------------------------
(* fair_owner_capacity_limits (app/resilience.py): how the concurrency of the   *)
(* platform is dealt out to the owners that contend for it.  The loops of the   *)
(* function are steps, its arguments are chosen in the initial state.           *)
EXTENDS Naturals, FiniteSets

CONSTANTS
  N,           \* number of owners; sorted(requested) is 1..N
  MaxRequest,  \* bound on a requested limit
  MaxCapacity  \* bound on the capacity

ASSUME CapacityConstants == N \in Nat /\ MaxRequest \in Nat /\ MaxCapacity \in Nat

Owners == 1..N

VARIABLES
  requested,   \* argument, each at least one
  capacity,    \* argument
  limits,      \* the result
  remaining,   \* what is left to deal out
  at,          \* where the function is
  i,           \* position of the for loop
  progressed

vars == <<requested, capacity, limits, remaining, at, i, progressed>>

AtLeastOne(n) == IF n > 1 THEN n ELSE 1

TypeOK ==
  /\ requested \in [Owners -> Nat \ {0}]
  /\ capacity \in Nat
  /\ limits \in [Owners -> Nat \ {0}]
  /\ remaining \in Nat
  /\ at \in {"while", "for", "done"}
  /\ i \in 1..(N + 1)
  /\ progressed \in BOOLEAN

Init ==
  /\ \E raw \in [Owners -> 0..MaxRequest] : requested = [o \in Owners |-> AtLeastOne(raw[o])]
  /\ capacity \in 0..MaxCapacity
  /\ limits = [o \in Owners |-> 1]
  /\ remaining = IF capacity > N THEN capacity - N ELSE 0
  /\ at = "while" /\ i = 1 /\ progressed = FALSE

-----------------------------------------------------------------------------
While ==
  /\ at = "while"
  /\ IF remaining > 0 THEN at' = "for" /\ i' = 1 /\ progressed' = FALSE
                      ELSE at' = "done" /\ UNCHANGED <<i, progressed>>
  /\ UNCHANGED <<requested, capacity, limits, remaining>>

Full(o) == limits[o] >= requested[o]

\* Mutant: every unit starts a new round, at the first owner.
DealToFirst == /\ limits' = [limits EXCEPT ![i] = @ + 1]
               /\ remaining' = remaining - 1
               /\ progressed' = TRUE
               /\ at' = "while" /\ i' = i
\* One unit for the owner at position i; nothing left ends the loop.
Deal == /\ limits' = [limits EXCEPT ![i] = @ + 1]
        /\ remaining' = remaining - 1
        /\ progressed' = TRUE
        /\ IF remaining <= 1 THEN at' = "while" /\ i' = i ELSE at' = at /\ i' = i + 1

ForOwner ==
  /\ at = "for" /\ i \in Owners
  /\ \/ Full(i) /\ i' = i + 1 /\ UNCHANGED <<limits, remaining, progressed, at>>
     \/ ~Full(i) /\ Deal
  /\ UNCHANGED <<requested, capacity>>

\* Mutant: the loop ends after one round.
OneRound == "done"
\* Mutant: a round without progress does not end the loop.
RoundAgain == "while"
\* A round in which nobody could take a unit is the last.
AfterRound == IF progressed THEN "while" ELSE "done"

ForEnd ==
  /\ at = "for" /\ i = N + 1
  /\ at' = AfterRound
  /\ UNCHANGED <<requested, capacity, limits, remaining, i, progressed>>

Done == at = "done" /\ UNCHANGED vars

Next == While \/ ForOwner \/ ForEnd \/ Done

Spec == Init /\ [][Next]_vars
FairSpec == Spec /\ WF_vars(Next)

-----------------------------------------------------------------------------
\* Max-min fairness: an owner that got less than it asked for is at most one unit
\* behind any other, and nobody gets more than it asked for.
MaxMinFair ==
  /\ \A o \in Owners : limits[o] <= requested[o]
  /\ \A a, b \in Owners : limits[a] < requested[a] => limits[b] <= limits[a] + 1

\* The units dealt out, or asked for: owner o has the units 1..f[o].
Units(f) == UNION {{o} \X (1..f[o]) : o \in Owners}
Total(f) == Cardinality(Units(f))

\* The result deals out the whole capacity, or all that was asked for, and never less
\* than one each: no unit is lost when a round breaks off in the middle.
AllDealt ==
  at = "done" =>
    Total(limits) = IF capacity < N THEN N
                    ELSE IF capacity < Total(requested) THEN capacity ELSE Total(requested)

\* The function returns, whatever it is asked.
Returns == <>(at = "done")
=============================================================================
