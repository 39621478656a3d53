------------------------- MODULE FairCapacity_proofs -------------------------
(* Proofs about FairCapacity for every number of owners and all arguments. *)
EXTENDS FairCapacity, FiniteSetTheorems, TLAPS

\* Owner o got less than it asked for so far.
Short(o) == limits[o] < requested[o]

\* Between two rounds: no owner is ahead of one that is short.
Level == \A a, b \in Owners : Short(a) => limits[b] <= limits[a]

\* Within a round: the owners before i have had their turn and are one unit ahead.
InRound ==
  \A a, b \in Owners : Short(a) =>
    /\ a >= i /\ b >= i => limits[b] <= limits[a]
    /\ a >= i /\ b < i => limits[b] <= limits[a] + 1
    /\ a < i /\ b >= i => limits[b] + 1 <= limits[a]
    /\ a < i /\ b < i => limits[b] <= limits[a]

\* The inductive invariant: fairness, and why the next unit keeps it.
Dealing ==
  /\ MaxMinFair
  /\ at = "while" => remaining = 0 \/ Level
  /\ at = "for" => remaining > 0 /\ InRound

\* The arguments are typed, and the first limits are one each.
LEMMA DealingInit == Init => TypeOK /\ Dealing
<1> SUFFICES ASSUME Init PROVE TypeOK /\ Dealing
  OBVIOUS
<1>1. PICK raw \in [Owners -> 0..MaxRequest] : requested = [o \in Owners |-> AtLeastOne(raw[o])]
  BY DEF Init
<1>2. \A o \in Owners : AtLeastOne(raw[o]) \in Nat \ {0}
  BY <1>1, CapacityConstants DEF AtLeastOne
<1>3. requested \in [Owners -> Nat \ {0}]
  BY <1>1, <1>2
<1>4. TypeOK
  <2>1. capacity \in Nat /\ remaining \in Nat /\ i \in 1..(N + 1)
    BY CapacityConstants DEF Init
  <2>2. limits \in [Owners -> Nat \ {0}]
    BY DEF Init
  <2> QED BY <1>3, <2>1, <2>2 DEF Init, TypeOK
<1>5. \A o \in Owners : limits[o] = 1 /\ requested[o] >= 1
  BY <1>3 DEF Init
<1> QED BY <1>4, <1>5 DEF Init, Dealing, MaxMinFair, Level, Short

\* The turn of an owner keeps the invariant.
LEMMA TurnStep ==
  ASSUME TypeOK, Dealing, ForOwner
  PROVE  TypeOK' /\ Dealing'
<1> USE CapacityConstants DEF Owners
<1>1. at = "for" /\ i \in Owners /\ remaining > 0 /\ InRound /\ MaxMinFair
  BY DEF ForOwner, Dealing
<1>2. /\ limits \in [Owners -> Nat \ {0}] /\ requested \in [Owners -> Nat \ {0}]
      /\ requested' = requested
  BY DEF TypeOK, ForOwner
<1>3. CASE Full(i) /\ i' = i + 1 /\ UNCHANGED <<limits, remaining, progressed, at>>
  <2>0. i' \in 1..(N + 1)
    BY <1>1, <1>3
  <2>1. TypeOK'
    BY <1>2, <1>3, <2>0 DEF TypeOK, ForOwner
  <2>2. InRound'
    <3> SUFFICES ASSUME NEW a \in Owners, NEW b \in Owners, Short(a)
                 PROVE  /\ a >= i + 1 /\ b >= i + 1 => limits[b] <= limits[a]
                        /\ a >= i + 1 /\ b < i + 1 => limits[b] <= limits[a] + 1
                        /\ a < i + 1 /\ b >= i + 1 => limits[b] + 1 <= limits[a]
                        /\ a < i + 1 /\ b < i + 1 => limits[b] <= limits[a]
      BY <1>2, <1>3 DEF InRound, Short
    <3>1. limits[a] \in Nat /\ limits[b] \in Nat /\ requested[a] \in Nat /\ a # i
      BY <1>2, <1>3 DEF Short, Full
    <3> QED BY <1>1, <3>1 DEF InRound
  <2>3. MaxMinFair'
    BY <1>1, <1>2, <1>3 DEF MaxMinFair
  <2> QED BY <1>1, <1>3, <2>1, <2>2, <2>3 DEF Dealing
<1>4. CASE ~Full(i) /\ Deal
  <2>1. /\ limits' = [limits EXCEPT ![i] = @ + 1]
        /\ remaining' = remaining - 1 /\ progressed' = TRUE
        /\ Short(i)
    BY <1>1, <1>2, <1>4 DEF Deal, Full, Short
  <2>2. /\ limits'[i] = limits[i] + 1
        /\ \A o \in Owners : o # i => limits'[o] = limits[o]
        /\ limits' \in [Owners -> Nat \ {0}]
    BY <1>1, <1>2, <2>1, SMTT(30)
  <2>0. i' \in 1..(N + 1) /\ at' \in {"while", "for"} /\ remaining' \in Nat
    BY <1>1, <1>4, <2>1 DEF Deal, TypeOK
  <2>3. TypeOK'
    BY <1>2, <2>0, <2>1, <2>2 DEF TypeOK, ForOwner
  <2>4. MaxMinFair'
    <3>1. ASSUME NEW o \in Owners
          PROVE  limits'[o] <= requested[o]
      <4>1. limits[o] <= requested[o] /\ limits[o] \in Nat /\ requested[o] \in Nat
        BY <1>1, <1>2 DEF MaxMinFair
      <4> QED BY <2>1, <2>2, <4>1 DEF Short
    <3>2. ASSUME NEW a \in Owners, NEW b \in Owners, limits'[a] < requested[a]
          PROVE  limits'[b] <= limits'[a] + 1
      <4>1. /\ limits[a] \in Nat /\ limits[b] \in Nat /\ requested[a] \in Nat
            /\ limits'[a] = IF a = i THEN limits[a] + 1 ELSE limits[a]
            /\ limits'[b] = IF b = i THEN limits[b] + 1 ELSE limits[b]
        BY <1>1, <1>2, <2>2
      <4>2. Short(a) /\ limits[b] <= limits[a] + 1
        BY <1>1, <3>2, <4>1 DEF MaxMinFair, Short
      <4>3. b = i => limits[b] <= limits[a]
        BY <1>1, <4>1, <4>2 DEF InRound
      <4> QED BY <4>1, <4>2, <4>3
    <3> QED BY <1>2, <3>1, <3>2 DEF MaxMinFair
  <2>5. CASE remaining <= 1
    BY <1>1, <1>4, <2>1, <2>3, <2>4, <2>5 DEF Dealing, Deal, TypeOK
  <2>6. CASE ~(remaining <= 1)
    <3>1. i' = i + 1 /\ at' = "for" /\ remaining' > 0
      BY <1>1, <1>4, <2>1, <2>6 DEF Deal, TypeOK
    <3>2. InRound'
      <4> SUFFICES ASSUME NEW a \in Owners, NEW b \in Owners, limits'[a] < requested[a]
                   PROVE  /\ a >= i + 1 /\ b >= i + 1 => limits'[b] <= limits'[a]
                          /\ a >= i + 1 /\ b < i + 1 => limits'[b] <= limits'[a] + 1
                          /\ a < i + 1 /\ b >= i + 1 => limits'[b] + 1 <= limits'[a]
                          /\ a < i + 1 /\ b < i + 1 => limits'[b] <= limits'[a]
        BY <1>2, <3>1 DEF InRound, Short
      <4>1. /\ limits[a] \in Nat /\ limits[b] \in Nat /\ limits[i] \in Nat /\ requested[a] \in Nat
            /\ limits'[a] = IF a = i THEN limits[a] + 1 ELSE limits[a]
            /\ limits'[b] = IF b = i THEN limits[b] + 1 ELSE limits[b]
        BY <1>1, <1>2, <2>2
      <4>2. Short(a)
        BY <4>1, <1>2, <2>1 DEF Short
      <4>3. CASE a = i
        BY <1>1, <2>1, <4>1, <4>2, <4>3 DEF InRound
      <4>4. CASE a # i
        BY <1>1, <2>1, <4>1, <4>2, <4>4 DEF InRound
      <4> QED BY <4>3, <4>4
    <3> QED BY <2>3, <2>4, <3>1, <3>2 DEF Dealing
  <2> QED BY <2>5, <2>6
<1> QED BY <1>3, <1>4 DEF ForOwner

\* Every step keeps the types and the invariant.
LEMMA DealingStep ==
  ASSUME TypeOK, Dealing, [Next]_vars
  PROVE  TypeOK' /\ Dealing'
<1>1. CASE While
  <2>0. i' \in 1..(N + 1) /\ at' \in {"for", "done"} /\ progressed' \in BOOLEAN
    <3>1. 1 \in 1..(N + 1) /\ i \in 1..(N + 1) /\ progressed \in BOOLEAN
      BY CapacityConstants DEF TypeOK
    <3> QED BY <1>1, <3>1 DEF While
  <2>1. TypeOK'
    BY <1>1, <2>0 DEF While, TypeOK
  <2>2. CASE remaining > 0
    BY <1>1, <2>1, <2>2 DEF While, Dealing, MaxMinFair, Level, InRound, Short, TypeOK, Owners
  <2>3. CASE ~(remaining > 0)
    BY <1>1, <2>1, <2>3 DEF While, Dealing, MaxMinFair
  <2> QED BY <2>2, <2>3
<1>2. CASE ForOwner
  BY <1>2, TurnStep
<1>3. CASE ForEnd
  <2>1. TypeOK'
    BY <1>3 DEF ForEnd, TypeOK, AfterRound
  <2>2. Level
    BY <1>3, CapacityConstants DEF ForEnd, Dealing, InRound, Level, Owners
  <2> QED BY <1>3, <2>1, <2>2 DEF ForEnd, AfterRound, Dealing, MaxMinFair, Level, Short
<1>4. CASE Done \/ UNCHANGED vars
  BY <1>4 DEF Done, vars, TypeOK, Dealing, MaxMinFair, Level, InRound, Short
<1> QED BY <1>1, <1>2, <1>3, <1>4 DEF Next

\* The capacity is dealt out max-min fairly to any number of owners, whatever they
\* ask for and however much there is.
THEOREM FairDealing == Spec => []MaxMinFair
<1>1. TypeOK /\ Dealing /\ [Next]_vars => TypeOK' /\ Dealing'
  BY DealingStep
<1>2. Dealing => MaxMinFair
  BY DEF Dealing
<1> QED BY DealingInit, <1>1, <1>2, PTL DEF Spec

\* Where every unit is: what is dealt and what remains is the capacity, at least one
\* each; a round without progress has met full owners only, and the dealing ends when
\* nothing remains or every owner is full.
Accounted ==
  /\ \A o \in Owners : requested[o] <= MaxRequest + 1
  /\ Total(limits) + remaining = IF capacity < N THEN N ELSE capacity
  /\ capacity <= N => remaining = 0
  /\ at = "for" /\ ~progressed => \A o \in Owners : o < i => Full(o)
  /\ at = "done" => remaining = 0 \/ \A o \in Owners : Full(o)

\* A unit is an owner and a number up to what the owner has.
LEMMA UnitOf ==
  ASSUME NEW f \in [Owners -> Nat]
  PROVE  \A u : u \in Units(f) <=> \E o \in Owners : \E k \in 1..f[o] : u = <<o, k>>
PROOF
  BY DEF Units

\* What is asked for within a bound is finite.
LEMMA UnitsFinite ==
  ASSUME NEW f \in [Owners -> Nat], \A o \in Owners : f[o] <= MaxRequest + 1
  PROVE  IsFiniteSet(Units(f)) /\ Total(f) \in Nat
<1> USE CapacityConstants
<1>1. IsFiniteSet(Owners) /\ IsFiniteSet(1..(MaxRequest + 1))
  BY FS_Interval DEF Owners
<1>2. IsFiniteSet(Owners \X (1..(MaxRequest + 1)))
  BY <1>1, FS_Product
<1>3. Units(f) \subseteq Owners \X (1..(MaxRequest + 1))
  <2> SUFFICES ASSUME NEW o \in Owners, NEW k \in 1..f[o]
               PROVE  <<o, k>> \in Owners \X (1..(MaxRequest + 1))
    BY UnitOf
  <2>1. f[o] \in Nat /\ f[o] <= MaxRequest + 1
    OBVIOUS
  <2>2. k \in 1..(MaxRequest + 1)
    BY <2>1
  <2> QED BY <2>2
<1> QED BY <1>2, <1>3, FS_Subset, FS_CardinalityType DEF Total

\* One unit more for one owner is one unit more in all.
LEMMA UnitDealt ==
  ASSUME NEW f \in [Owners -> Nat], NEW g \in [Owners -> Nat], NEW o \in Owners,
         IsFiniteSet(Units(f)), g = [f EXCEPT ![o] = @ + 1]
  PROVE  Total(g) = Total(f) + 1
<1>1. Units(g) = Units(f) \cup {<<o, f[o] + 1>>}
  <2>1. ASSUME NEW p \in Owners, NEW k \in 1..g[p]
        PROVE  <<p, k>> \in Units(f) \cup {<<o, f[o] + 1>>}
    <3>1. CASE p = o
      <4>1. g[p] = f[o] + 1 /\ f[o] \in Nat
        BY <3>1
      <4>2. k \in 1..f[o] \/ k = f[o] + 1
        BY <4>1
      <4> QED BY <3>1, <4>2, UnitOf
    <3>2. CASE p # o
      BY <3>2, UnitOf
    <3> QED BY <3>1, <3>2
  <2>2. ASSUME NEW p \in Owners, NEW k \in 1..f[p] PROVE <<p, k>> \in Units(g)
    <3>1. f[p] \in Nat /\ (g[p] = f[p] \/ g[p] = f[p] + 1)
      OBVIOUS
    <3>2. k \in 1..g[p]
      BY <3>1
    <3> QED BY <3>2, UnitOf
  <2>3. <<o, f[o] + 1>> \in Units(g)
    <3>1. g[o] = f[o] + 1 /\ f[o] \in Nat
      OBVIOUS
    <3>2. f[o] + 1 \in 1..g[o]
      BY <3>1
    <3> QED BY <3>2, UnitOf
  <2>4. Units(g) \subseteq Units(f) \cup {<<o, f[o] + 1>>}
    <3> SUFFICES ASSUME NEW u \in Units(g) PROVE u \in Units(f) \cup {<<o, f[o] + 1>>}
      BY Zenon
    <3>1. PICK p \in Owners : \E k \in 1..g[p] : u = <<p, k>>
      BY UnitOf
    <3> QED BY <2>1, <3>1, Zenon
  <2>5. Units(f) \subseteq Units(g)
    <3> SUFFICES ASSUME NEW u \in Units(f) PROVE u \in Units(g)
      BY Zenon
    <3>1. PICK p \in Owners : \E k \in 1..f[p] : u = <<p, k>>
      BY UnitOf
    <3> QED BY <2>2, <3>1, Zenon
  <2> QED BY <2>3, <2>4, <2>5
<1>2. <<o, f[o] + 1>> \notin Units(f)
  <2> SUFFICES ASSUME NEW p \in Owners, NEW k \in 1..f[p], <<o, f[o] + 1>> = <<p, k>>
               PROVE  FALSE
    BY UnitOf, Zenon
  <2>1. p = o /\ k = f[o] + 1 /\ f[o] \in Nat
    OBVIOUS
  <2> QED BY <2>1
<1> QED BY <1>1, <1>2, FS_AddElement DEF Total

\* What is within a bound owner by owner is so in all.
LEMMA TotalsCompare ==
  ASSUME NEW f \in [Owners -> Nat], NEW g \in [Owners -> Nat],
         IsFiniteSet(Units(g)), \A o \in Owners : f[o] <= g[o]
  PROVE  Total(f) <= Total(g)
<1>1. ASSUME NEW o \in Owners, NEW k \in 1..f[o] PROVE <<o, k>> \in Units(g)
  <2>1. f[o] \in Nat /\ g[o] \in Nat /\ f[o] <= g[o]
    OBVIOUS
  <2>2. k \in 1..g[o]
    BY <2>1
  <2> QED BY <2>2, UnitOf
<1>2. Units(f) \subseteq Units(g)
  <2>1. \A u \in Units(f) : \E o \in Owners : \E k \in 1..f[o] : u = <<o, k>>
    BY UnitOf
  <2> QED BY <1>1, <2>1
<1> QED BY <1>2, FS_Subset DEF Total

\* One unit each makes as many as there are owners.
LEMMA OneEach == Total([o \in Owners |-> 1]) = N
<1> DEFINE f == [o \in Owners |-> 1]
<1>1. f \in [Owners -> Nat] /\ IsFiniteSet(Owners) /\ Cardinality(Owners) = N
  BY CapacityConstants, FS_Interval DEF Owners
<1>2. Units(f) = Owners \X {1}
  <2>1. \A o \in Owners : 1..f[o] = {1}
    OBVIOUS
  <2>2. \A u : u \in Units(f) <=> \E o \in Owners : \E k \in {1} : u = <<o, k>>
    BY <1>1, <2>1, UnitOf
  <2> QED BY <2>2
<1>3. Cardinality(Owners \X {1}) = N * 1
  <2>1. IsFiniteSet({1}) /\ Cardinality({1}) = 1
    BY FS_Singleton
  <2> QED BY <1>1, <2>1, FS_Product
<1> QED BY <1>2, <1>3, CapacityConstants DEF Total

\* What the dealing starts from.
LEMMA AccountedInit == Init => Accounted
<1> SUFFICES ASSUME Init PROVE Accounted
  OBVIOUS
<1> USE CapacityConstants
<1>1. PICK raw \in [Owners -> 0..MaxRequest] : requested = [o \in Owners |-> AtLeastOne(raw[o])]
  BY DEF Init
<1>2. \A o \in Owners : requested[o] <= MaxRequest + 1
  <2> SUFFICES ASSUME NEW o \in Owners PROVE AtLeastOne(raw[o]) <= MaxRequest + 1
    BY <1>1
  <2>1. raw[o] \in 0..MaxRequest
    OBVIOUS
  <2> QED BY <2>1 DEF AtLeastOne
<1>3. Total(limits) = N
  BY OneEach DEF Init
<1>4. capacity \in Nat /\ remaining = IF capacity > N THEN capacity - N ELSE 0
  BY DEF Init
<1>5. at = "while"
  BY DEF Init
<1> QED BY <1>2, <1>3, <1>4, <1>5 DEF Accounted

\* Limits within the requests have finitely many units.
LEMMA DealtFinite ==
  ASSUME TypeOK, MaxMinFair, Accounted
  PROVE  /\ limits \in [Owners -> Nat] /\ requested \in [Owners -> Nat]
         /\ IsFiniteSet(Units(limits)) /\ Total(limits) \in Nat
         /\ IsFiniteSet(Units(requested)) /\ Total(requested) \in Nat
<1>1. limits \in [Owners -> Nat] /\ requested \in [Owners -> Nat]
  BY DEF TypeOK
<1>2. ASSUME NEW o \in Owners PROVE limits[o] <= MaxRequest + 1
  <2>1. limits[o] \in Nat /\ requested[o] \in Nat /\ limits[o] <= requested[o] /\ requested[o] <= MaxRequest + 1
    BY <1>1 DEF MaxMinFair, Accounted
  <2> QED BY <2>1, CapacityConstants
<1>3. IsFiniteSet(Units(limits)) /\ Total(limits) \in Nat
  BY <1>1, <1>2, UnitsFinite
<1>4. IsFiniteSet(Units(requested)) /\ Total(requested) \in Nat
  BY <1>1, UnitsFinite DEF Accounted
<1> QED BY <1>1, <1>3, <1>4

\* A turn deals one unit or meets a full owner.
LEMMA AccountedTurn ==
  ASSUME TypeOK, Dealing, Accounted, ForOwner
  PROVE  Accounted'
<1> USE CapacityConstants
<1>1. /\ at = "for" /\ i \in Owners /\ remaining > 0 /\ MaxMinFair /\ requested' = requested
      /\ capacity' = capacity /\ remaining \in Nat /\ capacity \in Nat
  BY DEF ForOwner, Dealing, TypeOK
<1>2. limits \in [Owners -> Nat] /\ IsFiniteSet(Units(limits)) /\ Total(limits) \in Nat
  BY <1>1, DealtFinite
<1>3. CASE Full(i) /\ i' = i + 1 /\ UNCHANGED <<limits, remaining, progressed, at>>
  <2>1. ASSUME ~progressed, NEW o \in Owners, o < i + 1 PROVE Full(o)
    <3>1. o < i \/ o = i
      BY <1>1, <2>1 DEF Owners
    <3> QED BY <1>1, <1>3, <2>1, <3>1 DEF Accounted
  <2>2. \A o \in Owners : Full(o)' <=> Full(o)
    BY <1>1, <1>3 DEF Full
  <2> QED BY <1>1, <1>3, <2>1, <2>2 DEF Accounted
<1>4. CASE ~Full(i) /\ Deal
  <2>1. limits' \in [Owners -> Nat] /\ limits' = [limits EXCEPT ![i] = @ + 1]
    BY <1>1, <1>2, <1>4 DEF Deal
  <2>2. Total(limits)' = Total(limits) + 1
    <3>1. Total(limits)' = Total(limits')
      BY DEF Total, Units
    <3> QED BY <1>1, <1>2, <2>1, <3>1, UnitDealt
  <2>3. remaining' = remaining - 1 /\ progressed' = TRUE /\ at' \in {"for", "while"}
    BY <1>1, <1>4 DEF Deal
  <2>4. capacity > N
    BY <1>1 DEF Accounted
  <2> QED BY <1>1, <1>2, <2>2, <2>3, <2>4 DEF Accounted
<1> QED BY <1>3, <1>4 DEF ForOwner

\* The other steps move between the loops.
LEMMA AccountedStep ==
  ASSUME TypeOK, Dealing, Accounted, [Next]_vars
  PROVE  Accounted'
<1> USE CapacityConstants
<1>1. CASE ForOwner
  BY <1>1, AccountedTurn
<1>2. ASSUME UNCHANGED <<requested, capacity, limits, remaining>>,
             at' = "for" => i' = 1 \/ UNCHANGED <<at, i, progressed>>,
             at' = "done" => remaining = 0 \/ \A o \in Owners : Full(o)
      PROVE  Accounted'
  <2>1. Total(limits)' = Total(limits) /\ \A o \in Owners : Full(o)' <=> Full(o)
    BY <1>2 DEF Total, Units, Full
  <2>2. \A o \in Owners : ~(o < 1)
    BY DEF Owners
  <2> QED BY <1>2, <2>1, <2>2 DEF Accounted
<1>3. CASE While
  <2>1. remaining \in Nat
    BY DEF TypeOK
  <2> QED BY <1>2, <1>3, <2>1 DEF While
<1>4. CASE ForEnd
  <2>1. ~progressed => \A o \in Owners : Full(o)
    BY <1>4 DEF ForEnd, Accounted, Owners
  <2> QED BY <1>2, <1>4, <2>1 DEF ForEnd, AfterRound
<1>5. CASE Done \/ UNCHANGED vars
  BY <1>2, <1>5 DEF Done, vars, Accounted
<1> QED BY <1>1, <1>3, <1>4, <1>5 DEF Next

\* The whole capacity is dealt out, or all that was asked for, and never less than one
\* each, for any number of owners, requests and capacity.
THEOREM NothingLeftOver == Spec => []AllDealt
<1>1. TypeOK /\ Dealing /\ Accounted /\ [Next]_vars => TypeOK' /\ Dealing' /\ Accounted'
  BY DealingStep, AccountedStep
<1>2. TypeOK /\ Dealing /\ Accounted => AllDealt
  <2> SUFFICES ASSUME TypeOK, Dealing, Accounted, at = "done" PROVE AllDealt
    BY DEF AllDealt
  <2>1. /\ limits \in [Owners -> Nat] /\ requested \in [Owners -> Nat] /\ MaxMinFair
        /\ Total(limits) \in Nat /\ Total(requested) \in Nat /\ IsFiniteSet(Units(requested))
    BY DealtFinite DEF Dealing
  <2>2. Total(limits) <= Total(requested)
    BY <2>1, TotalsCompare DEF MaxMinFair
  <2>3. remaining \in Nat /\ capacity \in Nat
    BY DEF TypeOK
  <2>4. CASE remaining = 0
    BY <2>1, <2>2, <2>3, <2>4, CapacityConstants DEF Accounted, AllDealt
  <2>5. CASE \A o \in Owners : Full(o)
    <3>1. \A o \in Owners : limits[o] = requested[o]
      BY <2>1, <2>5 DEF Full, MaxMinFair
    <3>2. limits = requested
      BY <2>1, <3>1
    <3> QED BY <2>1, <2>3, <3>2, CapacityConstants DEF Accounted, AllDealt
  <2> QED BY <2>4, <2>5 DEF Accounted
<1> QED BY DealingInit, AccountedInit, <1>1, <1>2, PTL DEF Spec
=============================================================================
