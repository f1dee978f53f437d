---------------------------- MODULE ElixirProofs ----------------------------
(***************************************************************************)
(* The elixir of a player, for every cap, interval, duration and set of    *)
(* costs: the budget, the meter the stored fields stand for, and, with the *)
(* pages in front of it (any number, any clocks, any number of messages    *)
(* under way), operations numbered as an optimistic lock and a cautious    *)
(* preview.                                                                *)
(***************************************************************************)
EXTENDS OperationPanel, GameRulesProofs

\* What a payment can rely on: Conservation, and an untouched full meter has
\* paid nothing.
IInv ==
  /\ TypeOK
  /\ Conservation
  /\ storedElixir = ElixirCap => spent = 0

LEMMA InitIInv == Init => IInv
BY RulesAssumption, ElixirAssumption DEF Init, IInv, TypeOK, Conservation

LEMMA TickIInv == IInv /\ Tick => IInv'
BY RulesAssumption, ElixirAssumption DEF IInv, TypeOK, Conservation, Tick

LEMMA SpendIInv ==
  ASSUME IInv, NEW cost \in Costs, Spend(cost)
  PROVE  IInv'
<1> DEFINE r == RecomputeElixir(storedElixir, lastElixirUpdateAt, now)
<1>1. cost \in Nat \ {0}
  BY ElixirAssumption
<1>2. /\ storedElixir \in 0..ElixirCap /\ lastElixirUpdateAt \in Nat
      /\ now \in Nat /\ lastElixirUpdateAt <= now /\ spent \in Nat
  BY RulesAssumption, ElixirAssumption DEF IInv, TypeOK
<1>3. r.actual \in storedElixir..ElixirCap /\ r.anchor \in lastElixirUpdateAt..now
  BY <1>2, RecomputeBounds
<1>4. /\ storedElixir' = r.actual - cost /\ lastElixirUpdateAt' = r.anchor
      /\ r.actual >= cost
      /\ spent' = spent + cost /\ now' = now
  BY DEF Spend, CanSpend, SpendElixir
<1>5. TypeOK'
  BY <1>1, <1>2, <1>3, <1>4, RulesAssumption, ElixirAssumption DEF IInv, TypeOK
<1>6. storedElixir' # ElixirCap
  BY <1>1, <1>2, <1>3, <1>4, RulesAssumption
<1>7. (spent' + storedElixir') = spent + r.actual
  BY <1>1, <1>2, <1>3, <1>4, RulesAssumption
<1>8. (spent + r.actual) * RegenInterval <= ElixirCap * RegenInterval + r.anchor
  <2>1. CASE storedElixir = ElixirCap
    <3>1. spent = 0 /\ r.actual = ElixirCap
      BY <2>1, <1>2, <1>3, RulesAssumption DEF IInv
    <3>2. ElixirCap * RegenInterval \in Nat
      BY RulesAssumption
    <3>3. QED
      BY <3>1, <3>2, <1>2, <1>3, RulesAssumption
  <2>2. CASE storedElixir # ElixirCap
    <3>1. storedElixir < ElixirCap
      BY <2>2, <1>2, RulesAssumption
    <3>2. (r.actual - storedElixir) * RegenInterval <= r.anchor - lastElixirUpdateAt
      BY <3>1, <1>2, RecomputePays
    <3>3. (spent + r.actual) * RegenInterval
            = (spent + storedElixir) * RegenInterval + (r.actual - storedElixir) * RegenInterval
      BY <1>2, <1>3, RulesAssumption, Z3
    <3>4. (spent + storedElixir) * RegenInterval \in Int
          /\ (r.actual - storedElixir) * RegenInterval \in Int
          /\ ElixirCap * RegenInterval \in Int
      BY <1>2, <1>3, RulesAssumption, Z3
    <3>5. QED
      BY <3>2, <3>3, <3>4, <1>2, <1>3 DEF IInv, Conservation
  <2>3. QED
    BY <2>1, <2>2
<1>9. QED
  BY <1>4, <1>5, <1>6, <1>7, <1>8 DEF IInv, Conservation

LEMMA StepIInv == IInv /\ [Next]_vars => IInv'
<1> SUFFICES ASSUME IInv, [Next]_vars PROVE IInv'
  OBVIOUS
<1>1. CASE Tick
  BY <1>1, TickIInv
<1>2. ASSUME NEW cost \in Costs, Spend(cost) PROVE IInv'
  BY <1>2, SpendIInv
<1>3. CASE UNCHANGED vars
  BY <1>3 DEF vars, IInv, TypeOK, Conservation
<1>4. QED
  BY <1>1, <1>2, <1>3 DEF Next

\* The tie between the stored pair and the past holds in every state.
THEOREM ConservationHolds == Spec => []Conservation
<1>1. IInv => Conservation
  BY DEF IInv
<1>2. QED
  BY InitIInv, StepIInv, <1>1, PTL DEF Spec

LEMMA BudgetFromConservation == IInv => SpentWithinBudget
<1> SUFFICES ASSUME IInv PROVE SpentWithinBudget
  OBVIOUS
<1> DEFINE steps == now \div RegenInterval
<1>1. /\ storedElixir \in Nat /\ lastElixirUpdateAt \in Nat
      /\ now \in Nat /\ lastElixirUpdateAt <= now /\ spent \in Nat
  BY RulesAssumption, ElixirAssumption DEF IInv, TypeOK
<1>2. steps \in Nat /\ now < (steps + 1) * RegenInterval
  BY <1>1, WholeIntervals
<1> HIDE DEF steps
<1>3. (spent + storedElixir) * RegenInterval <= ElixirCap * RegenInterval + now
  <2>1. (spent + storedElixir) * RegenInterval \in Int /\ ElixirCap * RegenInterval \in Int
    BY <1>1, RulesAssumption, Z3
  <2>2. QED
    BY <2>1, <1>1 DEF IInv, Conservation
<1>4. spent * RegenInterval <= (spent + storedElixir) * RegenInterval
  BY <1>1, RulesAssumption, Z3
<1>5. spent * RegenInterval < (ElixirCap + steps + 1) * RegenInterval
  <2>1. (ElixirCap + steps + 1) * RegenInterval
          = ElixirCap * RegenInterval + (steps + 1) * RegenInterval
    BY <1>2, RulesAssumption, Z3
  <2>2. /\ spent * RegenInterval \in Int /\ (spent + storedElixir) * RegenInterval \in Int
        /\ ElixirCap * RegenInterval \in Int /\ (steps + 1) * RegenInterval \in Int
    BY <1>1, <1>2, RulesAssumption, Z3
  <2>3. QED
    BY <2>1, <2>2, <1>1, <1>2, <1>3, <1>4
<1>6. spent < ElixirCap + steps + 1
  BY <1>1, <1>2, <1>5, RulesAssumption, Z3
<1>7. QED
  BY <1>1, <1>2, <1>6, RulesAssumption DEF SpentWithinBudget, steps

\* No schedule of operations draws more than the cap and one elixir per
\* whole interval since the start of the match.
THEOREM BudgetHolds == Spec => []SpentWithinBudget
BY InitIInv, StepIInv, BudgetFromConservation, PTL DEF Spec

\* The stored fields keep their ranges.
THEOREM ElixirTypeOK == Spec => []TypeOK
<1>1. IInv => TypeOK
  BY DEF IInv
<1>2. QED
  BY InitIInv, StepIInv, <1>1, PTL DEF Spec

-----------------------------------------------------------------------------
(* The meter.                                                              *)

\* What is under way of an interval is what the stamp leaves of it, and a
\* payment leaves it alone: it moves the stamp by whole intervals.
LEMMA PaymentKeepsThePhase ==
  ASSUME NEW stored \in 0..ElixirCap, NEW last \in Nat, NEW time \in Nat,
         last <= time, stored < ElixirCap
  PROVE  time - RecomputeElixir(stored, last, time).anchor = (time - last) % RegenInterval
<1> DEFINE n == time - last
           q == n \div RegenInterval
           r == n % RegenInterval
<1>1. n \in Nat
  OBVIOUS
<1> HIDE DEF n
<1>2. q \in Nat /\ r \in Nat /\ n = q * RegenInterval + r
  BY <1>1, RulesAssumption, Z3
<1>3. RecomputeElixir(stored, last, time).anchor = last + q * RegenInterval
  BY RulesAssumption DEF RecomputeElixir, AtLeastZero, n
<1>4. q * RegenInterval \in Nat
  BY <1>2, RulesAssumption
<1>5. QED
  BY <1>2, <1>3, <1>4 DEF n

\* A tick of the clock is a tick of the meter once it runs, and nothing to it before.
LEMMA TickIsRise ==
  ASSUME IInv, Tick
  PROVE  Meter!Rise \/ UNCHANGED Meter!vars
<1> DEFINE n == now - lastElixirUpdateAt
<1>1. /\ storedElixir \in 0..ElixirCap /\ lastElixirUpdateAt \in Nat
      /\ now \in Nat /\ lastElixirUpdateAt <= now
      /\ storedElixir' = storedElixir /\ lastElixirUpdateAt' = lastElixirUpdateAt
      /\ now' = now + 1
  BY RulesAssumption, ElixirAssumption DEF IInv, TypeOK, Tick
<1>2. n \in Nat /\ now' - lastElixirUpdateAt' = n + 1
  BY <1>1
<1>3. CASE storedElixir = ElixirCap
  BY <1>1, <1>3, RulesAssumption DEF Meter!vars, RecomputeElixir
<1>4. CASE storedElixir # ElixirCap
  <2> DEFINE q == n \div RegenInterval
             r == n % RegenInterval
  <2>1. storedElixir < ElixirCap
    BY <1>1, <1>4, RulesAssumption
  <2>2. /\ r \in 0..(RegenInterval - 1) /\ q \in Nat
        /\ (n + 1) % RegenInterval = (r + 1) % RegenInterval
        /\ (n + 1) \div RegenInterval = IF (r + 1) % RegenInterval = 0 THEN q + 1 ELSE q
    BY <1>2, NextTick, WholeIntervals
  <2>3. /\ RecomputeElixir(storedElixir, lastElixirUpdateAt, now).actual
             = AtMost(storedElixir + q, ElixirCap)
        /\ RecomputeElixir(storedElixir, lastElixirUpdateAt, now)'.actual
             = AtMost(storedElixir + ((n + 1) \div RegenInterval), ElixirCap)
    <3>1. AtLeastZero(now - lastElixirUpdateAt) = n
          /\ AtLeastZero(now' - lastElixirUpdateAt') = n + 1
      BY <1>2 DEF AtLeastZero
    <3>2. ~(storedElixir >= ElixirCap) /\ storedElixir' = storedElixir
      BY <1>1, <2>1, RulesAssumption
    <3> HIDE DEF n
    <3>3. QED
      BY <3>1, <3>2 DEF RecomputeElixir
  <2> HIDE DEF n, q, r
  <2>4. RecomputeElixir(storedElixir, lastElixirUpdateAt, now)'.actual
          = IF (r + 1) % RegenInterval = 0
                 /\ RecomputeElixir(storedElixir, lastElixirUpdateAt, now).actual < ElixirCap
            THEN RecomputeElixir(storedElixir, lastElixirUpdateAt, now).actual + 1
            ELSE RecomputeElixir(storedElixir, lastElixirUpdateAt, now).actual
    BY <1>1, <2>2, <2>3, RulesAssumption DEF AtMost
  <2>5. Meter!Rise
    BY <1>1, <1>2, <2>1, <2>2, <2>4 DEF Meter!Rise, n, r
  <2>6. QED
    BY <2>5
<1>5. QED
  BY <1>3, <1>4

\* A payment is a payment of the meter, which it starts if it was full.
LEMMA SpendIsPay ==
  ASSUME IInv, NEW cost \in Costs, Spend(cost)
  PROVE  Meter!Pay(cost)
<1> DEFINE r == RecomputeElixir(storedElixir, lastElixirUpdateAt, now)
<1>1. /\ storedElixir \in 0..ElixirCap /\ lastElixirUpdateAt \in Nat
      /\ now \in Nat /\ lastElixirUpdateAt <= now /\ cost \in Nat \ {0}
      /\ ElixirCap \in Nat /\ RegenInterval \in Nat \ {0}
  BY RulesAssumption, ElixirAssumption DEF IInv, TypeOK
<1>2. r.actual \in storedElixir..ElixirCap /\ r.anchor \in lastElixirUpdateAt..now
  BY <1>1, RecomputeBounds
<1>3. /\ storedElixir' = r.actual - cost /\ lastElixirUpdateAt' = r.anchor
      /\ r.actual >= cost /\ now' = now
  BY DEF Spend, CanSpend, SpendElixir
<1>4. now - r.anchor
        = IF storedElixir < ElixirCap THEN (now - lastElixirUpdateAt) % RegenInterval ELSE 0
  <2>1. CASE storedElixir < ElixirCap
    BY <1>1, <2>1, PaymentKeepsThePhase
  <2>2. CASE ~(storedElixir < ElixirCap)
    BY <1>1, <2>2 DEF RecomputeElixir
  <2>3. QED
    BY <2>1, <2>2
<1>5. now - r.anchor \in 0..(RegenInterval - 1)
  <2>1. CASE storedElixir < ElixirCap
    <3>1. now - lastElixirUpdateAt \in Nat
      BY <1>1
    <3>2. (now - lastElixirUpdateAt) % RegenInterval \in 0..(RegenInterval - 1)
      BY <3>1, NextTick
    <3>3. QED
      BY <3>2, <1>4, <2>1
  <2>2. CASE ~(storedElixir < ElixirCap)
    BY <1>1, <1>4, <2>2
  <2>3. QED
    BY <2>1, <2>2
<1> HIDE DEF r
<1>6. (now - r.anchor) \div RegenInterval = 0 /\ (now - r.anchor) % RegenInterval = now - r.anchor
  BY <1>1, <1>5, Z3
<1>7. storedElixir' \in 0..ElixirCap /\ storedElixir' < ElixirCap
  BY <1>1, <1>2, <1>3
<1>8. RecomputeElixir(storedElixir, lastElixirUpdateAt, now)'.actual = r.actual - cost
  BY <1>1, <1>2, <1>3, <1>5, <1>6, <1>7 DEF RecomputeElixir, AtLeastZero, AtMost
<1>9. QED
  BY <1>3, <1>4, <1>6, <1>7, <1>8 DEF Meter!Pay, r

\* The two lazily computed fields are the meter a player is promised: no
\* sequence of payments and pauses loses a started interval or gains one.
THEOREM MeterImplemented == Spec => ImplementsMeter
<1>1. Init => Meter!Init
  <2>1. Init => RecomputeElixir(storedElixir, lastElixirUpdateAt, now).actual = ElixirCap
    BY RulesAssumption DEF Init, RecomputeElixir
  <2>2. QED
    BY <2>1, RulesAssumption DEF Init, Meter!Init
<1>2. IInv /\ [Next]_vars => [Meter!Next]_(Meter!vars)
  <2> SUFFICES ASSUME IInv, [Next]_vars PROVE [Meter!Next]_(Meter!vars)
    OBVIOUS
  <2>1. CASE Tick
    BY <2>1, TickIsRise DEF Meter!Next
  <2>2. ASSUME NEW cost \in Costs, Spend(cost) PROVE Meter!Next
    BY <2>2, SpendIsPay DEF Meter!Next
  <2>3. CASE UNCHANGED vars
    BY <2>3 DEF vars, Meter!vars
  <2>4. QED
    BY <2>1, <2>2, <2>3 DEF Next
<1>3. QED
  BY <1>1, <1>2, InitIInv, StepIInv, PTL DEF Spec, Meter!Spec, ImplementsMeter

-----------------------------------------------------------------------------
(* The pages.                                                              *)

Entries    == [stored : Int, last : Int, seq : Nat]
Operations == [cost : Costs, seq : Nat, decidedOn : Entries]

\* What a page may know of the server: an earlier entry of the player, and the
\* present one if it has the present number.
Past(e) == e.seq <= lastAcceptedSeq /\ (e.seq = lastAcceptedSeq => e = Stored)

PanelTypeOK ==
  /\ lastAcceptedSeq \in Nat
  /\ copy \in [Pages -> Entries]
  /\ toServer \in [Pages -> SUBSET Operations]
  /\ toClient \in [Pages -> Seq(Entries)]

\* All that is shown or under way is past, and an operation has the number that
\* follows the entry it was decided on.
AllPast ==
  \A p \in Pages :
    /\ Past(copy[p])
    /\ \A op \in toServer[p] : Past(op.decidedOn) /\ op.seq = op.decidedOn.seq + 1
    /\ \A i \in 1..Len(toClient[p]) : Past(toClient[p][i])

PInv == IInv /\ PanelTypeOK /\ AllPast

\* Every step of the composition is a step of the server or leaves it alone.
LEMMA PanelStepIsElixirStep == PanelTypeOK /\ [PanelNext]_allVars => [Next]_vars
<1> SUFFICES ASSUME PanelTypeOK, [PanelNext]_allVars PROVE [Next]_vars
  OBVIOUS
<1>1. ASSUME NEW p \in Pages, NEW op \in toServer[p], Accept(p, op) PROVE Next
  BY <1>1 DEF Accept, Next, Operations, PanelTypeOK
<1>2. PanelTick => Next
  BY DEF PanelTick, Next
<1>3. UNCHANGED allVars => UNCHANGED vars
  BY DEF allVars
<1>4. QED
  BY <1>1, <1>2, <1>3 DEF PanelNext, Refuse, Send, Drop, Broadcast, Show

LEMMA StoredIsEntry == IInv /\ PanelTypeOK => Stored \in Entries /\ Past(Stored)
BY RulesAssumption, ElixirAssumption DEF IInv, TypeOK, PanelTypeOK, Stored, Entries, Past

LEMMA PanelInitPInv == PanelInit => PInv
<1> SUFFICES ASSUME PanelInit PROVE PInv
  OBVIOUS
<1>1. IInv
  BY InitIInv DEF PanelInit
<1>2. Stored \in Entries /\ lastAcceptedSeq \in Nat /\ Past(Stored)
  BY <1>1, RulesAssumption, ElixirAssumption DEF IInv, TypeOK, Stored, Entries, Past, PanelInit
<1>3. PanelTypeOK
  BY <1>2 DEF PanelTypeOK, PanelInit
<1>4. AllPast
  BY <1>2 DEF AllPast, PanelInit
<1>5. QED
  BY <1>1, <1>3, <1>4 DEF PInv

\* What is past stays past: the number never goes back, and the entry changes
\* only together with it.
LEMMA PastStaysPast ==
  ASSUME PInv, PanelNext, NEW e \in Entries, Past(e)
  PROVE  Past(e)'
<1>1. CASE UNCHANGED <<storedElixir, lastElixirUpdateAt, lastAcceptedSeq>>
  BY <1>1 DEF Past, Stored
<1>2. ASSUME NEW p \in Pages, NEW op \in toServer[p], Accept(p, op)
      PROVE  Past(e)'
  <2>1. op.seq \in Nat /\ lastAcceptedSeq \in Nat /\ e.seq \in Nat
    BY DEF PInv, PanelTypeOK, Operations, Entries
  <2>2. lastAcceptedSeq' = op.seq /\ op.seq > lastAcceptedSeq
    BY <1>2 DEF Accept, Fresh
  <2>3. QED
    BY <2>1, <2>2 DEF Past
<1>3. QED
  BY <1>1, <1>2 DEF PanelNext, PanelTick, Tick, Refuse, Send, Drop, Broadcast, Show, vars

LEMMA PanelNextPInv ==
  ASSUME PInv, PanelNext
  PROVE  PanelTypeOK' /\ AllPast'
<1> USE DEF PInv, PanelTypeOK, AllPast
<1>1. Stored \in Entries /\ Past(Stored)
  BY StoredIsEntry
<1>2. \A e \in Entries : Past(e) => Past(e)'
  BY PastStaysPast
<1>3. CASE PanelTick
  BY <1>3, <1>2 DEF PanelTick, panelVars, Operations
<1>4. CASE Broadcast
  <2>1. /\ toClient' = [p \in Pages |-> Append(toClient[p], Stored)]
        /\ UNCHANGED <<lastAcceptedSeq, copy, toServer>>
    BY <1>4 DEF Broadcast
  <2>2. PanelTypeOK'
    BY <2>1, <1>1
  <2>3. \A p \in Pages : \A i \in 1..Len(toClient'[p]) :
          toClient'[p][i] \in Entries /\ Past(toClient'[p][i])
    <3> TAKE p \in Pages
    <3>1. toClient[p] \in Seq(Entries)
      OBVIOUS
    <3>2. toClient'[p] = Append(toClient[p], Stored)
      BY <2>1
    <3>3. QED
      BY <3>1, <3>2, <1>1
  <2>4. QED
    BY <2>1, <2>2, <2>3, <1>2 DEF Operations
<1>5. ASSUME NEW p \in Pages, NEW op \in toServer[p], Accept(p, op) \/ Drop(p, op)
      PROVE  PanelTypeOK' /\ AllPast'
  <2>1. /\ toServer' = [toServer EXCEPT ![p] = @ \ {op}]
        /\ UNCHANGED <<copy, toClient>>
        /\ lastAcceptedSeq' \in Nat
    BY <1>5 DEF Accept, Drop, Operations
  <2>2. \A q \in Pages : toServer'[q] \subseteq toServer[q]
    BY <2>1
  <2>3. PanelTypeOK'
    BY <2>1
  <2>4. QED
    BY <2>1, <2>2, <2>3, <1>2 DEF Operations
<1>6. ASSUME NEW p \in Pages, Show(p)
      PROVE  PanelTypeOK' /\ AllPast'
  <2>1. /\ toClient[p] # <<>>
        /\ copy' = [copy EXCEPT ![p] = Head(toClient[p])]
        /\ toClient' = [toClient EXCEPT ![p] = Tail(@)]
        /\ UNCHANGED <<lastAcceptedSeq, toServer>>
    BY <1>6 DEF Show
  <2>2. toClient[p] \in Seq(Entries)
    OBVIOUS
  <2>3. /\ Head(toClient[p]) = toClient[p][1] /\ 1 \in 1..Len(toClient[p])
        /\ Head(toClient[p]) \in Entries
        /\ Tail(toClient[p]) \in Seq(Entries)
        /\ \A i \in 1..Len(Tail(toClient[p])) :
             i + 1 \in 1..Len(toClient[p]) /\ Tail(toClient[p])[i] = toClient[p][i + 1]
    BY <2>1, <2>2
  <2>4. PanelTypeOK'
    BY <2>1, <2>3
  <2>5. \A q \in Pages : Past(copy'[q])
    BY <2>1, <2>3
  <2>6. \A q \in Pages : \A i \in 1..Len(toClient'[q]) : toClient'[q][i] \in Entries /\ Past(toClient'[q][i])
    <3> TAKE q \in Pages
    <3>1. CASE q = p
      BY <3>1, <2>1, <2>2, <2>3
    <3>2. CASE q # p
      BY <3>2, <2>1
    <3>3. QED
      BY <3>1, <3>2
  <2>7. QED
    BY <2>1, <2>4, <2>5, <2>6, <1>2 DEF Operations
<1>7. ASSUME NEW p \in Pages, NEW cost \in Costs, Send(p, cost)
      PROVE  PanelTypeOK' /\ AllPast'
  <2> DEFINE new == [cost |-> cost, seq |-> Number(p), decidedOn |-> copy[p]]
  <2>1. /\ toServer' = [toServer EXCEPT ![p] = @ \cup {new}]
        /\ UNCHANGED <<lastAcceptedSeq, copy, toClient>>
    BY <1>7 DEF Send
  <2>2. new \in Operations /\ Past(new.decidedOn) /\ new.seq = new.decidedOn.seq + 1
    BY DEF Operations, Entries, Number
  <2> HIDE DEF new
  <2>3. PanelTypeOK'
    BY <2>1, <2>2
  <2>4. \A q \in Pages : \A op \in toServer'[q] : Past(op.decidedOn) /\ op.seq = op.decidedOn.seq + 1
    BY <2>1, <2>2
  <2>5. QED
    BY <2>1, <2>3, <2>4, <1>2 DEF Operations
<1>8. ASSUME NEW p \in Pages, NEW cost \in Costs, Refuse(p, cost)
      PROVE  PanelTypeOK' /\ AllPast'
  <2>1. UNCHANGED <<lastAcceptedSeq, copy, toServer, toClient>>
    BY <1>8 DEF Refuse
  <2>2. \A e \in Entries : Past(e) => Past(e)'
    BY <1>2
  <2>3. PanelTypeOK'
    BY <2>1
  <2>4. ASSUME NEW q \in Pages
        PROVE  /\ copy[q] \in Entries
               /\ \A op \in toServer[q] : op.decidedOn \in Entries
               /\ \A i \in 1..Len(toClient[q]) : toClient[q][i] \in Entries
    BY DEF Operations
  <2>5. QED
    BY <2>1, <2>2, <2>3, <2>4
<1>9. QED
  BY <1>3, <1>4, <1>5, <1>6, <1>7, <1>8 DEF PanelNext

LEMMA PanelStepPInv == PInv /\ [PanelNext]_allVars => PInv'
<1> SUFFICES ASSUME PInv, [PanelNext]_allVars PROVE PInv'
  OBVIOUS
<1>1. IInv'
  BY PanelStepIsElixirStep, StepIInv DEF PInv
<1>2. CASE PanelNext
  BY <1>1, <1>2, PanelNextPInv DEF PInv
<1>3. CASE UNCHANGED allVars
  BY <1>1, <1>3 DEF PInv, allVars, vars, panelVars, PanelTypeOK, AllPast, Past, Stored
<1>4. QED
  BY <1>2, <1>3

\* An accepted operation was decided on the state that it changes.
LEMMA AcceptIsOnCurrent ==
  ASSUME PInv, NEW p \in Pages, NEW op \in toServer[p], Accept(p, op)
  PROVE  op \in toServer[p] \ toServer'[p] /\ op.decidedOn = Stored
<1>1. /\ op.seq \in Nat /\ op.decidedOn.seq \in Nat /\ lastAcceptedSeq \in Nat
      /\ op.seq = op.decidedOn.seq + 1 /\ Past(op.decidedOn)
  BY DEF PInv, PanelTypeOK, AllPast, Operations, Entries
<1>2. op.seq > lastAcceptedSeq
  BY DEF Accept, Fresh
<1>3. op.decidedOn = Stored
  BY <1>1, <1>2 DEF Past
<1>4. op \notin toServer'[p]
  BY DEF Accept, PInv, PanelTypeOK
<1>5. QED
  BY <1>3, <1>4

\* Whatever pages are open, however late their states are, and however
\* operations overtake each other: nobody plays on a state he did not see.
THEOREM DecidedOnCurrentHolds == PanelSpec => DecidedOnCurrent
<1>1. PInv /\ [PanelNext]_allVars =>
        [lastAcceptedSeq' # lastAcceptedSeq =>
           \E p \in Pages : \E op \in toServer[p] \ toServer'[p] : op.decidedOn = Stored]_allVars
  <2> SUFFICES ASSUME PInv, PanelNext, lastAcceptedSeq' # lastAcceptedSeq
               PROVE  \E p \in Pages : \E op \in toServer[p] \ toServer'[p] : op.decidedOn = Stored
    BY DEF allVars
  <2>1. PICK p \in Pages : \E op \in toServer[p] : Accept(p, op)
    BY DEF PanelNext, PanelTick, Refuse, Send, Drop, Broadcast, Show
  <2>2. PICK op \in toServer[p] : Accept(p, op)
    BY <2>1
  <2>3. QED
    BY <2>2, AcceptIsOnCurrent
<1>2. QED
  BY <1>1, PanelInitPInv, PanelStepPInv, PTL DEF PanelSpec, DecidedOnCurrent

\* The pages change nothing about the elixir: with them, the server's entry
\* still behaves as Elixir says, so all that Elixir promises, the meter
\* included, holds of the composition.
THEOREM PanelImplementsElixir == PanelSpec => Spec
<1>1. PanelInit => Init
  BY DEF PanelInit
<1>2. PInv => PanelTypeOK
  BY DEF PInv
<1>3. QED
  BY <1>1, <1>2, PanelInitPInv, PanelStepPInv, PanelStepIsElixirStep, PTL DEF PanelSpec, Spec

\* In particular nobody spends more than the meter gives, however many pages
\* send operations.
THEOREM PanelBudgetHolds == PanelSpec => []SpentWithinBudget
<1>1. PInv => SpentWithinBudget
  BY BudgetFromConservation DEF PInv
<1>2. QED
  BY <1>1, PanelInitPInv, PanelStepPInv, PTL DEF PanelSpec

\* A memo is computed from the pair of fields the page shows, now or earlier:
\* it never says more than the panel would compute at once.
MemoIsPast ==
  \A p \in Pages : preview[p] <= Preview(copy[p])

LEMMA PreviewIsNumber ==
  ASSUME TypeOK, skew \in Int, NEW e \in Entries
  PROVE  Preview(e) \in Int
<1>1. e.stored \in Int /\ e.last \in Int /\ now \in Int
  BY DEF Entries, TypeOK
<1>2. AtLeastZero(now + skew - e.last) \in Nat
  BY <1>1 DEF AtLeastZero
<1>3. AtLeastZero(now + skew - e.last) \div RegenInterval \in Nat
  BY <1>2, WholeIntervals
<1>4. QED
  BY <1>1, <1>3, RulesAssumption DEF Preview, RecomputeElixir, AtMost

CInv == PInv /\ skew \in Int /\ preview \in [Pages -> Int] /\ MemoIsPast

LEMMA PanelInitCInv == PanelInit => CInv
<1> SUFFICES ASSUME PanelInit PROVE CInv
  OBVIOUS
<1>1. PInv /\ skew \in Int /\ Stored \in Entries
  BY PanelInitPInv, StoredIsEntry, PanelAssumption DEF PanelInit, PInv
<1>2. Preview(Stored) \in Int
  BY <1>1, PreviewIsNumber DEF PInv, IInv
<1>3. QED
  BY <1>1, <1>2 DEF CInv, MemoIsPast, PanelInit

\* The clock alone does not undo it.
LEMMA TickKeepsMemo ==
  ASSUME CInv, PanelTick
  PROVE  CInv'
<1>1. /\ now \in Int /\ now' = now + 1 /\ skew' = skew /\ skew \in Int
      /\ UNCHANGED <<copy, preview>> /\ preview \in [Pages -> Int]
  BY DEF CInv, PInv, IInv, TypeOK, PanelTick, Tick, panelVars
<1>2. PInv'
  BY PanelStepPInv DEF CInv, PanelNext
<1>3. ASSUME NEW p \in Pages
      PROVE  preview'[p] <= Preview(copy[p])'
  <2>1. copy[p] \in Entries /\ copy[p].stored \in Int /\ copy[p].last \in Int
    BY DEF CInv, PInv, PanelTypeOK, Entries
  <2>2. Preview(copy[p]) <= Preview(copy[p])'
    BY <1>1, <2>1, RecomputeGrows DEF Preview
  <2>3. Preview(copy[p]) \in Int /\ Preview(copy[p])' \in Int
    <3>1. Preview(copy[p]) \in Int
      BY <2>1, PreviewIsNumber DEF CInv, PInv, IInv
    <3>2. AtLeastZero(now + 1 + skew - copy[p].last) \in Nat
      BY <1>1, <2>1 DEF AtLeastZero
    <3>3. AtLeastZero(now + 1 + skew - copy[p].last) \div RegenInterval \in Nat
      BY <3>2, WholeIntervals
    <3>4. Preview(copy[p])' \in Int
      BY <1>1, <2>1, <3>3, RulesAssumption DEF Preview, RecomputeElixir, AtMost
    <3>5. QED
      BY <3>1, <3>4
  <2>4. preview[p] <= Preview(copy[p]) /\ preview[p] \in Int
    BY <1>1 DEF CInv, MemoIsPast
  <2>5. QED
    BY <1>1, <2>2, <2>3, <2>4
<1>4. QED
  BY <1>1, <1>2, <1>3 DEF CInv, MemoIsPast

\* A page that gets a new state computes the memo again unless the pair of
\* fields is the one it has.
LEMMA ShowKeepsMemo ==
  ASSUME CInv, NEW p \in Pages, Show(p)
  PROVE  CInv'
<1> DEFINE new == Head(toClient[p])
<1>1. /\ copy' = [copy EXCEPT ![p] = new]
      /\ preview' = [preview EXCEPT ![p] = IF Changed(copy[p], new) THEN Preview(new) ELSE @]
      /\ UNCHANGED <<now, skew>>
  BY DEF Show, vars
<1>2. new \in Entries /\ copy \in [Pages -> Entries]
  BY DEF CInv, PInv, PanelTypeOK, Show
<1>3. PInv'
  BY PanelStepPInv DEF CInv, PanelNext
<1> HIDE DEF new
<1>4. Preview(new) \in Int /\ skew \in Int /\ preview \in [Pages -> Int]
  BY <1>2, PreviewIsNumber DEF CInv, PInv, IInv
<1>5. preview' \in [Pages -> Int]
  BY <1>1, <1>4
<1>6. ASSUME NEW q \in Pages
      PROVE  preview'[q] <= Preview(copy[q])'
  <2>1. Preview(copy[q])' = RecomputeElixir(copy'[q].stored, copy'[q].last, now + skew).actual
    BY <1>1 DEF Preview
  <2>2. preview[q] <= RecomputeElixir(copy[q].stored, copy[q].last, now + skew).actual
    BY DEF CInv, MemoIsPast, Preview
  <2>3. CASE q # p
    BY <1>1, <1>2, <2>1, <2>2, <2>3, <1>4
  <2>4. CASE q = p /\ Changed(copy[p], new)
    BY <1>1, <1>2, <1>4, <2>1, <2>4 DEF Preview
  <2>5. CASE q = p /\ ~Changed(copy[p], new)
    BY <1>1, <1>2, <1>4, <2>1, <2>2, <2>5 DEF Changed
  <2>6. QED
    BY <2>3, <2>4, <2>5
<1>7. QED
  BY <1>1, <1>3, <1>4, <1>5, <1>6 DEF CInv, MemoIsPast

LEMMA PanelStepCInv == CInv /\ [PanelNext]_allVars => CInv'
<1> SUFFICES ASSUME CInv, [PanelNext]_allVars PROVE CInv'
  OBVIOUS
<1>1. PInv'
  BY PanelStepPInv DEF CInv
<1>2. UNCHANGED <<now, skew, copy, preview>> => CInv'
  BY <1>1 DEF CInv, MemoIsPast, Preview
<1>3. ASSUME NEW p \in Pages, NEW op \in toServer[p], Accept(p, op)
      PROVE  UNCHANGED <<now, skew, copy, preview>>
  BY <1>3 DEF Accept, Spend
<1>4. CASE PanelTick
  BY <1>4, TickKeepsMemo
<1>5. ASSUME NEW p \in Pages, Show(p) PROVE CInv'
  BY <1>5, ShowKeepsMemo
<1>6. UNCHANGED allVars => UNCHANGED <<now, skew, copy, preview>>
  BY DEF allVars, vars, panelVars
<1>7. QED
  BY <1>2, <1>3, <1>4, <1>5, <1>6 DEF PanelNext, Refuse, Send, Drop, Broadcast, vars

\* With any number of pages and any delays, a page that is up to date in a
\* browser whose clock is not ahead offers nothing the server would refuse.
THEOREM CautiousHolds == PanelSpec => []PanelIsCautious
<1>1. CInv => PanelIsCautious
  <2> SUFFICES ASSUME CInv, NEW p \in Pages, copy[p] = Stored, skew <= 0
               PROVE  preview[p] <= RecomputeElixir(storedElixir, lastElixirUpdateAt, now).actual
    BY DEF PanelIsCautious
  <2> DEFINE actual == RecomputeElixir(storedElixir, lastElixirUpdateAt, now).actual
  <2>1. /\ storedElixir \in 0..ElixirCap /\ lastElixirUpdateAt \in Nat /\ now \in Nat
        /\ skew \in Int /\ lastElixirUpdateAt <= now
    BY RulesAssumption, ElixirAssumption DEF CInv, PInv, IInv, TypeOK
  <2>2. Preview(copy[p]) = RecomputeElixir(storedElixir, lastElixirUpdateAt, now + skew).actual
    BY DEF Preview, Stored
  <2>3. Preview(copy[p]) <= actual
    BY <2>1, <2>2, RecomputeGrows
  <2>4. actual \in Int
    BY <2>1, RecomputeBounds, RulesAssumption
  <2>5. Preview(copy[p]) \in Int /\ preview[p] \in Int /\ preview[p] <= Preview(copy[p])
    BY PreviewIsNumber DEF CInv, PInv, IInv, PanelTypeOK, MemoIsPast
  <2>6. QED
    BY <2>3, <2>4, <2>5
<1>2. QED
  BY <1>1, PanelInitCInv, PanelStepCInv, PTL DEF PanelSpec
=============================================================================
