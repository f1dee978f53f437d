--------------------------- MODULE GameRulesProofs ---------------------------
(***************************************************************************)
(* Facts about the operators of GameRules, for every cap, interval and     *)
(* largest result. The proofs about Elixir and MatchRuntime cite them.     *)
(***************************************************************************)
EXTENDS GameRules, TLAPS

\* A number of ticks holds a whole number of intervals, which fit into it.
LEMMA WholeIntervals ==
  ASSUME NEW n \in Nat
  PROVE  /\ n \div RegenInterval \in Nat
         /\ (n \div RegenInterval) * RegenInterval <= n
         /\ n < ((n \div RegenInterval) + 1) * RegenInterval
BY RulesAssumption, Z3

\* One tick more: the rest of the division goes on by one, and where it starts
\* again there is one interval more.
LEMMA NextTick ==
  ASSUME NEW n \in Nat
  PROVE  /\ n % RegenInterval \in 0..(RegenInterval - 1)
         /\ (n + 1) % RegenInterval = ((n % RegenInterval) + 1) % RegenInterval
         /\ (n + 1) \div RegenInterval
              = IF (n + 1) % RegenInterval = 0 THEN (n \div RegenInterval) + 1
                                               ELSE n \div RegenInterval
<1> DEFINE q == n \div RegenInterval
           r == n % RegenInterval
<1>1. /\ q \in Nat /\ r \in 0..(RegenInterval - 1) /\ n = q * RegenInterval + r
      /\ RegenInterval \in Nat \ {0}
  BY RulesAssumption, Z3
<1>2. CASE r + 1 < RegenInterval
  <2>1. (n + 1) \div RegenInterval = q /\ (n + 1) % RegenInterval = r + 1
    BY <1>1, <1>2, Z3
  <2>2. (r + 1) % RegenInterval = r + 1
    BY <1>1, <1>2, Z3
  <2>3. QED
    BY <2>1, <2>2, <1>1
<1>3. CASE r + 1 = RegenInterval
  <2>1. n + 1 = (q + 1) * RegenInterval
    BY <1>1, <1>3, Z3
  <2> DEFINE d == (n + 1) \div RegenInterval
  <2>2. /\ d \in Nat /\ n + 1 = d * RegenInterval + ((n + 1) % RegenInterval)
        /\ d * RegenInterval <= n + 1 /\ n + 1 < (d + 1) * RegenInterval
    BY WholeIntervals, RulesAssumption, Z3
  <2> HIDE DEF d, q
  <2>3. d <= q + 1 /\ q + 1 < d + 1
    BY <1>1, <2>1, <2>2, Z3
  <2>4. d = q + 1 /\ (n + 1) % RegenInterval = 0
    <3>1. d = q + 1
      BY <1>1, <2>2, <2>3
    <3>2. (q + 1) * RegenInterval \in Int /\ (n + 1) % RegenInterval \in Int
      BY <1>1, RulesAssumption, Z3
    <3>3. QED
      BY <3>1, <3>2, <2>1, <2>2
  <2>5. (r + 1) % RegenInterval = 0
    BY <1>1, <1>3, Z3
  <2>6. QED
    BY <2>4, <2>5, <1>1 DEF d, q
<1>4. QED
  BY <1>1, <1>2, <1>3

\* A longer time holds no fewer intervals.
LEMMA MoreIntervals ==
  ASSUME NEW m \in Nat, NEW n \in Nat, m <= n
  PROVE  m \div RegenInterval <= n \div RegenInterval
<1>1. /\ m \div RegenInterval \in Nat /\ n \div RegenInterval \in Nat
      /\ (m \div RegenInterval) * RegenInterval <= m
      /\ n < ((n \div RegenInterval) + 1) * RegenInterval
  BY WholeIntervals
<1> DEFINE a == m \div RegenInterval
           b == n \div RegenInterval
<1> HIDE DEF a, b
<1>2. a \in Nat /\ b \in Nat /\ a * RegenInterval < (b + 1) * RegenInterval
  BY <1>1, RulesAssumption, Z3 DEF a, b
<1>3. a < b + 1
  BY <1>2, RulesAssumption, Z3
<1>4. QED
  BY <1>2, <1>3 DEF a, b

\* recomputeElixir stays within the cap, and moves the stamp forward, but not
\* into the future, when the stamp is not in the future.
LEMMA RecomputeBounds ==
  ASSUME NEW stored \in 0..ElixirCap, NEW last \in Nat, NEW now \in Nat
  PROVE  LET r == RecomputeElixir(stored, last, now)
         IN  /\ r.actual \in stored..ElixirCap
             /\ r.anchor \in Nat
             /\ last <= now => r.anchor \in last..now
<1> DEFINE elapsed == AtLeastZero(now - last)
           steps == elapsed \div RegenInterval
<1>1. elapsed \in Nat /\ (last <= now => elapsed = now - last)
  BY DEF AtLeastZero
<1>2. steps \in Nat /\ steps * RegenInterval <= elapsed
  BY <1>1, WholeIntervals
<1>3. steps * RegenInterval \in Nat
  BY <1>2, RulesAssumption
<1>4. AtMost(stored + steps, ElixirCap) \in stored..ElixirCap
  BY <1>2, RulesAssumption DEF AtMost
<1> HIDE DEF elapsed
<1>5. CASE stored >= ElixirCap
  BY <1>5, RulesAssumption DEF RecomputeElixir
<1>6. CASE ~(stored >= ElixirCap)
  <2>1. RecomputeElixir(stored, last, now)
          = [actual |-> AtMost(stored + steps, ElixirCap),
             anchor |-> last + steps * RegenInterval]
    BY <1>6 DEF RecomputeElixir, elapsed
  <2> HIDE DEF steps
  <2>2. QED
    BY <2>1, <1>1, <1>2, <1>3, <1>4
<1>7. QED
  BY <1>5, <1>6

\* Without a payment elixir only grows: a later clock never computes less from
\* the same stored pair.
LEMMA RecomputeGrows ==
  ASSUME NEW stored \in Int, NEW last \in Int, NEW earlier \in Int, NEW later \in Int,
         earlier <= later
  PROVE  RecomputeElixir(stored, last, earlier).actual
           <= RecomputeElixir(stored, last, later).actual
<1> DEFINE e == AtLeastZero(earlier - last)
           l == AtLeastZero(later - last)
<1>1. e \in Nat /\ l \in Nat /\ e <= l
  BY DEF AtLeastZero
<1>2. /\ e \div RegenInterval \in Nat /\ l \div RegenInterval \in Nat
      /\ e \div RegenInterval <= l \div RegenInterval
  BY <1>1, MoreIntervals, WholeIntervals
<1> HIDE DEF e, l
<1>3. CASE stored >= ElixirCap
  BY <1>3, RulesAssumption DEF RecomputeElixir
<1>4. CASE ~(stored >= ElixirCap)
  <2>1. /\ RecomputeElixir(stored, last, earlier).actual
             = AtMost(stored + (e \div RegenInterval), ElixirCap)
        /\ RecomputeElixir(stored, last, later).actual
             = AtMost(stored + (l \div RegenInterval), ElixirCap)
    BY <1>4 DEF RecomputeElixir, e, l
  <2>2. QED
    BY <2>1, <1>2, RulesAssumption DEF AtMost
<1>5. QED
  BY <1>3, <1>4

\* The stamp moves by one interval for every elixir that is added.
LEMMA RecomputePays ==
  ASSUME NEW stored \in 0..ElixirCap, NEW last \in Nat, NEW now \in Nat,
         last <= now, stored < ElixirCap
  PROVE  LET r == RecomputeElixir(stored, last, now)
         IN  (r.actual - stored) * RegenInterval <= r.anchor - last
<1> DEFINE steps == (now - last) \div RegenInterval
           actual == AtMost(stored + steps, ElixirCap)
<1>1. steps \in Nat
  BY WholeIntervals
<1> HIDE DEF steps
<1>2. actual \in Nat /\ actual - stored <= steps /\ actual >= stored
  BY <1>1, RulesAssumption DEF AtMost
<1>3. RecomputeElixir(stored, last, now)
        = [actual |-> actual, anchor |-> last + steps * RegenInterval]
  BY RulesAssumption DEF RecomputeElixir, AtLeastZero, steps
<1> HIDE DEF actual
<1>4. (actual - stored) * RegenInterval <= steps * RegenInterval
  BY <1>1, <1>2, RulesAssumption, Z3
<1>5. steps * RegenInterval \in Nat
  BY <1>1, RulesAssumption
<1>6. QED
  BY <1>3, <1>4, <1>5

\* spendElixir, when it returns: nothing below zero, nothing above the cap.
LEMMA SpendBounds ==
  ASSUME NEW stored \in 0..ElixirCap, NEW last \in Nat, NEW now \in Nat,
         NEW cost \in Nat, CanSpend(stored, last, cost, now)
  PROVE  LET paid == SpendElixir(stored, last, cost, now)
         IN  paid.stored \in 0..ElixirCap /\ paid.last \in Nat
<1> DEFINE r == RecomputeElixir(stored, last, now)
<1>1. r.actual \in stored..ElixirCap /\ r.anchor \in Nat
  BY RecomputeBounds
<1>2. r.actual >= cost
  BY DEF CanSpend
<1>3. SpendElixir(stored, last, cost, now) = [stored |-> r.actual - cost, last |-> r.anchor]
  BY DEF SpendElixir
<1> HIDE DEF r
<1>4. QED
  BY <1>1, <1>2, <1>3, RulesAssumption

\* Every operation costs something.
LEMMA CostIsPositive ==
  ASSUME NEW op, op.type \in OperationType
  PROVE  GetOperationCost(op) \in Nat \ {0}
<1> DEFINE bands == CostBands[op.type]
           hit == {b \in bands : op.operand \in b.min..b.max}
<1>1. \A b \in bands : b.cost \in Nat \ {0}
  BY DEF CostBands, AddSubBands, MulBands, DivBands, Band, OperationType
<1>2. CASE hit = {}
  BY <1>2, RulesAssumption DEF GetOperationCost
<1>3. CASE hit # {}
  <2>1. (CHOOSE b \in hit : TRUE) \in bands
    BY <1>3
  <2>2. QED
    BY <1>1, <1>3, <2>1 DEF GetOperationCost
<1>4. QED
  BY <1>2, <1>3
=============================================================================
