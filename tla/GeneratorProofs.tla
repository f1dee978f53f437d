--------------------------- MODULE GeneratorProofs ---------------------------
(***************************************************************************)
(* What generateReachableMatchNumbers returns is a match that can be won,  *)
(* whatever starts, targets and operands are drawn and however often.      *)
(***************************************************************************)
EXTENDS Generator, GameRulesProofs

MaxLength == 7
MaxCost   == 5

Allowed == {op \in [type : OperationType, operand : Nat] : ValidateOperationRange(op)}
Plays   == [value : Int, spent : Nat]

GenTypeOK ==
  /\ phase \in {"attempt", "draw", "judge", "returned", "thrown"}
  /\ start \in Int /\ current \in Int
  /\ sequenceLength \in 0..MaxLength
  /\ seq \in Nat
  /\ operations \in Seq(Allowed)
  /\ replay \in Seq(Plays)

\* The result so far is a run of the rules from the start to the current number.
IsRun ==
  /\ Len(replay) = Len(operations) + 1
  /\ replay[1].value = start
  /\ Now.value = current
  /\ \A i \in 1..Len(operations) :
       /\ Applicable(replay[i].value, operations[i])
       /\ replay[i + 1].value = Computed(replay[i].value, operations[i])

\* Each operation is paid with at most MaxCost, and there are no more of them
\* than turns of the loop.
Paid ==
  /\ Now.spent <= MaxCost * Len(operations)
  /\ Len(operations) <= MaxLength
  /\ phase = "draw" => Len(operations) < seq

Judged ==
  /\ phase \in {"draw", "judge", "returned"} => start \in StartNumbers
  /\ phase = "returned" => current \in 1..TargetMax

GInv == GenTypeOK /\ IsRun /\ Paid /\ Judged

LEMMA AddSubMaxIsNat == AddSubMax \in Nat
BY SMT DEF AddSubMax

\* Every operand the code allows falls in a band of its type.
LEMMA AddSubHasBand ==
  ASSUME NEW n \in 1..AddSubMax
  PROVE  \E b \in AddSubBands : n \in b.min..b.max
<1>1. AddSubMax \in Nat
  BY AddSubMaxIsNat
<1> DEFINE low == Band(1, 9999, 1)  middle == Band(10000, 499999, 2)  high == Band(500000, AddSubMax, 3)
<1>2. low \in AddSubBands /\ middle \in AddSubBands /\ high \in AddSubBands
  BY SMT DEF AddSubBands
<1>3. n \in low.min..low.max \/ n \in middle.min..middle.max \/ n \in high.min..high.max
  BY <1>1, SMT DEF Band
<1> HIDE DEF low, middle, high
<1>4. QED
  BY <1>2, <1>3

LEMMA MulHasBand ==
  ASSUME NEW n \in 2..10
  PROVE  /\ \E b \in MulBands : n \in b.min..b.max
         /\ \E b \in DivBands : n \in b.min..b.max
<1>1. /\ Band(2, 3, 1) \in MulBands /\ Band(4, 6, 2) \in MulBands
      /\ Band(7, 8, 3) \in MulBands /\ Band(9, 10, 4) \in MulBands
  BY DEF MulBands
<1>2. /\ Band(2, 3, 1) \in DivBands /\ Band(4, 5, 2) \in DivBands /\ Band(6, 7, 3) \in DivBands
      /\ Band(8, 9, 4) \in DivBands /\ Band(10, 10, 5) \in DivBands
  BY DEF DivBands
<1>3. \A a, b, c \in Int : n >= a /\ n <= b => n \in Band(a, b, c).min .. Band(a, b, c).max
  BY DEF Band
<1>4. n = 2 \/ n = 3 \/ n = 4 \/ n = 5 \/ n = 6 \/ n = 7 \/ n = 8 \/ n = 9 \/ n = 10
  BY SMT
<1>5. \E b \in MulBands : n \in b.min..b.max
  BY <1>1, <1>3, <1>4
<1>6. \E b \in DivBands : n \in b.min..b.max
  BY <1>2, <1>3, <1>4
<1>7. QED
  BY <1>5, <1>6

LEMMA RangesAndBands ==
  ASSUME NEW type \in OperationType
  PROVE  \/ OperandRange[type] = 1..AddSubMax /\ CostBands[type] = AddSubBands
         \/ OperandRange[type] = 2..10 /\ CostBands[type] \in {MulBands, DivBands}
BY DEF OperationType, OperandRange, CostBands

\* No operation that the code allows costs more than MaxCost.
LEMMA CostIsBounded ==
  ASSUME NEW op \in Allowed
  PROVE  GetOperationCost(op) \in 1..MaxCost
<1> DEFINE bands == CostBands[op.type]
           hit == {b \in bands : op.operand \in b.min..b.max}
<1>1. op.type \in OperationType /\ op.operand \in OperandRange[op.type]
  BY DEF Allowed, ValidateOperationRange
<1>2. /\ \A b \in AddSubBands : b.cost \in 1..MaxCost
      /\ \A b \in MulBands \cup DivBands : b.cost \in 1..MaxCost
  BY DEF AddSubBands, MulBands, DivBands, Band, MaxCost
<1>3. hit # {} /\ \A b \in bands : b.cost \in 1..MaxCost
  BY <1>1, <1>2, RangesAndBands, AddSubHasBand, MulHasBand
<1>4. (CHOOSE b \in hit : TRUE) \in bands
  BY <1>3
<1>5. QED
  BY <1>3, <1>4 DEF GetOperationCost

\* randomOperand draws within the range of the type.
LEMMA DrawnIsAllowed ==
  ASSUME NEW op \in Drawn
  PROVE  op \in Allowed
<1>1. /\ op \in [type : WeightedOperation(current), operand : Operands \cup {2}]
      /\ op.operand \in RandomOperand(op.type, current)
  BY DEF Drawn
<1>2. op.type \in OperationType
  BY <1>1 DEF WeightedOperation, OperationType
<1>3. op.operand \in OperandRange[op.type]
  <2>1. 2 \in OperandRange["div"]
    BY DEF OperandRange
  <2>2. Divisors(current) \subseteq OperandRange["div"]
    BY DEF Divisors
  <2>3. QED
    BY <1>1, <1>2, <2>1, <2>2 DEF RandomOperand, OperationType
<1>4. op.operand \in Nat
  <2>1. OperandRange[op.type] \subseteq Nat
    BY <1>2, AddSubMaxIsNat, RangesAndBands
  <2>2. QED
    BY <1>3, <2>1
<1>5. QED
  BY <1>1, <1>2, <1>3, <1>4 DEF Allowed, ValidateOperationRange

LEMMA PlayedIsTyped == GInv => Len(operations) \in Nat /\ Now \in Plays /\ Now.spent \in Nat
<1> SUFFICES ASSUME GInv PROVE Len(operations) \in Nat /\ Now \in Plays /\ Now.spent \in Nat
  OBVIOUS
<1>1. /\ operations \in Seq(Allowed) /\ replay \in Seq(Plays)
      /\ Len(replay) = Len(operations) + 1
  BY DEF GInv, GenTypeOK, IsRun
<1>2. Len(replay) \in 1..Len(replay) /\ Len(operations) \in Nat
  BY <1>1
<1>3. replay[Len(replay)] \in Plays
  BY <1>1, <1>2
<1>4. QED
  BY <1>2, <1>3 DEF Now, Plays

LEMMA GenInitGInv == Init => GInv
<1> SUFFICES ASSUME Init PROVE GInv
  OBVIOUS
<1>1. replay = <<Played(0, 0)>> /\ Len(replay) = 1 /\ replay[1] = [value |-> 0, spent |-> 0]
  BY DEF Init, Played
<1>2. operations = <<>> /\ Len(operations) = 0
  BY DEF Init
<1>3. GenTypeOK
  BY <1>1, <1>2 DEF Init, GenTypeOK, Plays, MaxLength, Played
<1>4. QED
  BY <1>1, <1>2, <1>3 DEF Init, GInv, IsRun, Paid, Judged, Now, MaxLength, MaxCost

LEMMA AttemptGInv == GInv /\ Attempt => GInv'
<1> SUFFICES ASSUME GInv, Attempt PROVE GInv'
  OBVIOUS
<1>1. /\ start' \in StartNumbers /\ start' \in Int /\ current' = start'
      /\ sequenceLength' \in 0..MaxLength /\ sequenceLength' \in 5..7
      /\ seq' = 1 /\ phase' = "draw"
  BY RulesAssumption, GeneratorAssumption DEF Attempt, SequenceLengths, MaxLength
<1>2. /\ replay' = <<[value |-> start', spent |-> 0]>>
      /\ Len(replay') = 1 /\ replay'[1] = [value |-> start', spent |-> 0]
      /\ operations' = <<>> /\ Len(operations') = 0
  BY DEF Attempt, Played
<1>3. GenTypeOK'
  BY <1>1, <1>2 DEF GenTypeOK, Plays
<1>4. IsRun'
  BY <1>1, <1>2 DEF IsRun, Now
<1>5. Paid' /\ Judged'
  BY <1>1, <1>2 DEF Paid, Judged, Now, MaxLength, MaxCost
<1>6. QED
  BY <1>3, <1>4, <1>5 DEF GInv

LEMMA KeepGInv ==
  ASSUME GInv, phase = "draw", seq <= sequenceLength, NEW op \in Drawn, Keep(op),
         UNCHANGED <<attempt, start, sequenceLength>>
  PROVE  GInv'
<1> DEFINE value == Computed(current, op)
           last  == Len(replay)
           cost  == GetOperationCost(op)
           play  == [value |-> value, spent |-> replay[last].spent + cost]
<1>1. op \in Allowed /\ cost \in Nat /\ cost <= MaxCost
  BY DrawnIsAllowed, CostIsBounded DEF MaxCost
<1>2. Applicable(current, op) /\ value \in Int
  BY RulesAssumption DEF Keep, Applicable
<1>3. /\ operations \in Seq(Allowed) /\ replay \in Seq(Plays)
      /\ last = Len(operations) + 1 /\ Len(operations) \in Nat
      /\ replay[1].value = start /\ replay[last].value = current
      /\ replay[last].spent \in Nat
      /\ replay[last].spent <= MaxCost * Len(operations)
  <2>1. Len(operations) \in Nat /\ Now.spent \in Nat
    BY PlayedIsTyped
  <2>2. QED
    BY <2>1 DEF GInv, GenTypeOK, IsRun, Paid, Now, MaxLength
<1>4. /\ current' = value /\ seq' = seq + 1 /\ phase' = phase /\ start' = start
      /\ sequenceLength' = sequenceLength
      /\ operations' = Append(operations, op)
      /\ replay' = Append(replay, play)
  BY DEF Keep, Now, Played
<1> HIDE DEF value, cost
<1>5. play \in Plays
  BY <1>1, <1>2, <1>3 DEF Plays
<1>6. /\ Len(operations') = Len(operations) + 1 /\ Len(replay') = last + 1
      /\ replay'[last + 1] = play
      /\ operations'[last] = op
      /\ \A i \in 1..last : replay'[i] = replay[i]
      /\ \A i \in 1..Len(operations) : operations'[i] = operations[i]
  <2> HIDE DEF play
  <2> QED
    BY <1>1, <1>3, <1>4, <1>5
<1>7. GenTypeOK'
  <2> HIDE DEF play
  <2> QED
    BY <1>1, <1>2, <1>4, <1>5, <1>3 DEF GInv, GenTypeOK
<1>8. IsRun'
  <2>1. ASSUME NEW i \in 1..Len(operations')
        PROVE  /\ Applicable(replay'[i].value, operations'[i])
               /\ replay'[i + 1].value = Computed(replay'[i].value, operations'[i])
    <3>1. CASE i = last
      BY <3>1, <1>2, <1>3, <1>6 DEF value
    <3>2. CASE i # last
      <4>1. i \in 1..Len(operations) /\ i \in 1..last /\ i + 1 \in 1..last
        BY <3>2, <1>3, <1>6
      <4>2. QED
        BY <4>1, <1>6 DEF GInv, IsRun
    <3>3. QED
      BY <3>1, <3>2
  <2>2. replay'[1].value = start'
    BY <1>3, <1>4, <1>6
  <2>3. QED
    BY <2>1, <2>2, <1>3, <1>4, <1>6 DEF IsRun, Now
<1>9. Paid'
  <2>1. Len(operations) < seq /\ seq \in Nat /\ sequenceLength <= MaxLength
    BY DEF GInv, GenTypeOK, Paid, MaxLength
  <2>2. replay'[Len(replay')].spent = replay[last].spent + cost
    BY <1>6
  <2>3. MaxCost * (Len(operations) + 1) = MaxCost * Len(operations) + MaxCost
    BY <1>3 DEF MaxCost
  <2>4. QED
    BY <2>1, <2>2, <2>3, <1>1, <1>3, <1>4, <1>6 DEF Paid, Now, GInv, GenTypeOK, MaxLength, MaxCost
<1>10. Judged'
  BY <1>4 DEF Judged, GInv
<1>11. QED
  BY <1>7, <1>8, <1>9, <1>10 DEF GInv

LEMMA GenNextGInv == GInv /\ [Next]_vars => GInv'
<1> SUFFICES ASSUME GInv, [Next]_vars PROVE GInv'
  OBVIOUS
<1>1. CASE Attempt
  BY <1>1, AttemptGInv
<1>2. CASE Draw
  <2>1. PICK op \in Drawn : Keep(op) \/ StopBefore(op) \/ Skip(op)
    BY <1>2 DEF Draw
  <2>2. CASE Keep(op)
    BY <2>1, <2>2, <1>2, KeepGInv DEF Draw
  <2>3. CASE StopBefore(op) \/ Skip(op)
    <3>1. /\ UNCHANGED <<start, current, sequenceLength, operations, replay>>
          /\ \/ phase' = phase /\ seq' = seq + 1
             \/ phase' = "judge" /\ seq' = seq
      BY <2>3, <1>2 DEF StopBefore, Skip, Draw
    <3>2. phase = "draw"
      BY <1>2 DEF Draw
    <3>3. QED
      BY <3>1, <3>2 DEF GInv, GenTypeOK, IsRun, Paid, Judged, Now
  <2>4. QED
    BY <2>1, <2>2, <2>3
<1>3. CASE GiveUp
  BY <1>3 DEF GiveUp, GInv, GenTypeOK, IsRun, Paid, Judged, Now
<1>4. CASE EndOfLoop
  BY <1>4 DEF EndOfLoop, GInv, GenTypeOK, IsRun, Paid, Judged, Now
<1>5. CASE Judge
  BY <1>5 DEF Judge, Fit, GInv, GenTypeOK, IsRun, Paid, Judged, Now
<1>6. CASE UNCHANGED vars
  BY <1>6 DEF vars, GInv, GenTypeOK, IsRun, Paid, Judged, Now
<1>7. QED
  BY <1>1, <1>2, <1>3, <1>4, <1>5, <1>6 DEF Next

\* The target can be reached from the start by the rules a player is held to,
\* whatever was drawn, refused or drawn again (generator.ts:66).
THEOREM TargetReachableHolds == Spec => []TargetReachable
<1>1. GInv => TargetReachable
  BY DEF GInv, GenTypeOK, IsRun, TargetReachable, Allowed
<1>2. QED
  BY <1>1, GenInitGInv, GenNextGInv, PTL DEF Spec

\* No match begins won: for every range of starts that lies above the targets.
THEOREM TargetIsAheadHolds == Spec => []TargetIsAhead
<1>1. GInv => TargetIsAhead
  BY GeneratorAssumption, RulesAssumption DEF GInv, Judged, TargetIsAhead
<1>2. QED
  BY <1>1, GenInitGInv, GenNextGInv, PTL DEF Spec

\* A match that gives time for seven operations of the highest price can be won
\* with the elixir it gives.
THEOREM WinnableInTimeHolds ==
  ASSUME MaxLength * MaxCost <= SpendableInTime
  PROVE  Spec => []WinnableInTime
<1>1. GInv => WinnableInTime
  <2> SUFFICES ASSUME GInv PROVE WinnableInTime
    OBVIOUS
  <2>1. /\ Now.spent \in Nat /\ Len(operations) \in Nat
        /\ Len(operations) <= MaxLength /\ Now.spent <= MaxCost * Len(operations)
    BY PlayedIsTyped DEF GInv, Paid
  <2>2. Now.spent <= MaxLength * MaxCost
    BY <2>1 DEF MaxLength, MaxCost
  <2>3. SpendableInTime \in Int
    BY RulesAssumption, GeneratorAssumption DEF SpendableInTime
  <2>4. QED
    BY <2>1, <2>2, <2>3 DEF WinnableInTime, MaxLength, MaxCost
<1>2. QED
  BY <1>1, GenInitGInv, GenNextGInv, PTL DEF Spec

\* The constants of the code give that time (constants.ts:1-3): whatever is
\* drawn, the hidden operations can be paid for in two minutes.
THEOREM WinnableInTwoMinutes ==
  ASSUME ElixirCap = 10, RegenInterval = 2000, GameDuration = 120000
  PROVE  Spec => []WinnableInTime
<1>1. SpendableInTime = 69
  BY DEF SpendableInTime
<1>2. MaxLength * MaxCost <= SpendableInTime
  BY <1>1 DEF MaxLength, MaxCost
<1>3. QED
  BY <1>2, WinnableInTimeHolds
=============================================================================
