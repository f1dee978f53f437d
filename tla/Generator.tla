------------------------------ MODULE Generator ------------------------------
(***************************************************************************)
(* generateReachableMatchNumbers (packages/shared/src/game/generator.ts):  *)
(* draw a start, apply up to seven random operations to it, and take the   *)
(* number they lead to as the target when it is short enough; otherwise    *)
(* try again.                                                              *)
(*                                                                         *)
(* `replay` is history: what a player who plays the hidden operations has  *)
(* computed, and paid, before and after each of them. Numbers of d digits  *)
(* are intervals: the 15-digit starts are StartNumbers, and TargetMax is   *)
(* the largest number of TARGET_MAX_DIGITS digits.                         *)
(***************************************************************************)
EXTENDS GameRules, Sequences

CONSTANTS
  StartNumbers,  \* the numbers that are drawn as start
  TargetMax,     \* the largest target
  Operands,      \* the operands that are drawn: a sample of the code's ranges
  MaxAttempts,   \* 500 in the code
  GameDuration   \* GAME_DURATION_MS, in clock ticks of the model

ASSUME GeneratorAssumption ==
  /\ TargetMax \in Nat
  /\ StartNumbers \subseteq TargetMax + 1 .. MaxResult
  /\ MaxAttempts \in Nat
  /\ GameDuration \in Nat

VARIABLES phase, attempt, start, current, sequenceLength, seq, operations, replay

vars == <<phase, attempt, start, current, sequenceLength, seq, operations, replay>>

\* Variant: one operation more.
SequenceLengthsLong == 5..8

SequenceLengths == 5..7
MinOperations   == 5

-----------------------------------------------------------------------------
Operation(type, operand) == [type |-> type, operand |-> operand]

WeightedOperation(n) == IF n < 10 THEN {"add"} ELSE OperationType

Divisors(n) == {i \in OperandRange["div"] : n % i = 0}

\* The operands that may be drawn for a type; without a divisor it is 2, and
\* applyOperation will refuse it.
RandomOperand(type, n) ==
  CASE type = "div" -> IF Divisors(n) = {} THEN {2} ELSE Divisors(n) \cap Operands
    [] type = "sub" -> {d \in Operands : d \in OperandRange["sub"] /\ (d = 1 \/ d <= n)}
    [] OTHER        -> {d \in Operands : d \in OperandRange[type]}

Drawn == {op \in [type : WeightedOperation(current), operand : Operands \cup {2}] :
            op.operand \in RandomOperand(op.type, current)}

Played(value, spent) == [value |-> value, spent |-> spent]

Now == replay[Len(replay)]

-----------------------------------------------------------------------------
Init ==
  /\ phase = "attempt"
  /\ attempt = 0
  /\ start = 0 /\ current = 0 /\ sequenceLength = 0 /\ seq = 0
  /\ operations = <<>>
  /\ replay = <<Played(0, 0)>>

\* Another attempt: everything but the counter of attempts is new.
Attempt ==
  /\ phase = "attempt"
  /\ attempt < MaxAttempts
  /\ start' \in StartNumbers
  /\ current' = start'
  /\ sequenceLength' \in SequenceLengths
  /\ seq' = 1
  /\ operations' = <<>>
  /\ replay' = <<Played(start', 0)>>
  /\ phase' = "draw"
  /\ UNCHANGED attempt

GiveUp ==
  /\ phase = "attempt"
  /\ attempt = MaxAttempts
  /\ phase' = "thrown"
  /\ UNCHANGED <<attempt, start, current, sequenceLength, seq, operations, replay>>

Overlong(op) == Computed(current, op) > TargetMax /\ seq = sequenceLength

\* An operation the rules accept is applied and kept.
Keep(op) ==
  /\ Applicable(current, op)
  /\ ~Overlong(op)
  /\ current' = Computed(current, op)
  /\ operations' = Append(operations, op)
  /\ replay' = Append(replay, Played(Computed(current, op), Now.spent + GetOperationCost(op)))
  /\ seq' = seq + 1
  /\ UNCHANGED phase

\* The last operation made the number too long: the loop ends before it.
StopBefore(op) ==
  /\ Applicable(current, op)
  /\ Overlong(op)
  /\ phase' = "judge"
  /\ UNCHANGED <<current, operations, replay, seq>>

\* Variant: the operation is kept before applyOperation is asked.
SkipKept(op) ==
  /\ ~Applicable(current, op)
  /\ operations' = Append(operations, op)
  /\ seq' = seq + 1
  /\ UNCHANGED <<phase, current, replay>>

\* applyOperation throws: the step is lost, the loop goes on.
Skip(op) ==
  /\ ~Applicable(current, op)
  /\ seq' = seq + 1
  /\ UNCHANGED <<phase, current, operations, replay>>

Draw ==
  /\ phase = "draw"
  /\ seq <= sequenceLength
  /\ \E op \in Drawn : Keep(op) \/ StopBefore(op) \/ Skip(op)
  /\ UNCHANGED <<attempt, start, sequenceLength>>

EndOfLoop ==
  /\ phase = "draw"
  /\ seq > sequenceLength
  /\ phase' = "judge"
  /\ UNCHANGED <<attempt, start, current, sequenceLength, seq, operations, replay>>

\* Variant: a target may be as long as it likes.
FitAtAnyLength == Len(operations) >= MinOperations /\ current > 0

Fit == Len(operations) >= MinOperations /\ current \in 1..TargetMax

Judge ==
  /\ phase = "judge"
  /\ IF Fit THEN phase' = "returned" /\ attempt' = attempt
            ELSE phase' = "attempt"  /\ attempt' = attempt + 1
  /\ UNCHANGED <<start, current, sequenceLength, seq, operations, replay>>

Next == Attempt \/ GiveUp \/ Draw \/ EndOfLoop \/ Judge

Spec == Init /\ [][Next]_vars

-----------------------------------------------------------------------------
\* What the caller gets is the start, the target `current` and `operations`.
\* The target is what the hidden operations lead to when they are played one
\* after another through the rules a player is held to: the operations that
\* were drawn and refused have left no trace (generator.ts:78-87).
TargetReachable ==
  phase = "returned" =>
    /\ Len(replay) = Len(operations) + 1
    /\ replay[1].value = start
    /\ Now.value = current
    /\ \A i \in 1..Len(operations) :
         /\ ValidateOperationRange(operations[i])
         /\ Applicable(replay[i].value, operations[i])
         /\ replay[i + 1].value = Computed(replay[i].value, operations[i])

\* No match is won before it begins: the target differs from the start,
\* because every accepted target is shorter than every start (generator.ts:94).
TargetIsAhead == phase = "returned" => current # start

\* What a player can have spent when the last operation is taken: a full meter
\* and one elixir per interval since. At expiresAt itself an operation is late
\* (match-runtime.service.ts:173), so what is due then comes too late.
SpendableInTime == ElixirCap + (GameDuration - 1) \div RegenInterval

\* A player who plays the hidden operations can pay for all of them before time
\* is over (generator.ts:70, constants.ts:1-3).
WinnableInTime == phase = "returned" => Now.spent <= SpendableInTime
=============================================================================
