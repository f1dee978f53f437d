------------------------------ MODULE GameRules ------------------------------
(***************************************************************************)
(* The rules of the game, from packages/shared/src/game: which operations  *)
(* exist, what they cost, what they do to a number, how elixir grows back  *)
(* and who is closest to the target. Everything here is a pure operator;   *)
(* the state machines that use them are Elixir and MatchRuntime.           *)
(*                                                                         *)
(* An operator of the code that throws is split in two: a predicate that   *)
(* holds when the call returns, and the value it then returns.             *)
(***************************************************************************)
EXTENDS Integers

CONSTANTS
  ElixirCap,      \* ELIXIR_CAP: the most elixir a player can hold
  RegenInterval,  \* ELIXIR_REGEN_INTERVAL_MS, in clock ticks of the model
  MaxResult       \* the largest number with MAX_RESULT_DIGITS digits

ASSUME RulesAssumption ==
  /\ ElixirCap \in Nat \ {0}
  /\ RegenInterval \in Nat \ {0}
  /\ MaxResult \in Nat

-----------------------------------------------------------------------------
(* Operations. An operation is a record [type, operand].                    *)

OperationType == {"add", "sub", "mul", "div"}

\* ADD_SUB_MAX, which is also the end of the last of addSubCostRanges.
AddSubMax == 3000000

\* The operands the code accepts for each type.
OperandRange ==
  [add |-> 1..AddSubMax, sub |-> 1..AddSubMax, mul |-> 2..10, div |-> 2..10]

ValidateOperationRange(op) == op.operand \in OperandRange[op.type]

Band(min, max, cost) == [min |-> min, max |-> max, cost |-> cost]

AddSubBands == {Band(1, 9999, 1), Band(10000, 499999, 2), Band(500000, AddSubMax, 3)}
MulBands    == {Band(2, 3, 1), Band(4, 6, 2), Band(7, 8, 3), Band(9, 10, 4)}
DivBands    == {Band(2, 3, 1), Band(4, 5, 2), Band(6, 7, 3), Band(8, 9, 4), Band(10, 10, 5)}

CostBands == [add |-> AddSubBands, sub |-> AddSubBands, mul |-> MulBands, div |-> DivBands]

\* The cost of the band the operand falls in; an operand in no band costs all.
GetOperationCost(op) ==
  LET hit == {b \in CostBands[op.type] : op.operand \in b.min..b.max}
  IN  IF hit = {} THEN ElixirCap ELSE (CHOOSE b \in hit : TRUE).cost

\* The number an operation computes, before the checks on it.
Computed(current, op) ==
  CASE op.type = "add" -> current + op.operand
    [] op.type = "sub" -> current - op.operand
    [] op.type = "mul" -> current * op.operand
    [] op.type = "div" -> current \div op.operand

\* applyOperation returns: the division is exact, the result is neither
\* negative nor too long.
Applicable(current, op) ==
  /\ op.type = "div" => current % op.operand = 0
  /\ Computed(current, op) \in 0..MaxResult

-----------------------------------------------------------------------------
(* Elixir. What is stored is the amount at the moment `last`; what a player  *)
(* has at `now` is computed when it is needed.                               *)

AtLeastZero(n) == IF n >= 0 THEN n ELSE 0
AtMost(n, m)   == IF n <= m THEN n ELSE m

\* Variant: a full meter keeps its old stamp, and the time at the cap counts.
RecomputeKeepingStamp(stored, last, now) ==
  LET steps == AtLeastZero(now - last) \div RegenInterval
  IN  [actual |-> AtMost(stored + steps, ElixirCap),
       anchor |-> IF stored >= ElixirCap THEN last ELSE last + steps * RegenInterval]

RecomputeElixir(stored, last, now) ==
  LET steps == AtLeastZero(now - last) \div RegenInterval
  IN  IF stored >= ElixirCap
      THEN [actual |-> ElixirCap, anchor |-> now]
      ELSE [actual |-> AtMost(stored + steps, ElixirCap),
            anchor |-> last + steps * RegenInterval]

\* Variant: INSUFFICIENT_ELIXIR is never thrown.
CanSpendAnything(stored, last, cost, now) == TRUE

CanSpend(stored, last, cost, now) ==
  RecomputeElixir(stored, last, now).actual >= cost

\* Variant: the amount is stored with the old stamp.
SpendUnstamped(stored, last, cost, now) ==
  [stored |-> RecomputeElixir(stored, last, now).actual - cost, last |-> last]

SpendElixir(stored, last, cost, now) ==
  LET r == RecomputeElixir(stored, last, now)
  IN  [stored |-> r.actual - cost, last |-> r.anchor]

-----------------------------------------------------------------------------
(* Winning on time.                                                         *)

Distance(target, value) == IF target >= value THEN target - value ELSE value - target

\* Variant: equal distances go to the first player.
ClosestOrFirst(target, a, va, b, vb, nobody) ==
  IF Distance(target, va) <= Distance(target, vb) THEN a ELSE b

\* Of two players a and b with values va and vb, the one strictly closer to
\* the target, or `nobody` when the distances are equal.
ResolveClosestWinner(target, a, va, b, vb, nobody) ==
  LET da == Distance(target, va)
      db == Distance(target, vb)
  IN  IF da < db THEN a ELSE IF db < da THEN b ELSE nobody
=============================================================================
