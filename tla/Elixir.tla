------------------------------- MODULE Elixir -------------------------------
(***************************************************************************)
(* The elixir of one player in one match. bootstrapMatch stores a full     *)
(* amount stamped with the start of the match; submitOperation pays for an *)
(* accepted operation with spendElixir and stores what it returns. Between *)
(* two payments nothing is written: growth is computed from the two stored *)
(* fields when the next payment comes.                                     *)
(*                                                                         *)
(* Time is counted from the start of the match, because submitOperation    *)
(* refuses an operation before startedAt, and stops at Duration, because   *)
(* it refuses one from expiresAt on.                                       *)
(***************************************************************************)
EXTENDS GameRules

CONSTANTS
  Costs,     \* the costs getOperationCost can return
  Duration   \* GAME_DURATION_MS in clock ticks

\* The bands of GameRules hold no cost below 1.
ASSUME ElixirAssumption ==
  /\ Costs \subseteq Nat \ {0}
  /\ Duration \in Nat

VARIABLES
  storedElixir,         \* the amount at lastElixirUpdateAt
  lastElixirUpdateAt,
  now,                  \* Date.now() - startedAt
  spent                 \* history: elixir paid so far

vars == <<storedElixir, lastElixirUpdateAt, now, spent>>

TypeOK ==
  /\ storedElixir \in 0..ElixirCap
  /\ lastElixirUpdateAt \in 0..now
  /\ now \in 0..Duration
  /\ spent \in Nat

Init ==
  /\ storedElixir = ElixirCap
  /\ lastElixirUpdateAt = 0
  /\ now = 0
  /\ spent = 0

Tick ==
  /\ now < Duration
  /\ now' = now + 1
  /\ UNCHANGED <<storedElixir, lastElixirUpdateAt, spent>>

\* The payment for an accepted operation of this cost.
Spend(cost) ==
  /\ now < Duration
  /\ CanSpend(storedElixir, lastElixirUpdateAt, cost, now)
  /\ LET paid == SpendElixir(storedElixir, lastElixirUpdateAt, cost, now)
     IN  /\ storedElixir' = paid.stored
         /\ lastElixirUpdateAt' = paid.last
  /\ spent' = spent + cost
  /\ UNCHANGED now

Next == Tick \/ \E cost \in Costs : Spend(cost)

Spec == Init /\ [][Next]_vars

-----------------------------------------------------------------------------

\* However payments are timed, no schedule of operations extracts more than
\* the initial amount and one elixir per full interval since the start: the
\* lazy recomputation (recomputeElixir) never counts an interval twice.
SpentWithinBudget == spent <= ElixirCap + now \div RegenInterval

\* The stored amount, what was paid and the stamp are tied: every elixir that
\* ever existed beyond the initial ones has its interval before the stamp.
Conservation ==
  (spent + storedElixir) * RegenInterval <= ElixirCap * RegenInterval + lastElixirUpdateAt

\* The lazy pair of fields behaves as the meter of ElixirMeter: paying early,
\* late, or after a time at the cap neither loses a started interval nor gains one.
Meter == INSTANCE ElixirMeter WITH
  Cap <- ElixirCap,
  Interval <- RegenInterval,
  level <- RecomputeElixir(storedElixir, lastElixirUpdateAt, now).actual,
  phase <- IF storedElixir < ElixirCap THEN (now - lastElixirUpdateAt) % RegenInterval ELSE 0,
  running <- storedElixir < ElixirCap

ImplementsMeter == Meter!Spec
=============================================================================
