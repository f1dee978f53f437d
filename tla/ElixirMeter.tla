----------------------------- MODULE ElixirMeter -----------------------------
(***************************************************************************)
(* What a player is promised about elixir: a meter that starts full and,   *)
(* from the first payment on, rises by one every RegenInterval ticks until *)
(* it is full. The clock behind it is never restarted: neither by another  *)
(* payment nor by the meter being full for a while.                        *)
(*                                                                         *)
(* The code keeps no such meter. It stores an amount and a time and        *)
(* computes the rest when an operation is paid for: see Elixir.            *)
(***************************************************************************)
EXTENDS Integers

CONSTANTS Cap, Interval, Costs

VARIABLES
  level,    \* what the player can pay now
  phase,    \* ticks since the meter last had the chance to rise
  running   \* the player has paid at least once

vars == <<level, phase, running>>

Init ==
  /\ level = Cap
  /\ phase = 0
  /\ running = FALSE

Rise ==
  /\ running
  /\ phase' = (phase + 1) % Interval
  /\ level' = IF phase' = 0 /\ level < Cap THEN level + 1 ELSE level
  /\ UNCHANGED running

Pay(cost) ==
  /\ level >= cost
  /\ level' = level - cost
  /\ running' = TRUE
  /\ UNCHANGED phase

Next == Rise \/ \E cost \in Costs : Pay(cost)

Spec == Init /\ [][Next]_vars
=============================================================================
