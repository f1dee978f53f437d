--------------------------- MODULE MCMatchRuntime ---------------------------
(* Small instances of MatchRuntime. *)
EXTENDS MatchRuntime, TLC

CONSTANTS p1, p2, r1, r2

MCPlayers  == {p1, p2}
MCRequests == {r1, r2}
JustP1     == {p1}
NoPlayers  == {}

Plus1 == {[type |-> "add", operand |-> 1]}
NoOperations == {}
Plus1Half == Plus1 \cup {[type |-> "div", operand |-> 2]}

\* The requests are interchangeable; the players are not, where a result is
\* worked out for the first of two.
Symmetry == Permutations(MCRequests)
=============================================================================
