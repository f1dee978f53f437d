---------------------------- MODULE MCMatchmaking ----------------------------
(* Small instances of Matchmaking. *)
EXTENDS Matchmaking, TLC

CONSTANTS a, b, c, d, k1, k2, k3

ThreeUsers == {a, b, c}
FourUsers == {a, b, c, d}
TwoCallers == {k1, k2}
ThreeCallers == {k1, k2, k3}

\* Equal ratings: everybody is in range of everybody.
Even == [u \in Users |-> 1000]

\* Users are interchangeable too: nothing reads the user an idle call names.
Symmetry == Permutations(Callers) \cup Permutations(Users)
=============================================================================
