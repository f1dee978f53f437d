------------------------- MODULE MCRatingTransaction -------------------------
(* Two or three matches in a ring: each shares a player with the others.      *)
EXTENDS RatingTransaction, TLC
CONSTANTS u1, u2, u3, m1, m2, m3
MCUsers == {u1, u2, u3}
MCMatches == {m1, m2}
MCPlayers == m1 :> <<u1, u2>> @@ m2 :> <<u3, u1>>
MCRing == {m1, m2, m3}
MCRingPlayers == MCPlayers @@ m3 :> <<u2, u3>>
\* The ring looks the same from each of its matches.
Rotations ==
  {p \in Permutations(Users \cup Matches) :
     \A m \in Matches : p[m] \in Matches /\ Players[p[m]] = <<p[Players[m][1]], p[Players[m][2]]>>}
\* The better rated player is expected to win.
MCExpected(r, o) == IF r > o THEN 60 ELSE IF r < o THEN 40 ELSE 50
=============================================================================
