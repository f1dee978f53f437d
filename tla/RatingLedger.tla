---------------------------- MODULE RatingLedger ----------------------------
(***************************************************************************)
(* What ranked players are promised: matches are rated one after the       *)
(* other. A match that is finished gets its record, and both its players   *)
(* the ratings that follow from the two they have at that moment and the   *)
(* score, in one step; no other rating moves, and no match counts twice.   *)
(*                                                                         *)
(* The code has no such step: see RatingTransaction.                       *)
(***************************************************************************)
EXTENDS Integers

CONSTANTS
  Users, Matches,
  Players,         \* [Matches -> <<player A, player B>>]
  Rated(_, _, _)   \* a rating after a match against another one, with a score

VARIABLES
  ratings,   \* [Users -> rating]
  record,    \* [Matches -> match record]
  score      \* [Matches -> score of player A in hundredths]

vars == <<ratings, record>>

Init == \A m \in Matches : record[m].status = "active"

\* The ratings of both players of m, from each other's present ones.
Rate(m) ==
  LET a == Players[m][1]
      b == Players[m][2]
  IN  ratings' = [u \in Users |->
        CASE u = a -> Rated(ratings[a], ratings[b], score[m])
          [] u = b -> Rated(ratings[b], ratings[a], 100 - score[m])
          [] OTHER -> ratings[u]]

\* The record of m says so.
Report(m) ==
  /\ record[m].status = "active"
  /\ record'[m].status = "finished"
  /\ \A u \in {Players[m][1], Players[m][2]} :
       record'[m].changes[u] = [before |-> ratings[u].rating, after |-> ratings'[u].rating]
  /\ \A other \in Matches \ {m} : record'[other] = record[other]

Finish(m) == Rate(m) /\ Report(m)

Next == \E m \in Matches : Finish(m)

Spec == Init /\ [][Next]_vars
=============================================================================
