--------------------------- MODULE MatchLifecycle ---------------------------
(***************************************************************************)
(* What the match record promises, with no process, cache or call in       *)
(* sight. Players hit the target and give up, time runs out, and once, for *)
(* one of these reasons, the record gets its result: after that neither    *)
(* the result nor the ratings change, whatever is still going on.          *)
(***************************************************************************)
EXTENDS Integers

CONSTANTS Players, Nobody, Ranked, Target

VARIABLES
  reached,   \* players one of whose operations hit the target
  gaveUp,    \* players who surrendered
  expired,   \* time has run out
  record,    \* the match record
  rated      \* times the ratings were updated for this match

vars == <<reached, gaveUp, expired, record, rated>>

Away(value, p) == IF value[p] <= Target THEN Target - value[p] ELSE value[p] - Target

\* The reasons a result needs. The numbers compared on time are the ones the
\* record itself keeps.
Justified(rec) ==
  \/ rec.result = "exact" /\ rec.winner \in reached
  \/ /\ rec.result = "surrender"
     /\ rec.winner \in Players /\ Players \ {rec.winner} \subseteq gaveUp
  \/ /\ rec.result = "closest" /\ expired
     /\ rec.winner \in Players
     /\ \A p \in Players \ {rec.winner} : Away(rec.value, rec.winner) < Away(rec.value, p)
  \/ /\ rec.result = "draw" /\ expired
     /\ rec.winner = Nobody
     /\ \A p, q \in Players : Away(rec.value, p) = Away(rec.value, q)

Init ==
  /\ reached = {} /\ gaveUp = {} /\ expired = FALSE
  /\ record.status = "active"
  /\ rated = 0

Hit(p) ==
  /\ reached' = reached \cup {p}
  /\ UNCHANGED <<gaveUp, expired, record, rated>>

GiveUp(p) ==
  /\ gaveUp' = gaveUp \cup {p}
  /\ UNCHANGED <<reached, expired, record, rated>>

Expire ==
  /\ expired' = TRUE
  /\ UNCHANGED <<reached, gaveUp, record, rated>>

Resolve ==
  /\ record.status = "active"
  /\ record'.status = "finished"
  /\ Justified(record')
  /\ rated' = IF Ranked THEN rated + 1 ELSE rated
  /\ UNCHANGED <<reached, gaveUp, expired>>

Next == Expire \/ Resolve \/ \E p \in Players : Hit(p) \/ GiveUp(p)

Spec == Init /\ [][Next]_vars
=============================================================================
