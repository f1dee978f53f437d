-------------------------- MODULE RatingTransaction --------------------------
(***************************************************************************)
(* The transaction that finishes ranked matches: the callback finalizeMatch *)
(* hands to session.withTransaction (matches.service.ts) with              *)
(* applyRatedResult (ratings.service.ts), step by step, for matches that   *)
(* are finished at the same time and may share a player. MatchRuntime takes *)
(* this transaction as one step.                                           *)
(*                                                                         *)
(* Ratings are read outside the session and written inside. The snapshot   *)
(* of a transaction is fixed by its first statement; a write to a document *)
(* that somebody else has written since, or is writing, aborts it, and     *)
(* withTransaction runs the callback again, with the same match object.    *)
(***************************************************************************)
EXTENDS Integers, FiniteSets

CONSTANTS
  Users,
  Matches,
  Players,         \* [Matches -> <<player A, player B>>]: match.playerIds
  Expected(_, _),  \* expectedScore(own rating, opponent's), in hundredths
  MaxLateAborts,   \* how often a commit is aborted and the callback runs again
  MaxFailures      \* how often a process ends

ASSUME TransactionAssumption ==
  /\ IsFiniteSet(Matches)
  /\ Players \in [Matches -> Users \X Users]
  /\ \A m \in Matches : Players[m][1] # Players[m][2]
  /\ MaxLateAborts \in Nat
  /\ MaxFailures \in Nat

VARIABLES
  ratings,      \* [Users -> rating document]
  doc,          \* [Matches -> match document]
  score,        \* [Matches -> score of player A in hundredths]
  pc,           \* [Matches -> where finalizeMatch is]
  match,        \* [Matches -> the Mongoose object, and which of its paths are modified]
  got,          \* [Matches -> [Users -> rating document that was read]]
  fetched,      \* [Matches -> users whose rating was read]
  written,      \* [Matches -> users whose rating is written in the transaction]
  saved,        \* [Matches -> paths of the match written in the transaction]
  missed,       \* [Matches -> users whose rating changed since the snapshot]
  committed,    \* history: matches whose transaction committed
  lateAborts, failures

txnVars == <<match, got, fetched, written, saved, missed>>
vars == <<ratings, doc, score, pc, txnVars, committed, lateAborts, failures>>

PlayersOf(m)   == {Players[m][1], Players[m][2]}
Opponent(m, u) == IF u = Players[m][1] THEN Players[m][2] ELSE Players[m][1]
ScoreOf(m, u)  == IF u = Players[m][1] THEN score[m] ELSE 100 - score[m]

-----------------------------------------------------------------------------
KFactor(games, rating) ==
  IF games < 30 THEN 40 ELSE IF rating >= 1800 THEN 16 ELSE 24

\* Math.round of a number of hundredths.
Round(hundredths) == (hundredths + 50) \div 100

\* calculateElo, for one of the two players.
NewRating(own, opponent, points) ==
  own.rating + Round(KFactor(own.games, own.rating) * (points - Expected(own.rating, opponent.rating)))

\* A rating document after a match; wins, losses and draws go the way of
\* gamesPlayed.
Rated(own, opponent, points) ==
  [rating |-> NewRating(own, opponent, points), games |-> own.games + 1]

\* Variant: player B meets the new rating of player A.
UpdatedInTurn(m, u) ==
  LET a == Players[m][1]
      newA == Rated(got[m][a], got[m][Opponent(m, a)], ScoreOf(m, a))
  IN  IF u = a THEN newA ELSE Rated(got[m][u], newA, ScoreOf(m, u))

\* What applyRatedResult saves for u.
Updated(m, u) == Rated(got[m][u], got[m][Opponent(m, u)], ScoreOf(m, u))

\* match.ratingChanges.
Changes(m) == [u \in PlayersOf(m) |->
                 [before |-> got[m][u].rating, after |-> Updated(m, u).rating]]

NoChanges == <<>>
NewRatingDoc == [rating |-> 1000, games |-> 0]

-----------------------------------------------------------------------------
Init ==
  /\ ratings = [u \in Users |-> NewRatingDoc]
  /\ doc = [m \in Matches |-> [status |-> "active", changes |-> NoChanges]]
  /\ score \in [Matches -> {0, 50, 100}]
  /\ pc = [m \in Matches |-> "idle"]
  /\ match = [m \in Matches |-> [status |-> "active", changes |-> NoChanges, modified |-> {}]]
  /\ got = [m \in Matches |-> [u \in Users |-> NewRatingDoc]]
  /\ fetched = [m \in Matches |-> {}]
  /\ written = [m \in Matches |-> {}]
  /\ saved = [m \in Matches |-> {}]
  /\ missed = [m \in Matches |-> {}]
  /\ committed = {}
  /\ lateAborts = 0
  /\ failures = 0

Goto(m, label) == pc' = [pc EXCEPT ![m] = label]

\* Assigning to a path of a Mongoose document marks it modified only when the
\* value differs.
Assign(object, path, value) ==
  IF object[path] = value THEN object
  ELSE [object EXCEPT ![path] = value, !.modified = @ \cup {path}]

\* Variant: the status of the document is not looked at.
StartUnchecked(m) ==
  /\ pc[m] \in {"idle", "failed"}
  /\ match' = [match EXCEPT ![m] = [status |-> doc[m].status, changes |-> doc[m].changes, modified |-> {}]]
  /\ Goto(m, "callback")
  /\ UNCHANGED <<ratings, doc, score, got, fetched, written, saved, missed, committed, lateAborts, failures>>

\* finalizeMatch up to the transaction; after a failure it is a new process
\* that finishes the match once more.
Start(m) ==
  /\ pc[m] \in {"idle", "failed"}
  /\ match' = [match EXCEPT ![m] = [status |-> doc[m].status, changes |-> doc[m].changes, modified |-> {}]]
  /\ Goto(m, IF doc[m].status = "finished" THEN "done" ELSE "callback")
  /\ UNCHANGED <<ratings, doc, score, got, fetched, written, saved, missed, committed, lateAborts, failures>>

\* The callback starts, for the first time or again: the match object is set
\* to finished, and the upserts of the players' snapshots, the first statements
\* of the transaction, fix what it sees.
Begin(m) ==
  /\ pc[m] = "callback"
  /\ match' = [match EXCEPT ![m] = Assign(@, "status", "finished")]
  /\ fetched' = [fetched EXCEPT ![m] = {}]
  /\ missed' = [missed EXCEPT ![m] = {}]
  /\ Goto(m, "read")
  /\ UNCHANGED <<ratings, doc, score, got, written, saved, committed, lateAborts, failures>>

\* One of the two getOrCreateRating: it reads what is committed now.
Read(m, u) ==
  /\ pc[m] = "read"
  /\ u \in PlayersOf(m) \ fetched[m]
  /\ got' = [got EXCEPT ![m][u] = ratings[u]]
  /\ fetched' = [fetched EXCEPT ![m] = @ \cup {u}]
  /\ IF fetched'[m] = PlayersOf(m) THEN Goto(m, "saveRatings") ELSE UNCHANGED pc
  /\ UNCHANGED <<ratings, doc, score, match, written, saved, missed, committed, lateAborts, failures>>

Held(m, u) == \E other \in Matches \ {m} : u \in written[other]

\* Variant: the snapshot is fixed by the first save, after the ratings were read.
ConflictSinceFirstWrite(m, u) == Held(m, u) \/ (u \in missed[m] /\ written[m] # {})

\* A write conflict of the transaction.
Conflict(m, u) == Held(m, u) \/ u \in missed[m]

\* The rating that is saved next: A's, then B's.
NextToSave(m) == IF Players[m][1] \in written[m] THEN Players[m][2] ELSE Players[m][1]

\* rating.save({ session }).
SaveRating(m) ==
  /\ pc[m] = "saveRatings"
  /\ ~Conflict(m, NextToSave(m))
  /\ written' = [written EXCEPT ![m] = @ \cup {NextToSave(m)}]
  /\ IF written'[m] = PlayersOf(m) THEN Goto(m, "saveMatch") ELSE UNCHANGED pc
  /\ UNCHANGED <<ratings, doc, score, match, got, fetched, saved, missed, committed, lateAborts, failures>>

RolledBack(m) ==
  /\ written' = [written EXCEPT ![m] = {}]
  /\ saved' = [saved EXCEPT ![m] = {}]

\* The save runs into a conflict: a transient error, and withTransaction calls
\* the callback again. The match object keeps what the callback did to it.
Rerun(m) ==
  /\ pc[m] = "saveRatings"
  /\ Conflict(m, NextToSave(m))
  /\ RolledBack(m)
  /\ Goto(m, "callback")
  /\ UNCHANGED <<ratings, doc, score, match, got, fetched, missed, committed, lateAborts, failures>>

\* Variant: the match is saved without the session.
SaveMatchOutside(m) ==
  /\ pc[m] = "saveMatch"
  /\ doc' = [doc EXCEPT ![m] = [status |-> match[m].status, changes |-> Changes(m)]]
  /\ Goto(m, "audit")
  /\ UNCHANGED <<ratings, score, txnVars, committed, lateAborts, failures>>

\* match.ratingChanges is set and match.save({ session }) writes the modified
\* paths; from then on the object counts as unmodified.
SaveMatch(m) ==
  /\ pc[m] = "saveMatch"
  /\ LET object == Assign(match[m], "changes", Changes(m))
     IN  /\ saved' = [saved EXCEPT ![m] = object.modified]
         /\ match' = [match EXCEPT ![m] = [object EXCEPT !.modified = {}]]
  /\ Goto(m, "audit")
  /\ UNCHANGED <<ratings, doc, score, got, fetched, written, missed, committed, lateAborts, failures>>

\* The audit entry, written outside the session.
Audit(m) ==
  /\ pc[m] = "audit"
  /\ Goto(m, "commit")
  /\ UNCHANGED <<ratings, doc, score, txnVars, committed, lateAborts, failures>>

\* The document with the paths that the transaction wrote.
Saved(m) ==
  [status  |-> IF "status"  \in saved[m] THEN match[m].status  ELSE doc[m].status,
   changes |-> IF "changes" \in saved[m] THEN match[m].changes ELSE doc[m].changes]

Commit(m) ==
  /\ pc[m] = "commit"
  /\ ratings' = [u \in Users |-> IF u \in written[m] THEN Updated(m, u) ELSE ratings[u]]
  /\ doc' = [doc EXCEPT ![m] = Saved(m)]
  /\ missed' = [other \in Matches |-> missed[other] \cup written[m]]
  /\ written' = [written EXCEPT ![m] = {}]
  /\ committed' = committed \cup {m}
  /\ Goto(m, "done")
  /\ UNCHANGED <<score, match, got, fetched, saved, lateAborts, failures>>

\* The server aborts the transaction when it is to be committed (a new primary
\* does not know it): a transient error, and the callback runs again.
LateAbort(m) ==
  /\ pc[m] = "commit"
  /\ lateAborts < MaxLateAborts
  /\ lateAborts' = lateAborts + 1
  /\ RolledBack(m)
  /\ Goto(m, "callback")
  /\ UNCHANGED <<ratings, doc, score, match, got, fetched, missed, committed, failures>>

\* The process ends, after any other error or by itself: what was not committed
\* is rolled back, and what was committed has not been noted in Redis.
Fail(m) ==
  /\ pc[m] \notin {"idle", "failed"}
  /\ failures < MaxFailures
  /\ failures' = failures + 1
  /\ RolledBack(m)
  /\ Goto(m, "failed")
  /\ UNCHANGED <<ratings, doc, score, match, got, fetched, missed, committed, lateAborts>>

Next == \E m \in Matches :
  \/ Start(m) \/ Begin(m)
  \/ \E u \in Users : Read(m, u)
  \/ SaveRating(m) \/ Rerun(m) \/ SaveMatch(m) \/ Audit(m)
  \/ Commit(m) \/ LateAbort(m) \/ Fail(m)

Spec == Init /\ [][Next]_vars

-----------------------------------------------------------------------------
\* Every rated result counts once for both players: two matches of one user
\* that finish at the same time do not overwrite each other's update, although
\* the ratings are read outside the session (ratings.service.ts:83), and a match
\* that is finished again by a new process is not rated again.
EveryResultCounts ==
  lateAborts = 0 =>
    \A u \in Users : ratings[u].games = Cardinality({m \in committed : u \in PlayersOf(m)})

\* The rating changes of a match say what happened: `before` is the rating that
\* its commit replaces and `after` the one it leaves (matches.service.ts:210).
ChangesAreTrue ==
  [][\A m \in committed' \ committed : \A u \in PlayersOf(m) :
       "changes" \in saved[m] =>
         doc'[m].changes[u] = [before |-> ratings[u].rating, after |-> ratings'[u].rating]]_vars

\* No match is finished in the database without its ratings, and as long as no
\* commit was aborted late no ratings move without the result: conflicts,
\* reruns and failures leave both or neither.
ResultNeedsRatings ==
  \A m \in Matches :
    /\ doc[m].status = "finished" => m \in committed
    /\ lateAborts = 0 /\ m \in committed => doc[m].status = "finished"

\* The transactions are as good as a ledger that rates one match after the
\* other from the ratings of the moment. Late aborts take the record from it
\* (RatingsNeedResult), but never the ratings.
Ledger == INSTANCE RatingLedger WITH record <- doc
ImplementsLedger ==
  /\ Ledger!Init
  /\ [][\E m \in Matches :
         /\ Ledger!Rate(m)
         /\ lateAborts' = 0 => Ledger!Report(m)]_<<ratings, doc>>

\* "Final match resolution + rating updates are persisted transactionally"
\* (README.md:43): also when the callback ran again after a late abort.
RatingsNeedResult == \A m \in committed : doc[m].status = "finished"
=============================================================================
