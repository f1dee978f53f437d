----------------------- MODULE RatingTransactionProofs -----------------------
(***************************************************************************)
(* Ratings that are read outside their transaction are safe all the same,  *)
(* for any matches, players, results and interleaving: a rating that has   *)
(* changed since it was read cannot be written.                            *)
(***************************************************************************)
EXTENDS RatingTransaction, FiniteSetTheorems, TLAPS

Writing == {"saveRatings", "saveMatch", "audit", "commit"}
Labels  == {"idle", "callback", "read", "done", "failed"} \cup Writing

\* Documents and objects have their fields; what a rating is does not matter.
Shape ==
  /\ ratings = [u \in Users |-> ratings[u]]
  /\ got = [m \in Matches |-> [u \in Users |-> got[m][u]]]
  /\ doc = [m \in Matches |-> [status |-> doc[m].status, changes |-> doc[m].changes]]
  /\ match = [m \in Matches |-> [status |-> match[m].status, changes |-> match[m].changes,
                                 modified |-> match[m].modified]]
  /\ pc \in [Matches -> Labels]
  /\ fetched \in [Matches -> SUBSET Users]
  /\ written \in [Matches -> SUBSET Users]
  /\ missed \in [Matches -> SUBSET Users]
  /\ saved = [m \in Matches |-> saved[m]]
  /\ committed \subseteq Matches
  /\ lateAborts \in Nat

\* What was read and has not changed since is what is committed.
Fresh ==
  \A m \in Matches : \A u \in fetched[m] \ missed[m] : got[m][u] = ratings[u]

\* Only what is fresh is written, by one transaction at a time.
Locks ==
  /\ \A m \in Matches :
       /\ written[m] \subseteq PlayersOf(m)
       /\ written[m] \subseteq fetched[m] \ missed[m]
       /\ written[m] # {} => pc[m] \in Writing
       /\ pc[m] \in Writing => fetched[m] = PlayersOf(m)
       /\ pc[m] \in Writing \ {"saveRatings"} => written[m] = PlayersOf(m)
  /\ \A m, n \in Matches : m # n => written[m] \cap written[n] = {}

\* A match is finished in the database only by its commit, and its object has
\* the rating changes from the save on.
Stored ==
  \A m \in Matches :
    /\ m \notin committed => doc[m].status = "active"
    /\ pc[m] \in {"audit", "commit"} => match[m].changes = Changes(m)

\* Without a late abort the object that is saved knows that its status changed,
\* and a match commits once.
Once ==
  lateAborts = 0 =>
    \A m \in Matches :
      /\ m \in committed => doc[m].status = "finished" /\ pc[m] \in {"done", "failed"}
      /\ pc[m] = "callback" => match[m].status = "active" \/ "status" \in match[m].modified
      /\ pc[m] \in {"read", "saveRatings", "saveMatch"} =>
           match[m].status = "finished" /\ "status" \in match[m].modified
      /\ pc[m] \in {"audit", "commit"} => match[m].status = "finished" /\ "status" \in saved[m]

\* As long as no commit was aborted late, the changes reach the document only
\* by the commit of the match: the object has none when they are set, so the
\* save writes them.
Reported ==
  lateAborts = 0 =>
    \A m \in Matches :
      /\ m \notin committed => doc[m].changes = NoChanges
      /\ pc[m] \in {"callback", "read", "saveRatings", "saveMatch"} => match[m].changes = NoChanges
      /\ pc[m] \in {"audit", "commit"} => "changes" \in saved[m]

RInv == Shape /\ Fresh /\ Locks /\ Stored /\ Once /\ EveryResultCounts

-----------------------------------------------------------------------------
LEMMA PlayersAreUsers ==
  ASSUME NEW m \in Matches
  PROVE  PlayersOf(m) \subseteq Users /\ Players[m][1] # Players[m][2]
BY TransactionAssumption DEF PlayersOf

LEMMA RatingsInit == Init => RInv
<1> SUFFICES ASSUME Init PROVE RInv
  OBVIOUS
<1>1. Shape /\ Fresh /\ Locks /\ Stored /\ Once
  BY DEF Init, Shape, Fresh, Locks, Stored, Once, Labels, Writing, NoChanges
<1>2. EveryResultCounts
  <2>1. \A u \in Users : {m \in committed : u \in PlayersOf(m)} = {}
    BY DEF Init
  <2>2. QED
    BY <2>1, FS_EmptySet DEF Init, EveryResultCounts, NewRatingDoc
<1>3. QED
  BY <1>1, <1>2 DEF RInv

\* Steps that leave the ratings and what is committed alone.
LEMMA CountsAlone ==
  ASSUME RInv, UNCHANGED <<ratings, committed>>, lateAborts' = 0 => lateAborts = 0
  PROVE  EveryResultCounts'
BY DEF RInv, EveryResultCounts

\* The changes of a match depend on what it has read and on its result.
LEMMA ChangesSame ==
  ASSUME NEW m \in Matches, got'[m] = got[m], score' = score
  PROVE  Changes(m)' = Changes(m) /\ \A u \in Users : Updated(m, u)' = Updated(m, u)
<1>1. \A u \in Users : Updated(m, u)' = Updated(m, u)
  BY DEF Updated, Rated, NewRating, ScoreOf, Opponent, KFactor, Round
<1>2. PlayersOf(m)' = PlayersOf(m) /\ PlayersOf(m) \subseteq Users
  BY PlayersAreUsers DEF PlayersOf
<1>3. QED
  BY <1>1, <1>2 DEF Changes

\* Steps that change only where a match is, its object and its history keep
\* Fresh; and a step that stays within the same part keeps Locks.
LEMMA LocksAlone ==
  ASSUME RInv, NEW m \in Matches, NEW label \in Labels, pc' = [pc EXCEPT ![m] = label],
         UNCHANGED <<ratings, got, fetched, written, missed>>,
         label \in Writing => pc[m] \in Writing,
         pc[m] \in Writing => label \in Writing \/ written[m] = {},
         label \in Writing \ {"saveRatings"} => pc[m] \in Writing \ {"saveRatings"}
  PROVE  Fresh' /\ Locks'
<1>1. Fresh'
  BY DEF RInv, Fresh
<1>2. pc'[m] = label /\ \A n \in Matches : n # m => pc'[n] = pc[n]
  BY DEF RInv, Shape
<1>3. \A n \in Matches : PlayersOf(n)' = PlayersOf(n)
  BY DEF PlayersOf
<1>4. ASSUME NEW n \in Matches
      PROVE  /\ written[n] \subseteq PlayersOf(n)
             /\ written[n] \subseteq fetched[n] \ missed[n]
             /\ written[n] # {} => pc'[n] \in Writing
             /\ pc'[n] \in Writing => fetched[n] = PlayersOf(n)
             /\ pc'[n] \in Writing \ {"saveRatings"} => written[n] = PlayersOf(n)
  <2>1. CASE n = m
    BY <1>2, <2>1 DEF RInv, Locks
  <2>2. CASE n # m
    BY <1>2, <2>2 DEF RInv, Locks
  <2>3. QED
    BY <2>1, <2>2
<1>5. Locks'
  BY <1>3, <1>4 DEF RInv, Locks
<1>6. QED
  BY <1>1, <1>5

LEMMA StartRInv == \A m \in Matches : RInv /\ Start(m) => RInv'
<1> SUFFICES ASSUME NEW m \in Matches, RInv, Start(m) PROVE RInv'
  OBVIOUS
<1> DEFINE object == [status |-> doc[m].status, changes |-> doc[m].changes, modified |-> {}]
           label  == IF doc[m].status = "finished" THEN "done" ELSE "callback"
<1>1. /\ pc[m] \in {"idle", "failed"}
      /\ match' = [match EXCEPT ![m] = object] /\ pc' = [pc EXCEPT ![m] = label]
      /\ UNCHANGED <<ratings, doc, got, fetched, written, saved, missed, committed, lateAborts, score>>
  BY DEF Start, Goto
<1>2. Shape /\ Fresh /\ Locks /\ Stored /\ Once
  BY DEF RInv
<1>3. label \in {"done", "callback"} /\ (label = "callback" => doc[m].status # "finished")
  OBVIOUS
<1>4. /\ object.status = doc[m].status
      /\ object = [status |-> object.status, changes |-> object.changes, modified |-> object.modified]
  OBVIOUS
<1> HIDE DEF object, label
<1>5. Shape'
  BY <1>1, <1>2, <1>3, <1>4 DEF Shape, Labels
<1>6. Fresh' /\ Locks'
  <2>1. label \in Labels /\ label \notin Writing /\ pc[m] \notin Writing
    BY <1>1, <1>3 DEF Labels, Writing
  <2>2. QED
    BY <1>1, <2>1, LocksAlone
<1>7. Stored'
  <2>1. \A n \in Matches : Changes(n)' = Changes(n)
    BY <1>1, ChangesSame
  <2>2. QED
    BY <1>1, <1>2, <1>3, <2>1 DEF Shape, Stored
<1>8. Once'
  BY <1>1, <1>2, <1>3, <1>4 DEF Shape, Stored, Once
<1>9. QED
  BY <1>1, <1>5, <1>6, <1>7, <1>8, CountsAlone DEF RInv

\* Assigning the status sets it, and marks it when it changes.
LEMMA AssignStatus ==
  ASSUME NEW o, o = [status |-> o.status, changes |-> o.changes, modified |-> o.modified]
  PROVE  LET r == Assign(o, "status", "finished")
         IN  /\ r = [status |-> r.status, changes |-> r.changes, modified |-> r.modified]
             /\ r.status = "finished" /\ r.changes = o.changes
             /\ o.status # "finished" \/ "status" \in o.modified => "status" \in r.modified
BY DEF Assign

LEMMA AssignChanges ==
  ASSUME NEW o, o = [status |-> o.status, changes |-> o.changes, modified |-> o.modified], NEW value
  PROVE  LET r == Assign(o, "changes", value)
         IN  /\ r = [status |-> r.status, changes |-> r.changes, modified |-> r.modified]
             /\ r.status = o.status /\ r.changes = value
             /\ "status" \in o.modified => "status" \in r.modified
BY DEF Assign

LEMMA BeginRInv == \A m \in Matches : RInv /\ Begin(m) => RInv'
<1> SUFFICES ASSUME NEW m \in Matches, RInv, Begin(m) PROVE RInv'
  OBVIOUS
<1> DEFINE object == Assign(match[m], "status", "finished")
<1>1. /\ pc[m] = "callback" /\ pc' = [pc EXCEPT ![m] = "read"]
      /\ match' = [match EXCEPT ![m] = object]
      /\ fetched' = [fetched EXCEPT ![m] = {}] /\ missed' = [missed EXCEPT ![m] = {}]
      /\ UNCHANGED <<ratings, doc, score, got, written, saved, committed, lateAborts>>
  BY DEF Begin, Goto
<1>2. Shape /\ Fresh /\ Locks /\ Stored /\ Once
  BY DEF RInv
<1>3. /\ object = [status |-> object.status, changes |-> object.changes, modified |-> object.modified]
      /\ object.status = "finished"
      /\ match[m].status # "finished" \/ "status" \in match[m].modified => "status" \in object.modified
  <2> DEFINE o == match[m]
  <2>1. o = [status |-> o.status, changes |-> o.changes, modified |-> o.modified]
    BY <1>2 DEF Shape
  <2> HIDE DEF o
  <2>2. QED
    BY <2>1, AssignStatus DEF o
<1> HIDE DEF object
<1>4. written[m] = {} /\ "read" \in Labels /\ "read" \notin Writing /\ "callback" \notin Writing
  BY <1>1, <1>2 DEF Locks, Labels, Writing
<1>5. Shape'
  BY <1>1, <1>2, <1>3, <1>4 DEF Shape
<1>6. Fresh'
  BY <1>1, <1>2 DEF Shape, Fresh
<1>7. Locks'
  <2>1. \A n \in Matches : PlayersOf(n)' = PlayersOf(n)
    BY DEF PlayersOf
  <2>2. QED
    BY <1>1, <1>2, <1>4, <2>1 DEF Shape, Locks
<1>8. Stored'
  <2>1. \A n \in Matches : Changes(n)' = Changes(n)
    BY <1>1, ChangesSame
  <2>2. QED
    BY <1>1, <1>2, <2>1 DEF Shape, Stored
<1>9. Once'
  BY <1>1, <1>2, <1>3 DEF Shape, Once
<1>10. QED
  BY <1>1, <1>5, <1>6, <1>7, <1>8, <1>9, CountsAlone DEF RInv

LEMMA ReadRInv == \A m \in Matches, u \in Users : RInv /\ Read(m, u) => RInv'
<1> SUFFICES ASSUME NEW m \in Matches, NEW u \in Users, RInv, Read(m, u) PROVE RInv'
  OBVIOUS
<1>1. /\ pc[m] = "read" /\ u \in PlayersOf(m)
      /\ got' = [got EXCEPT ![m][u] = ratings[u]]
      /\ fetched' = [fetched EXCEPT ![m] = @ \cup {u}]
      /\ UNCHANGED <<ratings, doc, score, match, written, saved, missed, committed, lateAborts>>
  BY DEF Read
<1>2. Shape /\ Fresh /\ Locks /\ Stored /\ Once
  BY DEF RInv
<1>3. PICK label \in {"read", "saveRatings"} :
        pc' = [pc EXCEPT ![m] = label] /\ (label = "saveRatings" => fetched'[m] = PlayersOf(m))
  <2>1. pc = [pc EXCEPT ![m] = "read"]
    BY <1>1, <1>2 DEF Shape
  <2>2. QED
    BY <1>1, <2>1 DEF Read, Goto
<1>4. /\ written[m] = {} /\ "read" \notin Writing /\ label \in Labels
      /\ label \in Writing => label = "saveRatings"
  BY <1>1, <1>2 DEF Locks, Labels, Writing
<1>5. /\ \A n \in Matches : n # m => got'[n] = got[n] /\ fetched'[n] = fetched[n] /\ pc'[n] = pc[n]
      /\ \A v \in Users : got'[m][v] = IF v = u THEN ratings[u] ELSE got[m][v]
      /\ fetched'[m] = fetched[m] \cup {u} /\ pc'[m] = label
  BY <1>1, <1>2, <1>3 DEF Shape
<1>6. Shape'
  <2>1. got' = [n \in Matches |-> [v \in Users |-> got'[n][v]]]
    BY <1>1, <1>2 DEF Shape
  <2>2. QED
    BY <1>1, <1>2, <1>3, <1>4, <2>1 DEF Shape
<1>7. Fresh'
  <2>1. ASSUME NEW n \in Matches, NEW v \in fetched'[n] \ missed[n] PROVE got'[n][v] = ratings[v]
    <3>1. v \in Users
      BY <1>6, <2>1 DEF Shape
    <3>2. CASE n = m
      BY <1>2, <1>5, <2>1, <3>1, <3>2 DEF Fresh
    <3>3. CASE n # m
      BY <1>2, <1>5, <2>1, <3>3 DEF Fresh
    <3>4. QED
      BY <3>2, <3>3
  <2>2. QED
    BY <1>1, <2>1 DEF Fresh
<1>8. Locks'
  <2>1. \A n \in Matches : PlayersOf(n)' = PlayersOf(n)
    BY DEF PlayersOf
  <2>2. \A n \in Matches : n # m => pc'[n] = pc[n] /\ fetched'[n] = fetched[n]
    BY <1>5
  <2>3. QED
    BY <1>1, <1>2, <1>3, <1>4, <1>5, <2>1, <2>2 DEF Locks
<1>9. Stored'
  <2>1. \A n \in Matches : n # m => Changes(n)' = Changes(n)
    BY <1>1, <1>5, ChangesSame
  <2>2. QED
    BY <1>1, <1>2, <1>5, <2>1 DEF Stored
<1>10. Once'
  BY <1>1, <1>2, <1>5 DEF Once
<1>11. QED
  BY <1>1, <1>6, <1>7, <1>8, <1>9, <1>10, CountsAlone DEF RInv

LEMMA SaveRatingRInv == \A m \in Matches : RInv /\ SaveRating(m) => RInv'
<1> SUFFICES ASSUME NEW m \in Matches, RInv, SaveRating(m) PROVE RInv'
  OBVIOUS
<1> DEFINE u == NextToSave(m)
<1>1. /\ pc[m] = "saveRatings" /\ u \notin missed[m]
      /\ \A n \in Matches \ {m} : u \notin written[n]
      /\ written' = [written EXCEPT ![m] = @ \cup {u}]
      /\ UNCHANGED <<ratings, doc, score, match, got, fetched, saved, missed, committed, lateAborts>>
  BY DEF SaveRating, Conflict, Held
<1>2. Shape /\ Fresh /\ Locks /\ Stored /\ Once
  BY DEF RInv
<1>3. PICK label \in {"saveRatings", "saveMatch"} :
        pc' = [pc EXCEPT ![m] = label] /\ (label = "saveMatch" => written'[m] = PlayersOf(m))
  <2>1. pc = [pc EXCEPT ![m] = "saveRatings"]
    BY <1>1, <1>2 DEF Shape
  <2>2. QED
    BY <1>1, <2>1 DEF SaveRating, Goto
<1>4. u \in PlayersOf(m) /\ u \in Users
  BY PlayersAreUsers DEF NextToSave, PlayersOf
<1> HIDE DEF u
<1>5. /\ \A n \in Matches : n # m => written'[n] = written[n] /\ pc'[n] = pc[n]
      /\ written'[m] = written[m] \cup {u} /\ pc'[m] = label
      /\ label \in Labels /\ label \in Writing /\ "saveRatings" \in Writing
  BY <1>1, <1>2, <1>3 DEF Shape, Labels, Writing
<1>6. Shape'
  BY <1>1, <1>2, <1>3, <1>4, <1>5 DEF Shape
<1>7. Fresh'
  BY <1>1, <1>2 DEF Fresh
<1>8. Locks'
  <2>1. \A n \in Matches : PlayersOf(n)' = PlayersOf(n)
    BY DEF PlayersOf
  <2>2. fetched[m] = PlayersOf(m)
    BY <1>1, <1>2, <1>5 DEF Locks
  <2>3. ASSUME NEW n \in Matches
        PROVE  /\ written'[n] \subseteq PlayersOf(n)
               /\ written'[n] \subseteq fetched[n] \ missed[n]
               /\ written'[n] # {} => pc'[n] \in Writing
               /\ pc'[n] \in Writing => fetched[n] = PlayersOf(n)
               /\ pc'[n] \in Writing \ {"saveRatings"} => written'[n] = PlayersOf(n)
    <3>1. CASE n = m
      BY <1>1, <1>2, <1>3, <1>4, <1>5, <2>2, <3>1 DEF Locks
    <3>2. CASE n # m
      BY <1>2, <1>5, <3>2 DEF Locks
    <3>3. QED
      BY <3>1, <3>2
  <2>4. \A n, k \in Matches : n # k => written'[n] \cap written'[k] = {}
    BY <1>1, <1>2, <1>5 DEF Locks
  <2>5. QED
    BY <1>1, <2>1, <2>3, <2>4 DEF Locks
<1>9. Stored'
  <2>1. \A n \in Matches : Changes(n)' = Changes(n)
    BY <1>1, ChangesSame
  <2>2. QED
    BY <1>1, <1>2, <1>5, <2>1 DEF Stored
<1>10. Once'
  BY <1>1, <1>2, <1>5 DEF Once
<1>11. QED
  BY <1>1, <1>6, <1>7, <1>8, <1>9, <1>10, CountsAlone DEF RInv

\* The transaction is rolled back, to be run again or not.
LEMMA RollbackRInv ==
  ASSUME RInv, NEW m \in Matches, NEW label \in {"callback", "failed"},
         RolledBack(m), Goto(m, label),
         UNCHANGED <<ratings, doc, score, match, got, fetched, missed, committed>>,
         lateAborts' \in {lateAborts, lateAborts + 1},
         lateAborts' = 0 /\ label = "callback" => pc[m] = "saveRatings"
  PROVE  RInv'
<1>1. /\ pc' = [pc EXCEPT ![m] = label]
      /\ written' = [written EXCEPT ![m] = {}] /\ saved' = [saved EXCEPT ![m] = {}]
  BY DEF RolledBack, Goto
<1>2. Shape /\ Fresh /\ Locks /\ Stored /\ Once
  BY DEF RInv
<1>3. /\ \A n \in Matches : n # m => written'[n] = written[n] /\ pc'[n] = pc[n] /\ saved'[n] = saved[n]
      /\ written'[m] = {} /\ pc'[m] = label /\ label \in Labels /\ label \notin Writing
  BY <1>1, <1>2 DEF Shape, Labels, Writing
<1>4. lateAborts' \in Nat /\ (lateAborts' = 0 => lateAborts = 0)
  BY <1>2 DEF Shape
<1>5. Shape'
  <2>1. pc' \in [Matches -> Labels] /\ written' \in [Matches -> SUBSET Users]
    BY <1>1, <1>2, <1>3 DEF Shape
  <2>2. saved' = [n \in Matches |-> saved'[n]]
    BY <1>1, <1>2 DEF Shape
  <2>3. QED
    BY <1>2, <1>4, <2>1, <2>2 DEF Shape
<1>6. Fresh'
  BY <1>2 DEF Fresh
<1>7. Locks'
  <2>1. \A n \in Matches : PlayersOf(n)' = PlayersOf(n)
    BY DEF PlayersOf
  <2>2. QED
    BY <1>2, <1>3, <2>1 DEF Locks
<1>8. Stored'
  <2>1. \A n \in Matches : Changes(n)' = Changes(n)
    BY ChangesSame
  <2>2. QED
    BY <1>2, <1>3, <2>1 DEF Stored
<1>9. Once'
  BY <1>2, <1>3, <1>4 DEF Once
<1>10. QED
  BY <1>4, <1>5, <1>6, <1>7, <1>8, <1>9, CountsAlone DEF RInv

LEMMA AbortsRInv == \A m \in Matches : RInv /\ (Rerun(m) \/ LateAbort(m) \/ Fail(m)) => RInv'
<1> SUFFICES ASSUME NEW m \in Matches, RInv, Rerun(m) \/ LateAbort(m) \/ Fail(m) PROVE RInv'
  OBVIOUS
<1>1. CASE Rerun(m)
  BY <1>1, RollbackRInv DEF Rerun
<1>2. CASE LateAbort(m)
  <2>1. lateAborts' # 0
    BY <1>2 DEF LateAbort, RInv, Shape
  <2>2. QED
    BY <1>2, <2>1, RollbackRInv DEF LateAbort
<1>3. CASE Fail(m)
  BY <1>3, RollbackRInv DEF Fail
<1>4. QED
  BY <1>1, <1>2, <1>3

LEMMA SaveMatchRInv == \A m \in Matches : RInv /\ SaveMatch(m) => RInv'
<1> SUFFICES ASSUME NEW m \in Matches, RInv, SaveMatch(m) PROVE RInv'
  OBVIOUS
<1> DEFINE object == Assign(match[m], "changes", Changes(m))
           clean  == [object EXCEPT !.modified = {}]
<1>1. /\ pc[m] = "saveMatch" /\ pc' = [pc EXCEPT ![m] = "audit"]
      /\ saved' = [saved EXCEPT ![m] = object.modified]
      /\ match' = [match EXCEPT ![m] = clean]
      /\ UNCHANGED <<ratings, doc, score, got, fetched, written, missed, committed, lateAborts>>
  BY DEF SaveMatch, Goto
<1>2. Shape /\ Fresh /\ Locks /\ Stored /\ Once
  BY DEF RInv
<1>3. /\ object = [status |-> object.status, changes |-> object.changes, modified |-> object.modified]
      /\ object.status = match[m].status /\ object.changes = Changes(m)
      /\ "status" \in match[m].modified => "status" \in object.modified
  <2> DEFINE o == match[m]
  <2>1. o = [status |-> o.status, changes |-> o.changes, modified |-> o.modified]
    BY <1>2 DEF Shape
  <2> HIDE DEF o
  <2>2. QED
    BY <2>1, AssignChanges DEF o
<1> HIDE DEF object
<1>4. /\ clean = [status |-> clean.status, changes |-> clean.changes, modified |-> clean.modified]
      /\ clean.status = match[m].status /\ clean.changes = Changes(m)
  BY <1>3
<1> HIDE DEF clean
<1>5. "audit" \in Labels /\ "audit" \in Writing /\ "saveMatch" \in Writing
  BY DEF Labels, Writing
<1>6. Shape'
  BY <1>1, <1>2, <1>4, <1>5 DEF Shape
<1>7. Fresh' /\ Locks'
  BY <1>1, <1>5, LocksAlone
<1>8. /\ pc'[m] = "audit" /\ match'[m] = clean /\ saved'[m] = object.modified
      /\ \A n \in Matches : n # m => pc'[n] = pc[n] /\ match'[n] = match[n] /\ saved'[n] = saved[n]
  BY <1>1, <1>2 DEF Shape
<1>9. Stored'
  <2>1. \A n \in Matches : Changes(n)' = Changes(n)
    BY <1>1, ChangesSame
  <2>2. QED
    BY <1>1, <1>2, <1>4, <1>8, <2>1 DEF Stored
<1>10. Once'
  BY <1>1, <1>2, <1>3, <1>4, <1>8 DEF Once
<1>11. QED
  BY <1>1, <1>6, <1>7, <1>9, <1>10, CountsAlone DEF RInv

LEMMA AuditRInv == \A m \in Matches : RInv /\ Audit(m) => RInv'
<1> SUFFICES ASSUME NEW m \in Matches, RInv, Audit(m) PROVE RInv'
  OBVIOUS
<1>1. /\ pc[m] = "audit" /\ pc' = [pc EXCEPT ![m] = "commit"]
      /\ UNCHANGED <<ratings, doc, score, match, got, fetched, written, saved, missed, committed, lateAborts>>
  BY DEF Audit, Goto, txnVars
<1>2. Shape /\ Fresh /\ Locks /\ Stored /\ Once
  BY DEF RInv
<1>3. "audit" \in Writing /\ "commit" \in Writing /\ "commit" \in Labels
  BY DEF Labels, Writing
<1>4. Shape'
  BY <1>1, <1>2, <1>3 DEF Shape
<1>5. Fresh' /\ Locks'
  BY <1>1, <1>3, LocksAlone
<1>6. Stored' /\ Once'
  <2>1. \A n \in Matches : Changes(n)' = Changes(n)
    BY <1>1, ChangesSame
  <2>2. QED
    BY <1>1, <1>2, <2>1 DEF Stored, Once, Shape
<1>7. QED
  BY <1>1, <1>4, <1>5, <1>6, CountsAlone DEF RInv

\* What a commit makes of the ratings of its players, and of nobody else's.
LEMMA CommitWrites ==
  ASSUME RInv, NEW m \in Matches, Commit(m)
  PROVE  /\ written[m] = PlayersOf(m)
         /\ \A u \in PlayersOf(m) : got[m][u] = ratings[u] /\ ratings'[u] = Updated(m, u)
         /\ \A u \in Users \ PlayersOf(m) : ratings'[u] = ratings[u]
<1>1. written[m] = PlayersOf(m) /\ PlayersOf(m) \subseteq fetched[m] \ missed[m]
  BY DEF Commit, RInv, Locks, Writing
<1>2. \A u \in PlayersOf(m) : got[m][u] = ratings[u]
  BY <1>1 DEF RInv, Fresh
<1>3. ratings' = [u \in Users |-> IF u \in written[m] THEN Updated(m, u) ELSE ratings[u]]
  BY DEF Commit
<1>4. QED
  BY <1>1, <1>2, <1>3, PlayersAreUsers

LEMMA CommitRInv == \A m \in Matches : RInv /\ Commit(m) => RInv'
<1> SUFFICES ASSUME NEW m \in Matches, RInv, Commit(m) PROVE RInv'
  OBVIOUS
<1> DEFINE stored == Saved(m)
<1>1. Shape /\ Fresh /\ Locks /\ Stored /\ Once /\ EveryResultCounts
  BY DEF RInv
<1>2. /\ pc[m] = "commit" /\ pc' = [pc EXCEPT ![m] = "done"]
      /\ missed' = [n \in Matches |-> missed[n] \cup written[m]]
      /\ written' = [written EXCEPT ![m] = {}]
      /\ committed' = committed \cup {m}
      /\ ratings' = [u \in Users |-> IF u \in written[m] THEN Updated(m, u) ELSE ratings[u]]
      /\ UNCHANGED <<score, match, got, fetched, saved, lateAborts>>
  BY DEF Commit, Goto
<1>3. doc' = [doc EXCEPT ![m] = stored]
  BY DEF Commit
<1>4. stored = [status |-> stored.status, changes |-> stored.changes]
      /\ (lateAborts = 0 => stored.status = "finished")
  BY <1>1, <1>2 DEF Once, Saved
<1> HIDE DEF stored
<1>5. "done" \in Labels /\ "done" \notin Writing
  BY DEF Labels, Writing
<1>6. Shape'
  <2>1. ratings' = [u \in Users |-> ratings'[u]]
    BY <1>2
  <2>2. QED
    BY <1>1, <1>2, <1>3, <1>4, <1>5, <2>1 DEF Shape
<1>7. Fresh'
  <2>1. ASSUME NEW n \in Matches, NEW u \in fetched[n] \ missed'[n] PROVE got[n][u] = ratings'[u]
    <3>1. u \notin missed[n] /\ u \notin written[m] /\ u \in Users
      BY <1>1, <1>2, <2>1 DEF Shape
    <3>2. QED
      BY <1>1, <1>2, <2>1, <3>1 DEF Fresh
  <2>2. QED
    BY <1>2, <2>1 DEF Fresh
<1>8. Locks'
  <2>1. \A n \in Matches : PlayersOf(n)' = PlayersOf(n)
    BY DEF PlayersOf
  <2>2. /\ written'[m] = {} /\ pc'[m] = "done"
        /\ \A n \in Matches : n # m => written'[n] = written[n] /\ pc'[n] = pc[n]
        /\ \A n \in Matches : missed'[n] = missed[n] \cup written[m]
    BY <1>1, <1>2 DEF Shape
  <2>3. ASSUME NEW n \in Matches
        PROVE  /\ written'[n] \subseteq PlayersOf(n)
               /\ written'[n] \subseteq fetched[n] \ missed'[n]
               /\ written'[n] # {} => pc'[n] \in Writing
               /\ pc'[n] \in Writing => fetched[n] = PlayersOf(n)
               /\ pc'[n] \in Writing \ {"saveRatings"} => written'[n] = PlayersOf(n)
    <3>1. CASE n = m
      BY <1>5, <2>2, <3>1
    <3>2. CASE n # m
      BY <1>1, <2>2, <3>2 DEF Locks
    <3>3. QED
      BY <3>1, <3>2
  <2>4. \A n, k \in Matches : n # k => written'[n] \cap written'[k] = {}
    BY <1>1, <2>2 DEF Locks
  <2>5. QED
    BY <1>2, <2>1, <2>3, <2>4 DEF Locks
<1>9. Stored'
  <2>1. \A n \in Matches : Changes(n)' = Changes(n)
    BY <1>2, ChangesSame
  <2>2. QED
    BY <1>1, <1>2, <1>3, <2>1 DEF Stored, Shape
<1>10. Once'
  <2>1. pc'[m] = "done" /\ \A n \in Matches : n # m => pc'[n] = pc[n] /\ doc'[n] = doc[n]
    BY <1>1, <1>2, <1>3 DEF Shape
  <2>2. doc'[m] = stored
    BY <1>1, <1>3 DEF Shape
  <2>3. QED
    BY <1>1, <1>2, <1>4, <2>1, <2>2 DEF Once
<1>11. EveryResultCounts'
  <2> SUFFICES ASSUME lateAborts = 0, NEW u \in Users
               PROVE  ratings'[u].games = Cardinality({n \in committed' : u \in PlayersOf(n)})
    BY <1>2 DEF EveryResultCounts, PlayersOf
  <2> DEFINE before == {n \in committed : u \in PlayersOf(n)}
  <2>1. ratings[u].games = Cardinality(before) /\ IsFiniteSet(before)
    <3>1. before \subseteq Matches
      BY <1>1 DEF Shape
    <3>2. QED
      BY <1>1, <3>1, FS_Subset, TransactionAssumption DEF EveryResultCounts
  <2>2. m \notin committed
    BY <1>1, <1>2 DEF Once
  <2>3. CASE u \in PlayersOf(m)
    <3>1. {n \in committed' : u \in PlayersOf(n)} = before \cup {m} /\ m \notin before
      BY <1>2, <2>2, <2>3
    <3> HIDE DEF before
    <3>2. ratings'[u].games = ratings[u].games + 1
      <4>1. ratings'[u] = Updated(m, u) /\ got[m][u] = ratings[u]
        BY <2>3, CommitWrites
      <4>2. Updated(m, u).games = got[m][u].games + 1
        BY DEF Updated, Rated
      <4>3. QED
        BY <4>1, <4>2
    <3>3. QED
      BY <2>1, <3>1, <3>2, FS_AddElement
  <2>4. CASE u \notin PlayersOf(m)
    <3>1. {n \in committed' : u \in PlayersOf(n)} = before
      BY <1>2, <2>4
    <3>2. ratings'[u] = ratings[u]
      BY <2>4, CommitWrites
    <3>3. QED
      BY <2>1, <3>1, <3>2
  <2>5. QED
    BY <2>3, <2>4
<1>12. QED
  BY <1>6, <1>7, <1>8, <1>9, <1>10, <1>11 DEF RInv

LEMMA RatingsNext == RInv /\ [Next]_vars => RInv'
<1> SUFFICES ASSUME RInv, [Next]_vars PROVE RInv'
  OBVIOUS
<1>1. CASE UNCHANGED vars
  <2>1. \A n \in Matches : Changes(n)' = Changes(n) /\ PlayersOf(n)' = PlayersOf(n)
    BY <1>1, ChangesSame DEF vars, txnVars, PlayersOf
  <2>2. UNCHANGED <<ratings, doc, got, fetched, written, saved, missed, match, pc, committed, lateAborts>>
    BY <1>1 DEF vars, txnVars
  <2>3. EveryResultCounts'
    BY <2>2, CountsAlone
  <2>4. Shape /\ Fresh /\ Locks /\ Stored /\ Once
    BY DEF RInv
  <2>5. Shape' /\ Fresh'
    BY <2>2, <2>4 DEF Shape, Fresh
  <2>6. Locks'
    BY <2>1, <2>2, <2>4 DEF Locks
  <2>7. Stored' /\ Once'
    BY <2>1, <2>2, <2>4 DEF Stored, Once
  <2>8. QED
    BY <2>3, <2>5, <2>6, <2>7 DEF RInv
<1>2. CASE Next
  BY <1>2, StartRInv, BeginRInv, ReadRInv, SaveRatingRInv, AbortsRInv, SaveMatchRInv, AuditRInv, CommitRInv DEF Next
<1>3. QED
  BY <1>1, <1>2

\* Every rated result counts once for both players, in every interleaving of
\* matches that share players (ratings.service.ts:83).
THEOREM EveryResultCountsHolds == Spec => []EveryResultCounts
<1>1. RInv => EveryResultCounts
  BY DEF RInv
<1>2. QED
  BY <1>1, RatingsInit, RatingsNext, PTL DEF Spec

\* Result and ratings are stored together, as long as no commit is aborted late.
THEOREM ResultNeedsRatingsHolds == Spec => []ResultNeedsRatings
<1>1. RInv => ResultNeedsRatings
  BY DEF RInv, Stored, Once, ResultNeedsRatings
<1>2. QED
  BY <1>1, RatingsInit, RatingsNext, PTL DEF Spec

\* The changes that a match reports are those its commit makes.
THEOREM ChangesAreTrueHolds == Spec => ChangesAreTrue
<1> DEFINE True ==
      \A m \in committed' \ committed : \A u \in PlayersOf(m) :
        "changes" \in saved[m] =>
          doc'[m].changes[u] = [before |-> ratings[u].rating, after |-> ratings'[u].rating]
<1>1. ASSUME RInv, Next PROVE True
  <2>1. committed' = committed => True
    OBVIOUS
  <2>2. ASSUME NEW m \in Matches, Commit(m) PROVE True
    <3>1. committed' \subseteq committed \cup {m}
      BY <2>2 DEF Commit
    <3>2. "changes" \in saved[m] => doc'[m].changes = Changes(m)
      <4>1. doc = [n \in Matches |-> [status |-> doc[n].status, changes |-> doc[n].changes]]
        BY <1>1 DEF RInv, Shape
      <4>2. doc'[m] = Saved(m)
        BY <2>2, <4>1 DEF Commit
      <4>3. match[m].changes = Changes(m)
        BY <1>1, <2>2 DEF Commit, RInv, Stored
      <4>4. QED
        BY <4>2, <4>3 DEF Saved
    <3>3. \A u \in PlayersOf(m) :
            Changes(m)[u] = [before |-> got[m][u].rating, after |-> Updated(m, u).rating]
      BY DEF Changes
    <3>4. \A u \in PlayersOf(m) : got[m][u] = ratings[u] /\ ratings'[u] = Updated(m, u)
      BY <1>1, <2>2, CommitWrites
    <3>5. QED
      BY <3>1, <3>2, <3>3, <3>4
  <2> HIDE DEF True
  <2>3. QED
    BY <1>1, <2>1, <2>2
       DEF Next, Start, Begin, Read, SaveRating, Rerun, SaveMatch, Audit, LateAbort, Fail
<1>2. RInv /\ [Next]_vars => [True]_vars
  BY <1>1
<1>3. QED
  BY <1>2, RatingsInit, RatingsNext, PTL DEF Spec, ChangesAreTrue
-----------------------------------------------------------------------------
(* The ledger: a commit is the one step that touches it, and takes its        *)
(* ratings from those of the moment.                                          *)

LEMMA ChangesAreSome == \A m \in Matches : Changes(m) # NoChanges
<1> SUFFICES ASSUME NEW m \in Matches, Changes(m) = NoChanges PROVE FALSE
  OBVIOUS
<1>1. DOMAIN Changes(m) = PlayersOf(m) /\ Players[m][1] \in PlayersOf(m)
  BY DEF Changes, PlayersOf
<1>2. DOMAIN NoChanges = {}
  BY DEF NoChanges
<1>3. QED
  BY <1>1, <1>2

\* A path that is assigned another value is marked.
LEMMA AssignMarks ==
  ASSUME NEW o, o = [status |-> o.status, changes |-> o.changes, modified |-> o.modified],
         NEW value, value # o.changes
  PROVE  "changes" \in Assign(o, "changes", value).modified
BY DEF Assign

LEMMA ReportedInit == Init => Reported
BY DEF Init, Reported

LEMMA StartReported == \A m \in Matches : RInv /\ Reported /\ Start(m) => Reported'
<1> SUFFICES ASSUME NEW m \in Matches, RInv, Reported, Start(m), lateAborts = 0 PROVE Reported'
  BY DEF Start, Reported
<1> DEFINE object == [status |-> doc[m].status, changes |-> doc[m].changes, modified |-> {}]
           label  == IF doc[m].status = "finished" THEN "done" ELSE "callback"
<1>1. /\ match' = [match EXCEPT ![m] = object] /\ pc' = [pc EXCEPT ![m] = label]
      /\ UNCHANGED <<doc, saved, committed, lateAborts>>
  BY DEF Start, Goto
<1>2. Shape /\ Once
  BY DEF RInv
<1>3. /\ object.changes = doc[m].changes /\ label \in {"done", "callback"}
      /\ label = "callback" => m \notin committed
  BY <1>2 DEF Once
<1> HIDE DEF object, label
<1>4. QED
  BY <1>1, <1>2, <1>3 DEF Shape, Reported

LEMMA BeginReported == \A m \in Matches : RInv /\ Reported /\ Begin(m) => Reported'
<1> SUFFICES ASSUME NEW m \in Matches, RInv, Reported, Begin(m) PROVE Reported'
  OBVIOUS
<1> DEFINE o == match[m]
           object == Assign(o, "status", "finished")
<1>1. /\ pc[m] = "callback" /\ pc' = [pc EXCEPT ![m] = "read"]
      /\ match' = [match EXCEPT ![m] = object]
      /\ UNCHANGED <<doc, saved, committed, lateAborts>>
  BY DEF Begin, Goto
<1>2. Shape
  BY DEF RInv
<1>3. object.changes = match[m].changes
  <2>1. o = [status |-> o.status, changes |-> o.changes, modified |-> o.modified]
    BY <1>2 DEF Shape
  <2> HIDE DEF o
  <2>2. object.changes = o.changes
    BY <2>1, AssignStatus
  <2>3. QED
    BY <2>2 DEF o
<1> HIDE DEF object
<1>4. QED
  BY <1>1, <1>2, <1>3 DEF Shape, Reported

LEMMA ReadReported == \A m \in Matches, u \in Users : RInv /\ Reported /\ Read(m, u) => Reported'
<1> SUFFICES ASSUME NEW m \in Matches, NEW u \in Users, RInv, Reported, Read(m, u) PROVE Reported'
  OBVIOUS
<1>1. /\ pc[m] = "read" /\ UNCHANGED <<doc, match, saved, committed, lateAborts>>
      /\ pc' = pc \/ pc' = [pc EXCEPT ![m] = "saveRatings"]
  BY DEF Read, Goto
<1>2. QED
  BY <1>1 DEF RInv, Shape, Reported

LEMMA SaveRatingReported == \A m \in Matches : RInv /\ Reported /\ SaveRating(m) => Reported'
<1> SUFFICES ASSUME NEW m \in Matches, RInv, Reported, SaveRating(m) PROVE Reported'
  OBVIOUS
<1>1. /\ pc[m] = "saveRatings" /\ UNCHANGED <<doc, match, saved, committed, lateAborts>>
      /\ pc' = pc \/ pc' = [pc EXCEPT ![m] = "saveMatch"]
  BY DEF SaveRating, Goto
<1>2. QED
  BY <1>1 DEF RInv, Shape, Reported

LEMMA SaveMatchReported == \A m \in Matches : RInv /\ Reported /\ SaveMatch(m) => Reported'
<1> SUFFICES ASSUME NEW m \in Matches, RInv, Reported, SaveMatch(m) PROVE Reported'
  OBVIOUS
<1> DEFINE o == match[m]
           object == Assign(o, "changes", Changes(m))
<1>1. /\ pc[m] = "saveMatch" /\ pc' = [pc EXCEPT ![m] = "audit"]
      /\ saved' = [saved EXCEPT ![m] = object.modified]
      /\ \A n \in Matches : n # m => match'[n] = match[n]
      /\ UNCHANGED <<doc, committed, lateAborts>>
  BY DEF SaveMatch, Goto, RInv, Shape
<1>2. Shape
  BY DEF RInv
<1>3. lateAborts = 0 => "changes" \in object.modified
  <2>1. o = [status |-> o.status, changes |-> o.changes, modified |-> o.modified]
    BY <1>2 DEF Shape
  <2>2. lateAborts = 0 => o.changes # Changes(m)
    BY <1>1, ChangesAreSome DEF Reported
  <2> HIDE DEF o
  <2>3. QED
    BY <2>1, <2>2, AssignMarks
<1> HIDE DEF object
<1>4. QED
  BY <1>1, <1>2, <1>3 DEF Shape, Reported

LEMMA AuditReported == \A m \in Matches : RInv /\ Reported /\ Audit(m) => Reported'
BY DEF Audit, Goto, txnVars, RInv, Shape, Reported

LEMMA AbortsReported ==
  \A m \in Matches : RInv /\ Reported /\ (Rerun(m) \/ LateAbort(m) \/ Fail(m)) => Reported'
<1> SUFFICES ASSUME NEW m \in Matches, RInv, Reported, Rerun(m) \/ LateAbort(m) \/ Fail(m)
             PROVE Reported'
  OBVIOUS
<1>1. CASE Rerun(m)
  BY <1>1 DEF Rerun, RolledBack, Goto, RInv, Shape, Reported
<1>2. CASE LateAbort(m)
  BY <1>2 DEF LateAbort, RInv, Shape, Reported
<1>3. CASE Fail(m)
  BY <1>3 DEF Fail, RolledBack, Goto, RInv, Shape, Reported
<1>4. QED
  BY <1>1, <1>2, <1>3

LEMMA CommitReported == \A m \in Matches : RInv /\ Reported /\ Commit(m) => Reported'
<1> SUFFICES ASSUME NEW m \in Matches, RInv, Reported, Commit(m) PROVE Reported'
  OBVIOUS
<1>1. /\ pc' = [pc EXCEPT ![m] = "done"] /\ committed' = committed \cup {m}
      /\ \A n \in Matches : n # m => doc'[n] = doc[n]
      /\ UNCHANGED <<match, saved, lateAborts>>
  BY DEF Commit, Goto, RInv, Shape
<1>2. QED
  BY <1>1 DEF RInv, Shape, Reported

LEMMA ReportedNext == RInv /\ Reported /\ [Next]_vars => Reported'
<1> SUFFICES ASSUME RInv, Reported, [Next]_vars PROVE Reported'
  OBVIOUS
<1>1. CASE UNCHANGED vars
  BY <1>1 DEF vars, txnVars, Reported
<1>2. CASE Next
  BY <1>2, StartReported, BeginReported, ReadReported, SaveRatingReported, SaveMatchReported,
     AuditReported, AbortsReported, CommitReported DEF Next
<1>3. QED
  BY <1>1, <1>2

\* The ratings a commit leaves are those the ledger gives at that moment.
LEMMA CommitRates == \A m \in Matches : RInv /\ Commit(m) => Ledger!Rate(m)
<1> SUFFICES ASSUME NEW m \in Matches, RInv, Commit(m) PROVE Ledger!Rate(m)
  OBVIOUS
<1> DEFINE a == Players[m][1]
           b == Players[m][2]
<1>1. a \in Users /\ b \in Users /\ a # b /\ PlayersOf(m) = {a, b}
  BY TransactionAssumption DEF PlayersOf
<1>2. /\ written[m] = PlayersOf(m) /\ got[m][a] = ratings[a] /\ got[m][b] = ratings[b]
  BY <1>1, CommitWrites
<1>3. /\ Updated(m, a) = Rated(ratings[a], ratings[b], score[m])
      /\ Updated(m, b) = Rated(ratings[b], ratings[a], 100 - score[m])
  BY <1>1, <1>2 DEF Updated, Opponent, ScoreOf
<1>4. ratings' = [u \in Users |-> IF u \in written[m] THEN Updated(m, u) ELSE ratings[u]]
  BY DEF Commit
<1> DEFINE rated == [u \in Users |->
                      CASE u = a -> Rated(ratings[a], ratings[b], score[m])
                        [] u = b -> Rated(ratings[b], ratings[a], 100 - score[m])
                        [] OTHER -> ratings[u]]
<1>5. \A u \in Users : ratings'[u] = rated[u]
  <2>1. ratings'[a] = rated[a]
    BY <1>1, <1>2, <1>3, <1>4
  <2>2. ratings'[b] = rated[b]
    BY <1>1, <1>2, <1>3, <1>4
  <2>3. \A u \in Users \ {a, b} : ratings'[u] = rated[u]
    BY <1>1, <1>2, <1>4
  <2>4. QED
    BY <2>1, <2>2, <2>3
<1>6. ratings' = rated
  BY <1>4, <1>5
<1>7. QED
  BY <1>6 DEF Ledger!Rate

\* As long as no commit was aborted late, it writes the record of its match
\* with the result and those changes.
LEMMA CommitReports ==
  \A m \in Matches : RInv /\ Reported /\ Commit(m) /\ lateAborts = 0 => Ledger!Report(m)
<1> SUFFICES ASSUME NEW m \in Matches, RInv, Reported, Commit(m), lateAborts = 0
             PROVE  Ledger!Report(m)
  OBVIOUS
<1>1. pc[m] = "commit" /\ doc' = [doc EXCEPT ![m] = Saved(m)]
  BY DEF Commit
<1>2. /\ doc'[m] = Saved(m) /\ \A other \in Matches \ {m} : doc'[other] = doc[other]
  <2>1. doc = [n \in Matches |-> [status |-> doc[n].status, changes |-> doc[n].changes]]
    BY DEF RInv, Shape
  <2>2. QED
    BY <1>1, <2>1
<1>3. doc[m].status = "active"
  BY <1>1 DEF RInv, Once, Stored
<1>4. /\ match[m].status = "finished" /\ "status" \in saved[m]
      /\ match[m].changes = Changes(m) /\ "changes" \in saved[m]
  BY <1>1 DEF RInv, Once, Stored, Reported
<1>5. doc'[m].status = "finished" /\ doc'[m].changes = Changes(m)
  BY <1>2, <1>4 DEF Saved
<1>6. \A u \in PlayersOf(m) :
        Changes(m)[u] = [before |-> ratings[u].rating, after |-> ratings'[u].rating]
  BY CommitWrites DEF Changes
<1>7. QED
  BY <1>2, <1>3, <1>5, <1>6 DEF Ledger!Report, PlayersOf

\* The transactions are a ledger: ratings move only by the commit of a match,
\* for its two players and from their ratings of the moment, although they
\* were read before the transaction (ratings.service.ts:83); and until a commit
\* is aborted late the record of the match comes with them.
THEOREM LedgerImplemented == Spec => ImplementsLedger
<1> DEFINE Step ==
      \E m \in Matches :
        /\ Ledger!Rate(m)
        /\ lateAborts' = 0 => Ledger!Report(m)
<1>1. Init => Ledger!Init
  BY DEF Init, Ledger!Init
<1>2. ASSUME RInv, Reported, [Next]_vars PROVE [Step]_<<ratings, doc>>
  <2>1. ASSUME NEW m \in Matches, Commit(m) PROVE Step
    BY <1>2, <2>1, CommitRates, CommitReports DEF Commit
  <2> HIDE DEF Step
  <2>2. (\A m \in Matches : ~Commit(m)) => UNCHANGED <<ratings, doc>>
    BY <1>2 DEF Next, Start, Begin, Read, SaveRating, Rerun, SaveMatch, Audit, LateAbort, Fail, vars
  <2>3. QED
    BY <2>1, <2>2
<1>3. RInv /\ Reported /\ [Next]_vars => [Step]_<<ratings, doc>>
  BY <1>2
<1>4. QED
  BY <1>1, <1>3, RatingsInit, RatingsNext, ReportedInit, ReportedNext, PTL DEF Spec, ImplementsLedger

LEMMA AbortsBounded == Spec => [](lateAborts \in Nat /\ lateAborts <= MaxLateAborts)
<1> DEFINE Bounded == lateAborts \in Nat /\ lateAborts <= MaxLateAborts
<1>1. Init => Bounded
  BY TransactionAssumption DEF Init
<1>2. Bounded /\ [Next]_vars => Bounded'
  BY TransactionAssumption
     DEF Next, Start, Begin, Read, SaveRating, Rerun, SaveMatch, Audit, Commit, LateAbort, Fail, vars
<1>3. QED
  BY <1>1, <1>2, PTL DEF Spec

\* Where no commit is aborted late, nothing but the ledger can be seen: every
\* behaviour of the transactions, with their conflicts, reruns and failed
\* processes, is one of RatingLedger (matches.service.ts:189).
THEOREM LedgerRefined == MaxLateAborts = 0 /\ Spec => Ledger!Spec
<1> SUFFICES ASSUME MaxLateAborts = 0 PROVE Spec => Ledger!Spec
  OBVIOUS
<1> DEFINE Step ==
      \E m \in Matches :
        /\ Ledger!Rate(m)
        /\ lateAborts' = 0 => Ledger!Report(m)
<1>1. lateAborts \in Nat /\ lateAborts <= MaxLateAborts => lateAborts = 0
  OBVIOUS
<1>2. (lateAborts = 0)' /\ [Step]_<<ratings, doc>> => [Ledger!Next]_Ledger!vars
  BY DEF Ledger!Next, Ledger!Finish, Ledger!vars
<1>3. QED
  BY <1>1, <1>2, AbortsBounded, LedgerImplemented, PTL DEF ImplementsLedger, Ledger!Spec
=============================================================================
