-------------------------- MODULE MatchmakingProofs --------------------------
(***************************************************************************)
(* The ranked queue, for any set of users, any ratings, any number of      *)
(* handlers at work in any interleaving of their commands, and any number  *)
(* of requests and failures: a pair is made by one handler at a time, not  *)
(* again while its mark lasts, and who waits has met whom he could meet    *)
(* unless a tryMatch came too late.                                        *)
(***************************************************************************)
EXTENDS Matchmaking, TLAPS

-----------------------------------------------------------------------------
(* What a step does to the calls.                                          *)

\* Only the call c moves.
Rest(c) ==
  /\ call' \in [Callers -> Call]
  /\ \A d \in Callers \ {c} : call'[d] = call[d]

Same(c) == call'[c].user = call[c].user /\ call'[c].with = call[c].with

StepTo(c, pc) ==
  Rest(c) /\ Same(c) /\ call'[c].pc = pc /\ call'[c].todo = call[c].todo

Ends(c) == Rest(c) /\ call'[c].pc = "idle" /\ call'[c].todo = {}

GoesOn(c, todo) ==
  \/ todo = {} /\ Ends(c)
  \/ todo # {} /\ Rest(c) /\ Same(c) /\ call'[c].pc = "get" /\ call'[c].todo = todo

LEMMA AskingIsCall ==
  ASSUME NEW pc \in Steps, NEW u \in Users
  PROVE  Asking(pc, u) \in Call
BY DEF Asking, Call

LEMMA GotoSteps ==
  ASSUME call \in [Callers -> Call], NEW c \in Callers, NEW pc \in Steps, Goto(c, pc)
  PROVE  StepTo(c, pc)
BY DEF Goto, StepTo, Rest, Same, Call

LEMMA DoneEnds ==
  ASSUME call \in [Callers -> Call], NEW c \in Callers, Done(c)
  PROVE  Ends(c)
<1>1. Idle \in Call /\ Idle.pc = "idle" /\ Idle.todo = {}
  BY MatchmakingAssumption DEF Idle, Asking, Call, Steps
<1> HIDE DEF Idle
<1>2. QED
  BY <1>1 DEF Done, Ends, Rest

LEMMA TryNextGoesOn ==
  ASSUME call \in [Callers -> Call], NEW c \in Callers, NEW todo \in SUBSET Users,
         TryNext(c, todo)
  PROVE  GoesOn(c, todo)
<1>1. CASE todo = {}
  BY <1>1, DoneEnds DEF TryNext, GoesOn
<1>2. CASE todo # {}
  <2>1. call' = [call EXCEPT ![c] = [call[c] EXCEPT !.pc = "get", !.todo = todo]]
    BY <1>2 DEF TryNext
  <2>2. [call[c] EXCEPT !.pc = "get", !.todo = todo] \in Call
    BY DEF Call, Steps
  <2>3. QED
    BY <1>2, <2>1, <2>2 DEF GoesOn, Rest, Same, Call
<1>3. QED
  BY <1>1, <1>2

LEMMA TriedStays ==
  ASSUME NEW c \in Callers, Rest(c), NEW d \in Callers, d # c
  PROVE  Tried(d)' = Tried(d)
BY DEF Rest, Tried

LEMMA TriedStaysSame ==
  ASSUME NEW c \in Callers, Same(c)
  PROVE  Tried(c)' = Tried(c)
BY DEF Same, Tried

-----------------------------------------------------------------------------
(* The pair lock.                                                          *)

Busy == {"get", "lock", "take", "readd", "tidy", "create", "boot"}

\* A call does not try its own user.
Orderly ==
  \A c \in Callers :
    /\ call[c].pc \in Busy => call[c].user \notin call[c].todo
    /\ call[c].pc \in Busy \ {"get"} => call[c].with # call[c].user

\* Who takes a pair out of the queue has its lock, which nobody else has.
LockHeld == \A c \in Callers : call[c].pc \in {"take", "tidy"} => Tried(c) \in locks

\* A mark that is set while a call is between reading it and taking the lock
\* comes with the lock.
NoMarkUnderLock ==
  \A c \in Callers :
    /\ call[c].pc = "lock" /\ Tried(c) \in recent => Tried(c) \in locks
    /\ call[c].pc = "take" => Tried(c) \notin recent

QInv == TypeOK /\ Orderly /\ LockHeld /\ PairMadeOnce /\ NoMarkUnderLock

LEMMA TriedIsPair ==
  ASSUME TypeOK, Orderly, NEW c \in Callers, call[c].pc \in Busy \ {"get"}
  PROVE  Tried(c) \in Pairs
<1>1. call[c].user \in Users /\ call[c].with \in Users /\ call[c].with # call[c].user
  BY DEF TypeOK, Orderly, Call
<1>2. QED
  BY <1>1 DEF Tried, Pair, Pairs

LEMMA InitQInv == Init => QInv
<1> SUFFICES ASSUME Init PROVE QInv
  OBVIOUS
<1>1. Idle \in Call /\ Idle.pc = "idle" /\ Idle.todo = {}
  BY MatchmakingAssumption DEF Idle, Asking, Call, Steps
<1> HIDE DEF Idle
<1>2. TypeOK
  <2>1. /\ queue \subseteq Users /\ meta \subseteq Users
        /\ locks \subseteq Pairs /\ recent \subseteq Pairs
        /\ recent \subseteq met /\ met \subseteq Pairs
    BY DEF Init
  <2>2. call \in [Callers -> Call] /\ want \in [Users -> {"out", "waiting", "matched"}]
    BY <1>1 DEF Init
  <2>3. joins \in 0..MaxJoins /\ leaves \in 0..MaxLeaves /\ faults \in 0..MaxFaults
    BY MatchmakingAssumption DEF Init
  <2>4. missed \in BOOLEAN
    BY Zenon DEF Init
  <2>5. QED
    BY <2>1, <2>2, <2>3, <2>4 DEF TypeOK
<1>3. QED
  BY <1>1, <1>2 DEF Init, QInv, Orderly, LockHeld, PairMadeOnce, NoMarkUnderLock, Busy

\* A step that leaves locks and marks alone, and after which its call is not
\* about to lock, take or tidy, keeps the pair lock.
LEMMA LeavesThePair ==
  ASSUME QInv, NEW c \in Callers, Rest(c), TypeOK', Orderly',
         call'[c].pc \notin {"lock", "take", "tidy"}, UNCHANGED <<locks, recent>>
  PROVE  QInv'
<1>1. \A d \in Callers : d # c => call'[d] = call[d] /\ Tried(d)' = Tried(d)
  BY TriedStays DEF Rest
<1>2. LockHeld'
  BY <1>1 DEF QInv, LockHeld
<1>3. PairMadeOnce'
  BY <1>1 DEF QInv, PairMadeOnce
<1>4. NoMarkUnderLock'
  BY <1>1 DEF QInv, NoMarkUnderLock
<1>5. QED
  BY <1>2, <1>3, <1>4 DEF QInv

\* The type needs only what a command does to Redis and to its call.
LEMMA CommandTypes ==
  ASSUME TypeOK, NEW c \in Callers, Rest(c), Remember, UNCHANGED <<want, counts>>,
         queue' \subseteq Users, meta' \subseteq Users, locks' \subseteq Pairs, recent' \subseteq Pairs
  PROVE  TypeOK'
<1>1. missed' \in BOOLEAN
  BY Zenon DEF Remember
<1>2. recent' \subseteq met' /\ met' \subseteq Pairs
  BY DEF Remember, TypeOK
<1>3. QED
  BY <1>1, <1>2 DEF TypeOK, Rest, counts

LEMMA OrderlyStays ==
  ASSUME Orderly, NEW c \in Callers, Rest(c),
         call'[c].pc \in Busy => call'[c].user \notin call'[c].todo,
         call'[c].pc \in Busy \ {"get"} => call'[c].with # call'[c].user
  PROVE  Orderly'
BY DEF Orderly, Rest

\* A step of a call that is not Consider, Lock, Take or Tidy: it stays away
\* from locks and marks.
LEMMA GotoKeepsQ ==
  ASSUME QInv, Remember, UNCHANGED <<want, counts, locks, recent>>,
         queue' \subseteq Users, meta' \subseteq Users,
         NEW c \in Callers, NEW pc \in Steps, Goto(c, pc),
         pc \notin {"lock", "take", "tidy"},
         pc \in Busy => call[c].pc \in Busy \ {"get"}
  PROVE  QInv' /\ StepTo(c, pc)
<1>1. StepTo(c, pc)
  BY GotoSteps DEF QInv, TypeOK
<1>2. TypeOK'
  BY <1>1, CommandTypes DEF StepTo, QInv, TypeOK
<1>3. Orderly'
  BY <1>1, OrderlyStays DEF StepTo, Same, QInv, Orderly
<1>4. QED
  BY <1>1, <1>2, <1>3, LeavesThePair DEF StepTo

LEMMA DoneKeepsQ ==
  ASSUME QInv, Remember, UNCHANGED <<want, counts, locks, recent>>,
         queue' \subseteq Users, meta' \subseteq Users,
         NEW c \in Callers, Done(c)
  PROVE  QInv' /\ Ends(c)
<1>1. Ends(c)
  BY DoneEnds DEF QInv, TypeOK
<1>2. TypeOK'
  BY <1>1, CommandTypes DEF Ends, QInv, TypeOK
<1>3. Orderly'
  BY <1>1, OrderlyStays DEF Ends, QInv, Busy
<1>4. QED
  BY <1>1, <1>2, <1>3, LeavesThePair DEF Ends

LEMMA TryNextKeepsQ ==
  ASSUME QInv, Remember, UNCHANGED <<want, counts, locks, recent>>,
         queue' \subseteq Users, meta' \subseteq Users,
         NEW c \in Callers, NEW todo \in SUBSET Users, TryNext(c, todo), call[c].user \notin todo
  PROVE  QInv' /\ GoesOn(c, todo)
<1>1. GoesOn(c, todo)
  BY TryNextGoesOn DEF QInv, TypeOK
<1>2. Rest(c) /\ call'[c].pc \in {"get", "idle"}
  BY <1>1 DEF GoesOn, Ends
<1>3. TypeOK'
  BY <1>2, CommandTypes DEF QInv, TypeOK
<1>4. Orderly'
  <2>1. call'[c].user \notin call'[c].todo \/ call'[c].pc = "idle"
    BY <1>1 DEF GoesOn, Ends, Same
  <2>2. QED
    BY <1>2, <2>1, OrderlyStays DEF QInv, Busy
<1>5. QED
  BY <1>1, <1>2, <1>3, <1>4, LeavesThePair

LEMMA ConsiderKeepsQ ==
  ASSUME QInv, Remember, UNCHANGED <<want, counts>>, NEW c \in Callers, Consider(c)
  PROVE  /\ QInv'
         /\ \E v \in call[c].todo :
              IF Pair(call[c].user, v) \in recent
              THEN GoesOn(c, call[c].todo \ {v})
              ELSE /\ Rest(c) /\ call'[c].pc = "lock" /\ call'[c].user = call[c].user
                   /\ call'[c].with = v /\ call'[c].todo = call[c].todo \ {v}
<1>1. PICK v \in call[c].todo :
        IF Pair(call[c].user, v) \in recent
        THEN TryNext(c, call[c].todo \ {v})
        ELSE call' = [call EXCEPT ![c].pc = "lock", ![c].with = v, ![c].todo = call[c].todo \ {v}]
  BY DEF Consider
<1>2. /\ call[c] \in Call /\ call[c].user \in Users /\ call[c].todo \subseteq Users
      /\ call[c].user \notin call[c].todo /\ call[c].pc = "get"
      /\ UNCHANGED <<queue, meta, locks, recent>> /\ call \in [Callers -> Call]
  BY DEF QInv, TypeOK, Orderly, Call, Consider, redis, Busy
<1>3. CASE Pair(call[c].user, v) \in recent
  <2>1. TryNext(c, call[c].todo \ {v}) /\ call[c].todo \ {v} \in SUBSET Users
    BY <1>1, <1>2, <1>3
  <2>2. QInv' /\ GoesOn(c, call[c].todo \ {v})
    BY <2>1, <1>2, TryNextKeepsQ DEF QInv, TypeOK
  <2>3. QED
    BY <2>2, <1>3
<1>4. CASE Pair(call[c].user, v) \notin recent
  <2> DEFINE new == [call[c] EXCEPT !.pc = "lock", !.with = v, !.todo = call[c].todo \ {v}]
  <2>1. call' = [call EXCEPT ![c] = new]
    BY <1>1, <1>4
  <2>2. new \in Call /\ new.pc = "lock" /\ new.user = call[c].user /\ new.with = v
        /\ new.todo = call[c].todo \ {v}
    BY <1>2 DEF Call, Steps
  <2> HIDE DEF new
  <2>3. Rest(c) /\ call'[c] = new
    BY <1>2, <2>1, <2>2 DEF Rest
  <2>4. TypeOK'
    BY <1>2, <2>3, CommandTypes DEF QInv, TypeOK
  <2>5. Orderly'
    BY <1>2, <2>2, <2>3, OrderlyStays DEF QInv
  <2>6. Tried(c)' = Pair(call[c].user, v)
    BY <2>2, <2>3 DEF Tried
  <2>7. \A d \in Callers : d # c => call'[d] = call[d] /\ Tried(d)' = Tried(d)
    BY <2>3, TriedStays DEF Rest
  <2>8. LockHeld' /\ PairMadeOnce' /\ NoMarkUnderLock'
    BY <1>2, <1>4, <2>2, <2>3, <2>6, <2>7 DEF QInv, LockHeld, PairMadeOnce, NoMarkUnderLock
  <2>9. QED
    BY <1>4, <2>2, <2>3, <2>4, <2>5, <2>8 DEF QInv
<1>5. QED
  BY <1>3, <1>4

LEMMA LockKeepsQ ==
  ASSUME QInv, Remember, UNCHANGED <<want, counts>>, NEW c \in Callers, Lock(c)
  PROVE  /\ QInv'
         /\ IF Tried(c) \in locks THEN GoesOn(c, call[c].todo) ELSE StepTo(c, "take")
<1>1. /\ call[c].todo \in SUBSET Users /\ call[c].user \notin call[c].todo
      /\ call[c].pc = "lock" /\ Tried(c) \in Pairs
      /\ UNCHANGED <<queue, meta, recent>>
  BY TriedIsPair DEF QInv, TypeOK, Orderly, Call, Lock, Busy
<1>2. CASE Tried(c) \in locks
  <2>1. TryNext(c, call[c].todo) /\ UNCHANGED locks
    BY <1>2 DEF Lock
  <2>2. QED
    BY <1>1, <1>2, <2>1, TryNextKeepsQ DEF QInv, TypeOK
<1>3. CASE Tried(c) \notin locks
  <2>1. locks' = locks \cup {Tried(c)} /\ Goto(c, "take")
    BY <1>3 DEF Lock
  <2>2. StepTo(c, "take")
    BY <2>1, GotoSteps DEF QInv, TypeOK, Steps
  <2>3. TypeOK'
    BY <1>1, <2>1, <2>2, CommandTypes DEF StepTo, QInv, TypeOK
  <2>4. Orderly'
    BY <1>1, <2>2, OrderlyStays DEF StepTo, Same, QInv, Orderly, Busy
  <2>5. /\ \A d \in Callers : d # c => call'[d] = call[d] /\ Tried(d)' = Tried(d)
        /\ Tried(c)' = Tried(c) /\ call'[c].pc = "take"
    BY <2>2, TriedStays, TriedStaysSame DEF StepTo, Rest
  <2>6. LockHeld'
    BY <2>1, <2>5 DEF QInv, LockHeld
  <2>7. PairMadeOnce'
    BY <1>3, <2>5 DEF QInv, LockHeld, PairMadeOnce
  <2>8. NoMarkUnderLock'
    BY <1>1, <1>3, <2>1, <2>5 DEF QInv, NoMarkUnderLock
  <2>9. QED
    BY <1>3, <2>2, <2>3, <2>4, <2>6, <2>7, <2>8 DEF QInv
<1>4. QED
  BY <1>2, <1>3

LEMMA TakeKeepsQ ==
  ASSUME QInv, Remember, UNCHANGED <<want, counts>>, NEW c \in Callers, Take(c)
  PROVE  QInv' /\ StepTo(c, IF Tried(c) \subseteq queue THEN "tidy" ELSE "readd")
<1> DEFINE pc == IF Tried(c) \subseteq queue THEN "tidy" ELSE "readd"
<1>1. call[c].pc = "take" /\ queue' \subseteq queue /\ UNCHANGED <<meta, locks, recent>>
  BY DEF Take
<1>2. pc \in {"tidy", "readd"} /\ pc \in Steps /\ Goto(c, pc)
  BY DEF Take, Steps
<1> HIDE DEF pc
<1>3. StepTo(c, pc)
  BY <1>2, GotoSteps DEF QInv, TypeOK
<1>4. TypeOK'
  BY <1>1, <1>3, CommandTypes DEF StepTo, QInv, TypeOK
<1>5. Orderly'
  BY <1>1, <1>2, <1>3, OrderlyStays DEF StepTo, Same, QInv, Orderly, Busy
<1>6. /\ \A d \in Callers : d # c => call'[d] = call[d] /\ Tried(d)' = Tried(d)
      /\ Tried(c)' = Tried(c) /\ call'[c].pc = pc
  BY <1>3, TriedStays, TriedStaysSame DEF StepTo, Rest
<1>7. LockHeld' /\ NoMarkUnderLock'
  BY <1>1, <1>2, <1>6 DEF QInv, LockHeld, NoMarkUnderLock
<1>8. PairMadeOnce'
  BY <1>1, <1>2, <1>6 DEF QInv, PairMadeOnce
<1>9. QED
  BY <1>3, <1>4, <1>5, <1>7, <1>8 DEF QInv, pc

\* The mark is set by the one call that has the lock of the pair.
LEMMA TidyKeepsQ ==
  ASSUME QInv, Remember, UNCHANGED <<want, counts>>, NEW c \in Callers, Tidy(c)
  PROVE  QInv' /\ StepTo(c, "create")
<1>1. /\ call[c].pc = "tidy" /\ meta' \subseteq meta /\ UNCHANGED <<queue, locks>>
      /\ recent' = recent \cup {Tried(c)} /\ Tried(c) \in Pairs
  BY TriedIsPair DEF Tidy, QInv, Busy
<1>2. StepTo(c, "create")
  BY GotoSteps DEF Tidy, QInv, TypeOK, Steps
<1>3. TypeOK'
  BY <1>1, <1>2, CommandTypes DEF StepTo, QInv, TypeOK
<1>4. Orderly'
  BY <1>1, <1>2, OrderlyStays DEF StepTo, Same, QInv, Orderly, Busy
<1>5. /\ \A d \in Callers : d # c => call'[d] = call[d] /\ Tried(d)' = Tried(d)
      /\ Tried(c)' = Tried(c) /\ call'[c].pc = "create"
  BY <1>2, TriedStays, TriedStaysSame DEF StepTo, Rest
<1>6. LockHeld' /\ PairMadeOnce'
  BY <1>1, <1>5 DEF QInv, LockHeld, PairMadeOnce
<1>7. Tried(c) \in locks
  BY <1>1 DEF QInv, LockHeld
<1>8. \A d \in Callers : d # c /\ call[d].pc = "take" => Tried(d) # Tried(c)
  BY <1>1 DEF QInv, PairMadeOnce
<1>9. NoMarkUnderLock'
  BY <1>1, <1>5, <1>7, <1>8 DEF QInv, NoMarkUnderLock
<1>10. QED
  BY <1>2, <1>3, <1>4, <1>6, <1>9 DEF QInv

\* The other commands: each leaves locks and marks alone.
LEMMA PlainKeepsQ ==
  ASSUME QInv, Remember, UNCHANGED <<want, counts>>, NEW c \in Callers
  PROVE  /\ Enqueue(c) => QInv' /\ StepTo(c, "hset")
         /\ StoreMeta(c) => QInv' /\ StepTo(c, "hgetall")
         /\ ReadMeta(c) => QInv' /\ IF call[c].user \in meta THEN StepTo(c, "range") ELSE Ends(c)
         /\ Create(c) => QInv' /\ StepTo(c, "boot")
         /\ Remove(c) => QInv' /\ StepTo(c, "del")
         /\ DropMeta(c) => QInv' /\ Ends(c)
<1>1. /\ call[c].user \in Users /\ queue \subseteq Users /\ meta \subseteq Users
      /\ {"hset", "hgetall", "range", "boot", "del"} \subseteq Steps
  BY DEF QInv, TypeOK, Call, Steps
<1>2. CASE Enqueue(c)
  <2>1. Goto(c, "hset") /\ queue' \subseteq Users /\ meta' \subseteq Users /\ UNCHANGED <<locks, recent>>
    BY <1>1, <1>2 DEF Enqueue
  <2>2. QInv' /\ StepTo(c, "hset")
    BY <1>1, <2>1, GotoKeepsQ DEF Busy
  <2>3. QED
    BY <1>2, <2>2 DEF Enqueue, StoreMeta, ReadMeta, Create, Remove, DropMeta
<1>3. CASE StoreMeta(c)
  <2>1. Goto(c, "hgetall") /\ queue' \subseteq Users /\ meta' \subseteq Users /\ UNCHANGED <<locks, recent>>
    BY <1>1, <1>3 DEF StoreMeta
  <2>2. QInv' /\ StepTo(c, "hgetall")
    BY <1>1, <2>1, GotoKeepsQ DEF Busy
  <2>3. QED
    BY <1>3, <2>2 DEF Enqueue, StoreMeta, ReadMeta, Create, Remove, DropMeta
<1>4. CASE ReadMeta(c)
  <2>1. queue' \subseteq Users /\ meta' \subseteq Users /\ UNCHANGED <<locks, recent>>
    BY <1>1, <1>4 DEF ReadMeta, redis
  <2>2. CASE call[c].user \in meta
    <3>1. Goto(c, "range")
      BY <1>4, <2>2 DEF ReadMeta
    <3>2. QInv' /\ StepTo(c, "range")
      BY <1>1, <2>1, <3>1, GotoKeepsQ DEF Busy
    <3>3. QED
      BY <1>4, <2>2, <3>2 DEF Enqueue, StoreMeta, ReadMeta, Create, Remove, DropMeta
  <2>3. CASE call[c].user \notin meta
    <3>1. QInv' /\ Ends(c)
      BY <1>4, <2>1, <2>3, DoneKeepsQ DEF ReadMeta
    <3>2. QED
      BY <1>4, <2>3, <3>1 DEF Enqueue, StoreMeta, ReadMeta, Create, Remove, DropMeta
  <2>4. QED
    BY <2>2, <2>3
<1>5. CASE Create(c)
  <2>1. /\ Goto(c, "boot") /\ queue' \subseteq Users /\ meta' \subseteq Users
        /\ UNCHANGED <<locks, recent>> /\ call[c].pc = "create"
    BY <1>1, <1>5 DEF Create, redis
  <2>2. QInv' /\ StepTo(c, "boot")
    BY <1>1, <2>1, GotoKeepsQ DEF Busy
  <2>3. QED
    BY <1>5, <2>2 DEF Enqueue, StoreMeta, ReadMeta, Create, Remove, DropMeta
<1>6. CASE Remove(c)
  <2>1. Goto(c, "del") /\ queue' \subseteq Users /\ meta' \subseteq Users /\ UNCHANGED <<locks, recent>>
    BY <1>1, <1>6 DEF Remove
  <2>2. QInv' /\ StepTo(c, "del")
    BY <1>1, <2>1, GotoKeepsQ DEF Busy
  <2>3. QED
    BY <1>6, <2>2 DEF Enqueue, StoreMeta, ReadMeta, Create, Remove, DropMeta
<1>7. CASE DropMeta(c)
  <2>1. Done(c) /\ queue' \subseteq Users /\ meta' \subseteq Users /\ UNCHANGED <<locks, recent>>
    BY <1>1, <1>7 DEF DropMeta
  <2>2. QInv' /\ Ends(c)
    BY <2>1, DoneKeepsQ
  <2>3. QED
    BY <1>7, <2>2 DEF Enqueue, StoreMeta, ReadMeta, Create, Remove, DropMeta
<1>8. QED
  BY <1>2, <1>3, <1>4, <1>5, <1>6, <1>7

LEMMA ReadCandidatesKeepsQ ==
  ASSUME QInv, Remember, UNCHANGED <<want, counts>>, NEW c \in Callers, ReadCandidates(c)
  PROVE  QInv' /\ GoesOn(c, {v \in queue : Near(call[c].user, v)} \ {call[c].user})
<1> DEFINE todo == {v \in queue : Near(call[c].user, v)} \ {call[c].user}
<1>1. TryNext(c, todo) /\ UNCHANGED <<queue, meta, locks, recent>>
  BY DEF ReadCandidates, redis
<1>2. queue \subseteq Users /\ meta \subseteq Users
  BY DEF QInv, TypeOK
<1>3. todo \in SUBSET Users /\ call[c].user \notin todo
  BY <1>2
<1> HIDE DEF todo
<1>4. QInv' /\ GoesOn(c, todo)
  BY <1>1, <1>2, <1>3, TryNextKeepsQ
<1>5. QED
  BY <1>4 DEF todo

LEMMA ReaddKeepsQ ==
  ASSUME QInv, Remember, UNCHANGED <<want, counts>>, NEW c \in Callers, Readd(c)
  PROVE  QInv'
<1>1. /\ call[c].pc = "readd" /\ TryNext(c, call[c].todo) /\ UNCHANGED <<meta, locks, recent>>
      /\ queue' = queue \cup {call[c].user}
  BY DEF Readd
<1>2. /\ call[c].user \in Users /\ call[c].todo \in SUBSET Users /\ call[c].user \notin call[c].todo
      /\ queue \subseteq Users /\ meta \subseteq Users
  BY <1>1 DEF QInv, TypeOK, Orderly, Call, Busy
<1>3. QED
  BY <1>1, <1>2, TryNextKeepsQ

LEMMA CommandKeepsQ ==
  ASSUME QInv, Remember, UNCHANGED <<want, counts>>, NEW c \in Callers, Command(c)
  PROVE  QInv'
BY PlainKeepsQ, ReadCandidatesKeepsQ, ConsiderKeepsQ, LockKeepsQ, TakeKeepsQ, ReaddKeepsQ,
   TidyKeepsQ DEF Command

\* A handler that starts, or ends without a command.
LEMMA JoinKeepsQ ==
  ASSUME QInv, NEW c \in Callers, NEW u \in Users, Join(c, u) \/ Leave(c, u)
  PROVE  /\ QInv' /\ Rest(c) /\ call'[c].user = u /\ call'[c].todo = {}
         /\ call'[c].pc = IF Join(c, u) THEN "zadd" ELSE "zrem"
<1> DEFINE w == IF Join(c, u) THEN "waiting" ELSE "out"
           pc == IF Join(c, u) THEN "zadd" ELSE "zrem"
<1>1. /\ call' = [call EXCEPT ![c] = Asking(pc, u)] /\ want' = [want EXCEPT ![u] = w]
      /\ UNCHANGED <<redis, met, missed, faults>>
      /\ joins' \in 0..MaxJoins /\ leaves' \in 0..MaxLeaves
  BY MatchmakingAssumption DEF Join, Leave, QInv, TypeOK
<1>2. w \in {"out", "waiting", "matched"} /\ pc \in {"zadd", "zrem"}
  OBVIOUS
<1> HIDE DEF w, pc
<1>3. Asking(pc, u) \in Call /\ Asking(pc, u).pc = pc /\ Asking(pc, u).user = u
      /\ Asking(pc, u).todo = {}
  BY <1>2, AskingIsCall DEF Steps, Asking
<1>4. Rest(c) /\ call'[c] = Asking(pc, u)
  BY <1>1, <1>3 DEF Rest, QInv, TypeOK
<1>5. TypeOK'
  <2>1. want' \in [Users -> {"out", "waiting", "matched"}]
    BY <1>1, <1>2 DEF QInv, TypeOK
  <2>2. missed' \in BOOLEAN
    BY <1>1, Zenon DEF QInv, TypeOK
  <2>3. QED
    BY <1>1, <1>4, <2>1, <2>2 DEF QInv, TypeOK, redis, Rest
<1>6. Orderly'
  BY <1>2, <1>3, <1>4, OrderlyStays DEF QInv, Busy
<1>7. QInv'
  BY <1>1, <1>2, <1>3, <1>4, <1>5, <1>6, LeavesThePair DEF redis
<1>8. QED
  BY <1>3, <1>4, <1>7 DEF pc

LEMMA EndKeepsQ ==
  ASSUME QInv, NEW c \in Callers, Boot(c) \/ Fail(c)
  PROVE  QInv' /\ Ends(c)
<1>1. Done(c) /\ UNCHANGED <<redis, met, missed, joins, leaves>>
  BY DEF Boot, Fail, counts
<1>2. Ends(c)
  BY <1>1, DoneEnds DEF QInv, TypeOK
<1>3. TypeOK'
  <2>1. want' \in [Users -> {"out", "waiting", "matched"}] /\ faults' \in 0..MaxFaults
    BY MatchmakingAssumption DEF Boot, Fail, QInv, TypeOK, counts
  <2>2. missed' \in BOOLEAN
    BY <1>1, Zenon DEF QInv, TypeOK
  <2>3. QED
    BY <1>1, <1>2, <2>1, <2>2 DEF QInv, TypeOK, redis, Ends, Rest
<1>4. Orderly'
  BY <1>2, OrderlyStays DEF Ends, QInv, Busy
<1>5. QED
  BY <1>1, <1>2, <1>3, <1>4, LeavesThePair DEF Ends, redis

\* A lock lasts longer than its call; a mark that is gone binds nobody.
LEMMA ExpiryKeepsQ ==
  ASSUME QInv, LockExpires \/ RecentExpires \/ MetaExpires,
         UNCHANGED <<call, want, met, missed, counts>>
  PROVE  QInv'
<1>1. \A c \in Callers : call'[c] = call[c] /\ Tried(c)' = Tried(c)
  BY DEF Tried
<1>2. Orderly' /\ PairMadeOnce'
  BY <1>1 DEF QInv, Orderly, PairMadeOnce
<1>3. queue' = queue /\ meta' \subseteq meta /\ locks' \subseteq locks /\ recent' \subseteq recent
  BY DEF LockExpires, RecentExpires, MetaExpires
<1>4. TypeOK'
  <2>1. missed' \in BOOLEAN
    BY Zenon DEF QInv, TypeOK
  <2>2. QED
    BY <1>3, <2>1 DEF QInv, TypeOK, counts
<1>5. \A c \in Callers : call[c].pc \in {"lock", "take", "tidy"} /\ Tried(c) \in locks
        => Tried(c) \in locks'
  BY DEF LockExpires, RecentExpires, MetaExpires
<1>6. LockHeld' /\ NoMarkUnderLock'
  BY <1>1, <1>3, <1>5 DEF QInv, LockHeld, NoMarkUnderLock
<1>7. QED
  BY <1>2, <1>4, <1>6 DEF QInv

LEMMA StepQInv == QInv /\ [Next]_vars => QInv'
<1> SUFFICES ASSUME QInv, [Next]_vars PROVE QInv'
  OBVIOUS
<1>1. ASSUME NEW c \in Callers, NEW u \in Users, Join(c, u) \/ Leave(c, u) PROVE QInv'
  BY <1>1, JoinKeepsQ
<1>2. ASSUME NEW c \in Callers, Command(c) /\ Remember /\ UNCHANGED <<want, counts>> PROVE QInv'
  BY <1>2, CommandKeepsQ
<1>3. ASSUME NEW c \in Callers, Boot(c) \/ Fail(c) PROVE QInv'
  BY <1>3, EndKeepsQ
<1>4. CASE (LockExpires \/ RecentExpires \/ MetaExpires) /\ UNCHANGED <<call, want, met, missed, counts>>
  BY <1>4, ExpiryKeepsQ
<1>5. CASE UNCHANGED vars
  BY <1>5 DEF vars, redis, counts, QInv, TypeOK, Orderly, LockHeld, PairMadeOnce, NoMarkUnderLock, Tried
<1>6. QED
  BY <1>1, <1>2, <1>3, <1>4, <1>5 DEF Next

\* The queue, the locks, the marks and the calls keep their shape, and a pair is
\* always two users: nobody is matched with himself.
THEOREM MatchmakingTypeOK == Spec => []TypeOK
<1>1. QInv => TypeOK
  BY DEF QInv
<1>2. QED
  BY InitQInv, StepQInv, <1>1, PTL DEF Spec

\* No two handlers take the same pair out of the queue, whoever asked first.
THEOREM PairMadeOnceHolds == Spec => []PairMadeOnce
<1>1. QInv => PairMadeOnce
  BY DEF QInv
<1>2. QED
  BY InitQInv, StepQInv, <1>1, PTL DEF Spec

\* A pair that has met is not made again while its mark lasts, although
\* tryMatch reads the mark before it has the lock.
THEOREM NoRematchHolds == Spec => NoRematchWhileRecent
<1>1. QInv /\ [Next]_vars =>
        [\A c \in Callers :
           call[c].pc = "take" /\ call'[c].pc = "tidy" => Tried(c) \notin recent]_vars
  BY DEF QInv, NoMarkUnderLock
<1>2. QED
  BY <1>1, InitQInv, StepQInv, PTL DEF Spec, NoRematchWhileRecent

-----------------------------------------------------------------------------
(* Who waits has met whom he could meet.                                   *)

Calm == leaves = 0 /\ faults = 0 /\ ~missed

\* Nobody is on a way that a calm queue does not have.
Straight == \A c \in Callers : call[c].pc \notin {"zrem", "del", "readd"}

\* User u was taken out of the queue for a match that is being made.
PairsUp(c, u) == call[c].pc \in {"tidy", "create", "boot"} /\ u \in Tried(c)
Paired(u) == \E c \in Callers : PairsUp(c, u)

\* User u has asked and not come as far as leaving S.
Joins(c, u, S) == call[c].pc \in S /\ call[c].user = u
Joining(u, S) == \E c \in Callers : Joins(c, u, S)

\* Who waits is in the queue, on his way into it, or on his way into a match.
WaitingInQueue ==
  \A u \in Users : want[u] = "waiting" => u \in queue \/ Joining(u, {"zadd"}) \/ Paired(u)

\* A tryMatch that finds no hash of its user is one of a user who is matched
\* already or whose next join is still to look.
HashIsThere ==
  \A c \in Callers :
    LET u == call[c].user
    IN  call[c].pc = "hgetall" /\ want[u] = "waiting"
          => u \in meta \/ Joining(u, {"zadd", "hset"}) \/ Paired(u)

\* A lock is that of a pair that is being made or was made.
Takes(c, pair) == call[c].pc \in {"take", "tidy"} /\ Tried(c) = pair
LockedIsMade == \A pair \in locks : pair \in met \/ \E c \in Callers : Takes(c, pair)

\* Call c of user u is going to look at v.
Looks(c, u, v) ==
  /\ call[c].user = u
  /\ \/ call[c].pc \in {"zadd", "hset", "hgetall", "range"}
     \/ call[c].pc \in {"get", "lock"} /\ v \in call[c].todo
     \/ call[c].pc = "lock" /\ v = call[c].with

\* Call c takes u or v out of the queue for good.
Settles(c, u, v) ==
  call[c].pc \in {"take", "tidy", "create", "boot"} /\ (u \in Tried(c) \/ v \in Tried(c))

Serves(c, u, v) == Looks(c, u, v) \/ Looks(c, v, u) \/ Settles(c, u, v)

\* Two waiting users who could play each other have met, or a handler is at
\* work that will see to it.
MetOrServed ==
  \A u, v \in Users :
    u # v /\ want[u] = "waiting" /\ want[v] = "waiting" /\ Near(u, v) /\ Pair(u, v) \notin met
      => \E c \in Callers : Serves(c, u, v)

CalmInv == Straight /\ WaitingInQueue /\ HashIsThere /\ LockedIsMade /\ MetOrServed

MInv == QInv /\ (Calm => CalmInv)

LEMMA OthersStay ==
  ASSUME NEW c \in Callers, Rest(c), NEW d \in Callers, d # c
  PROVE  /\ call'[d] = call[d]
         /\ \A u : PairsUp(d, u)' <=> PairsUp(d, u)
         /\ \A u, S : Joins(d, u, S)' <=> Joins(d, u, S)
         /\ \A pair : Takes(d, pair)' <=> Takes(d, pair)
         /\ \A u, v : Serves(d, u, v)' <=> Serves(d, u, v)
<1>1. call'[d] = call[d] /\ Tried(d)' = Tried(d)
  BY TriedStays DEF Rest
<1>2. QED
  BY <1>1 DEF PairsUp, Joins, Takes, Serves, Looks, Settles

\* A calm queue has been calm.
LEMMA CalmWasCalm ==
  ASSUME QInv, Next, Calm'
  PROVE  Calm
<1>1. leaves \in Nat /\ faults \in Nat
  BY MatchmakingAssumption DEF QInv, TypeOK
<1>2. leaves' # leaves => leaves' = leaves + 1
  BY DEF Next, Join, Leave, Boot, Fail, counts
<1>3. faults' # faults => faults' = faults + 1
  BY DEF Next, Join, Leave, Boot, Fail, counts
<1>4. leaves = 0 /\ faults = 0
  BY <1>1, <1>2, <1>3 DEF Calm
<1>5. missed => missed'
  BY Zenon DEF Next, Join, Leave, Remember, Boot, Fail
<1>6. QED
  BY <1>4, <1>5, Zenon DEF Calm

LEMMA NoReadd ==
  ASSUME Remember, Calm', NEW c \in Callers
  PROVE  call'[c].pc # "readd"
BY Zenon DEF Remember, Calm

\* The user is in the queue before he looks.
LEMMA EnqueueCalm ==
  ASSUME QInv, CalmInv, Remember, UNCHANGED <<want, counts>>, NEW c \in Callers, Enqueue(c)
  PROVE  CalmInv'
<1>1. /\ StepTo(c, "hset") /\ call[c].pc = "zadd" /\ met \subseteq met'
      /\ queue' = queue \cup {call[c].user} /\ UNCHANGED <<meta, locks, want>>
  BY PlainKeepsQ DEF Enqueue, Remember
<1>2. Rest(c) /\ call'[c].pc = "hset" /\ call'[c].user = call[c].user
  BY <1>1 DEF StepTo, Same
<1>3. Straight'
  BY <1>2 DEF CalmInv, Straight, Rest
<1>4. WaitingInQueue'
  BY <1>1, <1>2, OthersStay DEF CalmInv, WaitingInQueue, Joining, Joins, Paired, PairsUp
<1>5. HashIsThere'
  BY <1>1, <1>2, OthersStay DEF CalmInv, HashIsThere, Joining, Joins, Paired, PairsUp
<1>6. LockedIsMade'
  BY <1>1, <1>2, OthersStay DEF CalmInv, LockedIsMade, Takes
<1>7. MetOrServed'
  BY <1>1, <1>2, OthersStay DEF CalmInv, MetOrServed, Serves, Looks, Settles
<1>8. QED
  BY <1>3, <1>4, <1>5, <1>6, <1>7 DEF CalmInv

LEMMA StoreMetaCalm ==
  ASSUME QInv, CalmInv, Remember, UNCHANGED <<want, counts>>, NEW c \in Callers, StoreMeta(c)
  PROVE  CalmInv'
<1>1. /\ StepTo(c, "hgetall") /\ call[c].pc = "hset" /\ met \subseteq met'
      /\ meta' = meta \cup {call[c].user} /\ UNCHANGED <<queue, locks, want>>
  BY PlainKeepsQ DEF StoreMeta, Remember
<1>2. Rest(c) /\ call'[c].pc = "hgetall" /\ call'[c].user = call[c].user
  BY <1>1 DEF StepTo, Same
<1>3. Straight'
  BY <1>2 DEF CalmInv, Straight, Rest
<1>4. WaitingInQueue'
  BY <1>1, <1>2, OthersStay DEF CalmInv, WaitingInQueue, Joining, Joins, Paired, PairsUp
<1>5. HashIsThere'
  BY <1>1, <1>2, OthersStay DEF CalmInv, HashIsThere, Joining, Joins, Paired, PairsUp
<1>6. LockedIsMade'
  BY <1>1, <1>2, OthersStay DEF CalmInv, LockedIsMade, Takes
<1>7. MetOrServed'
  BY <1>1, <1>2, OthersStay DEF CalmInv, MetOrServed, Serves, Looks, Settles
<1>8. QED
  BY <1>3, <1>4, <1>5, <1>6, <1>7 DEF CalmInv

\* A call that ends without a hash has another one to see to its user.
LEMMA ReadMetaCalm ==
  ASSUME QInv, CalmInv, Remember, UNCHANGED <<want, counts>>, NEW c \in Callers, ReadMeta(c)
  PROVE  CalmInv'
<1>1. /\ IF call[c].user \in meta THEN StepTo(c, "range") ELSE Ends(c)
      /\ call[c].pc = "hgetall" /\ met \subseteq met' /\ UNCHANGED <<queue, meta, locks, want>>
  BY PlainKeepsQ DEF ReadMeta, Remember, redis
<1>2. /\ Rest(c) /\ call'[c].pc \in {"range", "idle"}
      /\ call'[c].pc = "range" => call'[c].user = call[c].user
      /\ call'[c].pc = "idle" => call[c].user \notin meta
  BY <1>1 DEF StepTo, Same, Ends
<1>3. Straight'
  BY <1>2 DEF CalmInv, Straight, Rest
<1>4. WaitingInQueue'
  BY <1>1, <1>2, OthersStay DEF CalmInv, WaitingInQueue, Joining, Joins, Paired, PairsUp
<1>5. HashIsThere'
  BY <1>1, <1>2, OthersStay DEF CalmInv, HashIsThere, Joining, Joins, Paired, PairsUp
<1>6. LockedIsMade'
  BY <1>1, <1>2, OthersStay DEF CalmInv, LockedIsMade, Takes
<1>7. MetOrServed'
  <2>1. CASE call'[c].pc = "range"
    BY <1>1, <1>2, <2>1, OthersStay DEF CalmInv, MetOrServed, Serves, Looks, Settles
  <2>2. CASE call'[c].pc = "idle"
    <3>1. want[call[c].user] = "waiting" =>
            \E d \in Callers \ {c} : Joins(d, call[c].user, {"zadd", "hset"}) \/ PairsUp(d, call[c].user)
      BY <1>1, <1>2, <2>2 DEF CalmInv, HashIsThere, Joining, Joins, Paired, PairsUp
    <3>2. \A v : want[call[c].user] = "waiting" =>
            \E d \in Callers \ {c} : Serves(d, call[c].user, v) /\ Serves(d, v, call[c].user)
      BY <3>1 DEF Joins, PairsUp, Serves, Looks, Settles
    <3>3. \A u, v : Serves(c, u, v) => call[c].user = u \/ call[c].user = v
      BY <1>1 DEF Serves, Looks, Settles
    <3>4. QED
      BY <1>1, <1>2, <3>2, <3>3, OthersStay DEF CalmInv, MetOrServed
  <2>3. QED
    BY <1>2, <2>1, <2>2
<1>8. QED
  BY <1>3, <1>4, <1>5, <1>6, <1>7 DEF CalmInv

LEMMA NearBothWays ==
  ASSUME NEW u \in Users, NEW v \in Users, Near(u, v)
  PROVE  Near(v, u)
BY MatchmakingAssumption DEF Near

\* Whom the call does not find in the queue is not there yet, or is being
\* paired.
LEMMA ReadCandidatesCalm ==
  ASSUME QInv, CalmInv, Remember, UNCHANGED <<want, counts>>, NEW c \in Callers, ReadCandidates(c)
  PROVE  CalmInv'
<1>0. PICK me \in Users : me = call[c].user
  BY DEF QInv, TypeOK, Call
<1> DEFINE todo == {v \in queue : Near(me, v)} \ {me}
<1>1. /\ GoesOn(c, todo) /\ call[c].pc = "range" /\ met \subseteq met'
      /\ UNCHANGED <<queue, meta, locks, want>>
  BY <1>0, ReadCandidatesKeepsQ DEF ReadCandidates, Remember, redis
<1>2. /\ \A v : v \in todo <=> v \in queue /\ Near(me, v) /\ v # me
      /\ Rest(c) /\ call'[c].pc \in {"get", "idle"}
      /\ call'[c].pc = "get" => call'[c].user = me /\ call'[c].todo = todo
      /\ call'[c].pc = "idle" => todo = {}
  BY <1>0, <1>1 DEF GoesOn, Ends, Same
<1> HIDE DEF todo
<1>3. Straight'
  BY <1>2 DEF CalmInv, Straight, Rest
<1>4. WaitingInQueue'
  BY <1>0, <1>1, <1>2, OthersStay DEF CalmInv, WaitingInQueue, Joining, Joins, Paired, PairsUp
<1>5. HashIsThere'
  BY <1>0, <1>1, <1>2, OthersStay DEF CalmInv, HashIsThere, Joining, Joins, Paired, PairsUp
<1>6. LockedIsMade'
  BY <1>0, <1>1, <1>2, OthersStay DEF CalmInv, LockedIsMade, Takes
<1>7. ASSUME NEW v \in Users, v # me, want[v] = "waiting", Near(me, v)
      PROVE  \E d \in Callers : (Serves(d, me, v) /\ Serves(d, v, me))'
  <2>1. CASE v \in queue
    BY <1>1, <1>2, <1>7, <2>1 DEF Serves, Looks
  <2>2. CASE v \notin queue
    <3>1. PICK d \in Callers : Joins(d, v, {"zadd"}) \/ PairsUp(d, v)
      BY <1>7, <2>2 DEF CalmInv, WaitingInQueue, Joining, Paired
    <3>2. d # c
      BY <1>1, <3>1 DEF Joins, PairsUp
    <3>3. Serves(d, me, v) /\ Serves(d, v, me)
      BY <3>1 DEF Joins, PairsUp, Serves, Looks, Settles
    <3>4. Serves(d, me, v)' /\ Serves(d, v, me)'
      BY <1>2, <3>2, <3>3, OthersStay
    <3>5. QED
      BY <3>4
  <2>3. QED
    BY <2>1, <2>2
<1>8. \A u, v : Serves(c, u, v) => me = u \/ me = v
  BY <1>0, <1>1 DEF Serves, Looks, Settles
<1>9. MetOrServed'
  <2> SUFFICES ASSUME NEW u \in Users, NEW v \in Users, u # v, want[u] = "waiting",
                      want[v] = "waiting", Near(u, v), Pair(u, v) \notin met
               PROVE  \E d \in Callers : Serves(d, u, v)'
    BY <1>1 DEF MetOrServed, Near
  <2>1. CASE me = u
    BY <1>7, <2>1
  <2>3. CASE me = v
    BY <1>7, <2>3, NearBothWays
  <2>2. CASE me # u /\ me # v
    BY <1>2, <1>8, <2>2, OthersStay DEF CalmInv, MetOrServed
  <2>4. QED
    BY <2>1, <2>2, <2>3
<1>10. QED
  BY <1>3, <1>4, <1>5, <1>6, <1>9 DEF CalmInv

\* Whom the call passes over he has met.
LEMMA ConsiderCalm ==
  ASSUME QInv, CalmInv, Remember, UNCHANGED <<want, counts>>, NEW c \in Callers, Consider(c)
  PROVE  CalmInv'
<1> DEFINE me == call[c].user
<1>1. PICK v \in call[c].todo :
        IF Pair(me, v) \in recent
        THEN GoesOn(c, call[c].todo \ {v})
        ELSE /\ Rest(c) /\ call'[c].pc = "lock" /\ call'[c].user = me
             /\ call'[c].with = v /\ call'[c].todo = call[c].todo \ {v}
  BY ConsiderKeepsQ
<1>2. /\ call[c].pc = "get" /\ met \subseteq met' /\ recent \subseteq met
      /\ UNCHANGED <<queue, meta, locks, want>>
  BY DEF Consider, Remember, redis, QInv, TypeOK
<1>3. /\ Rest(c) /\ call'[c].pc \in {"get", "idle", "lock"}
      /\ call'[c].pc # "idle" => call'[c].user = me /\ call'[c].todo = call[c].todo \ {v}
      /\ call'[c].pc = "idle" => call[c].todo \ {v} = {}
      /\ call'[c].pc = "lock" => call'[c].with = v
      /\ call'[c].pc # "lock" => Pair(me, v) \in met
  BY <1>1, <1>2 DEF GoesOn, Ends, Same
<1>4. Straight'
  BY <1>3 DEF CalmInv, Straight, Rest
<1>5. WaitingInQueue'
  BY <1>2, <1>3, OthersStay DEF CalmInv, WaitingInQueue, Joining, Joins, Paired, PairsUp
<1>6. HashIsThere'
  BY <1>2, <1>3, OthersStay DEF CalmInv, HashIsThere, Joining, Joins, Paired, PairsUp
<1>7. LockedIsMade'
  BY <1>2, <1>3, OthersStay DEF CalmInv, LockedIsMade, Takes
<1>8. \A u, w : Serves(c, u, w) /\ Pair(u, w) \notin met => Serves(c, u, w)'
  BY <1>2, <1>3 DEF Serves, Looks, Settles, Pair
<1>9. MetOrServed'
  BY <1>2, <1>3, <1>8, OthersStay DEF CalmInv, MetOrServed, Near
<1>10. QED
  BY <1>4, <1>5, <1>6, <1>7, <1>9 DEF CalmInv

\* Who finds the pair locked has met the other, or somebody is making the pair.
LEMMA LockCalm ==
  ASSUME QInv, CalmInv, Remember, UNCHANGED <<want, counts>>, NEW c \in Callers, Lock(c)
  PROVE  CalmInv'
<1>1. /\ IF Tried(c) \in locks THEN GoesOn(c, call[c].todo) ELSE StepTo(c, "take")
      /\ call[c].pc = "lock" /\ met \subseteq met' /\ UNCHANGED <<queue, meta, want>>
      /\ locks' = IF Tried(c) \in locks THEN locks ELSE locks \cup {Tried(c)}
  BY LockKeepsQ DEF Lock, Remember
<1>2. /\ Rest(c) /\ call'[c].pc \in {"get", "idle", "take"}
      /\ call'[c].pc # "idle" => Same(c) /\ call'[c].todo = call[c].todo
      /\ call'[c].pc = "idle" => call[c].todo = {}
      /\ call'[c].pc = "take" <=> Tried(c) \notin locks
  BY <1>1 DEF GoesOn, StepTo, Ends
<1>3. Same(c) => Tried(c)' = Tried(c)
  BY TriedStaysSame
<1>4. Straight'
  BY <1>2 DEF CalmInv, Straight, Rest
<1>5. WaitingInQueue'
  BY <1>1, <1>2, OthersStay DEF CalmInv, WaitingInQueue, Joining, Joins, Paired, PairsUp
<1>6. HashIsThere'
  BY <1>1, <1>2, OthersStay DEF CalmInv, HashIsThere, Joining, Joins, Paired, PairsUp
<1>7. LockedIsMade'
  BY <1>1, <1>2, <1>3, OthersStay DEF CalmInv, LockedIsMade, Takes
<1>8. ASSUME NEW u, NEW v, Serves(c, u, v), Pair(u, v) \notin met
      PROVE  \E d \in Callers : Serves(d, u, v)'
  <2>1. CASE Tried(c) \notin locks
    BY <1>1, <1>2, <1>3, <1>8, <2>1 DEF Serves, Looks, Settles, Same, Tried, Pair
  <2>2. CASE Tried(c) \in locks /\ Tried(c) = Pair(u, v)
    <3>1. PICK d \in Callers : Takes(d, Tried(c))
      BY <1>8, <2>2 DEF CalmInv, LockedIsMade
    <3>2. d # c
      BY <1>1, <3>1 DEF Takes
    <3>3. Serves(d, u, v)
      BY <2>2, <3>1 DEF Takes, Serves, Settles, Pair
    <3>4. QED
      BY <1>2, <3>2, <3>3, OthersStay
  <2>3. CASE Tried(c) \in locks /\ Tried(c) # Pair(u, v)
    BY <1>1, <1>2, <1>8, <2>3 DEF Serves, Looks, Settles, Same, Tried, Pair
  <2>4. QED
    BY <2>1, <2>2, <2>3
<1>9. MetOrServed'
  BY <1>1, <1>2, <1>8, OthersStay DEF CalmInv, MetOrServed, Near
<1>10. QED
  BY <1>4, <1>5, <1>6, <1>7, <1>9 DEF CalmInv

\* Both were there, or the queue is not calm any more.
LEMMA TakeCalm ==
  ASSUME QInv, CalmInv, Remember, UNCHANGED <<want, counts>>, NEW c \in Callers, Take(c), Calm'
  PROVE  CalmInv'
<1>1. StepTo(c, "tidy")
  <2>1. StepTo(c, IF Tried(c) \subseteq queue THEN "tidy" ELSE "readd")
    BY TakeKeepsQ
  <2>2. QED
    BY <2>1, NoReadd DEF StepTo
<1>2. /\ call[c].pc = "take" /\ met \subseteq met' /\ UNCHANGED <<meta, locks, want>>
      /\ queue' = queue \ Tried(c)
  BY DEF Take, Remember
<1>3. Rest(c) /\ call'[c].pc = "tidy" /\ Tried(c)' = Tried(c) /\ call'[c].user = call[c].user
  BY <1>1, TriedStaysSame DEF StepTo, Same
<1>4. Straight'
  BY <1>3 DEF CalmInv, Straight, Rest
<1>5. WaitingInQueue'
  BY <1>2, <1>3, OthersStay DEF CalmInv, WaitingInQueue, Joining, Joins, Paired, PairsUp
<1>6. HashIsThere'
  BY <1>2, <1>3, OthersStay DEF CalmInv, HashIsThere, Joining, Joins, Paired, PairsUp
<1>7. LockedIsMade'
  BY <1>2, <1>3, OthersStay DEF CalmInv, LockedIsMade, Takes
<1>8. MetOrServed'
  BY <1>2, <1>3, OthersStay DEF CalmInv, MetOrServed, Serves, Looks, Settles, Near
<1>9. QED
  BY <1>4, <1>5, <1>6, <1>7, <1>8 DEF CalmInv

\* The hash goes when the user is paired; the lock's pair has met.
LEMMA TidyCalm ==
  ASSUME QInv, CalmInv, Remember, UNCHANGED <<want, counts>>, NEW c \in Callers, Tidy(c)
  PROVE  CalmInv'
<1>1. /\ StepTo(c, "create") /\ call[c].pc = "tidy" /\ met \subseteq met' /\ Tried(c) \in met'
      /\ UNCHANGED <<queue, locks, want>> /\ meta' = meta \ Tried(c)
  BY TidyKeepsQ DEF Tidy, Remember
<1>2. Rest(c) /\ call'[c].pc = "create" /\ Tried(c)' = Tried(c) /\ call'[c].user = call[c].user
  BY <1>1, TriedStaysSame DEF StepTo, Same
<1>3. Straight'
  BY <1>2 DEF CalmInv, Straight, Rest
<1>4. WaitingInQueue'
  BY <1>1, <1>2, OthersStay DEF CalmInv, WaitingInQueue, Joining, Joins, Paired, PairsUp
<1>5. HashIsThere'
  BY <1>1, <1>2, OthersStay DEF CalmInv, HashIsThere, Joining, Joins, Paired, PairsUp
<1>6. LockedIsMade'
  BY <1>1, <1>2, OthersStay DEF CalmInv, LockedIsMade, Takes
<1>7. MetOrServed'
  BY <1>1, <1>2, OthersStay DEF CalmInv, MetOrServed, Serves, Looks, Settles, Near
<1>8. QED
  BY <1>3, <1>4, <1>5, <1>6, <1>7 DEF CalmInv

LEMMA CreateCalm ==
  ASSUME QInv, CalmInv, Remember, UNCHANGED <<want, counts>>, NEW c \in Callers, Create(c)
  PROVE  CalmInv'
<1>1. /\ StepTo(c, "boot") /\ call[c].pc = "create" /\ met \subseteq met'
      /\ UNCHANGED <<queue, meta, locks, want>>
  BY PlainKeepsQ DEF Create, Remember, redis
<1>2. Rest(c) /\ call'[c].pc = "boot" /\ Tried(c)' = Tried(c) /\ call'[c].user = call[c].user
  BY <1>1, TriedStaysSame DEF StepTo, Same
<1>3. Straight'
  BY <1>2 DEF CalmInv, Straight, Rest
<1>4. WaitingInQueue'
  BY <1>1, <1>2, OthersStay DEF CalmInv, WaitingInQueue, Joining, Joins, Paired, PairsUp
<1>5. HashIsThere'
  BY <1>1, <1>2, OthersStay DEF CalmInv, HashIsThere, Joining, Joins, Paired, PairsUp
<1>6. LockedIsMade'
  BY <1>1, <1>2, OthersStay DEF CalmInv, LockedIsMade, Takes
<1>7. MetOrServed'
  BY <1>1, <1>2, OthersStay DEF CalmInv, MetOrServed, Serves, Looks, Settles, Near
<1>8. QED
  BY <1>3, <1>4, <1>5, <1>6, <1>7 DEF CalmInv

LEMMA CommandCalm ==
  ASSUME QInv, CalmInv, Remember, UNCHANGED <<want, counts>>, NEW c \in Callers, Command(c), Calm'
  PROVE  CalmInv'
<1>1. ~Readd(c) /\ ~Remove(c) /\ ~DropMeta(c)
  BY DEF CalmInv, Straight, Readd, Remove, DropMeta
<1>2. QED
  BY <1>1, EnqueueCalm, StoreMetaCalm, ReadMetaCalm, ReadCandidatesCalm, ConsiderCalm, LockCalm,
     TakeCalm, TidyCalm, CreateCalm DEF Command

\* Who joins has a call that will look.
LEMMA JoinCalm ==
  ASSUME QInv, CalmInv, NEW c \in Callers, NEW me \in Users, Join(c, me)
  PROVE  CalmInv'
<1>1. /\ Rest(c) /\ call'[c].user = me /\ call'[c].pc = "zadd" /\ call[c].pc = "idle"
      /\ want' = [want EXCEPT ![me] = "waiting"] /\ UNCHANGED <<redis, met>>
  BY JoinKeepsQ DEF Join
<1>2. /\ \A u \in Users : u # me => want'[u] = want[u]
      /\ UNCHANGED <<queue, meta, locks, met>>
      /\ \A d \in Callers : call[d].user \in Users
  BY <1>1 DEF QInv, TypeOK, redis, Call
<1>3. Straight'
  BY <1>1 DEF CalmInv, Straight, Rest
<1>4. WaitingInQueue'
  BY <1>1, <1>2, OthersStay DEF CalmInv, WaitingInQueue, Joining, Joins, Paired, PairsUp
<1>5. HashIsThere'
  BY <1>1, <1>2, OthersStay DEF CalmInv, HashIsThere, Joining, Joins, Paired, PairsUp
<1>6. LockedIsMade'
  BY <1>1, <1>2, OthersStay DEF CalmInv, LockedIsMade, Takes
<1>7. MetOrServed'
  BY <1>1, <1>2, OthersStay DEF CalmInv, MetOrServed, Serves, Looks, Settles, Near
<1>8. QED
  BY <1>3, <1>4, <1>5, <1>6, <1>7 DEF CalmInv

\* Who is told of a match does not wait any more.
LEMMA BootCalm ==
  ASSUME QInv, CalmInv, NEW c \in Callers, Boot(c)
  PROVE  CalmInv'
<1>1. /\ Rest(c) /\ call'[c].pc = "idle" /\ call[c].pc = "boot"
      /\ want' = [u \in Users |-> IF u \in Tried(c) THEN "matched" ELSE want[u]]
      /\ UNCHANGED <<redis, met>>
  BY EndKeepsQ DEF Boot, Ends
<1>2. /\ \A u \in Users : want'[u] = "waiting" => want[u] = "waiting" /\ u \notin Tried(c)
      /\ UNCHANGED <<queue, meta, locks, met>>
      /\ \A d \in Callers : call[d].user \in Users
  BY <1>1 DEF QInv, TypeOK, redis, Call
<1>3. Straight'
  BY <1>1 DEF CalmInv, Straight, Rest
<1>4. WaitingInQueue'
  BY <1>1, <1>2, OthersStay DEF CalmInv, WaitingInQueue, Joining, Joins, Paired, PairsUp
<1>5. HashIsThere'
  BY <1>1, <1>2, OthersStay DEF CalmInv, HashIsThere, Joining, Joins, Paired, PairsUp
<1>6. LockedIsMade'
  BY <1>1, <1>2, OthersStay DEF CalmInv, LockedIsMade, Takes
<1>7. MetOrServed'
  BY <1>1, <1>2, OthersStay DEF CalmInv, MetOrServed, Serves, Looks, Settles, Near
<1>8. QED
  BY <1>3, <1>4, <1>5, <1>6, <1>7 DEF CalmInv

LEMMA ExpiryCalm ==
  ASSUME QInv, CalmInv, LockExpires \/ RecentExpires \/ MetaExpires,
         UNCHANGED <<call, want, met, missed, counts>>
  PROVE  CalmInv'
<1>1. /\ queue' = queue /\ locks' \subseteq locks
      /\ \A c \in Callers : call[c].pc = "hgetall" /\ call[c].user \in meta => call[c].user \in meta'
  BY DEF LockExpires, RecentExpires, MetaExpires
<1>2. Straight' /\ WaitingInQueue' /\ MetOrServed'
  BY <1>1 DEF CalmInv, Straight, WaitingInQueue, Joining, Joins, Paired, PairsUp, Tried,
              MetOrServed, Serves, Looks, Settles, Near
<1>3. HashIsThere'
  BY <1>1 DEF CalmInv, HashIsThere, Joining, Joins, Paired, PairsUp, Tried
<1>4. LockedIsMade'
  BY <1>1 DEF CalmInv, LockedIsMade, Takes, Tried
<1>5. QED
  BY <1>2, <1>3, <1>4 DEF CalmInv

LEMMA InitMInv == Init => MInv
<1> SUFFICES ASSUME Init PROVE MInv
  OBVIOUS
<1>1. \A c \in Callers : call[c].pc = "idle"
  BY DEF Init, Idle, Asking
<1>2. CalmInv
  BY <1>1 DEF Init, CalmInv, Straight, WaitingInQueue, HashIsThere, LockedIsMade, MetOrServed
<1>3. QED
  BY <1>2, InitQInv DEF MInv

LEMMA StepMInv == MInv /\ [Next]_vars => MInv'
<1> SUFFICES ASSUME MInv, [Next]_vars PROVE MInv'
  OBVIOUS
<1>1. QInv'
  BY StepQInv DEF MInv
<1>2. ASSUME Next, Calm' PROVE CalmInv'
  <2>1. QInv /\ Calm /\ CalmInv
    BY <1>2, CalmWasCalm DEF MInv
  <2>2. ASSUME NEW c \in Callers, NEW u \in Users, Join(c, u) PROVE CalmInv'
    BY <2>1, <2>2, JoinCalm
  <2>3. ASSUME NEW c \in Callers, NEW u \in Users, Leave(c, u) PROVE FALSE
    BY <1>2, <2>1, <2>3 DEF Leave, Calm
  <2>4. ASSUME NEW c \in Callers, Command(c) /\ Remember /\ UNCHANGED <<want, counts>> PROVE CalmInv'
    BY <1>2, <2>1, <2>4, CommandCalm
  <2>5. ASSUME NEW c \in Callers, Boot(c) PROVE CalmInv'
    BY <2>1, <2>5, BootCalm
  <2>6. ASSUME NEW c \in Callers, Fail(c) PROVE FALSE
    BY <1>2, <2>1, <2>6 DEF Fail, Calm
  <2>7. CASE (LockExpires \/ RecentExpires \/ MetaExpires) /\ UNCHANGED <<call, want, met, missed, counts>>
    BY <2>1, <2>7, ExpiryCalm
  <2>8. QED
    BY <1>2, <2>2, <2>3, <2>4, <2>5, <2>6, <2>7 DEF Next
<1>3. ASSUME UNCHANGED vars, Calm' PROVE CalmInv'
  <2>1. UNCHANGED <<queue, meta, locks, recent, call, want, met, missed, leaves, faults>>
    BY <1>3 DEF vars, redis, counts
  <2>2. Calm /\ CalmInv
    BY <1>3, <2>1, Zenon DEF Calm, MInv
  <2>3. QED
    BY <2>1, <2>2 DEF CalmInv, Straight, WaitingInQueue, Joining, Joins, Paired, PairsUp, Tried,
                      HashIsThere, LockedIsMade, Takes, MetOrServed, Serves, Looks, Settles, Near
<1>4. QED
  BY <1>1, <1>2, <1>3 DEF MInv

\* With any number of users, handlers and joins: as long as nobody leaves, no
\* call fails and no tryMatch finds one of its pair gone, any two users who
\* wait and could play each other have met once the handlers are done.
THEOREM PlayersMeetHolds == Spec => []PlayersMeetUnlessMissed
<1>1. MInv => PlayersMeetUnlessMissed
  <2> SUFFICES ASSUME MInv, leaves = 0 /\ faults = 0 /\ ~missed, Quiet,
                      NEW u \in Users, NEW v \in Users, u # v,
                      want[u] = "waiting", want[v] = "waiting", Near(u, v)
               PROVE  Pair(u, v) \in met
    BY DEF PlayersMeetUnlessMissed, QueuedPlayersMeet
  <2>1. MetOrServed
    BY Zenon DEF MInv, Calm, CalmInv
  <2>2. \A c \in Callers : ~Serves(c, u, v)
    BY DEF Quiet, Serves, Looks, Settles
  <2>3. QED
    BY <2>1, <2>2 DEF MetOrServed
<1>2. QED
  BY <1>1, InitMInv, StepMInv, PTL DEF Spec
=============================================================================
