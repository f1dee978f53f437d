----------------------------- MODULE Matchmaking -----------------------------
(***************************************************************************)
(* The ranked queue: MatchmakingService and the two gateway handlers that  *)
(* call it. All state is in Redis, shared by every handler: the sorted set *)
(* of waiting users, a hash per user, a lock per pair (3 s) and a mark on  *)
(* each pair that met lately (120 s). A handler issues one command at a    *)
(* time and awaits the answer, so a step here is one command and what the  *)
(* code does with the answer until it issues the next one.                 *)
(*                                                                         *)
(* Left out: the rate limit before a join, and the queue metadata in       *)
(* MongoDB, which nothing reads. tryMatch runs right after joinedAt was    *)
(* set, so the range it computes from the time waited is its least, Window.*)
(***************************************************************************)
EXTENDS Integers, FiniteSets

CONSTANTS
  Users,
  Callers,     \* slots for the handlers in flight at one time
  Rating,      \* the rating of each user
  Window,      \* 100: how far apart ratings of a pair may be
  MaxJoins,    \* bound on matchmaking:join requests
  MaxLeaves,   \* bound on matchmaking:leave requests
  MaxFaults    \* bound on failing calls

ASSUME MatchmakingAssumption ==
  /\ Users # {}
  /\ Rating \in [Users -> Int]
  /\ Window \in Nat
  /\ MaxJoins \in Nat /\ MaxLeaves \in Nat /\ MaxFaults \in Nat

VARIABLES
  queue,     \* mm:ranked:zset
  meta,      \* the users with a mm:ranked:user hash
  locks,     \* the pairs with a mm:pair-lock
  recent,    \* the pairs with a mm:recent-pair mark
  call,      \* what each caller is doing
  want,      \* history: what each user last asked for or was told
  met,       \* history: the pairs that were ever marked
  missed,    \* history: a tryMatch found that one of its pair was gone
  joins, leaves, faults

redis == <<queue, meta, locks, recent>>
counts == <<joins, leaves, faults>>
vars == <<redis, call, want, met, missed, counts>>

Pair(u, v) == {u, v}
Pairs == {Pair(u, v) : u, v \in Users} \ {{u} : u \in Users}

\* `pc` is the command a call is about to get answered, `user` who asked,
\* `with` the candidate it is trying, `todo` the candidates after that.
Steps == {"idle", "zadd", "hset", "hgetall", "range", "get", "lock", "take", "readd",
          "tidy", "create", "boot", "zrem", "del"}
Call == [pc : Steps, user : Users, with : Users, todo : SUBSET Users]
Asking(pc, u) == [pc |-> pc, user |-> u, with |-> u, todo |-> {}]
Idle == Asking("idle", CHOOSE u \in Users : TRUE)

\* The pair a call is trying to make.
Tried(c) == Pair(call[c].user, call[c].with)

\* The shape of the state; a pair is always two users.
TypeOK ==
  /\ queue \subseteq Users /\ meta \subseteq Users
  /\ locks \subseteq Pairs /\ recent \subseteq Pairs
  /\ call \in [Callers -> Call]
  /\ want \in [Users -> {"out", "waiting", "matched"}]
  /\ recent \subseteq met /\ met \subseteq Pairs /\ missed \in BOOLEAN
  /\ joins \in 0..MaxJoins /\ leaves \in 0..MaxLeaves /\ faults \in 0..MaxFaults

Init ==
  /\ queue = {} /\ meta = {} /\ locks = {} /\ recent = {}
  /\ call = [c \in Callers |-> Idle]
  /\ want = [u \in Users |-> "out"] /\ met = {} /\ missed = FALSE
  /\ joins = 0 /\ leaves = 0 /\ faults = 0

-----------------------------------------------------------------------------
(* Requests.                                                                *)

Join(c, u) ==
  /\ call[c].pc = "idle" /\ joins < MaxJoins
  /\ call' = [call EXCEPT ![c] = Asking("zadd", u)]
  /\ want' = [want EXCEPT ![u] = "waiting"]
  /\ joins' = joins + 1
  /\ UNCHANGED <<redis, met, missed, leaves, faults>>

Leave(c, u) ==
  /\ call[c].pc = "idle" /\ leaves < MaxLeaves
  /\ call' = [call EXCEPT ![c] = Asking("zrem", u)]
  /\ want' = [want EXCEPT ![u] = "out"]
  /\ leaves' = leaves + 1
  /\ UNCHANGED <<redis, met, missed, joins, faults>>

-----------------------------------------------------------------------------
(* What a caller does when its command is answered.                         *)

Goto(c, pc) == call' = [call EXCEPT ![c].pc = pc]
Done(c) == call' = [call EXCEPT ![c] = Idle]

\* On to the next candidate; with none left tryMatch returns null.
TryNext(c, todo) ==
  IF todo = {} THEN Done(c)
  ELSE call' = [call EXCEPT ![c].pc = "get", ![c].todo = todo]

\* joinRankedQueue.
Enqueue(c) ==
  /\ call[c].pc = "zadd"
  /\ queue' = queue \cup {call[c].user}
  /\ Goto(c, "hset")
  /\ UNCHANGED <<meta, locks, recent>>

StoreMeta(c) ==
  /\ call[c].pc = "hset"
  /\ meta' = meta \cup {call[c].user}
  /\ Goto(c, "hgetall")
  /\ UNCHANGED <<queue, locks, recent>>

\* tryMatch.
ReadMeta(c) ==
  /\ call[c].pc = "hgetall"
  /\ IF call[c].user \in meta THEN Goto(c, "range") ELSE Done(c)
  /\ UNCHANGED redis

Near(u, v) == Rating[u] - Rating[v] \in -Window..Window

\* Variant: a user is a candidate for himself.
ReadCandidatesAndSelf(c) ==
  /\ call[c].pc = "range"
  /\ TryNext(c, {v \in queue : Near(call[c].user, v)})
  /\ UNCHANGED redis

ReadCandidates(c) ==
  /\ call[c].pc = "range"
  /\ TryNext(c, {v \in queue : Near(call[c].user, v)} \ {call[c].user})
  /\ UNCHANGED redis

\* Variant: the mark of a recent meeting is not looked at.
ConsiderAnybody(c) ==
  /\ call[c].pc = "get"
  /\ \E v \in call[c].todo :
       call' = [call EXCEPT ![c].pc = "lock", ![c].with = v, ![c].todo = call[c].todo \ {v}]
  /\ UNCHANGED redis

Consider(c) ==
  /\ call[c].pc = "get"
  /\ \E v \in call[c].todo :
       LET rest == call[c].todo \ {v}
       IN  IF Pair(call[c].user, v) \in recent
           THEN TryNext(c, rest)
           ELSE call' = [call EXCEPT ![c].pc = "lock", ![c].with = v, ![c].todo = rest]
  /\ UNCHANGED redis

\* Variant: two handlers may work on the same pair.
LockShared(c) ==
  /\ call[c].pc = "lock"
  /\ locks' = locks \cup {Tried(c)} /\ Goto(c, "take")
  /\ UNCHANGED <<queue, meta, recent>>

Lock(c) ==
  /\ call[c].pc = "lock"
  /\ IF Tried(c) \in locks
     THEN TryNext(c, call[c].todo) /\ UNCHANGED locks
     ELSE locks' = locks \cup {Tried(c)} /\ Goto(c, "take")
  /\ UNCHANGED <<queue, meta, recent>>

\* zrem of both users answers how many were there.
Take(c) ==
  /\ call[c].pc = "take"
  /\ queue' = queue \ Tried(c)
  /\ Goto(c, IF Tried(c) \subseteq queue THEN "tidy" ELSE "readd")
  /\ UNCHANGED <<meta, locks, recent>>

\* The user goes back into the queue; so does nobody else.
Readd(c) ==
  /\ call[c].pc = "readd"
  /\ queue' = queue \cup {call[c].user}
  /\ TryNext(c, call[c].todo)
  /\ UNCHANGED <<meta, locks, recent>>

\* The commands of the Promise.all are issued together.
Tidy(c) ==
  /\ call[c].pc = "tidy"
  /\ meta' = meta \ Tried(c)
  /\ recent' = recent \cup {Tried(c)}
  /\ Goto(c, "create")
  /\ UNCHANGED <<queue, locks>>

\* createMatch, bootstrapMatch, and the announcement to both.
Create(c) ==
  /\ call[c].pc = "create"
  /\ Goto(c, "boot")
  /\ UNCHANGED redis

Boot(c) ==
  /\ call[c].pc = "boot"
  /\ want' = [u \in Users |-> IF u \in Tried(c) THEN "matched" ELSE want[u]]
  /\ Done(c)
  /\ UNCHANGED <<redis, met, missed, counts>>

\* leaveRankedQueue.
Remove(c) ==
  /\ call[c].pc = "zrem"
  /\ queue' = queue \ {call[c].user}
  /\ Goto(c, "del")
  /\ UNCHANGED <<meta, locks, recent>>

DropMeta(c) ==
  /\ call[c].pc = "del"
  /\ meta' = meta \ {call[c].user}
  /\ Done(c)
  /\ UNCHANGED <<queue, locks, recent>>

\* Variant: a handler looks for candidates before it is in the queue itself.
LookFirst(c) ==
  \/ /\ call[c].pc = "zadd"
     /\ call' = [call EXCEPT ![c].pc = "hset",
                             ![c].todo = {v \in queue : Near(call[c].user, v)} \ {call[c].user}]
     /\ UNCHANGED redis
  \/ StoreMeta(c) \/ ReadMeta(c)
  \/ /\ call[c].pc = "range"
     /\ queue' = queue \cup {call[c].user}
     /\ TryNext(c, call[c].todo)
     /\ UNCHANGED <<meta, locks, recent>>
  \/ Consider(c) \/ Lock(c) \/ Take(c) \/ Readd(c) \/ Tidy(c) \/ Create(c)
  \/ Remove(c) \/ DropMeta(c)

Command(c) ==
  \/ Enqueue(c) \/ StoreMeta(c)
  \/ ReadMeta(c) \/ ReadCandidates(c) \/ Consider(c) \/ Lock(c) \/ Take(c) \/ Readd(c) \/ Tidy(c)
  \/ Create(c)
  \/ Remove(c) \/ DropMeta(c)

-----------------------------------------------------------------------------
(* Time and failure.                                                        *)

\* A lock outlives the call that holds it, and every call that looked for the
\* mark of the pair before it was taken: three round trips against 3 seconds.
LockExpires ==
  \E pair \in locks :
    /\ \A c \in Callers : call[c].pc \in {"lock", "take", "tidy"} => Tried(c) # pair
    /\ locks' = locks \ {pair}
    /\ UNCHANGED <<queue, meta, recent>>

RecentExpires ==
  \E pair \in recent :
    /\ recent' = recent \ {pair}
    /\ UNCHANGED <<queue, meta, locks>>

\* Ten minutes are longer than a join.
MetaExpires ==
  \E u \in meta :
    /\ \A c \in Callers : call[c].pc = "hgetall" => call[c].user # u
    /\ meta' = meta \ {u}
    /\ UNCHANGED <<queue, locks, recent>>

\* A command or a call to MongoDB rejects: the handler ends there.
Fail(c) ==
  /\ call[c].pc # "idle" /\ faults < MaxFaults
  /\ faults' = faults + 1
  /\ Done(c)
  /\ UNCHANGED <<redis, want, met, missed, joins, leaves>>

-----------------------------------------------------------------------------
Remember ==
  /\ met' = met \cup recent'
  /\ missed' = (missed \/ \E c \in Callers : call'[c].pc = "readd")

Next ==
  \/ \E c \in Callers, u \in Users : Join(c, u) \/ Leave(c, u)
  \/ \E c \in Callers : Command(c) /\ Remember /\ UNCHANGED <<want, counts>>
  \/ \E c \in Callers : Boot(c) \/ Fail(c)
  \/ (LockExpires \/ RecentExpires \/ MetaExpires) /\ UNCHANGED <<call, want, met, missed, counts>>

Spec == Init /\ [][Next]_vars

-----------------------------------------------------------------------------
(* Properties.                                                              *)

\* Two users who met lately are not paired again while the mark lasts: a
\* handler that read "no mark" before the other one set it is kept out by the
\* pair lock (tryMatch reads the mark before it takes the lock).
NoRematchWhileRecent ==
  [][\A c \in Callers :
       call[c].pc = "take" /\ call'[c].pc = "tidy" => Tried(c) \notin recent]_vars

\* No two handlers create a match for the same pair at the same time, whoever
\* of the two asked.
PairMadeOnce ==
  \A c, d \in Callers :
    c # d /\ Tried(c) = Tried(d) /\ call[c].pc \in {"take", "tidy"}
      => call[d].pc \notin {"take", "tidy"}

Quiet == \A c \in Callers : call[c].pc = "idle"

\* The test of tryMatch: two queued players in range are matched. When no
\* handler is running, no two users wait who could play each other and never
\* did.
QueuedPlayersMeet ==
  Quiet => \A u, v \in Users :
    u # v /\ want[u] = "waiting" /\ want[v] = "waiting" /\ Near(u, v) => Pair(u, v) \in met

\* That holds until somebody leaves, a call fails, or a tryMatch finds one of
\* its pair gone: each user is in the queue before he looks for another, so of
\* two one sees the other, and whatever keeps him from the other is a pairing of
\* one of them. A tryMatch that is too late (zrem answers less than 2) takes a
\* user out for a moment, in which another may look in vain.
PlayersMeetUnlessMissed ==
  leaves = 0 /\ faults = 0 /\ ~missed => QueuedPlayersMeet
=============================================================================
