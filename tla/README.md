# Formal models of Arithmetic Arena

TLA+ specifications of Arithmetic Arena, a two-player arithmetic game: a NestJS
process that keeps running matches in memory, with Redis for the ranked queue,
the invites and a copy of each running match, MongoDB for matches, moves and
ratings, and a web client that plays over Socket.IO. TLC checks the
specifications on small instances; TLAPS proves all their safety properties but
the ones a small instance refutes, and two refinements, for all instances.

`PROJECT.json` maps every definition to the lines it models, lists the runs,
the mutated definitions each property is tested with, the hazards of the code
and the theorems. Paths below are relative to `src/`.

## 1. Inventory

| part | state it keeps | operations | what makes it correct |
| --- | --- | --- | --- |
| game rules (`packages/shared/src/game/`) | none | ranges and costs of operations, `applyOperation`, `recomputeElixir`, `spendElixir`, `resolveClosestWinner` | elixir is not created by the way payments are timed; the winner on time is the strictly closer player |
| match runtime (`api/src/matches/match-runtime.service.ts`) | `activeMatches`, `finalizing`, the match-state objects | submit an operation, surrender, mark (dis)connected, load from Redis, sweep every second, finalize | one result per match, for a valid reason, stored once; nobody plays on a finished match; a number is accepted once |
| matches service (`api/src/matches/matches.service.ts`) | match, move and snapshot documents | `createMatch`, `recordMove`, `finalizeMatch` (a transaction with the ratings) | the result and the ratings move together, once |
| realtime gateway (`api/src/matches/realtime.gateway.ts`) | `socketsByUser`, Socket.IO rooms | one handler per client message, connection and disconnection | every end is announced, with the result that is stored |
| matchmaking (`api/src/matchmaking/matchmaking.service.ts`) | in Redis: waiting users, a hash per user, pair locks, recent-pair marks | join, leave, `tryMatch` | a pair is made once, not again within 120 s; waiting users in range meet |
| friend invites (`api/src/friend-matches/friend-matches.service.ts`) | one Redis key per code | create, consume | a code that is out belongs to one host; an invite that was used is gone; both players get into the match |
| ratings (`api/src/ratings/ratings.service.ts`) | a rating document per user | create on demand, apply a result | no lost update, although ratings are read outside the session that writes them; one update per match |
| rate limiter (`api/src/common/rate-limit/`) | a Redis counter per key | `INCR`, then `EXPIRE` | a counter expires |
| generator (`packages/shared/src/game/generator.ts`) | none | a start, a target, the hidden operations between them | the target is reachable by the rules, is not the start, and can be paid for in time |
| auth, users, leaderboard, audit, seasons, admin, health | documents | single reads and writes | |
| web client (`apps/web/src/`) | the socket, the match store, a panel with a memo of the elixir | joins queue and match, previews and sends operations, follows events | a page that waits hears what it waits for; an operation that is taken was decided on the present state |

How they interact. A gateway handler calls the services with `await`; nothing
serialises two handlers, whether of one user or of one match. The queue is
shared through Redis only. A new match goes from `tryMatch` through
`createMatch` (MongoDB) and `bootstrapMatch` (memory, Redis). From then on the
object in `activeMatches` decides, Redis is written behind it, and MongoDB gets
the log of moves and, once, the result. The process and a timer both finish
matches. A new process starts with an empty memory and reads a match from
Redis when a client asks for it.

What is hard here: handlers that interleave at every await that does I/O,
decisions kept over such an await, objects replaced behind a handler that
holds the old one, a transaction whose answer is lost, a crash between MongoDB
and Redis, a timer that knows only what is in memory, sockets that break and come
back in no room, listeners that serve once, and a transaction that runs its
callback again. `PROJECT.json` lists these under `hazards`, each at its line,
with the properties that watch it, and a note where they leave part of it out.

## 2. Modules

```
GameRules ─┬─ Elixir ─── OperationPanel            ElixirMeter       what a player is promised
           ├─ Generator                            MatchLifecycle    what a match record is promised
           └─ MatchRuntime                         RatingLedger      what ranked players are promised
Matchmaking    RatingTransaction    Connections    FriendInvites
```

Elixir refines ElixirMeter, MatchRuntime refines MatchLifecycle, and
RatingTransaction refines RatingLedger.
OperationPanel composes Elixir with the browser. A module `MC…` gives the
constants of its module small values, and a module `…Proofs` holds its theorems.

**GameRules** — the pure rules as operators. A function of the code that
throws is two operators: a predicate that holds when it returns, and the value
it then returns. Decimal strings are numbers; `MAX_RESULT_DIGITS` is the bound
`MaxResult`. The parsing of strings is left out: `socketOperationSchema` has
refused anything else before the rules see it.

**Elixir** — the two stored fields of a player, `storedElixir` and
`lastElixirUpdateAt`, and the clock. The code writes them only when an
operation is paid for. **ElixirMeter** says what this is a lazy version of: a
meter that starts to tick with the first payment and rises by one per interval
until it is full, and whose ticks are never restarted. `ImplementsMeter` is the
refinement, with `level` and `phase` computed from the stored fields.

**OperationPanel** — the match pages of one player on top of that: a copy of
his entry from the last `match:state`, the panel's memo of the elixir by the
browser's own clock (`Changed` is its dependency list), the operations under way
with the number `lastAcceptedSeq + 1` of the copy they were decided on, and the
server taking (`Accept`) or refusing (`Drop`) them in any order.

**Generator** — `generateReachableMatchNumbers` as a machine: one step per turn
of its loop, with the early exits (`StopBefore`, `Skip`) as actions of their
own. `replay` is history: what a player who plays the recorded operations has
computed and paid.

**MatchRuntime** — one match in one process. `heap` holds the match-state
objects by address, because which object a handler works on matters: `live` is
the address `activeMatches` holds, and `getMatchState` may replace it by a
freshly parsed copy while another handler keeps the old one. `finalizing` is
the set of that name, `redis` the stored snapshot, `doc`, `rated` and `moves`
the MongoDB side. `call[c]` is a handler in flight: the await it is at and the
locals it kept. A step runs from one await that does I/O to the next:

| action | code |
| --- | --- |
| `Receive`, `StartLoad`, `Load` | a handler up to and after `getMatchState` |
| `OperationOutOfPlay` … `OperationAccepted` | `submitOperation` up to its first I/O |
| `Record`, `Reject` | after the two `recordMove` calls; `Record` includes the call of `finalizeExact` and of `persistState` |
| `HandleSurrender`, `HandleJoin`, `Leave`, `Sweep` | `surrender`, `markConnected`, `markDisconnectedForUser`, `handleTimeoutSweep` |
| `StartFinalize`, `Find`, `Commit`, `Save` | `finalizeState` and `finalizeMatch` |
| `Persist` | after `persistState`, with the answer of the gateway |
| `MoveFails`, `FinalizeFails`, `RedisFails` | the catch and finally blocks |
| `Crash` | the process dies and another one starts |

Redis commands of a process use one connection and are answered in order
(`wire`); MongoDB calls finish in any order. `acked`, `reached`, `gaveUp` and
`told` record what clients were told and did; the code does not have them.

**MatchLifecycle** — what the match record promises: it gets its result once,
for a reason that holds (a player hit the target; the loser gave up; time was
over and the numbers in the record say who was closer), and the ratings move in
the same step and never again. `ImplementsLifecycle` shows that MatchRuntime
implements it, over races, crashes and failures.

**RatingTransaction** — that one step, `Commit` of MatchRuntime, in detail: the
callback that `finalizeMatch` hands to `withTransaction`, for several matches at
once. `Read` is a `getOrCreateRating` outside the session, `SaveRating`,
`SaveMatch` and `Audit` the writes, `Rerun` and `LateAbort` the two ways back to
the start of the callback, `Fail` the end of the process. `match` is the
Mongoose object, which knows which of its paths are `modified`; `missed` is whose
rating somebody else has committed since the transaction's snapshot.

**RatingLedger** — what ranked players are promised: matches are rated one after
the other, each in one step that gives it its record and both players the
ratings that follow from those they have at that moment (`Rated`, any function,
is the arithmetic of the code here). `ImplementsLedger` shows that the
transactions amount to that. After a late abort it asks it of the ratings only,
as the record may then be missing (`result_left_out`).

**Matchmaking** — the queue at the granularity of one Redis command, with the
handlers of `matchmaking:join` and `matchmaking:leave`. `want`, `met` and
`missed` (a `tryMatch` found one of its pair gone) are history.

**FriendInvites** — invites at the same granularity: `createInvite` drawing
codes with `SET NX` (`Draw`), `consumeInvite` as `Get` and `Del`, then
`createMatch`, `bootstrapMatch` and the messages to both players (`Create`,
`Boot`, `Tell`), over the socket or over REST. A code may expire between any two
steps. The friendly page's `once` listeners are the state of `page`. Three
handlers emit the `match:event` it waits for: `Hear` (the code), `Come` (a match
to resume) and `QueueLeft` (the answer to the `matchmaking:leave` with which a
user has come from the queue page; `Leavers` are those who have).

**Connections** — one player's way from the queue page to the end of his match:
the client sockets `getSocket` makes, which reconnect by themselves, the sessions
they have with the server, `socketsByUser`, the match room, and the flag
`connected` of the runtime. `joining` and `entering` are handlers that wait.
`JoinFails` is a `match:join` whose persist fails when the flag is set already
(`match-runtime.service.ts:135`): the handler ends before `client.join`. `failed`
is the history of it.

### Abstractions

MatchRuntime: `version` is left out (nothing reads it to decide anything), and
so are the distances kept with the result, which follow from the values. The
match has been created and bootstrapped. The snapshot's 24 hours in Redis do
not pass. Token, schema and rate-limit checks come before a request; a request
that fails them changes nothing here. A command and its answer are one step;
under `Crash`, the snapshot of any command still on the connection may have
been the last to be executed. When Redis answers several commands in one chunk,
the callers go on one after another. The transaction is one step: it commits,
aborts, or commits with its answer lost. The clock stops at `expiresAt`, after
which its value decides nothing. Nothing catches an error in the sweep or in
`handleDisconnect`: an unhandled rejection ends the Node process, so such a
failure is a crash and counts against `MaxCrashes` (runs without crashes have
none; `restart_faults` has). There is one process at a time.

Matchmaking: candidates are tried in any order (the code takes them by rating).
`tryMatch` runs right after the join has set `joinedAt`, so the range is its least,
100. A pair lock (3 s) outlives the call that holds it, and every call that looked
for the mark of the pair before the lock was taken and has not asked for the lock
yet: a few round trips of Redis. It expires at any moment after that
(`LockExpires`). A user's hash (10 min) outlives a join. Ratings do not change while
users wait. The queue metadata in MongoDB is left out, as nothing reads it. A call
that fails has had no effect.

OperationPanel: an operation is its cost, and the player's number is left out:
it changes exactly when `lastAcceptedSeq` does. States arrive in order,
operations in any. The browser's clock is ahead or behind by a constant.

Generator: operands are a sample (`Operands`) of the code's ranges; numbers of d
digits are intervals; the weights of the draw decide only how often.

RatingTransaction: the players' ratings exist (the queue has created them);
wins, losses and draws go the way of `games`; `Expected` is any function. MongoDB
gives a snapshot that is fixed by the first statement of the transaction, and an
error to whoever writes what was written since or is being written. Snapshots of
the players cannot conflict, as they belong to one match.

Connections: one match, with the other player and the clock as environment; the
limiter may refuse any join. The result page is the end. Socket.IO's ten
reconnection attempts suffice. The match is in memory when it is joined (loading it
is in MatchRuntime): while it is loaded from Redis after a restart, a session may
end before its flag is set, and the flag is then left behind, which
`ConnectedIsListening` does not see. There is no exception filter, and no page
listens to `exception`, so a failing `match:join` tells the page nothing. A handler
that does not fail goes on to its end.

FriendInvites: a user has one socket at a time, and a code is created over the
socket (over REST its life in Redis is the same). Matches do not end, and there
are none but those made of invites: a host who is matched in the ranked queue
would be offered that match just so. A user who comes back is offered a match
that runs, as `handleConnection` does. The process does not restart. A match is
in memory once it is stored, as `bootstrapMatch` puts it there before its first
await.

## 3. Runs

| run | instance | what it shows |
| --- | --- | --- |
| `elixir` | cap 3, interval 3, duration 10, costs of `MCCosts`; one page, a clock right or off by one tick, two messages under way each way | the lazy fields are a meter; payments never exceed what it produced; an operation is taken only if its page showed the present state; an up-to-date page does not promise too much |
| `match` | 2 requests and the timer; operation +1 from 0, target 2; numbers 1, 2; elixir for two operations; a start at 1 and an end at 2; a player who comes and goes; one failing call | one finalizer; the result is announced as it is stored, ratings move with it, Redis ends with it, finished objects stay, numbers are accepted once, acknowledged operations are logged, the record follows its lifecycle |
| `restart` | 2 requests, one crash, one number | the same record over a crash: one finalizer, one rating update, one reason |
| `restart_faults` | one crash and one failing call, joins and surrenders | the lock is released on every failing path; a commit with a lost answer is not repeated |
| `live` | fairness, 2 requests, operations and surrenders, elixir for one operation, nothing fails | the state keeps its shape; every match gets a result; one that was won or given up is announced |
| `queue` | 3 users of equal rating, 2 handlers, 4 joins, 1 leave, 1 failure | a pair is made by one handler at a time and not again while the mark lasts; users who wait have met whom they could meet, unless somebody left, a call failed, or a `tryMatch` came too late |
| `generator` | two starts, operands 2, 3, 10 and divisors, two attempts, every draw | what is returned can be played by the rules, leads to the target, starts elsewhere, and can be paid for before an operation is late |
| `ratings` | three matches in a ring, each sharing a player with each other one, one late abort, one process that ends | every result counts once; result and ratings go together; the changes that are reported are those that were made; the ratings are those of a ledger that rates one match after the other |
| `result_left_out` | two matches with a common player, one late abort | *fails*: see below |
| `connections` | two client sockets, two broken connections, one failing `match:join`, two messages under way when a page is opened | who is shown as connected is reached, or has tried to be; a page on an unbroken connection hears of match and end |
| `reconnect_deaf` | the same, no failing join | *fails*: see below |
| `invites` | two users, one of them from the ranked queue, one code, two invites, two joins, one trouble (a failing call or a broken connection) | a used invite is gone; a code goes by time or by the `DEL` of a guest; guest and host meet; a code that was created is shown |

Why the bounds are enough. In the match runs, two requests and the timer are three
parties, one more than `finalizing` has to keep apart. Every branch of
`submitOperation` is reached in one of the runs: too early, late, stale (numbers 1
and 2 with two requests), accepted with and without a hit in `match`, where the
elixir lasts for both operations, and refused by the rules in `live`, where it lasts
for one. One failing call can hit each await, and one crash each state. In `restart`
two requests suffice for two copies of the object, and one number for an operation
on either. In `queue` four joins of three users let a pair be made, both of its
users come back, and a third be in the way (a fourth user is needed only for the
disagreement below). In `elixir` ten ticks are three intervals and one tick, enough
to fill the meter, empty it and fill it again, and two operations of one page are
two clicks that race. In `generator` a start of 100 and one of 997 lead below the
limit and above it, two attempts let the first be thrown away; `GameDuration` is
tuned so that the dearest sequence costs just what can be spent before the last
instant, at which an operation is late. In `ratings` the ring lets every pair
conflict and the third wait for both; it looks the same from each match, so
`Rotations` is a sound symmetry. In `connections` two sockets and two cuts make four
sessions: a second socket made while the first reconnects, and either cut again. Two
joins can fail only where the page is opened twice, which the match page is not. In
`invites` one code makes every draw a collision, so that a code can be another
host's by the time of a `DEL`.

`CHECK_DEADLOCK FALSE` is set where the system may stop: for `elixir`, where
time ends, for `queue`, `connections` and `invites` (with `reconnect_deaf`),
where users do nothing more, for `generator`, which returns, and for `ratings`
and `result_left_out`, whose matches are finished. A running match can always be
asked something more, so for MatchRuntime deadlock is checked.

Fairness. `live`: the clock goes on; `setInterval` fires every second
(`match-runtime.service.ts:60`), so a sweep that stays possible happens; Redis
and MongoDB answer, so a call in flight goes on. Nothing makes a client send
anything, and no request is fair. `connections`: a socket that can connect does,
both sides notice a broken connection, messages are delivered and handled, a
handler goes on, and an announcement that is due is made; nobody has to click,
and no match has to end. `invites`: a handler that was called goes on to its end
and the page hears the answer; nobody has to ask, join or come back, and no code
has to expire. All of it is weak fairness: each of these steps stays enabled
until it is taken.

### Disagreements found

Two runs are expected to fail. Each states what the repository says of itself.

* `result_left_out` — `withTransaction` runs its callback again when the commit
  is aborted late, with the Mongoose document that was loaded outside it. After
  its first save that document has no modified paths, so the second run commits
  the ratings and not the result; the match stays active and can be rated again
  (`matches.service.ts:169`; README.md:43, "persisted transactionally").
* `reconnect_deaf` — the match page emits `match:join` once. After a reconnect
  its socket is in no room, and the page never hears of the end
  (`match-page.tsx:79`; README.md:58, "Reconnect-ready").

The modules reproduce more of them. Their properties are stated beside the
others; added to the configuration named here, as `PROPERTY` (`INVARIANT` for
`AcknowledgedMoveIsStored` and `QueuedPlayersMeet`), each is violated.

| property | add to | what TLC shows |
| --- | --- | --- |
| `MatchResolved` | `RuntimeLive.cfg` with `MaxCrashes = 1`, `Operations <- NoOperations` | after a restart the sweep does not know a match until a client asks for it; one whose players stay away never gets a result (README.md:55) |
| `FinishedIsPersisted` | `RuntimeLive.cfg` with `MaxFaults = 1`, `Operations <- NoOperations` | `finalizeState` marks the object finished before `finalizeMatch`; when that fails once, every later call returns at once and MongoDB never gets the result (README.md:43) |
| `EndIsAnnounced` | `RuntimeLive.cfg` | a match that ends on time is announced to nobody: the sweep has no server to emit with, a late operation answers an error (README.md:89) |
| `AcknowledgedMoveIsStored` | `RuntimeMatch.cfg` with `Start = 1`, `StartedAt = 0`, `ExpiresAt = 1`, `RegenInterval = 2`, `Operations <- Plus1Half` | `recordMove` only inserts; a refused operation takes the entry of its number, and the accepted retry with that number is not stored (README.md:41) |
| `AcceptedOnce` | `RuntimeRestart.cfg` with `Target = 9` | two requests that miss the memory load two copies; the second replaces the first with an acknowledged operation on it, whose number is accepted again (README.md:31) |
| `QueuedPlayersMeet` | `Queue.cfg` with `Users <- FourUsers`, no leave, no failure | `tryMatch` takes both users out of the queue before it knows that both were there; a user who looks in between finds nobody, and nobody looks again (`matchmaking.service.spec.ts:67`). It happens to users who join for the first time; `PlayersMeetUnlessMissed` says that it takes such a late `tryMatch` |
| `CodeLastsOrIsUsed` | `Invites.cfg` | a code that expired between a guest's GET and DEL and was drawn again goes with that DEL, unused and long before its 600 s (`friend-matches.service.ts:44`; `realtime.gateway.ts:239`, "expiresInSec: 600"); it may be the guest's own. `CodeGoesToAReader` says that nothing else ends a code early |
| `RefusalIsTrue` | `OperationPanel.cfg` | the panel's memo does not depend on the time: a page on which nothing changes says "Not enough elixir" long after the meter has risen (`operation-panel.tsx:25`, `:37`) |

## 4. Proofs

All theorems hold for every value of the constants under the assumptions named
in the modules (`RulesAssumption`, `ElixirAssumption`, `PanelAssumption`,
`MatchAssumption`, `GeneratorAssumption`, `TransactionAssumption`,
`MatchmakingAssumption`, `ConnectionsAssumption`, `FriendInvitesAssumption`);
TLC evaluates these in every run. They give the constants their types and say what
the code takes for granted, such as that a cost is at least 1, that a match has
two players and starts before it ends (`bootstrapMatch` adds 120 s), and that
there is a user. Each proof has the same outline: an inductive invariant, one lemma
per action that says the action keeps it, and the theorem by temporal logic.

* **GameRulesProofs.** Lemmas on `RecomputeElixir`, `SpendElixir` and
  `GetOperationCost` that the component proofs cite.
* **ElixirProofs.** `IInv` is the type, `Conservation`, and that nothing has
  been paid while the stored amount is full. The last is what makes it
  inductive: a full meter is stamped with the present, and only an unpaid
  meter is full, because every cost is at least 1. `ConservationHolds`,
  `BudgetHolds` (from `IInv` by division) and `ElixirTypeOK` follow. So does the
  refinement `MeterImplemented`: a tick of the clock is a `Rise` of the meter
  because the phase is the remainder of the time since the stamp (`NextTick`), and
  a payment keeps the remainder because it moves the stamp by whole intervals.
  With the pages in front, `PInv` adds that whatever a page shows, and whatever is
  under way, is *past*: it has a number below the present one, or it is the
  present entry. An operation has the number after the entry it was decided on,
  so an operation that is fresh was decided on the present entry:
  `DecidedOnCurrentHolds`. Every step of the composition is a step of Elixir or
  leaves it alone: `PanelImplementsElixir`, and with it `PanelBudgetHolds`.
  `CInv` adds that a memo is never above what the page would compute at once; it
  is inductive because elixir only rises with the time (`RecomputeGrows`) and a
  memo is kept only when both fields are the same. In a browser whose clock is not
  ahead that is at most what the server has: `CautiousHolds`.
* **GeneratorProofs.** `GInv`: the recorded operations are a run of the rules
  from the start to the current number, each costs at most 5, and there are at
  most 7. That each operand has a cost at all needs the bands of
  `getOperationCost` to cover the ranges of `validateOperationRange`.
  `TargetReachableHolds`, `TargetIsAheadHolds`, and `WinnableInTimeHolds` under
  the assumption that 35 elixir can be spent in a match. `WinnableInTwoMinutes` is
  the theorem for the constants of the code: 10 elixir and one per interval, 59
  of which come before the end (the sixtieth comes with it, when an operation
  is late).
* **MatchRuntimeProofs.** Five layers, each resting on those before.
  - `TInv` is the type, plus: every call in flight past its load holds the address
    of an object (`CallOK`), and a process that has objects has a current one.
    `TypeCorrect`.
  - `SInv` is `OneFinalizer`, `RatedWithResult` and `CommitIsFresh`: a call about
    to commit has found a document that is still active. It is inductive because
    the only step that finishes the document is a commit, a call gets to its
    commit only inside `finalizeState`, and `finalizing` lets one call in at a
    time; a crash empties all calls at once. `FinalizersExclude`, `RatedOnce`.
  - `EInv` says of each call in flight what it has earned (`Backed`): an
    operation that claims to have hit the target did; a finalizer works on an
    object that is finished as it says, for a reason that holds (`Evidence`); an
    operation about to be confirmed has an entry in the log. All of it is
    preserved by a handler's turn because objects are never lost, a finished one
    changes in nothing but the connections (`Becomes`), and hits, surrenders, log
    and clock only grow (`Grows`). `LoggedBeforeAcknowledged`, `FinishedIsFrozen`,
    and the refinement `LifecycleImplemented`: a commit is a `Resolve` with the
    evidence the call holds, every other step a claim, a tick or a stutter.
  - `OInv` holds until the first crash: there is one object (`Single`); while it
    is active nothing was told or stored, and what is told or stored afterwards
    is what it says (`Verdict`); every number acknowledged or in flight is at or
    below the last accepted one. `AnnouncedHolds`, `AcceptedOnceUntilCrash`, and
    `AcceptedOnceHolds` for `MaxCrashes = 0`. They are stated until the first
    crash because they are false afterwards, as `AnnouncedIsStored` and
    `CacheIsFinal` added to `RuntimeRestart.cfg` show: what the process had told
    dies with it when MongoDB does not have it, Redis may keep an older state,
    and two copies of the object may disagree (section 3, `AcceptedOnce`).
  - `WInv` holds until anything fails: every command on the connection is one of a
    call that stores, no call has two, behind the save of the finalizer all
    states are final, and once it is through, so is what Redis holds. A handler
    that stores later stores an object that was finished before the save was
    issued. `CacheHolds`. After a failing save Redis may well keep the older state.
* **RatingTransactionProofs.** `RInv`: what a transaction has read and has not
  missed is still what is committed (`Fresh`); it writes only such ratings, and
  no two transactions hold the same one (`Locks`); without a late abort the
  object that is saved knows that its status changed (`Once`). So a commit
  replaces exactly what was read, `games` rises by one for each player, and the
  set of committed matches grows by one: `EveryResultCountsHolds`,
  `ResultNeedsRatingsHolds`, `ChangesAreTrueHolds`, for any finite set of
  matches, any players and any function of expected scores. `Reported` adds that
  without a late abort the changes, too, reach the document only with the commit:
  the object has none when they are set, so the save writes them. With it a
  commit is a step of RatingLedger and every other step leaves ratings and
  documents alone: `LedgerImplemented`, and `LedgerRefined`, the whole of
  `Ledger!Spec` where `MaxLateAborts` is 0.
* **MatchmakingProofs.** `QInv`: whoever is past the lock of a pair finds it in
  `locks` (`LockHeld`), and a pair whose mark was set since a handler looked for it
  is still locked when that handler asks for the lock (`NoMarkUnderLock`). The
  second is what lets `tryMatch` read the mark before it has the lock:
  `PairMadeOnceHolds`, `NoRematchHolds`, `MatchmakingTypeOK`. `MInv` adds, for as
  long as nobody left, nothing failed and no `tryMatch` came too late: who waits is
  in the queue, is about to be put there, or is being paired (`WaitingInQueue`),
  the hash of a joining user is there (`HashIsThere`), and of two users in range
  who both wait and have not met, some call is still at work that will see to it
  (`MetOrServed`). When no call is at work, they have met: `PlayersMeetHolds`.
* **ConnectionsProofs.** `CInv`: a message is under way only on a session the
  server still knows, rooms and handlers have only such sessions, and before the
  match nothing but queueing is under way. A session that ends clears the flag or
  leaves another one that hears: `ConnectedIsListeningHolds`, for any number of
  sockets, cuts and failing joins. A session whose join has failed stays in the
  player's entry, so its end clears the flag like any other.
* **FriendInvitesProofs.** `FIInv`: an invite is under one code at most, a join
  has read an invite that is out under no other code than the one he sent, and
  from his `DEL` on it is under none. The last makes `UsedInviteIsGone`
  inductive: two joins may hold the same invite, but neither can bring it back.
  `FriendInvitesTypeOK`, `UsedInviteIsGoneHolds`, `CodeGoesToAReaderHolds`. `Shown`
  adds `CodeIsShown` and what makes it inductive: while an answer can still reach
  the socket that asked, the page listens, or one of the excuses holds
  (`Listening`). An excuse lasts until the connection breaks, and then the
  answers of before are lost with it: `CodeIsShownHolds`.

Every safety and action property of a run that passes is proved. Model-checked
only: liveness under fairness (`MatchResolved`, `WonIsAnnounced`,
`UnbrokenPageHears`, `GuestMeetsHost`), which this prover cannot
state a proof of. The layers that hold conditionally were checked by TLC as
invariants of the `match` and `restart` instances before they were proved.

## 5. Not modelled, and the plan

* The socket rate limiter: `Connections.Refuse` lets it refuse any join; the
  counter, which a crash between `INCR` and `EXPIRE` leaves without expiry, would
  be a module of its own.
* Two processes in MatchRuntime, sharing the stores during a deployment.
* `createMatch` and `bootstrapMatch` with a failure between them composed with
  Matchmaking: what a user who is taken from the queue is owed. FriendInvites has
  these steps for an invite.
* Authentication (a pure check of signatures and tokens), users, leaderboard,
  audit, seasons, admin, health and seed (single reads and writes that nothing
  else depends on), rendering in the web client.

Proofs planned: what AcceptedOnce and AnnouncedIsStored leave after a crash (how
far two copies of an object can differ).
