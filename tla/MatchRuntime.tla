---------------------------- MODULE MatchRuntime ----------------------------
(***************************************************************************)
(* One match in one API process: MatchRuntimeService with the parts of     *)
(* MatchesService and RealtimeGateway that its handlers run through.       *)
(*                                                                         *)
(* The state of a running match is an object in the memory of the process. *)
(* `activeMatches` names the current one; Redis holds a serialised copy;   *)
(* MongoDB holds the match document, its final result, the ratings and the *)
(* log of moves. A handler runs without interruption from one await that   *)
(* does I/O to the next, so a step of this module is such a stretch of     *)
(* code, and a call in flight is a record in `call` that says what it      *)
(* waits for and what it kept in local variables.                          *)
(*                                                                         *)
(* Redis commands of a process share one connection: they are executed and *)
(* answered in the order they were issued (`wire`). MongoDB commands use a *)
(* pool of connections and finish in any order.                            *)
(***************************************************************************)
EXTENDS GameRules, Sequences

CONSTANTS
  Players,      \* the two players of the match
  Nobody,       \* null as a winner
  Requests,     \* slots for the client requests in flight at one time
  Sweeper,      \* the slot of the sweep timer
  Start,        \* startNumber
  Target,       \* targetNumber
  Operations,   \* the operations clients send
  MaxSeq,       \* clients send sequence numbers 1..MaxSeq
  StartedAt,    \* startedAt and expiresAt on the model's clock,
  ExpiresAt,    \* which stops at expiresAt (only now >= expiresAt matters then)
  Watchers,     \* the players who open and close connections in this model
  Ranked,       \* match.type = 'ranked'
  MaxCrashes,   \* bound on process crashes
  MaxFaults     \* bound on failing Redis and MongoDB calls

ASSUME MatchAssumption ==
  /\ \E p, q \in Players : p # q /\ Players = {p, q}
  /\ Nobody \notin Players
  /\ Sweeper \notin Requests
  /\ Start \in Nat /\ Target \in Nat
  /\ Operations \subseteq [type : OperationType, operand : Nat]
  /\ MaxSeq \in Nat
  /\ StartedAt \in Nat /\ ExpiresAt \in Nat /\ StartedAt < ExpiresAt
  /\ Watchers \subseteq Players
  /\ Ranked \in BOOLEAN
  /\ MaxCrashes \in Nat /\ MaxFaults \in Nat

Callers == Requests \cup {Sweeper}

VARIABLES
  heap,        \* the match-state objects of this process, by address
  live,        \* the address activeMatches holds for the match, 0 for none
  finalizing,  \* the match is in the `finalizing` set
  call,        \* what each caller is doing
  wire,        \* callers whose Redis command is on the connection, in order
  redis,       \* the snapshot stored in Redis
  doc,         \* the match document in MongoDB
  rated,       \* how many times the rating update of this match was committed
  moves,       \* the move log: what is stored for each player and number
  now,         \* Date.now()
  crashes, faults,  \* how many of each so far
  acked,       \* history: the numbers of operations accepted and answered with the new state
  reached,     \* history: players with an accepted operation that hit the target
  gaveUp,      \* history: players whose surrender was taken
  told         \* history: the match:finished events sent

process == <<heap, live, finalizing, call, wire>>
store == <<redis, doc, rated, moves>>
world == <<now, crashes, faults>>
seen == <<acked, reached, gaveUp, told>>
vars == <<process, store, world, seen>>

-----------------------------------------------------------------------------
(* The objects.                                                             *)

Results == {"exact", "closest", "draw", "surrender"}

PlayerState == [value : Nat, elixir : 0..ElixirCap, anchor : Nat, seq : 0..MaxSeq,
                surrendered : BOOLEAN, connected : BOOLEAN]

\* A match state: RuntimeMatchState without what never changes and without
\* `version`, a counter that nothing in the repository reads to decide anything.
MatchState == [status : {"active", "finished"},
               winner : Players \cup {Nobody},
               result : Results \cup {"none"},
               players : [Players -> PlayerState]]

\* The state bootstrapMatch builds and stores in memory and in Redis.
NewMatchState ==
  [status |-> "active", winner |-> Nobody, result |-> "none",
   players |-> [p \in Players |->
     [value |-> Start, elixir |-> ElixirCap, anchor |-> StartedAt, seq |-> 0,
      surrendered |-> FALSE, connected |-> FALSE]]]

\* The match document of createMatch, and the snapshots finalizeMatch adds.
MatchDoc == [status : {"active", "finished"},
             winner : Players \cup {Nobody},
             result : Results \cup {"none"},
             value : [Players -> Nat]]

NewMatchDoc ==
  [status |-> "active", winner |-> Nobody, result |-> "none",
   value |-> [p \in Players |-> 0]]

\* What a client asks for, or what the timer does. Only an operation carries
\* a number and an operation.
NoOp == [type |-> "add", operand |-> 0]
Ask(kind, p) == [kind |-> kind, player |-> p, seq |-> 0, op |-> NoOp]

OperationMessages ==
  {[kind |-> "operation", player |-> p, seq |-> s, op |-> o] :
     p \in Players, s \in 1..MaxSeq, o \in Operations}
SweepMessage == Ask("sweep", Nobody)
Messages ==
  OperationMessages
    \cup {Ask(kind, p) : kind \in {"surrender", "join", "leave"}, p \in Players}
    \cup {SweepMessage}

(***************************************************************************)
(* A call in flight. `pc` is the await it is suspended at:                 *)
(*   load     redis.get in getMatchState                                   *)
(*   record   recordMove of an accepted operation                          *)
(*   reject   recordMove of a refused one                                  *)
(*   find     findById in finalizeMatch                                    *)
(*   commit   the transaction in finalizeMatch                             *)
(*   save     persistState in finalizeState                                *)
(*   persist  persistState of an operation, a join or a disconnect         *)
(* `at` is the object it works on, `winner` and `result` are the arguments *)
(* of finalizeState, `snap` what it is storing in Redis.                   *)
(***************************************************************************)
Steps == {"idle", "load", "record", "reject", "find", "commit", "save", "persist"}
Call == [pc : Steps, msg : Messages, at : Nat,
         winner : Players \cup {Nobody}, result : Results \cup {"none"},
         snap : MatchState]

Pending(pc, msg, at, winner, result, snap) ==
  [pc |-> pc, msg |-> msg, at |-> at, winner |-> winner, result |-> result, snap |-> snap]
Waiting(pc, msg, at) == Pending(pc, msg, at, Nobody, "none", NewMatchState)
Idle == Waiting("idle", SweepMessage, 0)

\* A finalizeState in progress: from adding to `finalizing` to deleting.
InFinalize(c) == call[c].pc \in {"find", "commit", "save"}

-----------------------------------------------------------------------------
(* match:finished carries the winner and result of the object it is sent for. *)

Payload == [winner : Players \cup {Nobody}, result : Results \cup {"none"}]

Announce(s) == told' = told \cup {[winner |-> s.winner, result |-> s.result]}
AnnounceIfFinished(s) == IF s.status = "finished" THEN Announce(s) ELSE UNCHANGED told

Init ==
  /\ heap = <<NewMatchState>> /\ live = 1
  /\ finalizing = FALSE
  /\ call = [c \in Callers |-> Idle]
  /\ wire = <<>>
  /\ redis = NewMatchState
  /\ doc = NewMatchDoc
  /\ rated = 0
  /\ moves = [p \in Players |-> [s \in 1..MaxSeq |-> "none"]]
  /\ now = 0
  /\ crashes = 0 /\ faults = 0
  /\ acked = [p \in Players |-> {}]
  /\ reached = {} /\ gaveUp = {} /\ told = {}

Tick ==
  /\ now < ExpiresAt
  /\ now' = now + 1
  /\ UNCHANGED <<process, store, crashes, faults, seen>>

-----------------------------------------------------------------------------
(* finalizeState, up to its first await. `h` is the heap as the running      *)
(* handler has left it and `a` the object activeMatches holds, which is the  *)
(* one every caller of finalizeState passes.                                 *)

\* Variants: the lock is not looked at; the status is not looked at.
MayFinalizeUnlocked(s) == s.status = "active"
MayFinalizeAgain(s) == ~finalizing

MayFinalize(s) == s.status = "active" /\ ~finalizing

Finished(s, winner, result) ==
  [status |-> "finished", winner |-> winner, result |-> result, players |-> s.players]

StartFinalize(c, msg, h, a, winner, result) ==
  /\ finalizing' = TRUE
  /\ heap' = [h EXCEPT ![a] = Finished(h[a], winner, result)]
  /\ call' = [call EXCEPT ![c] = Pending("find", msg, a, winner, result, NewMatchState)]

\* The winner on time, and how the result is called.
TimeoutWinner(s) ==
  LET a == CHOOSE p \in Players : TRUE
      b == CHOOSE p \in Players : p # a
  IN  ResolveClosestWinner(Target, a, s.players[a].value, b, s.players[b].value, Nobody)
TimeoutResult(s) == IF TimeoutWinner(s) = Nobody THEN "draw" ELSE "closest"

\* Variant: a draw is not a result.
FinalizeUnlessDraw(c, msg, h, a) ==
  IF MayFinalize(h[a]) /\ TimeoutWinner(h[a]) # Nobody
  THEN StartFinalize(c, msg, h, a, TimeoutWinner(h[a]), TimeoutResult(h[a]))
  ELSE /\ heap' = h
       /\ call' = [call EXCEPT ![c] = Idle]
       /\ UNCHANGED finalizing

\* finalizeByTimeout; nothing happens when finalizeState returns at once.
FinalizeByTimeout(c, msg, h, a) ==
  IF MayFinalize(h[a])
  THEN StartFinalize(c, msg, h, a, TimeoutWinner(h[a]), TimeoutResult(h[a]))
  ELSE /\ heap' = h
       /\ call' = [call EXCEPT ![c] = Idle]
       /\ UNCHANGED finalizing

\* persistState up to its await: the object becomes the current one and its
\* contents at this moment are what goes to Redis.
StartPersist(c, pc, h, a, w) ==
  /\ live' = a
  /\ wire' = Append(w, c)
  /\ call' = [call EXCEPT ![c] =
       Pending(pc, call[c].msg, a, call[c].winner, call[c].result, h[a])]

-----------------------------------------------------------------------------
(* The handlers, from the lookup of the match to the first await after it.   *)
(* `h` and `a` are the heap and the object found, `w` the Redis commands on  *)
(* the connection.                                                           *)

Done(c) == call' = [call EXCEPT ![c] = Idle]

\* The object s with player p in the state ps.
WithPlayer(s, p, ps) == [s EXCEPT !.players = [s.players EXCEPT ![p] = ps]]

\* Variant: lastAcceptedSeq is not updated.
PlayedForgettingSeq(ps, msg) ==
  LET paid == SpendElixir(ps.elixir, ps.anchor, GetOperationCost(msg.op), now)
  IN  [ps EXCEPT !.value = Computed(ps.value, msg.op),
                 !.elixir = paid.stored, !.anchor = paid.last]

\* The player's state after an operation is paid for and applied.
Played(ps, msg) ==
  LET paid == SpendElixir(ps.elixir, ps.anchor, GetOperationCost(msg.op), now)
  IN  [value |-> Computed(ps.value, msg.op), seq |-> msg.seq,
       elixir |-> paid.stored, anchor |-> paid.last,
       surrendered |-> ps.surrendered, connected |-> ps.connected]

\* parseOperation, getOperationCost, spendElixir and applyOperation all return.
Playable(ps, op) ==
  /\ ValidateOperationRange(op)
  /\ CanSpend(ps.elixir, ps.anchor, GetOperationCost(op), now)
  /\ Applicable(ps.value, op)

\* The match is over or has not begun: an error, and no move is recorded.
OperationOutOfPlay(c, msg, h, a, w) ==
  /\ h[a].status # "active" \/ now < StartedAt
  /\ heap' = h /\ live' = a /\ wire' = w
  /\ Done(c)
  /\ UNCHANGED <<finalizing, seen>>

\* The first operation at or after expiresAt ends the match and is refused.
OperationAfterExpiry(c, msg, h, a, w) ==
  /\ h[a].status = "active" /\ now >= StartedAt /\ now >= ExpiresAt
  /\ FinalizeByTimeout(c, msg, h, a)
  /\ live' = a /\ wire' = w
  /\ UNCHANGED seen

\* Variant: a finished match is still in play until its time is over.
InPlayByClock(s) == now >= StartedAt /\ now < ExpiresAt

InPlay(s) == s.status = "active" /\ now >= StartedAt /\ now < ExpiresAt

\* A number that is not above the last accepted one, or an operation the
\* rules refuse: recorded as a rejected move, then an error.
OperationRefused(c, msg, h, a, w) ==
  /\ InPlay(h[a])
  /\ LET ps == h[a].players[msg.player]
     IN  msg.seq <= ps.seq \/ ~Playable(ps, msg.op)
  /\ heap' = h /\ live' = a /\ wire' = w
  /\ call' = [call EXCEPT ![c] = Waiting("reject", msg, a)]
  /\ UNCHANGED <<finalizing, seen>>

\* An accepted operation changes the object at once and is then recorded.
OperationAccepted(c, msg, h, a, w) ==
  LET p == msg.player
      ps == h[a].players[p]
      next == Played(ps, msg)
  IN  /\ InPlay(h[a])
      /\ msg.seq > ps.seq /\ Playable(ps, msg.op)
      /\ heap' = [h EXCEPT ![a] = WithPlayer(h[a], p, next)]
      /\ live' = a /\ wire' = w
      /\ call' = [call EXCEPT ![c] =
           Pending("record", msg, a, Nobody,
                   IF next.value = Target THEN "exact" ELSE "none", NewMatchState)]
      /\ reached' = IF next.value = Target THEN reached \cup {p} ELSE reached
      /\ UNCHANGED <<finalizing, acked, gaveUp, told>>

HandleOperation(c, msg, h, a, w) ==
  \/ OperationOutOfPlay(c, msg, h, a, w)
  \/ OperationAfterExpiry(c, msg, h, a, w)
  \/ OperationRefused(c, msg, h, a, w)
  \/ OperationAccepted(c, msg, h, a, w)

\* The gateway announces the end after every surrender call that returns,
\* also when finalizeState returned at once.
HandleSurrender(c, msg, h, a, w) ==
  LET p == msg.player
      given == [h EXCEPT ![a] =
                 WithPlayer(h[a], p, [h[a].players[p] EXCEPT !.surrendered = TRUE])]
  IN  /\ live' = a /\ wire' = w
      /\ IF h[a].status # "active"
         THEN /\ heap' = h
              /\ Done(c)
              /\ Announce(h[a])
              /\ UNCHANGED <<finalizing, gaveUp>>
         ELSE /\ gaveUp' = gaveUp \cup {p}
              /\ IF MayFinalize(h[a])
                 THEN /\ StartFinalize(c, msg, given, a, CHOOSE q \in Players : q # p, "surrender")
                      /\ UNCHANGED told
                 ELSE /\ heap' = given
                      /\ Done(c)
                      /\ Announce(h[a])
                      /\ UNCHANGED finalizing
      /\ UNCHANGED <<acked, reached>>

\* markConnected(TRUE).
HandleJoin(c, msg, h, a, w) ==
  LET p == msg.player
      joined == WithPlayer(h[a], p, [h[a].players[p] EXCEPT !.connected = TRUE])
  IN  /\ heap' = [h EXCEPT ![a] = joined]
      /\ live' = a
      /\ wire' = Append(w, c)
      /\ call' = [call EXCEPT ![c] = Pending("persist", msg, a, Nobody, "none", joined)]
      /\ UNCHANGED <<finalizing, seen>>

Handle(c, msg, h, a, w) ==
  \/ msg.kind = "operation" /\ HandleOperation(c, msg, h, a, w)
  \/ msg.kind = "surrender" /\ HandleSurrender(c, msg, h, a, w)
  \/ msg.kind = "join"      /\ HandleJoin(c, msg, h, a, w)

-----------------------------------------------------------------------------
(* Steps of a caller.                                                        *)

\* A request arrives and the match is in memory.
Receive(c, msg) ==
  /\ call[c].pc = "idle"
  /\ live # 0
  /\ Handle(c, msg, heap, live, wire)
  /\ UNCHANGED <<store, world>>

\* A request arrives at a process that does not have the match in memory.
StartLoad(c, msg) ==
  /\ call[c].pc = "idle"
  /\ live = 0
  /\ call' = [call EXCEPT ![c] = Waiting("load", msg, 0)]
  /\ wire' = Append(wire, c)
  /\ UNCHANGED <<heap, live, finalizing, store, world, seen>>

\* Redis answers: the parsed snapshot is a new object and becomes the current
\* one, whatever activeMatches holds by now.
Load(c) ==
  /\ call[c].pc = "load"
  /\ wire # <<>> /\ Head(wire) = c
  /\ Handle(c, call[c].msg, Append(heap, redis), Len(heap) + 1, Tail(wire))
  /\ UNCHANGED <<store, world>>

ClientRequest(c) ==
  \/ \E msg \in OperationMessages : Receive(c, msg) \/ StartLoad(c, msg)
  \/ \E p \in Players : Receive(c, Ask("surrender", p)) \/ StartLoad(c, Ask("surrender", p))
  \/ \E p \in Watchers : Receive(c, Ask("join", p)) \/ StartLoad(c, Ask("join", p))

\* handleDisconnect: only a match in memory and still active is touched.
Leave(c, p) ==
  /\ call[c].pc = "idle"
  /\ live # 0
  /\ heap[live].status = "active"
  /\ LET left == WithPlayer(heap[live], p,
                            [heap[live].players[p] EXCEPT !.connected = FALSE])
     IN  /\ heap' = [heap EXCEPT ![live] = left]
         /\ wire' = Append(wire, c)
         /\ call' = [call EXCEPT ![c] =
              Pending("persist", Ask("leave", p), live, Nobody, "none", left)]
  /\ UNCHANGED <<live, finalizing, store, world, seen>>

\* handleTimeoutSweep finds the match active and expired.
Sweep ==
  /\ call[Sweeper].pc = "idle"
  /\ live # 0
  /\ now >= ExpiresAt
  /\ MayFinalize(heap[live])
  /\ FinalizeByTimeout(Sweeper, SweepMessage, heap, live)
  /\ UNCHANGED <<live, wire, store, world, seen>>

-----------------------------------------------------------------------------
(* The answers of MongoDB to recordMove. The upsert only inserts: a stored   *)
(* move of the same player and number stays what it is.                      *)

\* Variant: only refused operations are recorded.
LoggedIfRejected(msg, outcome) ==
  IF moves[msg.player][msg.seq] = "none" /\ outcome = "rejected"
  THEN [moves EXCEPT ![msg.player] = [moves[msg.player] EXCEPT ![msg.seq] = outcome]]
  ELSE moves

Logged(msg, outcome) ==
  IF moves[msg.player][msg.seq] = "none"
  THEN [moves EXCEPT ![msg.player] = [moves[msg.player] EXCEPT ![msg.seq] = outcome]]
  ELSE moves

\* A handler answers its message with the state s; for an operation that is
\* the acknowledgement.
Answer(msg, s) ==
  /\ acked' = IF msg.kind = "operation"
              THEN [acked EXCEPT ![msg.player] = acked[msg.player] \cup {msg.seq}]
              ELSE acked
  /\ AnnounceIfFinished(s)
  /\ UNCHANGED <<reached, gaveUp>>

\* The move of an accepted operation is stored. An operation that hit the
\* target goes on to finalizeExact, which works on the current object and
\* returns at once when the match is already finished or being finished.
Record(c) ==
  LET msg == call[c].msg
  IN  /\ call[c].pc = "record"
      /\ moves' = Logged(msg, "accepted")
      /\ IF call[c].result # "exact"
         THEN /\ StartPersist(c, "persist", heap, call[c].at, wire)
              /\ UNCHANGED <<heap, finalizing, seen>>
         ELSE IF MayFinalize(heap[live])
         THEN /\ StartFinalize(c, msg, heap, live, msg.player, "exact")
              /\ UNCHANGED <<live, wire, seen>>
         ELSE /\ Done(c)
              /\ Answer(msg, heap[live])
              /\ UNCHANGED <<heap, live, finalizing, wire>>
      /\ UNCHANGED <<redis, doc, rated, world>>

Reject(c) ==
  /\ call[c].pc = "reject"
  /\ moves' = Logged(call[c].msg, "rejected")
  /\ Done(c)
  /\ UNCHANGED <<heap, live, finalizing, wire, redis, doc, rated, world, seen>>

(* finalizeMatch and the rest of finalizeState.                              *)

\* Variant: the status of the document is not looked at.
FindUnchecked(c) ==
  /\ call[c].pc = "find"
  /\ call' = [call EXCEPT ![c] = [call[c] EXCEPT !.pc = "commit"]]
  /\ UNCHANGED <<live, wire, heap, finalizing, store, world, seen>>

\* findById answers: a finished document is left alone.
Find(c) ==
  /\ call[c].pc = "find"
  /\ IF doc.status = "finished"
     THEN StartPersist(c, "save", heap, call[c].at, wire)
     ELSE /\ call' = [call EXCEPT ![c] = [call[c] EXCEPT !.pc = "commit"]]
          /\ UNCHANGED <<live, wire>>
  /\ UNCHANGED <<heap, finalizing, store, world, seen>>

\* The transaction: the result, a snapshot of both players, and the ratings
\* of a ranked match.
Commits(c) ==
  /\ doc' = [status |-> "finished", winner |-> call[c].winner, result |-> call[c].result,
             value |-> [p \in Players |-> heap[call[c].at].players[p].value]]
  /\ rated' = IF Ranked THEN rated + 1 ELSE rated

\* Variant: the finished state is not persisted.
CommitUnsaved(c) ==
  /\ call[c].pc = "commit"
  /\ Commits(c)
  /\ Done(c)
  /\ finalizing' = FALSE
  /\ UNCHANGED <<heap, live, wire, redis, moves, world, seen>>

Commit(c) ==
  /\ call[c].pc = "commit"
  /\ Commits(c)
  /\ StartPersist(c, "save", heap, call[c].at, wire)
  /\ UNCHANGED <<heap, finalizing, redis, moves, world, seen>>

\* Variant: the end is announced only to operations.
SaveQuietly(c) ==
  /\ call[c].pc = "save"
  /\ wire # <<>> /\ Head(wire) = c
  /\ wire' = Tail(wire)
  /\ redis' = call[c].snap
  /\ finalizing' = FALSE
  /\ Done(c)
  /\ IF call[c].result = "exact" THEN Answer(call[c].msg, heap[live]) ELSE UNCHANGED seen
  /\ UNCHANGED <<heap, live, doc, rated, moves, world>>

\* Redis has stored the finished state. Operations and surrenders answer with
\* the current object; a timeout answers an error, or nobody.
Save(c) ==
  /\ call[c].pc = "save"
  /\ wire # <<>> /\ Head(wire) = c
  /\ wire' = Tail(wire)
  /\ redis' = call[c].snap
  /\ finalizing' = FALSE
  /\ Done(c)
  /\ CASE call[c].result = "exact"     -> Answer(call[c].msg, heap[live])
       [] call[c].result = "surrender" -> Announce(heap[live]) /\ UNCHANGED <<acked, reached, gaveUp>>
       [] OTHER                        -> UNCHANGED seen
  /\ UNCHANGED <<heap, live, doc, rated, moves, world>>

\* Redis has stored the state of an operation, a join or a disconnect; the
\* answer shows the object as it is by now.
Persist(c) ==
  /\ call[c].pc = "persist"
  /\ wire # <<>> /\ Head(wire) = c
  /\ wire' = Tail(wire)
  /\ redis' = call[c].snap
  /\ Done(c)
  /\ IF call[c].msg.kind = "leave" THEN UNCHANGED seen
     ELSE Answer(call[c].msg, heap[call[c].at])
  /\ UNCHANGED <<heap, live, finalizing, doc, rated, moves, world>>

-----------------------------------------------------------------------------
(* Failures. A Redis or MongoDB call that rejects takes the catch blocks.    *)

\* The process dies: its memory is gone, and of the Redis commands on the
\* connection a prefix may still have been executed. A new process starts.
Restarted ==
  /\ heap' = <<>> /\ live' = 0
  /\ finalizing' = FALSE
  /\ call' = [c \in Callers |-> Idle]
  /\ wire' = <<>>
  /\ redis' \in {redis} \cup {call[c].snap : c \in {d \in Callers : call[d].pc \in {"save", "persist"}}}
  /\ crashes' = crashes + 1

Crash ==
  /\ crashes < MaxCrashes
  /\ Restarted
  /\ UNCHANGED <<doc, rated, moves, now, faults, seen>>

Fault == faults < MaxFaults /\ faults' = faults + 1

\* The error an operation meets after it was accepted: it is recorded as a
\* rejected move although the object keeps the operation.
BackOut(c) == call' = [call EXCEPT ![c] = Waiting("reject", call[c].msg, call[c].at)]

MoveFails(c) ==
  /\ Fault
  /\ \/ call[c].pc = "record" /\ BackOut(c)
     \/ call[c].pc = "reject" /\ Done(c)
  /\ UNCHANGED <<heap, live, finalizing, wire, store, now, crashes, seen>>

\* Variant: the lock is deleted only on success, not in a finally block.
ThrowsLocked(c, w) ==
  IF c = Sweeper
  THEN crashes < MaxCrashes /\ Restarted
  ELSE /\ IF call[c].result = "exact" THEN BackOut(c) ELSE Done(c)
       /\ wire' = w
       /\ UNCHANGED <<heap, live, finalizing, redis, crashes>>

\* finalizeState throws: the object stays finished. finalizeExact runs inside
\* the try block of submitOperation; a surrender and a late operation only
\* report the error; nothing catches the error of the sweep, which ends the
\* process.
FinalizeThrows(c, w) ==
  IF c = Sweeper
  THEN crashes < MaxCrashes /\ Restarted
  ELSE /\ IF call[c].result = "exact" THEN BackOut(c) ELSE Done(c)
       /\ finalizing' = FALSE
       /\ wire' = w
       /\ UNCHANGED <<heap, live, redis, crashes>>

\* Variant: the ratings are saved outside the session, and outlive an abort.
FinalizeFailsRated(c) ==
  /\ call[c].pc \in {"find", "commit"}
  /\ Fault
  /\ FinalizeThrows(c, wire)
  /\ rated' = IF call[c].pc = "commit" THEN rated + 1 ELSE rated
  /\ UNCHANGED <<doc, moves, now, seen>>

\* findById rejects, or the transaction aborts, or it commits and its answer
\* is lost.
FinalizeFails(c) ==
  /\ call[c].pc \in {"find", "commit"}
  /\ Fault
  /\ FinalizeThrows(c, wire)
  /\ \/ UNCHANGED <<doc, rated>>
     \/ call[c].pc = "commit" /\ Commits(c)
  /\ UNCHANGED <<moves, now, seen>>

\* getMatchState or persistState throws. Nothing catches the error in
\* handleDisconnect, either.
StateThrows(c) ==
  IF call[c].msg.kind = "leave"
  THEN crashes < MaxCrashes /\ Restarted
  ELSE /\ IF call[c].pc = "persist" /\ call[c].msg.kind = "operation"
          THEN BackOut(c) ELSE Done(c)
       /\ wire' = Tail(wire)
       /\ UNCHANGED <<heap, live, finalizing, redis, crashes>>

\* A Redis command rejects.
RedisFails(c) ==
  /\ wire # <<>> /\ Head(wire) = c
  /\ Fault
  /\ \/ call[c].pc = "save" /\ FinalizeThrows(c, Tail(wire))
     \/ call[c].pc \in {"load", "persist"} /\ StateThrows(c)
  /\ UNCHANGED <<doc, rated, moves, now, seen>>

-----------------------------------------------------------------------------
\* What a caller does next on its own once it is answered.
Proceed(c) ==
  Load(c) \/ Record(c) \/ Reject(c) \/ Find(c) \/ Commit(c) \/ Save(c) \/ Persist(c)

Fail(c) == MoveFails(c) \/ FinalizeFails(c) \/ RedisFails(c)

Next ==
  \/ Tick
  \/ Sweep
  \/ Crash
  \/ \E c \in Requests : ClientRequest(c) \/ \E p \in Watchers : Leave(c, p)
  \/ \E c \in Callers : Proceed(c) \/ Fail(c)

Spec == Init /\ [][Next]_vars

\* The clock goes on, the timer fires every second, and Redis and MongoDB
\* answer. Nothing makes a client send anything.
Fairness ==
  /\ WF_vars(Tick)
  /\ WF_vars(Sweep)
  /\ \A c \in Callers : WF_vars(Proceed(c))

FairSpec == Spec /\ Fairness

-----------------------------------------------------------------------------
(* Properties.                                                               *)

\* The shape of the state.
TypeOK ==
  /\ heap \in Seq(MatchState)
  /\ live \in 0..Len(heap)
  /\ finalizing \in BOOLEAN
  /\ call \in [Callers -> Call]
  /\ wire \in Seq(Callers)
  /\ redis \in MatchState
  /\ doc \in MatchDoc
  /\ rated \in Nat
  /\ moves \in [Players -> [1..MaxSeq -> {"none", "accepted", "rejected"}]]
  /\ now \in 0..ExpiresAt
  /\ crashes \in 0..MaxCrashes /\ faults \in 0..MaxFaults
  /\ acked \in [Players -> SUBSET (1..MaxSeq)]
  /\ reached \subseteq Players /\ gaveUp \subseteq Players
  /\ told \subseteq Payload

\* At most one caller is between entering and leaving `finalizing`, and the
\* set tells whether there is one (finalizeState's add and its finally block).
OneFinalizer ==
  /\ \A c, d \in Callers : InFinalize(c) /\ InFinalize(d) => c = d
  /\ finalizing <=> \E c \in Callers : InFinalize(c)

\* The ratings of a ranked match move with its result: exactly once, when the
\* document becomes finished, over all crashes, retries and copies of the
\* state (finalizeMatch is asked by a sweep, an operation and a surrender).
RatedWithResult ==
  rated = IF doc.status = "finished" /\ Ranked THEN 1 ELSE 0

\* Once an object is finished nobody plays on it: an operation that passed the
\* status check has also changed the object before anybody can finish it.
FrozenWhenFinished ==
  [][\A a \in 1..Len(heap) :
       heap[a].status = "finished" /\ a <= Len(heap') =>
         /\ heap'[a].winner = heap[a].winner /\ heap'[a].result = heap[a].result
         /\ \A p \in Players :
              [heap'[a].players[p] EXCEPT !.connected = TRUE]
                = [heap[a].players[p] EXCEPT !.connected = TRUE]]_vars

\* No two match:finished events disagree, and none disagrees with the result
\* that is stored later: the gateway sends them before MongoDB has it.
AnnouncedIsStored ==
  /\ \A x, y \in told : x = y
  /\ doc.status = "finished" =>
       told \subseteq {[winner |-> doc.winner, result |-> doc.result]}

\* When no call is in flight and nothing failed, Redis holds the result MongoDB
\* holds: no persist of a joining or playing client overtakes the one of
\* finalizeState.
CacheIsFinal ==
  faults = 0 /\ (\A c \in Callers : call[c].pc = "idle") /\ doc.status = "finished" =>
    /\ redis.status = "finished"
    /\ redis.winner = doc.winner /\ redis.result = doc.result

\* An operation is accepted under a number that was not acknowledged before.
AcceptsAfresh ==
  \A c \in Callers :
    call'[c].pc = "record" /\ call[c].pc # "record" =>
      call'[c].msg.seq \notin acked[call'[c].msg.player]

\* A sequence number that was accepted and acknowledged is not accepted again
\* (the lastAcceptedSeq check of submitOperation).
AcceptedOnce == [][AcceptsAfresh]_vars

\* An acknowledged operation has an entry under its number in the move log.
AcknowledgedIsLogged ==
  \A p \in Players : \A s \in acked[p] : moves[p][s] # "none"

\* README: MongoDB stores the moves. An acknowledged operation is in the log
\* as an accepted one.
AcknowledgedMoveIsStored ==
  \A p \in Players : \A s \in acked[p] : moves[p][s] = "accepted"

\* The match document follows MatchLifecycle, over crashes and failures too.
Lifecycle == INSTANCE MatchLifecycle WITH
  expired <- now >= ExpiresAt,
  record <- doc
ImplementsLifecycle == Lifecycle!Spec

\* A match nobody finishes is finished on time (handleTimeoutSweep).
MatchResolved == <>(doc.status = "finished")

\* A match finished in memory gets its result into MongoDB.
FinishedIsPersisted == live # 0 /\ heap[live].status = "finished" ~> doc.status = "finished"

\* The end by an operation or a surrender is announced: one of the callers
\* that raced to finalize answers with the finished state.
WonIsAnnounced == doc.result \in {"exact", "surrender"} ~> told # {}

\* Once the result is stored, match:finished is sent.
EndIsAnnounced == doc.status = "finished" ~> told # {}
=============================================================================
