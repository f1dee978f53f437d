------------------------- MODULE MatchRuntimeProofs -------------------------
(***************************************************************************)
(* Proofs about MatchRuntime, for every set of requests, every bound on    *)
(* crashes and faults, and every start, target and set of operations.      *)
(*                                                                         *)
(* The argument has five layers, each an invariant proved from the ones    *)
(* before it.                                                              *)
(*                                                                         *)
(* TInv: the state keeps its types and every call in flight holds the      *)
(* address of an object (TypeCorrect).                                     *)
(* SInv: `finalizing` is a lock around finalizeMatch, so a document found  *)
(* active is still active when the transaction commits (RatedOnce).        *)
(* EInv: what a call is about to confirm or to store has been earned       *)
(* (LoggedBeforeAcknowledged, FinishedIsFrozen, LifecycleImplemented).     *)
(* OInv: until the first crash there is one match object, and everything   *)
(* said about the match is read from it (AnnouncedHolds, AcceptedOnce).    *)
(* WInv: until anything fails, nothing overtakes the finished state on its *)
(* way to Redis (CacheHolds).                                              *)
(***************************************************************************)
EXTENDS MatchRuntime, GameRulesProofs, SequenceTheorems

-----------------------------------------------------------------------------
(* Types of what the handlers build.                                        *)

LEMMA NewStateType == NewMatchState \in MatchState
BY MatchAssumption, RulesAssumption
   DEF NewMatchState, MatchState, PlayerState, Results

LEMMA NewDocType == NewMatchDoc \in MatchDoc
BY MatchAssumption DEF NewMatchDoc, MatchDoc, Results

LEMMA IdleType == Idle \in Call
BY NewStateType DEF Idle, Waiting, Pending, Call, Steps, Messages, Results

LEMMA WaitingType ==
  ASSUME NEW pc \in Steps, NEW msg \in Messages, NEW at \in Nat
  PROVE  /\ Waiting(pc, msg, at) \in Call
         /\ Waiting(pc, msg, at).pc = pc
BY NewStateType DEF Waiting, Pending, Call, Results

LEMMA WithPlayerType ==
  ASSUME NEW s \in MatchState, NEW p \in Players, NEW ps \in PlayerState
  PROVE  WithPlayer(s, p, ps) \in MatchState
BY DEF WithPlayer, MatchState

LEMMA FinishedType ==
  ASSUME NEW s \in MatchState, NEW w \in Players \cup {Nobody}, NEW r \in Results
  PROVE  Finished(s, w, r) \in MatchState
BY DEF Finished, MatchState

\* Changing one object leaves a heap of objects of the same size.
LEMMA HeapUpdate ==
  ASSUME NEW h \in Seq(MatchState), NEW a \in 1..Len(h), NEW s \in MatchState
  PROVE  /\ [h EXCEPT ![a] = s] \in Seq(MatchState)
         /\ Len([h EXCEPT ![a] = s]) = Len(h)
         /\ \A b \in 1..Len(h) : [h EXCEPT ![a] = s][b] = IF b = a THEN s ELSE h[b]
BY ExceptSeq

\* There are exactly two players.
LEMMA TheOther ==
  ASSUME NEW p \in Players
  PROVE  /\ (CHOOSE q \in Players : q # p) \in Players
         /\ (CHOOSE q \in Players : q # p) # p
         /\ Players = {p, CHOOSE q \in Players : q # p}
BY MatchAssumption

\* A paid and applied operation leaves a proper player state.
LEMMA PlayedType ==
  ASSUME NEW ps \in PlayerState, NEW msg \in OperationMessages, now \in Nat,
         Playable(ps, msg.op)
  PROVE  Played(ps, msg) \in PlayerState
<1>1. msg.op.type \in OperationType /\ msg.seq \in 1..MaxSeq
  BY MatchAssumption DEF OperationMessages
<1>2. GetOperationCost(msg.op) \in Nat
  BY <1>1, CostIsPositive
<1> DEFINE paid == SpendElixir(ps.elixir, ps.anchor, GetOperationCost(msg.op), now)
<1>3. ps.elixir \in 0..ElixirCap /\ ps.anchor \in Nat
  BY DEF PlayerState
<1>4. paid.stored \in 0..ElixirCap /\ paid.last \in Nat
  BY <1>2, <1>3, SpendBounds DEF Playable
<1>5. Computed(ps.value, msg.op) \in Nat
  BY RulesAssumption DEF Playable, Applicable
<1> HIDE DEF paid
<1>6. Played(ps, msg) = [value |-> Computed(ps.value, msg.op), seq |-> msg.seq,
                          elixir |-> paid.stored, anchor |-> paid.last,
                          surrendered |-> ps.surrendered, connected |-> ps.connected]
  BY DEF Played, paid
<1>7. QED
  BY <1>1, <1>4, <1>5, <1>6, MatchAssumption DEF PlayerState

LEMMA TimeoutTypes ==
  ASSUME NEW s \in MatchState
  PROVE  /\ TimeoutWinner(s) \in Players \cup {Nobody}
         /\ TimeoutResult(s) \in Results
<1>1. \E p \in Players : TRUE
  BY MatchAssumption
<1> DEFINE a == CHOOSE p \in Players : TRUE
           b == CHOOSE p \in Players : p # a
<1>2. a \in Players
  BY <1>1
<1>3. b \in Players
  BY <1>2, TheOther
<1> HIDE DEF a, b
<1>4. TimeoutWinner(s) \in {a, b, Nobody}
  BY DEF TimeoutWinner, ResolveClosestWinner, a, b
<1>5. QED
  BY <1>2, <1>3, <1>4 DEF TimeoutResult, Results

\* What a message carries depends on its kind.
LEMMA MessageKinds ==
  ASSUME NEW msg \in Messages
  PROVE  /\ msg.kind # "sweep" => msg.player \in Players
         /\ msg.kind = "operation" =>
              msg \in OperationMessages /\ msg.player \in Players /\ msg.seq \in 1..MaxSeq
BY DEF Messages, OperationMessages, SweepMessage, Ask

-----------------------------------------------------------------------------
(* First layer: types, and calls that hold what they need to go on.          *)

\* A call past the lookup of the match holds the address of one of the n
\* objects; only operations are recorded, and only they end a match exactly.
CallOK(k, n) ==
  /\ k.pc \notin {"idle", "load"} => k.at \in 1..n
  /\ k.pc \in {"record", "reject"} => k.msg.kind = "operation"
  /\ k.pc = "load" => k.msg.kind \notin {"sweep", "leave"}
  /\ k.pc \in {"find", "commit", "save"} =>
       k.result \in Results /\ (k.result = "exact" => k.msg.kind = "operation")

TInv ==
  /\ TypeOK
  /\ \A c \in Callers : CallOK(call[c], Len(heap))
  /\ heap # <<>> => live # 0

\* What a handler, or the timer, leaves of the process when n objects exist.
ProcessOK(n) ==
  /\ heap' \in Seq(MatchState) /\ Len(heap') = n
  /\ live' \in 1..n
  /\ finalizing' \in BOOLEAN
  /\ wire' \in Seq(Callers)

\* Call c goes on as a proper call, the others are as they were.
MovesOn(c, n) ==
  \E k \in Call : call' = [call EXCEPT ![c] = k] /\ CallOK(k, n)

LEMMA StartFinalizeTypes ==
  ASSUME NEW c \in Callers, NEW msg \in Messages, NEW h \in Seq(MatchState),
         NEW a \in 1..Len(h), NEW w \in Players \cup {Nobody}, NEW r \in Results,
         r = "exact" => msg.kind = "operation",
         StartFinalize(c, msg, h, a, w, r)
  PROVE  /\ heap' \in Seq(MatchState) /\ Len(heap') = Len(h)
         /\ finalizing' = TRUE
         /\ MovesOn(c, Len(h))
<1> DEFINE k == Pending("find", msg, a, w, r, NewMatchState)
<1>1. h[a] \in MatchState
  OBVIOUS
<1>2. heap' \in Seq(MatchState) /\ Len(heap') = Len(h)
  BY <1>1, FinishedType, HeapUpdate DEF StartFinalize
<1>3. k \in Call
  BY NewStateType DEF Pending, Call, Steps, Results
<1>4. CallOK(k, Len(h))
  BY DEF Pending, CallOK
<1>5. call' = [call EXCEPT ![c] = k] /\ finalizing' = TRUE
  BY DEF StartFinalize
<1> HIDE DEF k
<1>6. QED
  BY <1>2, <1>3, <1>4, <1>5 DEF MovesOn

LEMMA DoneTypes ==
  ASSUME NEW c \in Callers, NEW n \in Nat, Done(c)
  PROVE  MovesOn(c, n)
<1>1. CallOK(Idle, n)
  BY DEF CallOK, Idle, Waiting, Pending
<1>2. QED
  BY <1>1, IdleType DEF Done, MovesOn

LEMMA TimeoutFinalizeTypes ==
  ASSUME NEW c \in Callers, NEW msg \in Messages, NEW h \in Seq(MatchState),
         NEW a \in 1..Len(h), finalizing \in BOOLEAN,
         FinalizeByTimeout(c, msg, h, a)
  PROVE  /\ heap' \in Seq(MatchState) /\ Len(heap') = Len(h)
         /\ finalizing' \in BOOLEAN
         /\ MovesOn(c, Len(h))
<1>1. CASE MayFinalize(h[a])
  <2>1. h[a] \in MatchState
    OBVIOUS
  <2>2. StartFinalize(c, msg, h, a, TimeoutWinner(h[a]), TimeoutResult(h[a]))
    BY <1>1 DEF FinalizeByTimeout
  <2>3. TimeoutResult(h[a]) \in Results /\ TimeoutResult(h[a]) # "exact"
        /\ TimeoutWinner(h[a]) \in Players \cup {Nobody}
    BY <2>1, TimeoutTypes DEF TimeoutResult
  <2>4. QED
    BY <2>2, <2>3, StartFinalizeTypes
<1>2. CASE ~MayFinalize(h[a])
  BY <1>2, DoneTypes DEF FinalizeByTimeout, Done
<1>3. QED
  BY <1>1, <1>2

\* Every handler, run on a heap h whose object a it has found.
LEMMA HandleTypes ==
  ASSUME TypeOK, NEW c \in Callers, NEW msg \in Messages, NEW h \in Seq(MatchState),
         NEW a \in 1..Len(h), NEW w \in Seq(Callers),
         Handle(c, msg, h, a, w)
  PROVE  /\ ProcessOK(Len(h)) /\ MovesOn(c, Len(h))
         /\ acked' = acked
         /\ reached' \subseteq Players /\ gaveUp' \subseteq Players /\ told' \subseteq Payload
<1> DEFINE p == msg.player
           ps == h[a].players[p]
<1>1. /\ p \in Players /\ h[a] \in MatchState /\ ps \in PlayerState
      /\ h[a].winner \in Players \cup {Nobody} /\ h[a].result \in Results \cup {"none"}
      /\ finalizing \in BOOLEAN /\ now \in Nat
      /\ reached \subseteq Players /\ gaveUp \subseteq Players /\ told \subseteq Payload
      /\ a \in Nat /\ Len(h) \in Nat
  <2>1. msg.kind # "sweep"
    BY DEF Handle
  <2>2. p \in Players /\ h[a] \in MatchState
    BY <2>1, MessageKinds
  <2>3. QED
    BY <2>2, MatchAssumption DEF MatchState, TypeOK
<1>2. CASE msg.kind = "operation" /\ HandleOperation(c, msg, h, a, w)
  <2>0. msg \in OperationMessages
    BY <1>2, MessageKinds
  <2>1. CASE OperationOutOfPlay(c, msg, h, a, w)
    BY <2>1, <1>1, DoneTypes DEF OperationOutOfPlay, ProcessOK, seen
  <2>2. CASE OperationAfterExpiry(c, msg, h, a, w)
    BY <2>2, <1>1, TimeoutFinalizeTypes DEF OperationAfterExpiry, ProcessOK, seen
  <2>3. CASE OperationRefused(c, msg, h, a, w)
    <3>1. Waiting("reject", msg, a) \in Call
      BY <1>1, WaitingType DEF Steps
    <3>2. CallOK(Waiting("reject", msg, a), Len(h))
      BY <1>2 DEF CallOK, Waiting, Pending
    <3>3. MovesOn(c, Len(h))
      BY <2>3, <3>1, <3>2 DEF OperationRefused, MovesOn
    <3>4. QED
      BY <2>3, <3>3, <1>1 DEF OperationRefused, ProcessOK, seen
  <2>4. CASE OperationAccepted(c, msg, h, a, w)
    <3> DEFINE next == Played(ps, msg)
               k == Pending("record", msg, a, Nobody,
                            IF next.value = Target THEN "exact" ELSE "none", NewMatchState)
    <3>1. next \in PlayerState
      BY <2>0, <2>4, <1>1, PlayedType DEF OperationAccepted
    <3>2. heap' = [h EXCEPT ![a] = WithPlayer(h[a], p, next)]
      BY <2>4 DEF OperationAccepted
    <3>3. heap' \in Seq(MatchState) /\ Len(heap') = Len(h)
      BY <3>1, <3>2, <1>1, WithPlayerType, HeapUpdate
    <3>4. k \in Call
      BY <1>1, NewStateType DEF Pending, Call, Steps, Results
    <3>5. CallOK(k, Len(h))
      BY <1>2 DEF CallOK, Pending
    <3>6. call' = [call EXCEPT ![c] = k]
      BY <2>4 DEF OperationAccepted
    <3>7. MovesOn(c, Len(h))
      <4> HIDE DEF k
      <4>1. QED
        BY <3>4, <3>5, <3>6 DEF MovesOn
    <3>8. QED
      BY <2>4, <3>3, <3>7, <1>1 DEF OperationAccepted, ProcessOK
  <2>5. QED
    BY <1>2, <2>1, <2>2, <2>3, <2>4 DEF HandleOperation
<1>3. CASE msg.kind = "surrender" /\ HandleSurrender(c, msg, h, a, w)
  <2> DEFINE given == [h EXCEPT ![a] = WithPlayer(h[a], p, [ps EXCEPT !.surrendered = TRUE])]
  <2>1. [ps EXCEPT !.surrendered = TRUE] \in PlayerState
    BY <1>1 DEF PlayerState
  <2>2. given \in Seq(MatchState) /\ Len(given) = Len(h)
    BY <2>1, <1>1, WithPlayerType, HeapUpdate
  <2>3. Announce(h[a]) => told' \subseteq Payload
    BY <1>1 DEF Announce, Payload
  <2>4. CASE h[a].status # "active"
    BY <2>3, <2>4, <1>1, <1>3, DoneTypes DEF HandleSurrender, ProcessOK
  <2>5. CASE h[a].status = "active" /\ MayFinalize(h[a])
    <3>1. StartFinalize(c, msg, given, a, CHOOSE q \in Players : q # p, "surrender")
          /\ gaveUp' = gaveUp \cup {p} /\ told' = told
      BY <2>5, <1>3 DEF HandleSurrender
    <3>2. (CHOOSE q \in Players : q # p) \in Players
      BY <1>1, TheOther
    <3>3. heap' \in Seq(MatchState) /\ Len(heap') = Len(h) /\ finalizing' = TRUE
          /\ MovesOn(c, Len(h))
      <4> HIDE DEF given
      <4>1. a \in 1..Len(given)
        BY <2>2
      <4>2. QED
        BY <2>2, <3>1, <3>2, <4>1, StartFinalizeTypes DEF Results
    <3>4. QED
      BY <3>1, <3>3, <1>1, <1>3 DEF HandleSurrender, ProcessOK
  <2>6. CASE h[a].status = "active" /\ ~MayFinalize(h[a])
    BY <2>2, <2>3, <2>6, <1>1, <1>3, DoneTypes DEF HandleSurrender, ProcessOK
  <2>7. QED
    BY <2>4, <2>5, <2>6
<1>4. CASE msg.kind = "join" /\ HandleJoin(c, msg, h, a, w)
  <2> DEFINE joined == WithPlayer(h[a], p, [ps EXCEPT !.connected = TRUE])
             k == Pending("persist", msg, a, Nobody, "none", joined)
  <2>1. joined \in MatchState
    <3>1. [ps EXCEPT !.connected = TRUE] \in PlayerState
      BY <1>1 DEF PlayerState
    <3>2. QED
      BY <3>1, <1>1, WithPlayerType
  <2>2. /\ heap' = [h EXCEPT ![a] = joined] /\ live' = a /\ wire' = Append(w, c)
        /\ call' = [call EXCEPT ![c] = k] /\ UNCHANGED <<finalizing, seen>>
    BY <1>4 DEF HandleJoin
  <2> HIDE DEF joined
  <2>3. k \in Call
    BY <2>1, <1>1 DEF Pending, Call, Steps, Results
  <2>4. CallOK(k, Len(h))
    BY DEF CallOK, Pending
  <2> HIDE DEF k
  <2>5. heap' \in Seq(MatchState) /\ Len(heap') = Len(h)
    BY <2>1, <2>2, HeapUpdate
  <2>6. wire' \in Seq(Callers)
    BY <2>2
  <2>7. QED
    BY <2>2, <2>3, <2>4, <2>5, <2>6, <1>1 DEF MovesOn, ProcessOK, seen
<1>5. QED
  BY <1>2, <1>3, <1>4 DEF Handle

\* One call moves on, the heap grows or stays: all calls are proper again.
LEMMA MovesOnKeeps ==
  ASSUME TInv, NEW c \in Callers, NEW n \in Nat, Len(heap) <= n, MovesOn(c, n)
  PROVE  call' \in [Callers -> Call] /\ \A d \in Callers : CallOK(call'[d], n)
<1>1. call \in [Callers -> Call] /\ \A d \in Callers : CallOK(call[d], Len(heap))
      /\ Len(heap) \in Nat
  BY DEF TInv, TypeOK
<1>2. PICK k \in Call : call' = [call EXCEPT ![c] = k] /\ CallOK(k, n)
  BY DEF MovesOn
<1>3. \A d \in Callers : CallOK(call[d], n)
  BY <1>1 DEF CallOK
<1>4. QED
  BY <1>1, <1>2, <1>3

LEMMA TInvInit == Init => TInv
<1> SUFFICES ASSUME Init PROVE TInv
  OBVIOUS
<1>1. <<NewMatchState>> \in Seq(MatchState) /\ Len(<<NewMatchState>>) = 1
  BY NewStateType
<1>2. call \in [Callers -> Call]
  BY IdleType DEF Init
<1>3. \A c \in Callers : CallOK(call[c], Len(heap))
  BY DEF Init, CallOK, Idle, Waiting, Pending
<1>4. TypeOK
  <2>1. heap \in Seq(MatchState) /\ live \in 0..Len(heap)
    BY <1>1 DEF Init
  <2>2. redis \in MatchState /\ doc \in MatchDoc /\ rated \in Nat
    BY NewStateType, NewDocType DEF Init
  <2>3. moves \in [Players -> [1..MaxSeq -> {"none", "accepted", "rejected"}]]
    BY DEF Init
  <2>4. now \in 0..ExpiresAt /\ crashes \in 0..MaxCrashes /\ faults \in 0..MaxFaults
    BY MatchAssumption DEF Init
  <2>5. acked \in [Players -> SUBSET (1..MaxSeq)]
    BY DEF Init
  <2>6. wire \in Seq(Callers)
    BY EmptySeq DEF Init
  <2>7. finalizing \in BOOLEAN
    BY DEF Init
  <2>8. QED
    BY <1>2, <2>1, <2>2, <2>3, <2>4, <2>5, <2>6, <2>7 DEF Init, TypeOK
<1>5. QED
  BY <1>1, <1>3, <1>4 DEF TInv, Init

LEMMA TInvStutter ==
  ASSUME TInv, UNCHANGED process, UNCHANGED store, UNCHANGED seen,
         now' \in 0..ExpiresAt, crashes' \in 0..MaxCrashes, faults' \in 0..MaxFaults
  PROVE  TInv'
BY DEF TInv, TypeOK, process, store, seen, CallOK

LEMMA TInvReceive ==
  ASSUME TInv, NEW c \in Callers, NEW msg \in Messages, Receive(c, msg)
  PROVE  TInv'
<1>1. heap \in Seq(MatchState) /\ live \in 1..Len(heap) /\ wire \in Seq(Callers) /\ TypeOK
      /\ Len(heap) \in Nat
  BY DEF TInv, TypeOK, Receive
<1>2. /\ ProcessOK(Len(heap)) /\ MovesOn(c, Len(heap)) /\ acked' = acked
      /\ reached' \subseteq Players /\ gaveUp' \subseteq Players /\ told' \subseteq Payload
  BY <1>1, HandleTypes DEF Receive
<1>3. call' \in [Callers -> Call] /\ \A d \in Callers : CallOK(call'[d], Len(heap))
  BY <1>1, <1>2, MovesOnKeeps
<1>4. QED
  BY <1>1, <1>2, <1>3 DEF TInv, TypeOK, ProcessOK, Receive, store, world

LEMMA TInvStartLoad ==
  ASSUME TInv, NEW c \in Callers, NEW msg \in Messages, msg.kind \notin {"sweep", "leave"},
         StartLoad(c, msg)
  PROVE  TInv'
<1> DEFINE k == Waiting("load", msg, 0)
<1>1. k \in Call /\ CallOK(k, Len(heap))
  BY WaitingType DEF CallOK, Waiting, Pending, Steps
<1>2. call' = [call EXCEPT ![c] = k]
  BY DEF StartLoad
<1> HIDE DEF k
<1>3. call' \in [Callers -> Call] /\ \A d \in Callers : CallOK(call'[d], Len(heap))
  BY <1>1, <1>2 DEF TInv, TypeOK
<1>4. wire' \in Seq(Callers)
  BY DEF StartLoad, TInv, TypeOK
<1>5. QED
  BY <1>3, <1>4 DEF TInv, TypeOK, StartLoad, store, world, seen

LEMMA TInvLoad ==
  ASSUME TInv, NEW c \in Callers, Load(c)
  PROVE  TInv'
<1> DEFINE h == Append(heap, redis)
           n == Len(heap) + 1
<1>1. TypeOK /\ heap \in Seq(MatchState) /\ redis \in MatchState /\ Len(heap) \in Nat
  BY DEF TInv, TypeOK
<1>2. h \in Seq(MatchState) /\ Len(h) = n /\ n \in 1..n /\ n \in Nat /\ Len(heap) <= n
  BY <1>1
<1>3. Tail(wire) \in Seq(Callers)
  BY DEF Load, TInv, TypeOK
<1>4. call[c].msg \in Messages
  BY <1>1 DEF TypeOK, Call
<1>5. Handle(c, call[c].msg, h, n, Tail(wire))
  BY DEF Load
<1> HIDE DEF h, n
<1>6. /\ ProcessOK(n) /\ MovesOn(c, n) /\ acked' = acked
      /\ reached' \subseteq Players /\ gaveUp' \subseteq Players /\ told' \subseteq Payload
  BY <1>1, <1>2, <1>3, <1>4, <1>5, HandleTypes
<1>7. call' \in [Callers -> Call] /\ \A d \in Callers : CallOK(call'[d], n)
  BY <1>2, <1>6, MovesOnKeeps
<1>8. QED
  BY <1>1, <1>2, <1>6, <1>7 DEF TInv, TypeOK, ProcessOK, Load, store, world

LEMMA TInvLeave ==
  ASSUME TInv, NEW c \in Callers, NEW p \in Players, Leave(c, p)
  PROVE  TInv'
<1> DEFINE left == WithPlayer(heap[live], p, [heap[live].players[p] EXCEPT !.connected = FALSE])
           k == Pending("persist", Ask("leave", p), live, Nobody, "none", left)
<1>1. live \in 1..Len(heap) /\ heap \in Seq(MatchState) /\ heap[live] \in MatchState
      /\ Len(heap) \in Nat
  BY DEF TInv, TypeOK, Leave
<1>2. left \in MatchState
  <2>1. heap[live].players[p] \in PlayerState
    BY <1>1 DEF MatchState
  <2>2. [heap[live].players[p] EXCEPT !.connected = FALSE] \in PlayerState
    BY <2>1 DEF PlayerState
  <2>3. QED
    BY <2>2, <1>1, WithPlayerType
<1>3. /\ heap' = [heap EXCEPT ![live] = left] /\ wire' = Append(wire, c)
      /\ call' = [call EXCEPT ![c] = k]
      /\ UNCHANGED <<live, finalizing, store, world, seen>>
  BY DEF Leave
<1> HIDE DEF left
<1>4. k \in Call /\ CallOK(k, Len(heap))
  BY <1>1, <1>2 DEF CallOK, Pending, Call, Steps, Results, Messages
<1> HIDE DEF k
<1>5. MovesOn(c, Len(heap))
  BY <1>3, <1>4 DEF MovesOn
<1>6. call' \in [Callers -> Call] /\ \A d \in Callers : CallOK(call'[d], Len(heap))
  BY <1>1, <1>5, MovesOnKeeps
<1>7. heap' \in Seq(MatchState) /\ Len(heap') = Len(heap)
  BY <1>1, <1>2, <1>3, HeapUpdate
<1>8. wire' \in Seq(Callers)
  BY <1>3 DEF TInv, TypeOK
<1>9. QED
  BY <1>1, <1>3, <1>6, <1>7, <1>8 DEF TInv, TypeOK, store, world, seen

LEMMA TInvSweep ==
  ASSUME TInv, Sweep
  PROVE  TInv'
<1>1. Sweeper \in Callers /\ SweepMessage \in Messages
  BY DEF Callers, Messages
<1>2. live \in 1..Len(heap) /\ heap \in Seq(MatchState) /\ finalizing \in BOOLEAN
      /\ Len(heap) \in Nat
  BY DEF TInv, TypeOK, Sweep
<1>3. heap' \in Seq(MatchState) /\ Len(heap') = Len(heap) /\ finalizing' \in BOOLEAN
      /\ MovesOn(Sweeper, Len(heap))
  BY <1>1, <1>2, TimeoutFinalizeTypes DEF Sweep
<1>4. call' \in [Callers -> Call] /\ \A d \in Callers : CallOK(call'[d], Len(heap))
  BY <1>1, <1>2, <1>3, MovesOnKeeps
<1>5. QED
  BY <1>2, <1>3, <1>4 DEF TInv, TypeOK, Sweep, store, world, seen

LEMMA StartPersistTypes ==
  ASSUME TInv, NEW c \in Callers, NEW pc \in {"save", "persist"}, NEW a \in 1..Len(heap),
         StartPersist(c, pc, heap, a, wire),
         pc = "save" => /\ call[c].result \in Results
                        /\ call[c].result = "exact" => call[c].msg.kind = "operation"
  PROVE  /\ live' \in 1..Len(heap) /\ wire' \in Seq(Callers)
         /\ call' \in [Callers -> Call] /\ \A d \in Callers : CallOK(call'[d], Len(heap))
<1> DEFINE k == Pending(pc, call[c].msg, a, call[c].winner, call[c].result, heap[a])
<1>1. heap[a] \in MatchState /\ call[c] \in Call /\ a \in Nat /\ Len(heap) \in Nat
      /\ wire \in Seq(Callers)
  BY DEF TInv, TypeOK
<1>2. k \in Call /\ CallOK(k, Len(heap))
  BY <1>1 DEF Pending, Call, CallOK, Steps
<1>3. call' = [call EXCEPT ![c] = k] /\ live' = a /\ wire' = Append(wire, c)
  BY DEF StartPersist
<1> HIDE DEF k
<1>4. MovesOn(c, Len(heap))
  BY <1>2, <1>3 DEF MovesOn
<1>5. QED
  BY <1>1, <1>3, <1>4, MovesOnKeeps

LEMMA DoneKeeps ==
  ASSUME TInv, NEW c \in Callers, Done(c)
  PROVE  call' \in [Callers -> Call] /\ \A d \in Callers : CallOK(call'[d], Len(heap))
<1>1. Len(heap) \in Nat
  BY DEF TInv, TypeOK
<1>2. QED
  BY <1>1, DoneTypes, MovesOnKeeps

\* A recorded operation falls back to a rejected move.
LEMMA BackOutKeeps ==
  ASSUME TInv, NEW c \in Callers, BackOut(c), call[c].pc \notin {"idle", "load"},
         call[c].msg.kind = "operation"
  PROVE  call' \in [Callers -> Call] /\ \A d \in Callers : CallOK(call'[d], Len(heap))
<1> DEFINE k == Waiting("reject", call[c].msg, call[c].at)
<1>1. Len(heap) \in Nat /\ call[c] \in Call /\ call[c].at \in 1..Len(heap)
  BY DEF TInv, TypeOK, CallOK
<1>2. k \in Call
  BY <1>1, WaitingType DEF Call, Steps
<1>3. CallOK(k, Len(heap))
  BY <1>1 DEF CallOK, Waiting, Pending
<1>4. call' = [call EXCEPT ![c] = k]
  BY DEF BackOut
<1> HIDE DEF k
<1>5. MovesOn(c, Len(heap))
  BY <1>2, <1>3, <1>4 DEF MovesOn
<1>6. QED
  BY <1>1, <1>5, MovesOnKeeps

LEMMA LoggedType ==
  ASSUME TypeOK, NEW msg \in Messages, msg.kind = "operation",
         NEW outcome \in {"accepted", "rejected"}
  PROVE  Logged(msg, outcome) \in [Players -> [1..MaxSeq -> {"none", "accepted", "rejected"}]]
<1>1. msg.player \in Players /\ msg.seq \in 1..MaxSeq
  BY MessageKinds
<1>2. moves \in [Players -> [1..MaxSeq -> {"none", "accepted", "rejected"}]]
  BY DEF TypeOK
<1>3. [moves[msg.player] EXCEPT ![msg.seq] = outcome] \in [1..MaxSeq -> {"none", "accepted", "rejected"}]
  BY <1>1, <1>2
<1>4. QED
  BY <1>1, <1>2, <1>3 DEF Logged

LEMMA AnswerTypes ==
  ASSUME TypeOK, NEW msg \in Messages, NEW s \in MatchState, Answer(msg, s)
  PROVE  /\ acked' \in [Players -> SUBSET (1..MaxSeq)]
         /\ reached' = reached /\ gaveUp' = gaveUp /\ told' \subseteq Payload
<1>1. [winner |-> s.winner, result |-> s.result] \in Payload
  BY DEF MatchState, Payload
<1>2. told' \subseteq Payload
  BY <1>1 DEF Answer, AnnounceIfFinished, Announce, TypeOK
<1>3. acked' \in [Players -> SUBSET (1..MaxSeq)]
  <2>1. CASE msg.kind = "operation"
    <3>1. msg.player \in Players /\ msg.seq \in 1..MaxSeq
      BY <2>1, MessageKinds
    <3>2. acked[msg.player] \cup {msg.seq} \in SUBSET (1..MaxSeq)
      BY <3>1 DEF TypeOK
    <3>3. QED
      BY <2>1, <3>1, <3>2 DEF Answer, TypeOK
  <2>2. CASE msg.kind # "operation"
    BY <2>2 DEF Answer, TypeOK
  <2>3. QED
    BY <2>1, <2>2
<1>4. QED
  BY <1>2, <1>3 DEF Answer

LEMMA TInvRecord ==
  ASSUME TInv, NEW c \in Callers, Record(c)
  PROVE  TInv'
<1> DEFINE msg == call[c].msg
<1>1. /\ TypeOK /\ msg \in Messages /\ msg.kind = "operation" /\ call[c].at \in 1..Len(heap)
      /\ live \in 1..Len(heap) /\ heap \in Seq(MatchState) /\ Len(heap) \in Nat
      /\ heap[live] \in MatchState /\ finalizing \in BOOLEAN
  <2>1. call[c] \in Call /\ CallOK(call[c], Len(heap)) /\ call[c].pc = "record"
    BY DEF TInv, TypeOK, Record
  <2>2. msg \in Messages /\ msg.kind = "operation" /\ call[c].at \in 1..Len(heap)
    BY <2>1 DEF Call, CallOK
  <2>3. heap \in Seq(MatchState) /\ Len(heap) \in Nat /\ live \in 0..Len(heap)
    BY DEF TInv, TypeOK
  <2>4. heap # <<>>
    BY <2>2, <2>3
  <2>5. QED
    BY <2>2, <2>3, <2>4 DEF TInv, TypeOK
<1>2. moves' \in [Players -> [1..MaxSeq -> {"none", "accepted", "rejected"}]]
  BY <1>1, LoggedType DEF Record
<1>3. UNCHANGED <<redis, doc, rated, world>>
  BY DEF Record
<1>4. CASE call[c].result # "exact"
  <2>1. StartPersist(c, "persist", heap, call[c].at, wire) /\ UNCHANGED <<heap, finalizing, seen>>
    BY <1>4 DEF Record
  <2>2. /\ live' \in 1..Len(heap) /\ wire' \in Seq(Callers)
        /\ call' \in [Callers -> Call] /\ \A d \in Callers : CallOK(call'[d], Len(heap))
    BY <2>1, <1>1, StartPersistTypes
  <2>3. QED
    BY <1>1, <1>2, <1>3, <2>1, <2>2 DEF TInv, TypeOK, world, seen
<1>5. CASE call[c].result = "exact" /\ MayFinalize(heap[live])
  <2>1. StartFinalize(c, msg, heap, live, msg.player, "exact") /\ UNCHANGED <<live, wire, seen>>
    BY <1>5 DEF Record
  <2>2. msg.player \in Players
    BY <1>1, MessageKinds
  <2>3. heap' \in Seq(MatchState) /\ Len(heap') = Len(heap) /\ finalizing' = TRUE
        /\ MovesOn(c, Len(heap))
    BY <1>1, <2>1, <2>2, StartFinalizeTypes DEF Results
  <2>4. call' \in [Callers -> Call] /\ \A d \in Callers : CallOK(call'[d], Len(heap))
    BY <1>1, <2>3, MovesOnKeeps
  <2>5. QED
    BY <1>1, <1>2, <1>3, <2>1, <2>3, <2>4 DEF TInv, TypeOK, world, seen
<1>6. CASE call[c].result = "exact" /\ ~MayFinalize(heap[live])
  <2>1. Done(c) /\ Answer(msg, heap[live]) /\ UNCHANGED <<heap, live, finalizing, wire>>
    BY <1>6 DEF Record
  <2>2. call' \in [Callers -> Call] /\ \A d \in Callers : CallOK(call'[d], Len(heap))
    BY <2>1, DoneKeeps
  <2>3. /\ acked' \in [Players -> SUBSET (1..MaxSeq)]
        /\ reached' = reached /\ gaveUp' = gaveUp /\ told' \subseteq Payload
    BY <1>1, <2>1, AnswerTypes
  <2>4. QED
    BY <1>1, <1>2, <1>3, <2>1, <2>2, <2>3 DEF TInv, TypeOK, world
<1>7. QED
  BY <1>4, <1>5, <1>6

LEMMA TInvReject ==
  ASSUME TInv, NEW c \in Callers, Reject(c)
  PROVE  TInv'
<1>1. TypeOK /\ call[c].msg \in Messages /\ call[c].msg.kind = "operation"
  BY DEF TInv, TypeOK, CallOK, Call, Reject
<1>2. moves' \in [Players -> [1..MaxSeq -> {"none", "accepted", "rejected"}]]
  BY <1>1, LoggedType DEF Reject
<1>3. call' \in [Callers -> Call] /\ \A d \in Callers : CallOK(call'[d], Len(heap))
  BY DoneKeeps DEF Reject
<1>4. QED
  BY <1>2, <1>3 DEF TInv, TypeOK, Reject, world, seen

LEMMA TInvFind ==
  ASSUME TInv, NEW c \in Callers, Find(c)
  PROVE  TInv'
<1>1. /\ call[c] \in Call /\ call[c].pc = "find" /\ CallOK(call[c], Len(heap))
      /\ call[c].at \in 1..Len(heap) /\ call[c].result \in Results
      /\ (call[c].result = "exact" => call[c].msg.kind = "operation")
      /\ Len(heap) \in Nat
  BY DEF TInv, TypeOK, CallOK, Find
<1>2. CASE doc.status = "finished"
  <2>1. StartPersist(c, "save", heap, call[c].at, wire)
        /\ UNCHANGED <<heap, finalizing, store, world, seen>>
    BY <1>2 DEF Find
  <2>2. /\ live' \in 1..Len(heap) /\ wire' \in Seq(Callers)
        /\ call' \in [Callers -> Call] /\ \A d \in Callers : CallOK(call'[d], Len(heap))
    BY <1>1, <2>1, StartPersistTypes
  <2>3. QED
    BY <2>1, <2>2 DEF TInv, TypeOK, store, world, seen
<1>3. CASE doc.status # "finished"
  <2> DEFINE k == [call[c] EXCEPT !.pc = "commit"]
  <2>1. k \in Call
    BY <1>1 DEF Call, Steps
  <2>2. CallOK(k, Len(heap))
    BY <1>1 DEF CallOK, Call
  <2>3. call' = [call EXCEPT ![c] = k] /\ UNCHANGED <<live, wire, heap, finalizing, store, world, seen>>
    BY <1>3 DEF Find
  <2> HIDE DEF k
  <2>4. MovesOn(c, Len(heap))
    BY <2>1, <2>2, <2>3 DEF MovesOn
  <2>5. call' \in [Callers -> Call] /\ \A d \in Callers : CallOK(call'[d], Len(heap))
    BY <1>1, <2>4, MovesOnKeeps
  <2>6. QED
    BY <2>3, <2>5 DEF TInv, TypeOK, store, world, seen
<1>4. QED
  BY <1>2, <1>3

\* What the transaction writes has the type of a document.
LEMMA CommitsType ==
  ASSUME TypeOK, NEW c \in Callers, call[c].at \in 1..Len(heap), Commits(c)
  PROVE  doc' \in MatchDoc /\ doc'.status = "finished" /\ rated' \in Nat
<1>1. heap[call[c].at] \in MatchState /\ call[c] \in Call
  BY DEF TypeOK
<1>2. \A p \in Players : heap[call[c].at].players[p].value \in Nat
  BY <1>1 DEF MatchState, PlayerState
<1>3. doc' \in MatchDoc /\ doc'.status = "finished"
  BY <1>1, <1>2 DEF Commits, MatchDoc, Call
<1>4. rated' \in Nat
  BY DEF Commits, TypeOK
<1>5. QED
  BY <1>3, <1>4

LEMMA TInvCommit ==
  ASSUME TInv, NEW c \in Callers, Commit(c)
  PROVE  TInv'
<1>1. /\ call[c].at \in 1..Len(heap) /\ call[c].result \in Results
      /\ (call[c].result = "exact" => call[c].msg.kind = "operation")
  BY DEF TInv, TypeOK, CallOK, Commit
<1>2. doc' \in MatchDoc /\ rated' \in Nat
  BY <1>1, CommitsType DEF Commit, TInv
<1>3. /\ live' \in 1..Len(heap) /\ wire' \in Seq(Callers)
      /\ call' \in [Callers -> Call] /\ \A d \in Callers : CallOK(call'[d], Len(heap))
  BY <1>1, StartPersistTypes DEF Commit
<1>4. QED
  BY <1>2, <1>3 DEF TInv, TypeOK, Commit, world, seen

\* The command at the head of the connection is answered.
LEMMA TailOfWire ==
  ASSUME TypeOK, wire # <<>>
  PROVE  Tail(wire) \in Seq(Callers)
BY DEF TypeOK

LEMMA TInvSave ==
  ASSUME TInv, NEW c \in Callers, Save(c)
  PROVE  TInv'
<1>1. /\ TypeOK /\ call[c].msg \in Messages /\ call[c].snap \in MatchState
      /\ call[c].at \in 1..Len(heap) /\ heap \in Seq(MatchState)
      /\ live \in 0..Len(heap) /\ Len(heap) \in Nat
  BY DEF TInv, TypeOK, CallOK, Call, Save
<1>2. heap[live] \in MatchState
  <2>1. live # 0
    BY <1>1 DEF TInv
  <2>2. QED
    BY <1>1, <2>1
<1>3. call' \in [Callers -> Call] /\ \A d \in Callers : CallOK(call'[d], Len(heap))
  BY DoneKeeps DEF Save
<1>4. /\ acked' \in [Players -> SUBSET (1..MaxSeq)]
      /\ reached' = reached /\ gaveUp' = gaveUp /\ told' \subseteq Payload
  <2>1. CASE call[c].result = "exact"
    <3>1. Answer(call[c].msg, heap[live])
      BY <2>1 DEF Save
    <3>2. QED
      BY <3>1, <1>1, <1>2, AnswerTypes
  <2>2. CASE call[c].result = "surrender"
    <3>1. Announce(heap[live]) /\ UNCHANGED <<acked, reached, gaveUp>>
      BY <2>2 DEF Save
    <3>2. [winner |-> heap[live].winner, result |-> heap[live].result] \in Payload
      BY <1>2 DEF MatchState, Payload
    <3>3. QED
      BY <3>1, <3>2, <1>1 DEF Announce, TypeOK
  <2>3. CASE call[c].result \notin {"exact", "surrender"}
    <3>1. UNCHANGED seen
      BY <2>3 DEF Save
    <3>2. QED
      BY <3>1, <1>1 DEF seen, TypeOK
  <2>4. QED
    BY <2>1, <2>2, <2>3
<1>5. wire' \in Seq(Callers)
  BY <1>1, TailOfWire DEF Save
<1>6. QED
  BY <1>1, <1>3, <1>4, <1>5 DEF TInv, TypeOK, Save, world

LEMMA TInvPersist ==
  ASSUME TInv, NEW c \in Callers, Persist(c)
  PROVE  TInv'
<1>1. /\ TypeOK /\ call[c].msg \in Messages /\ call[c].snap \in MatchState
      /\ heap[call[c].at] \in MatchState
  BY DEF TInv, TypeOK, CallOK, Call, Persist
<1>2. call' \in [Callers -> Call] /\ \A d \in Callers : CallOK(call'[d], Len(heap))
  BY DoneKeeps DEF Persist
<1>3. /\ acked' \in [Players -> SUBSET (1..MaxSeq)]
      /\ reached' = reached /\ gaveUp' = gaveUp /\ told' \subseteq Payload
  <2>1. CASE call[c].msg.kind = "leave"
    BY <2>1, <1>1 DEF Persist, seen, TypeOK
  <2>2. CASE call[c].msg.kind # "leave"
    <3>1. Answer(call[c].msg, heap[call[c].at])
      BY <2>2 DEF Persist
    <3>2. QED
      BY <3>1, <1>1, AnswerTypes
  <2>3. QED
    BY <2>1, <2>2
<1>4. wire' \in Seq(Callers)
  BY <1>1, TailOfWire DEF Persist
<1>5. QED
  BY <1>1, <1>2, <1>3, <1>4 DEF TInv, TypeOK, Persist, world

\* A new process starts from nothing but what Redis holds.
LEMMA RestartedTypes ==
  ASSUME TInv, Restarted, crashes < MaxCrashes
  PROVE  /\ heap' \in Seq(MatchState) /\ live' = 0 /\ Len(heap') = 0
         /\ finalizing' \in BOOLEAN /\ wire' \in Seq(Callers) /\ redis' \in MatchState
         /\ call' \in [Callers -> Call] /\ \A d \in Callers : CallOK(call'[d], 0)
         /\ crashes' \in 0..MaxCrashes
         /\ heap' = <<>>
<1>1. CallOK(Idle, 0)
  BY DEF CallOK, Idle, Waiting, Pending
<1>2. call' \in [Callers -> Call] /\ \A d \in Callers : CallOK(call'[d], 0)
  BY <1>1, IdleType DEF Restarted
<1>3. \A d \in Callers : call[d].snap \in MatchState
  BY DEF TInv, TypeOK, Call
<1>4. redis' \in MatchState
  BY <1>3 DEF Restarted, TInv, TypeOK
<1>5. crashes' \in 0..MaxCrashes
  BY MatchAssumption DEF Restarted, TInv, TypeOK
<1>6. heap' = <<>> /\ live' = 0 /\ finalizing' = FALSE /\ wire' = <<>>
  BY DEF Restarted
<1>7. QED
  BY <1>2, <1>4, <1>5, <1>6, EmptySeq

LEMMA TInvCrash ==
  ASSUME TInv, Crash
  PROVE  TInv'
BY RestartedTypes DEF Crash, TInv, TypeOK, seen

LEMMA FaultType ==
  ASSUME TypeOK, Fault
  PROVE  faults' \in 0..MaxFaults
BY MatchAssumption DEF TypeOK, Fault

LEMMA TInvMoveFails ==
  ASSUME TInv, NEW c \in Callers, MoveFails(c)
  PROVE  TInv'
<1>1. call' \in [Callers -> Call] /\ \A d \in Callers : CallOK(call'[d], Len(heap))
  <2>1. CASE call[c].pc = "record" /\ BackOut(c)
    <3>1. call[c].msg.kind = "operation"
      BY <2>1 DEF TInv, CallOK
    <3>2. QED
      BY <2>1, <3>1, BackOutKeeps
  <2>2. CASE Done(c)
    BY <2>2, DoneKeeps
  <2>3. QED
    BY <2>1, <2>2 DEF MoveFails
<1>2. faults' \in 0..MaxFaults
  BY FaultType DEF MoveFails, TInv
<1>3. QED
  BY <1>1, <1>2 DEF TInv, TypeOK, MoveFails, store, seen

\* finalizeState throws while it works on an object.
LEMMA ThrowsTypes ==
  ASSUME TInv, NEW c \in Callers, call[c].pc \in {"find", "commit", "save"},
         NEW w \in Seq(Callers), FinalizeThrows(c, w)
  PROVE  /\ heap' \in Seq(MatchState) /\ live' \in 0..Len(heap') /\ finalizing' \in BOOLEAN
         /\ wire' \in Seq(Callers) /\ redis' \in MatchState /\ crashes' \in 0..MaxCrashes
         /\ call' \in [Callers -> Call] /\ \A d \in Callers : CallOK(call'[d], Len(heap'))
         /\ heap' # <<>> => live' # 0
<1>1. CASE c = Sweeper
  BY <1>1, RestartedTypes DEF FinalizeThrows
<1>2. CASE c # Sweeper
  <2>1. call' \in [Callers -> Call] /\ \A d \in Callers : CallOK(call'[d], Len(heap))
    <3>1. CASE call[c].result = "exact"
      <4>1. call[c].msg.kind = "operation" /\ BackOut(c)
        BY <1>2, <3>1 DEF TInv, CallOK, FinalizeThrows
      <4>2. QED
        BY <4>1, BackOutKeeps
    <3>2. CASE call[c].result # "exact"
      BY <1>2, <3>2, DoneKeeps DEF FinalizeThrows
    <3>3. QED
      BY <3>1, <3>2
  <2>2. /\ finalizing' = FALSE /\ wire' = w
        /\ UNCHANGED <<heap, live, redis, crashes>>
    BY <1>2 DEF FinalizeThrows
  <2>3. QED
    BY <2>1, <2>2 DEF TInv, TypeOK
<1>3. QED
  BY <1>1, <1>2

LEMMA TInvFinalizeFails ==
  ASSUME TInv, NEW c \in Callers, FinalizeFails(c)
  PROVE  TInv'
<1>1. call[c].pc \in {"find", "commit"} /\ FinalizeThrows(c, wire) /\ Fault
      /\ UNCHANGED <<moves, now, seen>>
  BY DEF FinalizeFails
<1>2. wire \in Seq(Callers) /\ call[c].at \in 1..Len(heap) /\ TypeOK
  BY <1>1 DEF TInv, TypeOK, CallOK
<1>3. /\ heap' \in Seq(MatchState) /\ live' \in 0..Len(heap') /\ finalizing' \in BOOLEAN
      /\ wire' \in Seq(Callers) /\ redis' \in MatchState /\ crashes' \in 0..MaxCrashes
      /\ call' \in [Callers -> Call] /\ \A d \in Callers : CallOK(call'[d], Len(heap'))
      /\ heap' # <<>> => live' # 0
  BY <1>1, <1>2, ThrowsTypes
<1>4. doc' \in MatchDoc /\ rated' \in Nat
  <2>1. CASE UNCHANGED <<doc, rated>>
    BY <2>1 DEF TInv, TypeOK
  <2>2. CASE Commits(c)
    BY <2>2, <1>2, CommitsType
  <2>3. QED
    BY <2>1, <2>2 DEF FinalizeFails
<1>5. faults' \in 0..MaxFaults
  BY <1>1, <1>2, FaultType
<1>6. QED
  BY <1>1, <1>3, <1>4, <1>5 DEF TInv, TypeOK, seen

LEMMA TInvRedisFails ==
  ASSUME TInv, NEW c \in Callers, RedisFails(c)
  PROVE  TInv'
<1>1. Fault /\ UNCHANGED <<doc, rated, moves, now, seen>> /\ TypeOK
  BY DEF RedisFails, TInv
<1>2. Tail(wire) \in Seq(Callers)
  BY <1>1, TailOfWire DEF RedisFails
<1>3. faults' \in 0..MaxFaults
  BY <1>1, FaultType
<1>4. CASE call[c].pc = "save" /\ FinalizeThrows(c, Tail(wire))
  <2>1. /\ heap' \in Seq(MatchState) /\ live' \in 0..Len(heap') /\ finalizing' \in BOOLEAN
        /\ wire' \in Seq(Callers) /\ redis' \in MatchState /\ crashes' \in 0..MaxCrashes
        /\ call' \in [Callers -> Call] /\ \A d \in Callers : CallOK(call'[d], Len(heap'))
        /\ heap' # <<>> => live' # 0
    BY <1>2, <1>4, ThrowsTypes
  <2>2. QED
    BY <1>1, <1>3, <2>1 DEF TInv, TypeOK, seen
<1>5. CASE crashes < MaxCrashes /\ Restarted
  <2>1. /\ heap' \in Seq(MatchState) /\ live' \in 0..Len(heap') /\ finalizing' \in BOOLEAN
        /\ wire' \in Seq(Callers) /\ redis' \in MatchState /\ crashes' \in 0..MaxCrashes
        /\ call' \in [Callers -> Call] /\ \A d \in Callers : CallOK(call'[d], Len(heap'))
        /\ heap' # <<>> => live' # 0
    BY <1>5, RestartedTypes
  <2>2. QED
    BY <1>1, <1>3, <2>1 DEF TInv, TypeOK, seen
<1>6. CASE /\ call[c].pc \in {"load", "persist"}
           /\ IF call[c].pc = "persist" /\ call[c].msg.kind = "operation"
              THEN BackOut(c) ELSE Done(c)
           /\ wire' = Tail(wire)
           /\ UNCHANGED <<heap, live, finalizing, redis, crashes>>
  <2>1. call' \in [Callers -> Call] /\ \A d \in Callers : CallOK(call'[d], Len(heap))
    <3>1. CASE call[c].pc = "persist" /\ call[c].msg.kind = "operation"
      BY <1>6, <3>1, BackOutKeeps
    <3>2. CASE ~(call[c].pc = "persist" /\ call[c].msg.kind = "operation")
      BY <1>6, <3>2, DoneKeeps
    <3>3. QED
      BY <3>1, <3>2
  <2>2. QED
    BY <1>1, <1>2, <1>3, <1>6, <2>1 DEF TInv, TypeOK, seen
<1>7. QED
  BY <1>4, <1>5, <1>6 DEF RedisFails, StateThrows

\* What a client sends is an operation, a surrender or a join.
LEMMA ClientMessages ==
  ASSUME NEW c \in Requests, ClientRequest(c)
  PROVE  \E msg \in Messages : /\ msg.kind \notin {"sweep", "leave"}
                               /\ Receive(c, msg) \/ StartLoad(c, msg)
<1>1. \A msg \in OperationMessages : msg \in Messages /\ msg.kind = "operation"
  BY DEF Messages, OperationMessages
<1>2. \A p \in Players : /\ Ask("surrender", p) \in Messages /\ Ask("surrender", p).kind = "surrender"
                         /\ Ask("join", p) \in Messages /\ Ask("join", p).kind = "join"
  BY DEF Messages, Ask
<1>3. Watchers \subseteq Players
  BY MatchAssumption
<1>4. QED
  BY <1>1, <1>2, <1>3 DEF ClientRequest

LEMMA TInvNext == TInv /\ [Next]_vars => TInv'
<1> SUFFICES ASSUME TInv, [Next]_vars PROVE TInv'
  OBVIOUS
<1> USE DEF Callers
<1>1. CASE Tick
  BY <1>1, TInvStutter, MatchAssumption DEF Tick, TInv, TypeOK
<1>2. CASE Sweep
  BY <1>2, TInvSweep
<1>3. CASE Crash
  BY <1>3, TInvCrash
<1>4. ASSUME NEW c \in Requests, ClientRequest(c) PROVE TInv'
  BY <1>4, ClientMessages, TInvReceive, TInvStartLoad
<1>5. ASSUME NEW c \in Requests, NEW p \in Watchers, Leave(c, p) PROVE TInv'
  BY <1>5, TInvLeave, MatchAssumption
<1>6. ASSUME NEW c \in Callers, Proceed(c) PROVE TInv'
  BY <1>6, TInvLoad, TInvRecord, TInvReject, TInvFind, TInvCommit, TInvSave, TInvPersist
     DEF Proceed
<1>7. ASSUME NEW c \in Callers, Fail(c) PROVE TInv'
  BY <1>7, TInvMoveFails, TInvFinalizeFails, TInvRedisFails DEF Fail
<1>8. CASE UNCHANGED vars
  <2>1. /\ UNCHANGED process /\ UNCHANGED store /\ UNCHANGED seen
        /\ now' \in 0..ExpiresAt /\ crashes' \in 0..MaxCrashes /\ faults' \in 0..MaxFaults
    BY <1>8 DEF vars, world, TInv, TypeOK
  <2>2. QED
    BY <2>1, TInvStutter
<1>9. QED
  BY <1>1, <1>2, <1>3, <1>4, <1>5, <1>6, <1>7, <1>8 DEF Next

\* The state keeps its types, whatever clients, clock, crashes and failures do.
THEOREM TypeCorrect == Spec => []TypeOK
<1>1. TInv => TypeOK
  BY DEF TInv
<1>2. QED
  BY TInvInit, TInvNext, <1>1, PTL DEF Spec

-----------------------------------------------------------------------------
(* Second layer: `finalizing` is a lock.                                     *)

\* A document found active is active until the finder commits.
CommitIsFresh == \A c \in Callers : call[c].pc = "commit" => doc.status = "active"

SInv == OneFinalizer /\ CommitIsFresh /\ RatedWithResult

\* Call c, outside finalizeState, goes on outside of it or enters it.
Quiet(c) ==
  \E k : /\ call' = [call EXCEPT ![c] = k] /\ k.pc \notin {"find", "commit", "save"}
         /\ finalizing' = finalizing
Enters(c) ==
  \E k : /\ call' = [call EXCEPT ![c] = k] /\ k.pc = "find"
         /\ ~finalizing /\ finalizing' = TRUE

LEMMA SInvOutside ==
  ASSUME TInv, SInv, NEW c \in Callers, ~InFinalize(c), Quiet(c) \/ Enters(c),
         UNCHANGED <<doc, rated>>
  PROVE  SInv'
<1>1. PICK k : /\ call' = [call EXCEPT ![c] = k]
               /\ \/ k.pc \notin {"find", "commit", "save"} /\ finalizing' = finalizing
                  \/ k.pc = "find" /\ ~finalizing /\ finalizing' = TRUE
  BY DEF Quiet, Enters
<1>2. \A d \in Callers : call'[d] = IF d = c THEN k ELSE call[d]
  BY <1>1 DEF TInv, TypeOK
<1>3. OneFinalizer'
  BY <1>1, <1>2 DEF SInv, OneFinalizer, InFinalize
<1>4. CommitIsFresh'
  BY <1>1, <1>2 DEF SInv, CommitIsFresh
<1>5. RatedWithResult'
  BY DEF SInv, RatedWithResult
<1>6. QED
  BY <1>3, <1>4, <1>5 DEF SInv

\* The one finalizer leaves.
LEMMA SInvLeaves ==
  ASSUME TInv, SInv, NEW c \in Callers, InFinalize(c), finalizing' = FALSE, NEW k,
         call' = [call EXCEPT ![c] = k], k.pc \notin {"find", "commit", "save"}
  PROVE  OneFinalizer' /\ CommitIsFresh'
<1>1. \A d \in Callers : call'[d] = IF d = c THEN k ELSE call[d]
  BY DEF TInv, TypeOK
<1>2. \A d \in Callers : ~InFinalize(d)'
  BY <1>1 DEF SInv, OneFinalizer, InFinalize
<1>3. QED
  BY <1>2 DEF OneFinalizer, CommitIsFresh, InFinalize

LEMMA DoneQuiet ==
  ASSUME NEW c \in Callers, Done(c), finalizing' = finalizing
  PROVE  Quiet(c)
BY DEF Done, Quiet, Idle, Waiting, Pending

LEMMA BackOutQuiet ==
  ASSUME NEW c \in Callers, BackOut(c), finalizing' = finalizing
  PROVE  Quiet(c)
BY DEF BackOut, Quiet, Waiting, Pending

LEMMA StartFinalizeEnters ==
  ASSUME NEW c, NEW msg, NEW h, NEW a, NEW w, NEW r, ~finalizing,
         StartFinalize(c, msg, h, a, w, r)
  PROVE  Enters(c)
BY DEF StartFinalize, Enters, Pending

LEMMA TimeoutLocks ==
  ASSUME NEW c \in Callers, NEW msg, NEW h, NEW a, FinalizeByTimeout(c, msg, h, a)
  PROVE  Quiet(c) \/ Enters(c)
<1>1. CASE MayFinalize(h[a])
  BY <1>1, StartFinalizeEnters DEF FinalizeByTimeout, MayFinalize
<1>2. CASE ~MayFinalize(h[a])
  BY <1>2, DoneQuiet DEF FinalizeByTimeout, Done
<1>3. QED
  BY <1>1, <1>2

LEMMA HandleLocks ==
  ASSUME NEW c \in Callers, NEW msg, NEW h, NEW a, NEW w, Handle(c, msg, h, a, w)
  PROVE  Quiet(c) \/ Enters(c)
<1>1. CASE HandleOperation(c, msg, h, a, w)
  <2>1. CASE OperationOutOfPlay(c, msg, h, a, w)
    BY <2>1, DoneQuiet DEF OperationOutOfPlay
  <2>2. CASE OperationAfterExpiry(c, msg, h, a, w)
    BY <2>2, TimeoutLocks DEF OperationAfterExpiry
  <2>3. CASE OperationRefused(c, msg, h, a, w)
    BY <2>3 DEF OperationRefused, Quiet, Waiting, Pending
  <2>4. CASE OperationAccepted(c, msg, h, a, w)
    <3> DEFINE k == Pending("record", msg, a, Nobody,
                   IF Played(h[a].players[msg.player], msg).value = Target THEN "exact" ELSE "none",
                   NewMatchState)
    <3>1. call' = [call EXCEPT ![c] = k] /\ finalizing' = finalizing
      BY <2>4 DEF OperationAccepted
    <3>2. k.pc = "record"
      BY DEF Pending
    <3> HIDE DEF k
    <3>3. QED
      BY <3>1, <3>2 DEF Quiet
  <2>5. QED
    BY <1>1, <2>1, <2>2, <2>3, <2>4 DEF HandleOperation
<1>2. CASE HandleSurrender(c, msg, h, a, w)
  <2>1. CASE h[a].status = "active" /\ MayFinalize(h[a])
    BY <1>2, <2>1, StartFinalizeEnters DEF HandleSurrender, MayFinalize
  <2>2. CASE ~(h[a].status = "active" /\ MayFinalize(h[a]))
    BY <1>2, <2>2, DoneQuiet DEF HandleSurrender
  <2>3. QED
    BY <2>1, <2>2
<1>3. CASE HandleJoin(c, msg, h, a, w)
  <2> DEFINE k == Pending("persist", msg, a, Nobody, "none",
                 WithPlayer(h[a], msg.player, [h[a].players[msg.player] EXCEPT !.connected = TRUE]))
  <2>1. call' = [call EXCEPT ![c] = k] /\ finalizing' = finalizing
    BY <1>3 DEF HandleJoin
  <2>2. k.pc = "persist"
    BY DEF Pending
  <2> HIDE DEF k
  <2>3. QED
    BY <2>1, <2>2 DEF Quiet
<1>4. QED
  BY <1>1, <1>2, <1>3 DEF Handle

LEMMA StartPersistCall ==
  ASSUME NEW c \in Callers, NEW pc, NEW h, NEW a, NEW w, StartPersist(c, pc, h, a, w)
  PROVE  \E k : call' = [call EXCEPT ![c] = k] /\ k.pc = pc
<1> DEFINE k == Pending(pc, call[c].msg, a, call[c].winner, call[c].result, h[a])
<1>1. call' = [call EXCEPT ![c] = k]
  BY DEF StartPersist
<1>2. k.pc = pc
  BY DEF Pending
<1> HIDE DEF k
<1>3. QED
  BY <1>1, <1>2

LEMMA SInvInit == Init => SInv
<1> SUFFICES ASSUME Init PROVE SInv
  OBVIOUS
<1>1. \A c \in Callers : call[c].pc = "idle"
  BY DEF Init, Idle, Waiting, Pending
<1>2. doc.status = "active" /\ rated = 0 /\ finalizing = FALSE
  BY DEF Init, NewMatchDoc
<1>3. QED
  BY <1>1, <1>2 DEF SInv, OneFinalizer, InFinalize, CommitIsFresh, RatedWithResult

LEMMA SInvRecord ==
  ASSUME TInv, SInv, NEW c \in Callers, Record(c)
  PROVE  SInv'
<1>1. ~InFinalize(c) /\ UNCHANGED <<doc, rated>>
  BY DEF Record, InFinalize
<1>2. Quiet(c) \/ Enters(c)
  <2>1. CASE call[c].result # "exact"
    <3>1. StartPersist(c, "persist", heap, call[c].at, wire) /\ finalizing' = finalizing
      BY <2>1 DEF Record
    <3>2. QED
      BY <3>1, StartPersistCall DEF Quiet
  <2>2. CASE call[c].result = "exact" /\ MayFinalize(heap[live])
    BY <2>2, StartFinalizeEnters DEF Record, MayFinalize
  <2>3. CASE call[c].result = "exact" /\ ~MayFinalize(heap[live])
    BY <2>3, DoneQuiet DEF Record
  <2>4. QED
    BY <2>1, <2>2, <2>3
<1>3. QED
  BY <1>1, <1>2, SInvOutside

\* Between finding and committing the finalizer keeps the lock to itself.
LEMMA SInvStays ==
  ASSUME TInv, SInv, NEW c \in Callers, InFinalize(c), NEW k,
         call' = [call EXCEPT ![c] = k], k.pc \in {"commit", "save"},
         finalizing' = finalizing, k.pc = "commit" => doc'.status = "active"
  PROVE  OneFinalizer' /\ CommitIsFresh'
<1>1. \A d \in Callers : call'[d] = IF d = c THEN k ELSE call[d]
  BY DEF TInv, TypeOK
<1>2. \A d \in Callers : d # c => ~InFinalize(d) /\ ~InFinalize(d)'
  BY <1>1 DEF SInv, OneFinalizer, InFinalize
<1>3. InFinalize(c)'
  BY <1>1 DEF InFinalize
<1>4. OneFinalizer'
  BY <1>2, <1>3 DEF SInv, OneFinalizer
<1>5. CommitIsFresh'
  BY <1>1, <1>2 DEF CommitIsFresh, InFinalize
<1>6. QED
  BY <1>4, <1>5

LEMMA SInvFind ==
  ASSUME TInv, SInv, NEW c \in Callers, Find(c)
  PROVE  SInv'
<1>1. InFinalize(c) /\ UNCHANGED <<doc, rated, finalizing>> /\ doc \in MatchDoc
  BY DEF Find, InFinalize, store, TInv, TypeOK
<1>2. \E k : /\ call' = [call EXCEPT ![c] = k] /\ k.pc \in {"commit", "save"}
             /\ k.pc = "commit" => doc.status = "active"
  <2>1. CASE doc.status = "finished"
    BY <2>1, StartPersistCall DEF Find
  <2>2. CASE doc.status # "finished"
    <3> DEFINE k == [call[c] EXCEPT !.pc = "commit"]
    <3>1. k.pc = "commit"
      BY DEF TInv, TypeOK, Call
    <3>2. doc.status = "active"
      BY <1>1, <2>2 DEF MatchDoc
    <3>3. call' = [call EXCEPT ![c] = k]
      BY <2>2 DEF Find
    <3> HIDE DEF k
    <3>4. QED
      BY <3>1, <3>2, <3>3
  <2>3. QED
    BY <2>1, <2>2
<1>3. OneFinalizer' /\ CommitIsFresh'
  <2>1. PICK k : /\ call' = [call EXCEPT ![c] = k] /\ k.pc \in {"commit", "save"}
                 /\ k.pc = "commit" => doc.status = "active"
    BY <1>2
  <2>2. doc' = doc /\ finalizing' = finalizing
    BY <1>1
  <2>3. k.pc = "commit" => doc'.status = "active"
    BY <2>1, <2>2
  <2>4. QED
    BY <1>1, <2>1, <2>2, <2>3, SInvStays
<1>4. QED
  BY <1>1, <1>3 DEF SInv, RatedWithResult

\* A committing call moves the ratings together with the status.
LEMMA CommitsRates ==
  ASSUME TInv, SInv, NEW c \in Callers, call[c].pc = "commit", Commits(c)
  PROVE  RatedWithResult'
<1>1. doc.status = "active" /\ rated = 0
  BY DEF SInv, CommitIsFresh, RatedWithResult
<1>2. doc'.status = "finished" /\ rated' = IF Ranked THEN rated + 1 ELSE rated
  BY DEF Commits
<1>3. QED
  BY <1>1, <1>2 DEF RatedWithResult

LEMMA SInvCommit ==
  ASSUME TInv, SInv, NEW c \in Callers, Commit(c)
  PROVE  SInv'
<1>1. RatedWithResult'
  BY CommitsRates DEF Commit
<1>2. InFinalize(c) /\ finalizing' = finalizing
  BY DEF Commit, InFinalize
<1>3. \E k : call' = [call EXCEPT ![c] = k] /\ k.pc = "save"
  BY StartPersistCall DEF Commit
<1>4. OneFinalizer' /\ CommitIsFresh'
  BY <1>2, <1>3, SInvStays
<1>5. QED
  BY <1>1, <1>4 DEF SInv

LEMMA SInvSave ==
  ASSUME TInv, SInv, NEW c \in Callers, Save(c)
  PROVE  SInv'
<1>1. /\ InFinalize(c) /\ finalizing' = FALSE /\ UNCHANGED <<doc, rated>>
      /\ call' = [call EXCEPT ![c] = Idle] /\ Idle.pc = "idle"
  BY DEF Save, InFinalize, Done, Idle, Waiting, Pending
<1>2. OneFinalizer' /\ CommitIsFresh'
  BY <1>1, SInvLeaves
<1>3. QED
  BY <1>1, <1>2 DEF SInv, RatedWithResult

\* After a restart nobody is finalizing.
LEMMA RestartedLocks ==
  ASSUME Restarted
  PROVE  OneFinalizer' /\ CommitIsFresh'
<1>1. \A c \in Callers : call'[c].pc = "idle"
  BY DEF Restarted, Idle, Waiting, Pending
<1>2. finalizing' = FALSE
  BY DEF Restarted
<1>3. QED
  BY <1>1, <1>2 DEF OneFinalizer, InFinalize, CommitIsFresh

LEMMA ThrowsLocks ==
  ASSUME TInv, SInv, NEW c \in Callers, InFinalize(c), NEW w, FinalizeThrows(c, w)
  PROVE  OneFinalizer' /\ CommitIsFresh'
<1>1. CASE c = Sweeper
  BY <1>1, RestartedLocks DEF FinalizeThrows
<1>2. CASE c # Sweeper
  <2>1. finalizing' = FALSE
    BY <1>2 DEF FinalizeThrows
  <2>2. \E k : call' = [call EXCEPT ![c] = k] /\ k.pc \notin {"find", "commit", "save"}
    <3> DEFINE back == Waiting("reject", call[c].msg, call[c].at)
    <3>1. back.pc = "reject" /\ Idle.pc = "idle"
      BY DEF Idle, Waiting, Pending
    <3>2. call' = [call EXCEPT ![c] = back] \/ call' = [call EXCEPT ![c] = Idle]
      BY <1>2 DEF FinalizeThrows, BackOut, Done
    <3> HIDE DEF back
    <3>3. QED
      BY <3>1, <3>2
  <2>3. QED
    BY <2>1, <2>2, SInvLeaves
<1>3. QED
  BY <1>1, <1>2

LEMMA SInvFail ==
  ASSUME TInv, SInv, NEW c \in Callers, Fail(c)
  PROVE  SInv'
<1>1. CASE MoveFails(c)
  <2>1. ~InFinalize(c) /\ UNCHANGED <<doc, rated, finalizing>>
    BY <1>1 DEF MoveFails, InFinalize, store
  <2>2. Quiet(c)
    BY <1>1, <2>1, DoneQuiet, BackOutQuiet DEF MoveFails
  <2>3. QED
    BY <2>1, <2>2, SInvOutside
<1>2. CASE FinalizeFails(c)
  <2>1. InFinalize(c) /\ FinalizeThrows(c, wire)
    BY <1>2 DEF FinalizeFails, InFinalize
  <2>2. RatedWithResult'
    <3>1. CASE UNCHANGED <<doc, rated>>
      BY <3>1 DEF SInv, RatedWithResult
    <3>2. CASE call[c].pc = "commit" /\ Commits(c)
      BY <3>2, CommitsRates
    <3>3. QED
      BY <1>2, <3>1, <3>2 DEF FinalizeFails
  <2>3. QED
    BY <2>1, <2>2, ThrowsLocks DEF SInv
<1>3. CASE RedisFails(c)
  <2>1. UNCHANGED <<doc, rated>>
    BY <1>3 DEF RedisFails
  <2>2. CASE call[c].pc = "save" /\ FinalizeThrows(c, Tail(wire))
    BY <2>1, <2>2, ThrowsLocks DEF SInv, RatedWithResult, InFinalize
  <2>3. CASE /\ call[c].pc \in {"load", "persist"}
             /\ BackOut(c) \/ Done(c)
             /\ finalizing' = finalizing
    <3>1. ~InFinalize(c)
      BY <2>3 DEF InFinalize
    <3>2. Quiet(c)
      BY <2>3, DoneQuiet, BackOutQuiet
    <3>3. QED
      BY <2>1, <3>1, <3>2, SInvOutside
  <2>4. CASE Restarted
    BY <2>1, <2>4, RestartedLocks DEF SInv, RatedWithResult
  <2>5. QED
    BY <1>3, <2>2, <2>3, <2>4 DEF RedisFails, StateThrows
<1>4. QED
  BY <1>1, <1>2, <1>3 DEF Fail

LEMMA SInvNext == TInv /\ SInv /\ [Next]_vars => SInv'
<1> SUFFICES ASSUME TInv, SInv, [Next]_vars PROVE SInv'
  OBVIOUS
<1> USE DEF Callers
<1>1. CASE UNCHANGED <<call, finalizing, doc, rated>>
  BY <1>1 DEF SInv, OneFinalizer, InFinalize, CommitIsFresh, RatedWithResult
<1>2. CASE Sweep
  <2>1. ~InFinalize(Sweeper) /\ UNCHANGED <<doc, rated>>
    BY <1>2 DEF Sweep, InFinalize, store
  <2>2. Quiet(Sweeper) \/ Enters(Sweeper)
    BY <1>2, TimeoutLocks DEF Sweep
  <2>3. QED
    BY <2>1, <2>2, SInvOutside
<1>3. CASE Crash
  BY <1>3, RestartedLocks DEF Crash, SInv, RatedWithResult
<1>4. ASSUME NEW c \in Requests, NEW msg \in Messages, Receive(c, msg) PROVE SInv'
  <2>1. ~InFinalize(c) /\ UNCHANGED <<doc, rated>>
    BY <1>4 DEF Receive, InFinalize, store
  <2>2. Quiet(c) \/ Enters(c)
    BY <1>4, HandleLocks DEF Receive
  <2>3. QED
    BY <2>1, <2>2, SInvOutside
<1>5. ASSUME NEW c \in Requests, NEW msg \in Messages, StartLoad(c, msg) PROVE SInv'
  <2>1. ~InFinalize(c) /\ UNCHANGED <<doc, rated>>
    BY <1>5 DEF StartLoad, InFinalize, store
  <2>2. Quiet(c)
    BY <1>5 DEF StartLoad, Quiet, Waiting, Pending
  <2>3. QED
    BY <2>1, <2>2, SInvOutside
<1>6. ASSUME NEW c \in Requests, NEW p \in Watchers, Leave(c, p) PROVE SInv'
  <2>1. ~InFinalize(c) /\ UNCHANGED <<doc, rated>>
    BY <1>6 DEF Leave, InFinalize, store
  <2>2. Quiet(c)
    <3> DEFINE k == Pending("persist", Ask("leave", p), live, Nobody, "none",
                 WithPlayer(heap[live], p, [heap[live].players[p] EXCEPT !.connected = FALSE]))
    <3>1. call' = [call EXCEPT ![c] = k] /\ finalizing' = finalizing
      BY <1>6 DEF Leave
    <3>2. k.pc = "persist"
      BY DEF Pending
    <3> HIDE DEF k
    <3>3. QED
      BY <3>1, <3>2 DEF Quiet
  <2>3. QED
    BY <2>1, <2>2, SInvOutside
<1>7. ASSUME NEW c \in Callers, Load(c) PROVE SInv'
  <2>1. ~InFinalize(c) /\ UNCHANGED <<doc, rated>>
    BY <1>7 DEF Load, InFinalize, store
  <2>2. Quiet(c) \/ Enters(c)
    BY <1>7, HandleLocks DEF Load
  <2>3. QED
    BY <2>1, <2>2, SInvOutside
<1>8. ASSUME NEW c \in Callers, Reject(c) \/ Persist(c) PROVE SInv'
  <2>1. ~InFinalize(c) /\ UNCHANGED <<doc, rated>> /\ Done(c) /\ finalizing' = finalizing
    BY <1>8 DEF Reject, Persist, InFinalize
  <2>2. QED
    BY <2>1, DoneQuiet, SInvOutside
<1>9. ASSUME NEW c \in Callers, Proceed(c) PROVE SInv'
  BY <1>7, <1>8, <1>9, SInvRecord, SInvFind, SInvCommit, SInvSave DEF Proceed
<1>10. ASSUME NEW c \in Callers, Fail(c) PROVE SInv'
  BY <1>10, SInvFail
<1>11. ASSUME NEW c \in Requests, ClientRequest(c) PROVE SInv'
  BY <1>4, <1>5, <1>11, ClientMessages
<1>12. CASE Tick \/ UNCHANGED vars
  BY <1>1, <1>12 DEF Tick, vars, process, store
<1>13. QED
  BY <1>2, <1>3, <1>6, <1>9, <1>10, <1>11, <1>12 DEF Next

\* Exactly one caller at a time is between finalizing.add and
\* finalizing.delete, in every interleaving of sweeps, operations and surrenders.
THEOREM FinalizersExclude == Spec => []OneFinalizer
<1>1. SInv => OneFinalizer
  BY DEF SInv
<1>2. QED
  BY TInvInit, TInvNext, SInvInit, SInvNext, <1>1, PTL DEF Spec

\* The ratings of a ranked match are updated once, with its result, over any
\* number of crashes and failing calls.
THEOREM RatedOnce == Spec => []RatedWithResult
<1>1. SInv => RatedWithResult
  BY DEF SInv
<1>2. QED
  BY TInvInit, TInvNext, SInvInit, SInvNext, <1>1, PTL DEF Spec

-----------------------------------------------------------------------------
(* What a handler does, as far as the next layers need it.                    *)

\* What a message or a document says of a match.
Says(s) == [winner |-> s.winner, result |-> s.result]

\* A match state s may become t: once it is finished only the connections of
\* its players change, and an accepted number is never taken back.
Becomes(s, t) ==
  /\ s.status = "finished" =>
       /\ t.status = "finished" /\ t.winner = s.winner /\ t.result = s.result
       /\ \A p \in Players :
            [t.players[p] EXCEPT !.connected = TRUE] = [s.players[p] EXCEPT !.connected = TRUE]
  /\ \A p \in Players : s.players[p].seq <= t.players[p].seq

\* The heap goes on from h: no object is lost, each becomes what it may.
HeapGoesOn(h) ==
  Len(h) <= Len(heap') /\ \A a \in 1..Len(h) : Becomes(h[a], heap'[a])

\* At most one player hits the target or gives up.
Claims ==
  \/ UNCHANGED <<reached, gaveUp>>
  \/ \E p \in Players : reached' = reached \cup {p} /\ gaveUp' = gaveUp
  \/ \E p \in Players : gaveUp' = gaveUp \cup {p} /\ reached' = reached

\* The reason MatchLifecycle asks for, found in the match state s, when the
\* players in hit hit the target, those in gone gave up, and it is t o'clock.
Evidence(s, hit, gone, t) ==
  LET away(p) == Distance(Target, s.players[p].value)
  IN  \/ s.result = "exact" /\ s.winner \in hit
      \/ s.result = "surrender" /\ s.winner \in Players /\ Players \ {s.winner} \subseteq gone
      \/ /\ s.result = "closest" /\ t >= ExpiresAt /\ s.winner \in Players
         /\ \A p \in Players \ {s.winner} : away(s.winner) < away(p)
      \/ /\ s.result = "draw" /\ t >= ExpiresAt /\ s.winner = Nobody
         /\ \A p, q \in Players : away(p) = away(q)

\* Call c, which found object a in the heap h, goes on as k.
Turn(c, k, msg, h, a, w) ==
  /\ call' = [call EXCEPT ![c] = k]
  /\ k.pc \in {"idle", "reject", "record", "find", "persist"}
  /\ k.pc # "idle" => k.msg = msg /\ k.at = a
  /\ \A b \in 1..Len(h) : b # a => heap'[b] = h[b]
  /\ Becomes(h[a], heap'[a])
  /\ wire' = IF k.pc = "persist" THEN Append(w, c) ELSE w
  /\ acked' = acked
  /\ \/ told' = told
     \/ told' = told \cup {Says(h[a])} /\ (h[a].status # "active" \/ finalizing)
  /\ Claims

\* It finishes the object, or leaves the status as it was.
Decides(k, h, a) ==
  IF k.pc = "find"
  THEN /\ h[a].status = "active" /\ ~finalizing /\ finalizing' = TRUE
       /\ heap'[a].status = "finished" /\ Says(heap'[a]) = Says(k) /\ k.result # "exact"
       /\ Evidence(heap'[a], reached', gaveUp', now)
       /\ told' = told
  ELSE /\ heap'[a].status = h[a].status /\ Says(heap'[a]) = Says(h[a])
       /\ finalizing' = finalizing

\* An accepted operation, and a state on its way to Redis.
Accepts(k, h, a) ==
  k.pc = "record" =>
    /\ k.msg.kind = "operation"
    /\ k.msg.seq > h[a].players[k.msg.player].seq
    /\ heap'[a].players[k.msg.player].seq = k.msg.seq
    /\ k.result = "exact" => k.msg.player \in reached'
Stores(k, a) ==
  k.pc = "persist" => k.snap = heap'[a] /\ k.msg.kind = "join"

Turns(c, msg, h, a, w) ==
  \E k : Turn(c, k, msg, h, a, w) /\ Decides(k, h, a) /\ Accepts(k, h, a) /\ Stores(k, a)

\* A match that time ends has the winner the numbers give.
LEMMA TimeoutEvidence ==
  ASSUME NEW s \in MatchState, NEW hit, NEW gone, NEW t \in Nat, t >= ExpiresAt
  PROVE  Evidence(Finished(s, TimeoutWinner(s), TimeoutResult(s)), hit, gone, t)
<1> DEFINE a == CHOOSE p \in Players : TRUE
           b == CHOOSE p \in Players : p # a
           f == Finished(s, TimeoutWinner(s), TimeoutResult(s))
           away(p) == Distance(Target, s.players[p].value)
<1>1. a \in Players
  BY MatchAssumption
<1>2. b \in Players /\ a # b /\ Players = {a, b}
  BY <1>1, TheOther
<1>3. Nobody \notin Players
  BY MatchAssumption
<1>4. away(a) \in Int /\ away(b) \in Int
  <2>1. s.players[a].value \in Nat /\ s.players[b].value \in Nat
    BY <1>1, <1>2 DEF MatchState, PlayerState
  <2>2. QED
    BY <2>1, MatchAssumption DEF Distance
<1>5. TimeoutWinner(s) = IF away(a) < away(b) THEN a ELSE IF away(b) < away(a) THEN b ELSE Nobody
  BY DEF TimeoutWinner, ResolveClosestWinner
<1>6. f.winner = TimeoutWinner(s) /\ f.players = s.players
      /\ f.result = IF TimeoutWinner(s) = Nobody THEN "draw" ELSE "closest"
  BY DEF Finished, TimeoutResult
<1>7. \A p \in Players : Distance(Target, f.players[p].value) = away(p)
  BY <1>6
<1> HIDE DEF a, b, f, away
<1>8. CASE away(a) < away(b)
  BY <1>1, <1>2, <1>3, <1>4, <1>5, <1>6, <1>7, <1>8 DEF Evidence, f
<1>9. CASE away(b) < away(a)
  BY <1>1, <1>2, <1>3, <1>4, <1>5, <1>6, <1>7, <1>9 DEF Evidence, f
<1>10. CASE away(a) = away(b)
  BY <1>1, <1>2, <1>3, <1>4, <1>5, <1>6, <1>7, <1>10 DEF Evidence, f
<1>11. QED
  BY <1>4, <1>8, <1>9, <1>10

\* An object stays what it is, or an unfinished one changes and keeps its numbers.
LEMMA BecomesItself ==
  ASSUME NEW s \in MatchState
  PROVE  Becomes(s, s)
<1>1. \A p \in Players : s.players[p].seq \in Int
  BY MatchAssumption DEF MatchState, PlayerState
<1>2. QED
  BY <1>1 DEF Becomes

LEMMA BecomesFinished ==
  ASSUME NEW s \in MatchState, s.status = "active", NEW w, NEW r
  PROVE  Becomes(s, Finished(s, w, r))
<1>1. \A p \in Players : s.players[p].seq \in Int
  BY MatchAssumption DEF MatchState, PlayerState
<1>2. QED
  BY <1>1 DEF Becomes, Finished

\* A player of an unfinished match changes.
LEMMA BecomesPlayed ==
  ASSUME NEW s \in MatchState, NEW p \in Players, NEW ps \in PlayerState,
         s.players[p].seq <= ps.seq, s.status = "active"
  PROVE  /\ Becomes(s, WithPlayer(s, p, ps))
         /\ WithPlayer(s, p, ps).players[p] = ps
         /\ WithPlayer(s, p, ps).status = s.status
         /\ Says(WithPlayer(s, p, ps)) = Says(s)
<1> DEFINE t == WithPlayer(s, p, ps)
<1>1. \A q \in Players : s.players[q] \in PlayerState /\ s.players[q].seq \in Int
  BY MatchAssumption DEF MatchState, PlayerState
<1>2. /\ t.status = s.status /\ t.winner = s.winner /\ t.result = s.result
      /\ \A q \in Players : t.players[q] = IF q = p THEN ps ELSE s.players[q]
  BY DEF WithPlayer, MatchState
<1> HIDE DEF t
<1>3. \A q \in Players : s.players[q].seq <= t.players[q].seq
  BY <1>1, <1>2
<1>4. Becomes(s, t)
  BY <1>2, <1>3 DEF Becomes
<1>5. QED
  BY <1>2, <1>4 DEF Says, t

\* A player comes or goes, whatever the state of the match.
LEMMA BecomesConnected ==
  ASSUME NEW s \in MatchState, NEW p \in Players, NEW on \in BOOLEAN
  PROVE  LET t == WithPlayer(s, p, [s.players[p] EXCEPT !.connected = on])
         IN  t \in MatchState /\ Becomes(s, t) /\ t.status = s.status /\ Says(t) = Says(s)
<1> DEFINE ps == [s.players[p] EXCEPT !.connected = on]
           t == WithPlayer(s, p, ps)
<1>1. \A q \in Players : s.players[q] \in PlayerState /\ s.players[q].seq \in Int
  BY MatchAssumption DEF MatchState, PlayerState
<1>2. ps \in PlayerState /\ ps.seq = s.players[p].seq
  BY <1>1 DEF PlayerState
<1>9. [ps EXCEPT !.connected = TRUE] = [s.players[p] EXCEPT !.connected = TRUE]
  BY <1>1 DEF PlayerState
<1>3. /\ t.status = s.status /\ t.winner = s.winner /\ t.result = s.result
      /\ \A q \in Players : t.players[q] = IF q = p THEN ps ELSE s.players[q]
  BY DEF WithPlayer, MatchState
<1>4. t \in MatchState
  BY <1>2, WithPlayerType
<1> HIDE DEF t, ps
<1>5. \A q \in Players : s.players[q].seq <= t.players[q].seq
  BY <1>1, <1>2, <1>3
<1>6. ASSUME NEW q \in Players
      PROVE  [t.players[q] EXCEPT !.connected = TRUE] = [s.players[q] EXCEPT !.connected = TRUE]
  <2>1. CASE q = p
    BY <2>1, <1>9, <1>3
  <2>2. CASE q # p
    BY <2>2, <1>3
  <2>3. QED
    BY <2>1, <2>2
<1>7. Becomes(s, t)
  BY <1>3, <1>5, <1>6 DEF Becomes
<1>8. QED
  BY <1>3, <1>4, <1>7 DEF Says, t, ps

\* finalizeState decides, and tells nobody before its first await.
LEMMA StartFinalizeTurns ==
  ASSUME TypeOK, NEW c \in Callers, NEW msg, NEW h \in Seq(MatchState), NEW g \in Seq(MatchState),
         NEW a \in 1..Len(h), NEW winner, NEW result,
         Len(g) = Len(h), \A b \in 1..Len(h) : b # a => g[b] = h[b],
         h[a].status = "active", g[a].status = "active", Becomes(h[a], g[a]),
         ~finalizing, result # "exact",
         StartFinalize(c, msg, g, a, winner, result),
         acked' = acked, told' = told, Claims,
         Evidence(Finished(g[a], winner, result), reached', gaveUp', now),
         NEW w, wire' = w
  PROVE  Turns(c, msg, h, a, w)
<1> DEFINE k == Pending("find", msg, a, winner, result, NewMatchState)
           f == Finished(g[a], winner, result)
<1>1. /\ call' = [call EXCEPT ![c] = k] /\ finalizing' = TRUE /\ heap' = [g EXCEPT ![a] = f]
  BY DEF StartFinalize
<1>2. k.pc = "find" /\ k.msg = msg /\ k.at = a /\ k.winner = winner /\ k.result = result
  BY DEF Pending
<1>3. f.status = "finished" /\ f.winner = winner /\ f.result = result /\ f.players = g[a].players
  BY DEF Finished
<1>4. a \in DOMAIN g /\ g[a] \in MatchState /\ h[a] \in MatchState
  OBVIOUS
<1>5. heap'[a] = f /\ \A b \in 1..Len(h) : b # a => heap'[b] = h[b]
  BY <1>1, <1>4
<1> HIDE DEF k, f
<1>6. Becomes(h[a], heap'[a])
  BY <1>3, <1>5 DEF Becomes
<1>7. Turn(c, k, msg, h, a, w)
  BY <1>1, <1>2, <1>5, <1>6 DEF Turn
<1>8. Evidence(heap'[a], reached', gaveUp', now)
  BY <1>5 DEF f
<1>9. Decides(k, h, a)
  BY <1>1, <1>2, <1>3, <1>5, <1>8 DEF Decides, Says
<1>10. QED
  BY <1>2, <1>7, <1>9 DEF Accepts, Stores, Turns

\* The rest of the turns change one object, or none, and leave its status.
LEMMA PlainTurns ==
  ASSUME NEW c, NEW k, NEW msg, NEW h \in Seq(MatchState), NEW a \in 1..Len(h), NEW w, NEW s,
         call' = [call EXCEPT ![c] = k],
         k.pc \in {"idle", "reject", "record", "persist"},
         k.pc # "idle" => k.msg = msg /\ k.at = a,
         heap' = [h EXCEPT ![a] = s],
         Becomes(h[a], s), s.status = h[a].status, Says(s) = Says(h[a]),
         wire' = IF k.pc = "persist" THEN Append(w, c) ELSE w,
         acked' = acked, finalizing' = finalizing, Claims,
         \/ told' = told
         \/ told' = told \cup {Says(h[a])} /\ (h[a].status # "active" \/ finalizing),
         k.pc = "record" =>
           /\ k.msg.kind = "operation"
           /\ k.msg.seq > h[a].players[k.msg.player].seq
           /\ s.players[k.msg.player].seq = k.msg.seq
           /\ k.result = "exact" => k.msg.player \in reached',
         k.pc = "persist" => k.snap = s /\ k.msg.kind = "join"
  PROVE  Turns(c, msg, h, a, w)
<1>1. heap'[a] = s /\ \A b \in 1..Len(h) : b # a => heap'[b] = h[b]
  OBVIOUS
<1>2. Turn(c, k, msg, h, a, w)
  BY <1>1 DEF Turn
<1>3. Decides(k, h, a)
  BY <1>1 DEF Decides
<1>4. Accepts(k, h, a)
  BY <1>1 DEF Accepts
<1>5. Stores(k, a)
  BY <1>1 DEF Stores
<1>6. QED
  BY <1>2, <1>3, <1>4, <1>5 DEF Turns

\* A handler that changes nothing, and tells at most how the match ended.
LEMMA IdleTurns ==
  ASSUME TypeOK, NEW c \in Callers, NEW msg, NEW h \in Seq(MatchState), NEW a \in 1..Len(h), NEW w,
         Done(c), heap' = h, wire' = w, finalizing' = finalizing, acked' = acked,
         \/ told' = told
         \/ told' = told \cup {Says(h[a])} /\ (h[a].status # "active" \/ finalizing),
         UNCHANGED <<reached, gaveUp>>
  PROVE  Turns(c, msg, h, a, w)
<1>1. h[a] \in MatchState /\ h = [h EXCEPT ![a] = h[a]]
  OBVIOUS
<1>2. Becomes(h[a], h[a])
  BY <1>1, BecomesItself
<1>3. Idle.pc = "idle" /\ call' = [call EXCEPT ![c] = Idle]
  BY DEF Done, Idle, Waiting, Pending
<1>4. Claims
  BY DEF Claims
<1> HIDE DEF Done
<1>5. QED
  BY <1>1, <1>2, <1>3, <1>4, PlainTurns

LEMMA TimeoutTurns ==
  ASSUME TypeOK, NEW c \in Callers, NEW msg, NEW h \in Seq(MatchState), NEW a \in 1..Len(h), NEW w,
         now >= ExpiresAt, FinalizeByTimeout(c, msg, h, a),
         wire' = w, UNCHANGED seen
  PROVE  Turns(c, msg, h, a, w)
<1>1. h[a] \in MatchState /\ now \in Nat /\ UNCHANGED <<acked, reached, gaveUp, told>>
  BY MatchAssumption DEF seen, TypeOK
<1>2. CASE MayFinalize(h[a])
  <2>1. StartFinalize(c, msg, h, a, TimeoutWinner(h[a]), TimeoutResult(h[a]))
    BY <1>2 DEF FinalizeByTimeout
  <2>2. Evidence(Finished(h[a], TimeoutWinner(h[a]), TimeoutResult(h[a])), reached', gaveUp', now)
    BY <1>1, TimeoutEvidence
  <2>3. Becomes(h[a], h[a])
    BY <1>1, BecomesItself
  <2>4. TimeoutResult(h[a]) # "exact"
    BY DEF TimeoutResult
  <2>5. Claims
    BY <1>1 DEF Claims
  <2>6. QED
    BY <1>1, <1>2, <2>1, <2>2, <2>3, <2>4, <2>5, StartFinalizeTurns DEF MayFinalize
<1>3. CASE ~MayFinalize(h[a])
  <2>1. Done(c) /\ heap' = h /\ finalizing' = finalizing
    BY <1>3 DEF FinalizeByTimeout, Done
  <2>2. QED
    BY <1>1, <2>1, IdleTurns
<1>4. QED
  BY <1>2, <1>3

LEMMA OperationTurns ==
  ASSUME TypeOK, NEW c \in Callers, NEW msg \in OperationMessages, msg.kind = "operation",
         NEW h \in Seq(MatchState), NEW a \in 1..Len(h), NEW w,
         HandleOperation(c, msg, h, a, w)
  PROVE  Turns(c, msg, h, a, w) /\ live' = a
<1> DEFINE p == msg.player
           ps == h[a].players[p]
<1>1. /\ h[a] \in MatchState /\ p \in Players /\ ps \in PlayerState /\ now \in Nat
      /\ ps.seq \in Int /\ msg.seq \in Int /\ h = [h EXCEPT ![a] = h[a]]
  <2>1. h[a] \in MatchState /\ h = [h EXCEPT ![a] = h[a]]
    OBVIOUS
  <2>2. p \in Players /\ msg.seq \in Int /\ now \in Nat
    BY MatchAssumption DEF OperationMessages, TypeOK
  <2>3. ps \in PlayerState
    BY <2>1, <2>2 DEF MatchState
  <2>4. ps.seq \in Int
    BY <2>3, MatchAssumption DEF PlayerState
  <2>5. QED
    BY <2>1, <2>2, <2>3, <2>4
<1>2. CASE OperationOutOfPlay(c, msg, h, a, w)
  BY <1>2, IdleTurns DEF OperationOutOfPlay, seen
<1>3. CASE OperationAfterExpiry(c, msg, h, a, w)
  BY <1>3, TimeoutTurns DEF OperationAfterExpiry
<1>4. CASE OperationRefused(c, msg, h, a, w)
  <2> DEFINE k == Waiting("reject", msg, a)
  <2>1. k.pc = "reject" /\ k.msg = msg /\ k.at = a
    BY DEF Waiting, Pending
  <2>2. /\ call' = [call EXCEPT ![c] = k] /\ heap' = h /\ live' = a /\ wire' = w
        /\ UNCHANGED <<finalizing, acked, reached, gaveUp, told>>
    BY <1>4 DEF OperationRefused, seen
  <2>3. Claims
    BY <2>2 DEF Claims
  <2>4. Becomes(h[a], h[a])
    BY <1>1, BecomesItself
  <2> HIDE DEF k
  <2>5. QED
    BY <1>1, <2>1, <2>2, <2>3, <2>4, PlainTurns
<1>5. CASE OperationAccepted(c, msg, h, a, w)
  <2> DEFINE next == Played(ps, msg)
             k == Pending("record", msg, a, Nobody,
                          IF next.value = Target THEN "exact" ELSE "none", NewMatchState)
             s == WithPlayer(h[a], p, next)
  <2>1. /\ h[a].status = "active" /\ msg.seq > ps.seq /\ Playable(ps, msg.op)
        /\ heap' = [h EXCEPT ![a] = s] /\ live' = a /\ wire' = w
        /\ call' = [call EXCEPT ![c] = k]
        /\ reached' = IF next.value = Target THEN reached \cup {p} ELSE reached
        /\ UNCHANGED <<finalizing, acked, gaveUp, told>>
    BY <1>5 DEF OperationAccepted, InPlay
  <2>2. next \in PlayerState /\ next.seq = msg.seq
    BY <1>1, <2>1, PlayedType DEF Played
  <2> HIDE DEF next, ps
  <2>3. ps.seq <= next.seq
    BY <1>1, <2>1, <2>2
  <2>4. k.pc = "record" /\ k.msg = msg /\ k.at = a
        /\ k.result = IF next.value = Target THEN "exact" ELSE "none"
    BY DEF Pending
  <2>5. Becomes(h[a], s) /\ s.players[p] = next /\ s.status = h[a].status /\ Says(s) = Says(h[a])
    <3> HIDE DEF p
    <3>1. h[a].players[p].seq <= next.seq
      BY <2>3 DEF ps
    <3>2. QED
      BY <1>1, <2>1, <2>2, <3>1, BecomesPlayed
  <2>6. Claims
    BY <1>1, <2>1 DEF Claims
  <2> HIDE DEF k, s
  <2>7. /\ k.msg.kind = "operation"
        /\ k.msg.seq > h[a].players[k.msg.player].seq
        /\ s.players[k.msg.player].seq = k.msg.seq
        /\ k.result = "exact" => k.msg.player \in reached'
    BY <2>1, <2>2, <2>4, <2>5 DEF ps
  <2>8. QED
    BY <1>1, <2>1, <2>4, <2>5, <2>6, <2>7, PlainTurns
<1>6. QED
  BY <1>2, <1>3, <1>4, <1>5 DEF HandleOperation, OperationOutOfPlay, OperationAfterExpiry

LEMMA SurrenderTurns ==
  ASSUME TypeOK, NEW c \in Callers, NEW msg, msg.player \in Players,
         NEW h \in Seq(MatchState), NEW a \in 1..Len(h), NEW w,
         HandleSurrender(c, msg, h, a, w)
  PROVE  Turns(c, msg, h, a, w) /\ live' = a
<1> DEFINE p == msg.player
           ps == [h[a].players[p] EXCEPT !.surrendered = TRUE]
           s == WithPlayer(h[a], p, ps)
           given == [h EXCEPT ![a] = s]
<1>1. /\ live' = a /\ wire' = w /\ acked' = acked /\ reached' = reached
      /\ h[a] \in MatchState /\ h[a].players[p] \in PlayerState /\ h[a].players[p].seq \in Int
  <2>1. live' = a /\ wire' = w /\ acked' = acked /\ reached' = reached
    BY DEF HandleSurrender
  <2>2. h[a] \in MatchState
    OBVIOUS
  <2>3. h[a].players[p] \in PlayerState
    BY <2>2 DEF MatchState
  <2>4. h[a].players[p].seq \in Int
    BY <2>3, MatchAssumption DEF PlayerState
  <2>5. QED
    BY <2>1, <2>2, <2>3, <2>4
<1>2. CASE h[a].status # "active"
  <2>1. Done(c) /\ heap' = h /\ finalizing' = finalizing /\ UNCHANGED <<reached, gaveUp>>
        /\ told' = told \cup {Says(h[a])}
    BY <1>1, <1>2 DEF HandleSurrender, Announce, Says
  <2>2. QED
    BY <1>1, <1>2, <2>1, IdleTurns
<1>3. CASE h[a].status = "active"
  <2>1. gaveUp' = gaveUp \cup {p} /\ Claims
    BY <1>1, <1>3 DEF HandleSurrender, Claims
  <2>2. ps \in PlayerState /\ h[a].players[p].seq <= ps.seq
    <3>1. ps \in PlayerState /\ ps.seq = h[a].players[p].seq
      BY <1>1 DEF PlayerState
    <3>2. QED
      BY <3>1, <1>1
  <2> HIDE DEF ps
  <2>3. s \in MatchState /\ Becomes(h[a], s) /\ s.status = h[a].status /\ Says(s) = Says(h[a])
    BY <1>1, <1>3, <2>2, BecomesPlayed, WithPlayerType
  <2> HIDE DEF s
  <2>4. /\ given \in Seq(MatchState) /\ Len(given) = Len(h) /\ given[a] = s
        /\ \A b \in 1..Len(h) : b # a => given[b] = h[b]
    BY <2>3, HeapUpdate
  <2>5. CASE MayFinalize(h[a])
    <3> DEFINE q == CHOOSE r \in Players : r # p
    <3>1. StartFinalize(c, msg, given, a, q, "surrender") /\ told' = told
      BY <1>3, <2>5 DEF HandleSurrender, s, ps
    <3> HIDE DEF given
    <3>2. q \in Players /\ Players \ {q} = {p}
      BY TheOther
    <3> HIDE DEF q
    <3>3. Evidence(Finished(given[a], q, "surrender"), reached', gaveUp', now)
      BY <2>1, <3>2 DEF Evidence, Finished
    <3>4. ~finalizing
      BY <2>5 DEF MayFinalize
    <3>5. given[a].status = "active" /\ Becomes(h[a], given[a])
      BY <1>3, <2>3, <2>4
    <3>6. QED
      BY <1>1, <1>3, <2>1, <2>4, <3>1, <3>3, <3>4, <3>5, StartFinalizeTurns
  <2>6. CASE ~MayFinalize(h[a])
    <3>1. Done(c) /\ heap' = given /\ finalizing' = finalizing
          /\ told' = told \cup {Says(h[a])}
      BY <1>3, <2>6 DEF HandleSurrender, Announce, Says, s, ps
    <3>2. finalizing
      BY <1>3, <2>6 DEF MayFinalize
    <3>3. Idle.pc = "idle" /\ call' = [call EXCEPT ![c] = Idle]
      BY <3>1 DEF Done, Idle, Waiting, Pending
    <3>4. QED
      BY <1>1, <2>1, <2>3, <3>1, <3>2, <3>3, PlainTurns
  <2>7. QED
    BY <2>5, <2>6
<1>4. QED
  BY <1>2, <1>3

LEMMA JoinTurns ==
  ASSUME TypeOK, NEW c \in Callers, NEW msg, msg.player \in Players, msg.kind = "join",
         NEW h \in Seq(MatchState), NEW a \in 1..Len(h), NEW w,
         HandleJoin(c, msg, h, a, w)
  PROVE  Turns(c, msg, h, a, w) /\ live' = a
<1> DEFINE p == msg.player
           s == WithPlayer(h[a], p, [h[a].players[p] EXCEPT !.connected = TRUE])
           k == Pending("persist", msg, a, Nobody, "none", s)
<1>1. /\ heap' = [h EXCEPT ![a] = s] /\ live' = a /\ wire' = Append(w, c)
      /\ call' = [call EXCEPT ![c] = k]
      /\ UNCHANGED <<finalizing, acked, reached, gaveUp, told>>
  BY DEF HandleJoin, seen
<1>2. h[a] \in MatchState /\ TRUE \in BOOLEAN
  OBVIOUS
<1>3. Becomes(h[a], s) /\ s.status = h[a].status /\ Says(s) = Says(h[a])
  BY <1>2, BecomesConnected
<1> HIDE DEF s
<1>4. k.pc = "persist" /\ k.msg = msg /\ k.at = a /\ k.snap = s
  BY DEF Pending
<1> HIDE DEF k
<1>5. Claims
  BY <1>1 DEF Claims
<1>6. QED
  BY <1>1, <1>3, <1>4, <1>5, PlainTurns

\* Every handler takes such a turn with the object it found.
LEMMA HandleTurns ==
  ASSUME TypeOK, NEW c \in Callers, NEW msg \in Messages, NEW h \in Seq(MatchState),
         NEW a \in 1..Len(h), NEW w, Handle(c, msg, h, a, w)
  PROVE  Turns(c, msg, h, a, w) /\ live' = a
<1>1. msg.player \in Players /\ (msg.kind = "operation" => msg \in OperationMessages)
  BY MessageKinds DEF Handle
<1>2. QED
  BY <1>1, OperationTurns, SurrenderTurns, JoinTurns DEF Handle

\* So does the timer.
LEMMA SweepTurns ==
  ASSUME TInv, Sweep
  PROVE  Turns(Sweeper, SweepMessage, heap, live, wire) /\ live' = live
<1>1. TypeOK /\ heap \in Seq(MatchState) /\ live \in 1..Len(heap) /\ Sweeper \in Callers
  BY DEF TInv, TypeOK, Sweep, Callers
<1>2. QED
  BY <1>1, TimeoutTurns DEF Sweep

-----------------------------------------------------------------------------
(* Third layer: what is claimed has been earned.                             *)

\* A call k is backed by the heap h, the move log m, and the players who hit
\* the target or gave up by t o'clock: an operation that claims to have hit
\* the target did, a finalizer works on an object that is finished as it says
\* and for a reason, and what is about to be acknowledged is in the log.
Ending(k) == k.pc \in {"find", "commit", "save"}
Confirmed(k) ==
  k.msg.kind = "operation" /\ (k.pc = "persist" \/ (Ending(k) /\ k.result = "exact"))
Backed(k, h, m, hit, gone, t) ==
  /\ k.pc = "record" /\ k.result = "exact" => k.msg.player \in hit
  /\ Ending(k) =>
       /\ h[k.at].status = "finished" /\ Says(h[k.at]) = Says(k)
       /\ Evidence(h[k.at], hit, gone, t)
  /\ Confirmed(k) => m[k.msg.player][k.msg.seq] # "none"

EInv ==
  /\ AcknowledgedIsLogged
  /\ \A c \in Callers : Backed(call[c], heap, moves, reached, gaveUp, now)

\* Outside of a restart nothing of this is taken back.
LogGrows ==
  \A p \in Players : \A s \in 1..MaxSeq : moves[p][s] # "none" => moves'[p][s] # "none"
Grows ==
  /\ HeapGoesOn(heap) /\ LogGrows
  /\ reached \subseteq reached' /\ gaveUp \subseteq gaveUp' /\ now <= now'

LEMMA EvidenceLasts ==
  ASSUME NEW s \in MatchState, NEW t \in MatchState, s.status = "finished", Becomes(s, t),
         NEW hit, NEW hit2, NEW gone, NEW gone2, NEW x \in Nat, NEW y \in Nat,
         hit \subseteq hit2, gone \subseteq gone2, x <= y, Evidence(s, hit, gone, x)
  PROVE  Evidence(t, hit2, gone2, y)
<1>1. t.winner = s.winner /\ t.result = s.result
  BY DEF Becomes
<1>2. ASSUME NEW p \in Players PROVE t.players[p].value = s.players[p].value
  <2>1. [t.players[p] EXCEPT !.connected = TRUE] = [s.players[p] EXCEPT !.connected = TRUE]
    BY DEF Becomes
  <2>2. t.players[p] \in PlayerState /\ s.players[p] \in PlayerState
    BY DEF MatchState
  <2>3. QED
    BY <2>1, <2>2 DEF PlayerState
<1>3. y >= ExpiresAt \/ ~(x >= ExpiresAt)
  BY MatchAssumption
<1>4. \A p \in Players : Distance(Target, t.players[p].value) = Distance(Target, s.players[p].value)
  BY <1>2
<1>5. QED
  BY <1>1, <1>3, <1>4 DEF Evidence

LEMMA BackedLasts ==
  ASSUME NEW h \in Seq(MatchState), NEW g \in Seq(MatchState), NEW m, NEW n,
         NEW hit, NEW hit2, NEW gone, NEW gone2, NEW x \in Nat, NEW y \in Nat,
         Len(h) <= Len(g), \A a \in 1..Len(h) : Becomes(h[a], g[a]),
         \A p \in Players : \A s \in 1..MaxSeq : m[p][s] # "none" => n[p][s] # "none",
         hit \subseteq hit2, gone \subseteq gone2, x <= y,
         NEW k \in Call, CallOK(k, Len(h)), Backed(k, h, m, hit, gone, x)
  PROVE  Backed(k, g, n, hit2, gone2, y)
<1>1. k.pc = "record" /\ k.result = "exact" => k.msg.player \in hit2
  BY DEF Backed
<1>2. ASSUME Ending(k)
      PROVE  /\ g[k.at].status = "finished" /\ Says(g[k.at]) = Says(k)
             /\ Evidence(g[k.at], hit2, gone2, y)
  <2>1. k.at \in 1..Len(h) /\ k.at \in 1..Len(g)
    <3>1. k.at \in 1..Len(h)
      BY <1>2 DEF CallOK, Ending
    <3>2. QED
      BY <3>1
  <2>2. h[k.at] \in MatchState /\ g[k.at] \in MatchState /\ Becomes(h[k.at], g[k.at])
    BY <2>1
  <2>3. h[k.at].status = "finished" /\ Says(h[k.at]) = Says(k) /\ Evidence(h[k.at], hit, gone, x)
    BY <1>2 DEF Backed
  <2>4. g[k.at].status = "finished" /\ Says(g[k.at]) = Says(h[k.at])
    BY <2>2, <2>3 DEF Becomes, Says
  <2>5. Evidence(g[k.at], hit2, gone2, y)
    BY <2>2, <2>3, EvidenceLasts
  <2>6. QED
    BY <2>3, <2>4, <2>5
<1>3. ASSUME Confirmed(k) PROVE n[k.msg.player][k.msg.seq] # "none"
  <2>1. k.msg.player \in Players /\ k.msg.seq \in 1..MaxSeq
    BY <1>3, MessageKinds DEF Confirmed, Call
  <2>2. QED
    BY <1>3, <2>1 DEF Backed
<1>4. QED
  BY <1>1, <1>2, <1>3 DEF Backed

\* One call goes on, as a backed one.
LEMMA EInvStep ==
  ASSUME TInv, TInv', EInv, Grows, NEW c \in Callers, NEW k, call' = [call EXCEPT ![c] = k],
         Backed(k, heap', moves', reached', gaveUp', now'),
         AcknowledgedIsLogged'
  PROVE  EInv'
<1>1. /\ heap \in Seq(MatchState) /\ heap' \in Seq(MatchState) /\ now \in Nat /\ now' \in Nat
      /\ call \in [Callers -> Call] /\ \A d \in Callers : CallOK(call[d], Len(heap))
  BY MatchAssumption DEF TInv, TypeOK
<1>2. ASSUME NEW d \in Callers, d # c
      PROVE  Backed(call[d], heap', moves', reached', gaveUp', now')
  <2>1. Backed(call[d], heap, moves, reached, gaveUp, now) /\ call[d] \in Call
        /\ CallOK(call[d], Len(heap))
    BY <1>1 DEF EInv
  <2>2. QED
    BY <1>1, <2>1, BackedLasts DEF Grows, HeapGoesOn, LogGrows
<1>3. \A d \in Callers : call'[d] = IF d = c THEN k ELSE call[d]
  BY <1>1
<1>4. \A d \in Callers : Backed(call'[d], heap', moves', reached', gaveUp', now')
  BY <1>2, <1>3
<1>5. QED
  BY <1>4 DEF EInv

\* The numbers acknowledged stay, or one that is in the log joins them.
LEMMA StillLogged ==
  ASSUME TInv, EInv, LogGrows, acked' = acked
  PROVE  AcknowledgedIsLogged'
<1>1. \A p \in Players : acked[p] \subseteq 1..MaxSeq
  BY DEF TInv, TypeOK
<1>2. QED
  BY <1>1 DEF EInv, AcknowledgedIsLogged, LogGrows

LEMMA AnswerLogged ==
  ASSUME TInv, EInv, LogGrows, NEW msg \in Messages, NEW s, Answer(msg, s),
         msg.kind = "operation" => moves'[msg.player][msg.seq] # "none"
  PROVE  AcknowledgedIsLogged'
<1>1. acked \in [Players -> SUBSET (1..MaxSeq)] /\ \A p \in Players : acked[p] \subseteq 1..MaxSeq
  BY DEF TInv, TypeOK
<1>2. CASE msg.kind = "operation"
  <2>1. msg.player \in Players
    BY <1>2, MessageKinds
  <2>2. \A p \in Players : acked'[p] = IF p = msg.player THEN acked[p] \cup {msg.seq} ELSE acked[p]
    BY <1>1, <1>2, <2>1 DEF Answer
  <2>3. QED
    BY <1>1, <1>2, <2>2 DEF EInv, AcknowledgedIsLogged, LogGrows
<1>3. CASE msg.kind # "operation"
  BY <1>3, StillLogged DEF Answer
<1>4. QED
  BY <1>2, <1>3

LEMMA LogStays == moves' = moves => LogGrows
BY DEF LogGrows

LEMMA HeapStays ==
  ASSUME TypeOK, heap' = heap
  PROVE  HeapGoesOn(heap)
<1>1. heap \in Seq(MatchState) /\ Len(heap) \in Int
  BY DEF TypeOK
<1>2. \A a \in 1..Len(heap) : Becomes(heap[a], heap'[a])
  BY <1>1, BecomesItself
<1>3. QED
  BY <1>1, <1>2 DEF HeapGoesOn

\* Storing a move adds its entry and keeps the others.
LEMMA LoggedGrows ==
  ASSUME TypeOK, NEW msg \in Messages, msg.kind = "operation",
         NEW outcome \in {"accepted", "rejected"}, moves' = Logged(msg, outcome)
  PROVE  LogGrows /\ moves'[msg.player][msg.seq] # "none"
<1>1. msg.player \in Players /\ msg.seq \in 1..MaxSeq
  BY MessageKinds
<1>2. moves \in [Players -> [1..MaxSeq -> {"none", "accepted", "rejected"}]]
  BY DEF TypeOK
<1>3. CASE moves[msg.player][msg.seq] = "none"
  <2>1. moves' = [moves EXCEPT ![msg.player] = [moves[msg.player] EXCEPT ![msg.seq] = outcome]]
    BY <1>3 DEF Logged
  <2>2. \A p \in Players : moves'[p] = IF p = msg.player THEN [moves[p] EXCEPT ![msg.seq] = outcome]
                                       ELSE moves[p]
    BY <1>1, <1>2, <2>1
  <2>3. \A s \in 1..MaxSeq : [moves[msg.player] EXCEPT ![msg.seq] = outcome][s]
                              = IF s = msg.seq THEN outcome ELSE moves[msg.player][s]
    BY <1>1, <1>2
  <2>4. moves'[msg.player] = [moves[msg.player] EXCEPT ![msg.seq] = outcome]
    BY <1>1, <2>2
  <2>5. moves'[msg.player][msg.seq] # "none"
    BY <1>1, <2>3, <2>4
  <2>6. ASSUME NEW p \in Players, NEW s \in 1..MaxSeq, moves[p][s] # "none"
        PROVE  moves'[p][s] # "none"
    <3>1. CASE p = msg.player
      BY <2>3, <2>4, <2>5, <2>6, <3>1
    <3>2. CASE p # msg.player
      BY <2>2, <2>6, <3>2
    <3>3. QED
      BY <3>1, <3>2
  <2>7. QED
    BY <2>5, <2>6 DEF LogGrows
<1>4. CASE moves[msg.player][msg.seq] # "none"
  BY <1>4 DEF Logged, LogGrows
<1>5. QED
  BY <1>3, <1>4

\* A call that is neither ending, nor an acknowledged operation, nor a hit.
LEMMA PlainBacked ==
  ASSUME NEW k, NEW h, NEW m, NEW hit, NEW gone, NEW t,
         k.pc \in {"idle", "load", "reject"} \/ (k.pc = "persist" /\ k.msg.kind # "operation")
  PROVE  Backed(k, h, m, hit, gone, t)
BY DEF Backed, Confirmed, Ending

\* A turn of a handler, on the heap or on the heap with a loaded object.
LEMMA TurnGrows ==
  ASSUME TInv, NEW c, NEW k, NEW msg, NEW h \in Seq(MatchState), NEW a \in 1..Len(h), NEW w,
         Len(heap) <= Len(h), \A b \in 1..Len(heap) : h[b] = heap[b], Len(heap') = Len(h),
         Turn(c, k, msg, h, a, w), UNCHANGED moves, now' = now
  PROVE  Grows
<1>1. Len(heap) \in Int /\ Len(h) \in Int /\ now \in Int /\ heap \in Seq(MatchState)
  BY MatchAssumption DEF TInv, TypeOK
<1>2. ASSUME NEW b \in 1..Len(heap) PROVE Becomes(heap[b], heap'[b])
  <2>1. b \in 1..Len(h) /\ heap[b] = h[b] /\ h[b] \in MatchState
    BY <1>1
  <2>2. CASE b = a
    BY <2>1, <2>2 DEF Turn
  <2>3. CASE b # a
    <3>1. heap'[b] = h[b]
      BY <2>1, <2>3 DEF Turn
    <3>2. QED
      BY <2>1, <3>1, BecomesItself
  <2>4. QED
    BY <2>2, <2>3
<1>3. HeapGoesOn(heap)
  BY <1>1, <1>2 DEF HeapGoesOn
<1>4. reached \subseteq reached' /\ gaveUp \subseteq gaveUp'
  BY DEF Turn, Claims
<1>5. QED
  BY <1>1, <1>3, <1>4, LogStays DEF Grows

LEMMA EInvTurn ==
  ASSUME TInv, TInv', EInv, NEW c \in Callers, NEW msg, NEW h \in Seq(MatchState),
         NEW a \in 1..Len(h), NEW w,
         Len(heap) <= Len(h), \A b \in 1..Len(heap) : h[b] = heap[b], Len(heap') = Len(h),
         Turns(c, msg, h, a, w), UNCHANGED moves, now' = now
  PROVE  EInv' /\ Grows
<1>1. PICK k : Turn(c, k, msg, h, a, w) /\ Decides(k, h, a) /\ Accepts(k, h, a) /\ Stores(k, a)
  BY DEF Turns
<1>2. Grows
  BY <1>1, TurnGrows
<1>3. Backed(k, heap', moves', reached', gaveUp', now')
  <2>1. CASE k.pc = "find"
    <3>1. k.at = a /\ heap'[a].status = "finished" /\ Says(heap'[a]) = Says(k)
          /\ Evidence(heap'[a], reached', gaveUp', now') /\ k.result # "exact"
      BY <1>1, <2>1 DEF Turn, Decides
    <3>2. QED
      BY <2>1, <3>1 DEF Backed, Confirmed
  <2>2. CASE k.pc = "record"
    BY <1>1, <2>2 DEF Accepts, Backed, Confirmed, Ending
  <2>3. CASE k.pc \in {"idle", "reject", "persist"}
    BY <1>1, <2>3, PlainBacked DEF Stores
  <2>4. QED
    BY <1>1, <2>1, <2>2, <2>3 DEF Turn
<1>4. AcknowledgedIsLogged'
  BY <1>1, <1>2, StillLogged DEF Grows, Turn
<1>5. call' = [call EXCEPT ![c] = k]
  BY <1>1 DEF Turn
<1>6. QED
  BY <1>2, <1>3, <1>4, <1>5, EInvStep

\* A call that keeps objects, claims and log as they are ends, falls back, or
\* brings an object that is backed already to its next await.
LEMMA EInvQuiet ==
  ASSUME TInv, TInv', EInv, NEW c \in Callers, NEW k, call' = [call EXCEPT ![c] = k],
         heap' = heap, LogGrows, UNCHANGED <<reached, gaveUp, now>>,
         \/ k.pc \in {"idle", "load", "reject"}
         \/ k.pc = "persist" /\ k.msg.kind # "operation"
         \/ Backed(k, heap, moves', reached, gaveUp, now),
         AcknowledgedIsLogged'
  PROVE  EInv' /\ Grows
<1>1. now <= now
  BY MatchAssumption DEF TInv, TypeOK
<1>2. Grows
  BY <1>1, HeapStays DEF Grows, TInv
<1>3. Backed(k, heap', moves', reached', gaveUp', now')
  BY PlainBacked
<1>4. QED
  BY <1>2, <1>3, EInvStep

LEMMA IdleIs == Idle.pc = "idle"
BY DEF Idle, Waiting, Pending

LEMMA RejectIs ==
  ASSUME NEW msg, NEW at
  PROVE  Waiting("reject", msg, at).pc = "reject"
BY DEF Waiting, Pending

\* A backed call is backed by a longer log, and where it goes on with the same object.
LEMMA MoreLog ==
  ASSUME TInv, NEW c \in Callers, LogGrows,
         Backed(call[c], heap, moves, reached, gaveUp, now)
  PROVE  Backed(call[c], heap, moves', reached, gaveUp, now)
<1>1. heap \in Seq(MatchState) /\ now \in Nat /\ call[c] \in Call /\ CallOK(call[c], Len(heap))
      /\ Len(heap) \in Nat
  BY MatchAssumption DEF TInv, TypeOK
<1>2. \A a \in 1..Len(heap) : Becomes(heap[a], heap[a])
  BY <1>1, BecomesItself
<1>3. now <= now /\ Len(heap) <= Len(heap)
  BY <1>1
<1>4. QED
  BY <1>1, <1>2, <1>3, BackedLasts DEF LogGrows

LEMMA EndingGoesOn ==
  ASSUME NEW j, NEW k, NEW h, NEW m, NEW hit, NEW gone, NEW t,
         Backed(j, h, m, hit, gone, t), Ending(j), Ending(k),
         k.msg = j.msg, k.at = j.at, k.winner = j.winner, k.result = j.result
  PROVE  Backed(k, h, m, hit, gone, t)
BY DEF Backed, Confirmed, Ending, Says

LEMMA EInvStartLoad ==
  ASSUME TInv, TInv', EInv, NEW c \in Callers, NEW msg, StartLoad(c, msg)
  PROVE  EInv' /\ Grows
<1> DEFINE k == Waiting("load", msg, 0)
<1>1. k.pc = "load"
  BY DEF Waiting, Pending
<1>2. /\ call' = [call EXCEPT ![c] = k] /\ heap' = heap /\ moves' = moves
      /\ UNCHANGED <<reached, gaveUp, now>> /\ acked' = acked
  BY DEF StartLoad, store, world, seen
<1> HIDE DEF k
<1>3. QED
  BY <1>1, <1>2, EInvQuiet, LogStays, StillLogged

LEMMA EInvLeave ==
  ASSUME TInv, TInv', EInv, NEW c \in Callers, NEW p \in Players, Leave(c, p)
  PROVE  EInv' /\ Grows
<1> DEFINE left == WithPlayer(heap[live], p, [heap[live].players[p] EXCEPT !.connected = FALSE])
           k == Pending("persist", Ask("leave", p), live, Nobody, "none", left)
<1>1. /\ heap \in Seq(MatchState) /\ live \in 1..Len(heap) /\ heap[live] \in MatchState
      /\ Len(heap) \in Nat
  BY DEF TInv, TypeOK, Leave
<1>2. Becomes(heap[live], left) /\ left \in MatchState
  <2>1. FALSE \in BOOLEAN
    OBVIOUS
  <2>2. QED
    BY <1>1, <2>1, BecomesConnected
<1>3. /\ heap' = [heap EXCEPT ![live] = left] /\ call' = [call EXCEPT ![c] = k]
      /\ moves' = moves /\ UNCHANGED <<reached, gaveUp, now>> /\ acked' = acked
  BY DEF Leave, store, world, seen
<1>4. k.pc = "persist" /\ k.msg.kind # "operation"
  BY DEF Pending, Ask
<1> HIDE DEF left, k
<1>5. /\ Len(heap') = Len(heap)
      /\ \A b \in 1..Len(heap) : heap'[b] = IF b = live THEN left ELSE heap[b]
  BY <1>1, <1>2, <1>3, HeapUpdate
<1>6. HeapGoesOn(heap)
  <2>1. \A b \in 1..Len(heap) : Becomes(heap[b], heap'[b])
    BY <1>1, <1>2, <1>5, BecomesItself
  <2>2. QED
    BY <1>1, <1>5, <2>1 DEF HeapGoesOn
<1>7. Grows
  <2>1. now <= now
    BY MatchAssumption DEF TInv, TypeOK
  <2>2. QED
    BY <1>3, <1>6, <2>1, LogStays DEF Grows
<1>8. AcknowledgedIsLogged'
  BY <1>3, StillLogged, LogStays
<1>9. Backed(k, heap', moves', reached', gaveUp', now')
  BY <1>4, PlainBacked
<1>10. QED
  BY <1>3, <1>7, <1>8, <1>9, EInvStep

LEMMA EInvRecord ==
  ASSUME TInv, TInv', EInv, NEW c \in Callers, Record(c)
  PROVE  EInv' /\ Grows
<1> DEFINE msg == call[c].msg
<1>1. /\ TypeOK /\ msg \in Messages /\ msg.kind = "operation" /\ call[c].pc = "record"
      /\ Backed(call[c], heap, moves, reached, gaveUp, now) /\ live \in 1..Len(heap)
      /\ heap \in Seq(MatchState) /\ Len(heap) \in Nat
  <2>1. call[c] \in Call /\ CallOK(call[c], Len(heap)) /\ call[c].pc = "record"
    BY DEF TInv, TypeOK, Record
  <2>2. msg \in Messages /\ msg.kind = "operation" /\ call[c].at \in 1..Len(heap)
    BY <2>1 DEF Call, CallOK
  <2>3. heap \in Seq(MatchState) /\ Len(heap) \in Nat /\ live \in 0..Len(heap)
    BY DEF TInv, TypeOK
  <2>4. heap # <<>>
    BY <2>2, <2>3
  <2>5. QED
    BY <2>1, <2>2, <2>3, <2>4 DEF TInv, EInv
<1>2. LogGrows /\ moves'[msg.player][msg.seq] # "none"
  BY <1>1, LoggedGrows DEF Record
<1>3. now' = now /\ now <= now
  BY MatchAssumption DEF Record, world, TInv, TypeOK
<1>4. CASE call[c].result # "exact"
  <2> DEFINE k == Pending("persist", msg, call[c].at, call[c].winner, call[c].result, heap[call[c].at])
  <2>1. /\ call' = [call EXCEPT ![c] = k] /\ heap' = heap /\ acked' = acked
        /\ UNCHANGED <<reached, gaveUp>>
    BY <1>4 DEF Record, StartPersist, seen
  <2>2. k.pc = "persist" /\ k.msg = msg
    BY DEF Pending
  <2> HIDE DEF k
  <2>3. Backed(k, heap, moves', reached, gaveUp, now)
    BY <1>2, <2>2 DEF Backed, Confirmed, Ending
  <2>4. QED
    BY <1>2, <1>3, <2>1, <2>3, StillLogged, EInvQuiet
<1>5. CASE call[c].result = "exact" /\ MayFinalize(heap[live])
  <2> DEFINE k == Pending("find", msg, live, msg.player, "exact", NewMatchState)
             f == Finished(heap[live], msg.player, "exact")
  <2>1. /\ call' = [call EXCEPT ![c] = k] /\ heap' = [heap EXCEPT ![live] = f] /\ acked' = acked
        /\ UNCHANGED <<reached, gaveUp>>
    BY <1>5 DEF Record, StartFinalize, seen
  <2>2. k.pc = "find" /\ k.msg = msg /\ k.at = live /\ k.winner = msg.player /\ k.result = "exact"
    BY DEF Pending
  <2>3. f.status = "finished" /\ f.winner = msg.player /\ f.result = "exact"
    BY DEF Finished
  <2>4. heap[live] \in MatchState /\ heap[live].status = "active" /\ msg.player \in Players
    BY <1>1, <1>5, MessageKinds DEF MayFinalize
  <2>5. Becomes(heap[live], f) /\ f \in MatchState
    BY <2>4, BecomesFinished, FinishedType DEF Results
  <2> HIDE DEF k, f
  <2>6. /\ Len(heap') = Len(heap)
        /\ \A b \in 1..Len(heap) : heap'[b] = IF b = live THEN f ELSE heap[b]
    BY <1>1, <2>1, <2>5, HeapUpdate
  <2>7. HeapGoesOn(heap)
    <3>1. \A b \in 1..Len(heap) : Becomes(heap[b], heap'[b])
      BY <1>1, <2>5, <2>6, BecomesItself
    <3>2. QED
      BY <1>1, <2>6, <3>1 DEF HeapGoesOn
  <2>8. Grows
    BY <1>2, <1>3, <2>1, <2>7 DEF Grows
  <2>9. msg.player \in reached'
    BY <1>1, <1>5, <2>1 DEF Backed
  <2>10. Backed(k, heap', moves', reached', gaveUp', now')
    <3>1. heap'[k.at] = f
      BY <1>1, <2>2, <2>6
    <3>2. Evidence(f, reached', gaveUp', now')
      BY <2>3, <2>9 DEF Evidence
    <3>3. QED
      BY <1>2, <2>2, <2>3, <3>1, <3>2 DEF Backed, Confirmed, Ending, Says
  <2>11. QED
    BY <1>2, <2>1, <2>8, <2>10, StillLogged, EInvStep
<1>6. CASE call[c].result = "exact" /\ ~MayFinalize(heap[live])
  <2>1. /\ call' = [call EXCEPT ![c] = Idle] /\ heap' = heap /\ Answer(msg, heap[live])
        /\ UNCHANGED <<reached, gaveUp>>
    BY <1>6 DEF Record, Done, Answer
  <2>2. AcknowledgedIsLogged'
    BY <1>1, <1>2, <2>1, AnswerLogged
  <2>3. QED
    BY <1>2, <1>3, <2>1, <2>2, IdleIs, EInvQuiet
<1>7. QED
  BY <1>4, <1>5, <1>6

LEMMA EInvReject ==
  ASSUME TInv, TInv', EInv, NEW c \in Callers, Reject(c)
  PROVE  EInv' /\ Grows
<1>1. TypeOK /\ call[c].msg \in Messages /\ call[c].msg.kind = "operation"
  BY DEF TInv, TypeOK, CallOK, Call, Reject
<1>2. LogGrows
  BY <1>1, LoggedGrows DEF Reject
<1>3. /\ call' = [call EXCEPT ![c] = Idle] /\ heap' = heap /\ acked' = acked
      /\ UNCHANGED <<reached, gaveUp, now>>
  BY DEF Reject, Done, world, seen
<1>4. QED
  BY <1>2, <1>3, IdleIs, StillLogged, EInvQuiet

\* Storing the finished object and what comes before it.
LEMMA EInvFind ==
  ASSUME TInv, TInv', EInv, NEW c \in Callers, Find(c) \/ Commit(c)
  PROVE  EInv' /\ Grows
<1>1. /\ Backed(call[c], heap, moves, reached, gaveUp, now) /\ Ending(call[c])
      /\ heap' = heap /\ UNCHANGED <<moves, reached, gaveUp, now, acked>>
  BY DEF EInv, Find, Commit, Ending, store, world, seen
<1>2. \E k : /\ call' = [call EXCEPT ![c] = k] /\ Ending(k)
             /\ k.msg = call[c].msg /\ k.at = call[c].at
             /\ k.winner = call[c].winner /\ k.result = call[c].result
  <2>1. CASE StartPersist(c, "save", heap, call[c].at, wire)
    <3> DEFINE k == Pending("save", call[c].msg, call[c].at, call[c].winner, call[c].result,
                            heap[call[c].at])
    <3>1. call' = [call EXCEPT ![c] = k]
      BY <2>1 DEF StartPersist
    <3>2. /\ k.pc = "save" /\ k.msg = call[c].msg /\ k.at = call[c].at
          /\ k.winner = call[c].winner /\ k.result = call[c].result
      BY DEF Pending
    <3> HIDE DEF k
    <3>3. QED
      BY <3>1, <3>2 DEF Ending
  <2>2. CASE call' = [call EXCEPT ![c] = [call[c] EXCEPT !.pc = "commit"]]
    <3> DEFINE k == [call[c] EXCEPT !.pc = "commit"]
    <3>1. call[c] \in Call
      BY DEF TInv, TypeOK
    <3>2. /\ k.pc = "commit" /\ k.msg = call[c].msg /\ k.at = call[c].at
          /\ k.winner = call[c].winner /\ k.result = call[c].result
      BY <3>1 DEF Call
    <3> HIDE DEF k
    <3>3. QED
      BY <2>2, <3>2 DEF Ending, k
  <2>3. QED
    BY <2>1, <2>2 DEF Find, Commit
<1>3. PICK k : /\ call' = [call EXCEPT ![c] = k] /\ Ending(k)
               /\ k.msg = call[c].msg /\ k.at = call[c].at
               /\ k.winner = call[c].winner /\ k.result = call[c].result
  BY <1>2
<1>4. LogGrows /\ AcknowledgedIsLogged'
  BY <1>1, LogStays, StillLogged
<1>5. Backed(k, heap, moves', reached, gaveUp, now)
  BY <1>1, <1>3, EndingGoesOn
<1>6. QED
  BY <1>1, <1>3, <1>4, <1>5, EInvQuiet

LEMMA EInvSave ==
  ASSUME TInv, TInv', EInv, NEW c \in Callers, Save(c)
  PROVE  EInv' /\ Grows
<1>1. /\ call[c].msg \in Messages /\ Backed(call[c], heap, moves, reached, gaveUp, now)
      /\ call[c].result = "exact" => call[c].msg.kind = "operation"
  BY DEF TInv, TypeOK, CallOK, Call, EInv, Save
<1>2. /\ call' = [call EXCEPT ![c] = Idle] /\ heap' = heap /\ UNCHANGED <<moves, now>>
  BY DEF Save, Done, world
<1>3. LogGrows
  BY <1>2, LogStays
<1>4. AcknowledgedIsLogged' /\ UNCHANGED <<reached, gaveUp>>
  <2>1. CASE call[c].result = "exact"
    <3>1. Answer(call[c].msg, heap[live])
      BY <2>1 DEF Save
    <3>2. moves'[call[c].msg.player][call[c].msg.seq] # "none"
      BY <1>1, <1>2, <2>1 DEF Backed, Confirmed, Ending, Save
    <3>3. AcknowledgedIsLogged'
      BY <1>1, <1>3, <3>1, <3>2, AnswerLogged
    <3>4. QED
      BY <3>1, <3>3 DEF Answer
  <2>2. CASE call[c].result # "exact"
    <3>1. UNCHANGED <<acked, reached, gaveUp>>
      BY <2>2 DEF Save, seen
    <3>2. QED
      BY <1>3, <3>1, StillLogged
  <2>3. QED
    BY <2>1, <2>2
<1>5. QED
  BY <1>2, <1>3, <1>4, IdleIs, EInvQuiet

LEMMA EInvPersist ==
  ASSUME TInv, TInv', EInv, NEW c \in Callers, Persist(c)
  PROVE  EInv' /\ Grows
<1>1. /\ call[c].msg \in Messages /\ Backed(call[c], heap, moves, reached, gaveUp, now)
      /\ call[c].pc = "persist"
  BY DEF TInv, TypeOK, Call, EInv, Persist
<1>2. /\ call' = [call EXCEPT ![c] = Idle] /\ heap' = heap /\ UNCHANGED <<moves, now>>
  BY DEF Persist, Done, world
<1>3. LogGrows
  BY <1>2, LogStays
<1>4. AcknowledgedIsLogged' /\ UNCHANGED <<reached, gaveUp>>
  <2>1. CASE call[c].msg.kind = "leave"
    <3>1. UNCHANGED <<acked, reached, gaveUp>>
      BY <2>1 DEF Persist, seen
    <3>2. QED
      BY <1>3, <3>1, StillLogged
  <2>2. CASE call[c].msg.kind # "leave"
    <3>1. Answer(call[c].msg, heap[call[c].at])
      BY <2>2 DEF Persist
    <3>2. ASSUME call[c].msg.kind = "operation"
          PROVE  moves'[call[c].msg.player][call[c].msg.seq] # "none"
      <4>1. Confirmed(call[c])
        BY <1>1, <3>2 DEF Confirmed
      <4>2. QED
        BY <1>1, <1>2, <4>1 DEF Backed
    <3>3. AcknowledgedIsLogged'
      BY <1>1, <1>3, <3>1, <3>2, AnswerLogged
    <3>4. QED
      BY <3>1, <3>3 DEF Answer
  <2>3. QED
    BY <2>1, <2>2
<1>5. QED
  BY <1>2, <1>3, <1>4, IdleIs, EInvQuiet

\* A call that falls back or ends, and says nothing.
LEMMA EInvGivesUp ==
  ASSUME TInv, TInv', EInv, NEW c \in Callers, BackOut(c) \/ Done(c),
         heap' = heap, UNCHANGED <<moves, now, seen>>
  PROVE  EInv' /\ Grows
<1>1. LogGrows /\ AcknowledgedIsLogged' /\ UNCHANGED <<reached, gaveUp, now>>
  BY LogStays, StillLogged DEF seen
<1>2. \E k : call' = [call EXCEPT ![c] = k] /\ k.pc \in {"idle", "reject"}
  <2> DEFINE back == Waiting("reject", call[c].msg, call[c].at)
  <2>1. back.pc = "reject" /\ Idle.pc = "idle"
    BY RejectIs, IdleIs
  <2>2. call' = [call EXCEPT ![c] = back] \/ call' = [call EXCEPT ![c] = Idle]
    BY DEF BackOut, Done
  <2> HIDE DEF back
  <2>3. QED
    BY <2>1, <2>2
<1>3. QED
  BY <1>1, <1>2, EInvQuiet

LEMMA EInvRestarted ==
  ASSUME EInv, Restarted, UNCHANGED <<moves, seen>>
  PROVE  EInv' /\ heap' = <<>>
<1>1. AcknowledgedIsLogged'
  BY DEF EInv, AcknowledgedIsLogged, seen
<1>2. \A c \in Callers : call'[c].pc = "idle"
  BY IdleIs DEF Restarted
<1>3. \A c \in Callers : Backed(call'[c], heap', moves', reached', gaveUp', now')
  BY <1>2, PlainBacked
<1>4. QED
  BY <1>1, <1>3 DEF EInv, Restarted

LEMMA EInvThrows ==
  ASSUME TInv, TInv', EInv, NEW c \in Callers, NEW w, FinalizeThrows(c, w),
         UNCHANGED <<moves, now, seen>>
  PROVE  EInv' /\ (Grows \/ heap' = <<>>)
<1>1. CASE c = Sweeper
  BY <1>1, EInvRestarted DEF FinalizeThrows
<1>2. CASE c # Sweeper
  BY <1>2, EInvGivesUp DEF FinalizeThrows
<1>3. QED
  BY <1>1, <1>2

LEMMA EInvFail ==
  ASSUME TInv, TInv', EInv, NEW c \in Callers, Fail(c)
  PROVE  EInv' /\ (Grows \/ heap' = <<>>)
<1>1. CASE MoveFails(c)
  BY <1>1, EInvGivesUp DEF MoveFails, store
<1>2. CASE FinalizeFails(c)
  BY <1>2, EInvThrows DEF FinalizeFails
<1>3. CASE RedisFails(c)
  <2>1. UNCHANGED <<moves, now, seen>>
    BY <1>3 DEF RedisFails
  <2>2. CASE FinalizeThrows(c, Tail(wire))
    BY <2>1, <2>2, EInvThrows
  <2>3. CASE (BackOut(c) \/ Done(c)) /\ heap' = heap
    BY <2>1, <2>3, EInvGivesUp
  <2>4. CASE Restarted
    BY <2>1, <2>4, EInvRestarted
  <2>5. QED
    BY <1>3, <2>2, <2>3, <2>4 DEF RedisFails, StateThrows
<1>4. QED
  BY <1>1, <1>2, <1>3 DEF Fail

LEMMA EInvInit == Init => EInv
<1> SUFFICES ASSUME Init PROVE EInv
  OBVIOUS
<1>1. \A c \in Callers : call[c].pc = "idle"
  BY IdleIs DEF Init
<1>2. AcknowledgedIsLogged
  BY DEF Init, AcknowledgedIsLogged
<1>3. QED
  BY <1>1, <1>2, PlainBacked DEF EInv

\* Requests, answers and the timer.
LEMMA EInvHandled ==
  ASSUME TInv, TInv', EInv, NEW c \in Callers, NEW msg \in Messages,
         Receive(c, msg) \/ Load(c) \/ (c = Sweeper /\ Sweep)
  PROVE  EInv' /\ Grows
<1>1. /\ heap \in Seq(MatchState) /\ Len(heap) \in Nat /\ TypeOK
      /\ live \in 0..Len(heap) /\ redis \in MatchState /\ call[c].msg \in Messages
      /\ heap' \in Seq(MatchState)
  BY DEF TInv, TypeOK, Call
<1>2. CASE Receive(c, msg)
  <2>1. live \in 1..Len(heap) /\ Handle(c, msg, heap, live, wire) /\ UNCHANGED <<moves, now>>
    BY <1>1, <1>2 DEF Receive, store, world
  <2>2. Turns(c, msg, heap, live, wire)
    BY <1>1, <2>1, HandleTurns
  <2>3. Len(heap') = Len(heap)
    BY <1>1, <2>1, HandleTypes DEF ProcessOK, TInv, TypeOK
  <2>4. Len(heap) <= Len(heap)
    BY <1>1
  <2>5. QED
    BY <1>1, <2>1, <2>2, <2>3, <2>4, EInvTurn
<1>3. CASE Load(c)
  <2> DEFINE h == Append(heap, redis)
             n == Len(heap) + 1
  <2>1. /\ h \in Seq(MatchState) /\ Len(h) = n /\ n \in 1..Len(h) /\ Len(heap) <= Len(h)
        /\ \A b \in 1..Len(heap) : h[b] = heap[b]
    BY <1>1
  <2>2. Handle(c, call[c].msg, h, n, Tail(wire)) /\ UNCHANGED <<moves, now>>
    BY <1>3 DEF Load, store, world
  <2>3. Tail(wire) \in Seq(Callers)
    BY <1>1, <1>3, TailOfWire DEF Load
  <2> HIDE DEF h, n
  <2>4. Turns(c, call[c].msg, h, n, Tail(wire))
    BY <1>1, <2>1, <2>2, HandleTurns
  <2>5. Len(heap') = Len(h)
    BY <1>1, <2>1, <2>2, <2>3, HandleTypes DEF ProcessOK
  <2>6. QED
    BY <1>1, <2>1, <2>2, <2>4, <2>5, EInvTurn
<1>4. CASE c = Sweeper /\ Sweep
  <2>1. Turns(c, SweepMessage, heap, live, wire) /\ live \in 1..Len(heap)
        /\ UNCHANGED <<moves, now>>
    BY <1>1, <1>4, SweepTurns DEF Sweep, store, world
  <2>2. Len(heap') = Len(heap)
    <3>1. SweepMessage \in Messages
      BY DEF Messages
    <3>2. finalizing \in BOOLEAN
      BY DEF TInv, TypeOK
    <3>3. QED
      BY <1>1, <1>4, <2>1, <3>1, <3>2, TimeoutFinalizeTypes DEF Sweep
  <2>3. Len(heap) <= Len(heap)
    BY <1>1
  <2>4. QED
    BY <1>1, <2>1, <2>2, <2>3, EInvTurn
<1>5. QED
  BY <1>2, <1>3, <1>4

LEMMA EInvNext ==
  ASSUME TInv, EInv, [Next]_vars
  PROVE  EInv' /\ (Grows \/ heap' = <<>>)
<1> USE TInvNext DEF Callers
<1>1. TInv'
  OBVIOUS
<1>2. CASE Tick \/ UNCHANGED vars
  <2>1. /\ UNCHANGED <<call, heap, moves, acked, reached, gaveUp>>
        /\ now <= now' /\ now \in Nat /\ now' \in Nat
    BY <1>1, <1>2, MatchAssumption DEF Tick, vars, process, store, world, seen, TInv, TypeOK
  <2>2. Grows
    BY <2>1, LogStays, HeapStays DEF Grows, TInv
  <2>3. AcknowledgedIsLogged'
    BY <2>1, <2>2, StillLogged DEF Grows
  <2>4. PICK c \in Callers : c = Sweeper
    OBVIOUS
  <2>5. PICK k : k = call[c]
    OBVIOUS
  <2>6. call' = [call EXCEPT ![c] = k]
    BY <2>1, <2>5 DEF TInv, TypeOK
  <2>7. Backed(k, heap', moves', reached', gaveUp', now')
    <3>1. k \in Call /\ CallOK(k, Len(heap)) /\ Backed(k, heap, moves, reached, gaveUp, now)
          /\ heap \in Seq(MatchState) /\ heap' \in Seq(MatchState)
      BY <1>1, <2>1, <2>5 DEF TInv, TypeOK, EInv
    <3>2. QED
      BY <2>1, <2>2, <3>1, BackedLasts DEF Grows, HeapGoesOn, LogGrows
  <2>8. QED
    BY <1>1, <2>2, <2>3, <2>6, <2>7, EInvStep
<1>3. CASE Sweep
  BY <1>1, <1>3, EInvHandled DEF Messages
<1>4. CASE Crash
  BY <1>4, EInvRestarted DEF Crash
<1>5. ASSUME NEW c \in Requests, ClientRequest(c) PROVE EInv' /\ Grows
  <2>1. PICK msg \in Messages : Receive(c, msg) \/ StartLoad(c, msg)
    BY <1>5, ClientMessages
  <2>2. QED
    BY <1>1, <2>1, EInvHandled, EInvStartLoad
<1>6. ASSUME NEW c \in Requests, NEW p \in Watchers, Leave(c, p) PROVE EInv' /\ Grows
  BY <1>1, <1>6, EInvLeave, MatchAssumption
<1>7. ASSUME NEW c \in Callers, Proceed(c) PROVE EInv' /\ Grows
  BY <1>1, <1>7, EInvHandled, EInvRecord, EInvReject, EInvFind, EInvSave, EInvPersist
     DEF Proceed, Messages
<1>8. ASSUME NEW c \in Callers, Fail(c) PROVE EInv' /\ (Grows \/ heap' = <<>>)
  BY <1>1, <1>8, EInvFail
<1>9. QED
  BY <1>2, <1>3, <1>4, <1>5, <1>6, <1>7, <1>8 DEF Next

\* An acknowledged operation has an entry in the move log, over any number of
\* crashes and failures: recordMove is awaited before the answer.
THEOREM LoggedBeforeAcknowledged == Spec => []AcknowledgedIsLogged
<1>1. EInv => AcknowledgedIsLogged
  BY DEF EInv
<1>2. TInv /\ EInv /\ [Next]_vars => EInv'
  BY EInvNext
<1>3. QED
  BY TInvInit, TInvNext, EInvInit, <1>1, <1>2, PTL DEF Spec

\* Nobody plays on a finished match: whatever two handlers hold of it across
\* their awaits, its winner, result and numbers stay.
THEOREM FinishedIsFrozen == Spec => FrozenWhenFinished
<1>1. ASSUME TInv, EInv, [Next]_vars
      PROVE  \A a \in 1..Len(heap) :
               heap[a].status = "finished" /\ a <= Len(heap') =>
                 /\ heap'[a].winner = heap[a].winner /\ heap'[a].result = heap[a].result
                 /\ \A p \in Players :
                      [heap'[a].players[p] EXCEPT !.connected = TRUE]
                        = [heap[a].players[p] EXCEPT !.connected = TRUE]
  <2>1. CASE heap' = <<>>
    BY <2>1
  <2>2. CASE Grows
    BY <2>2 DEF Grows, HeapGoesOn, Becomes
  <2>3. QED
    BY <1>1, <2>1, <2>2, EInvNext
<1>2. TInv /\ EInv /\ [Next]_vars => EInv'
  BY EInvNext
<1>3. QED
  BY TInvInit, TInvNext, EInvInit, <1>1, <1>2, PTL DEF Spec, FrozenWhenFinished

-----------------------------------------------------------------------------
(* The match document follows MatchLifecycle.                                *)

\* The evidence of the object a finalizer works on is what MatchLifecycle asks
\* of the document it commits.
LEMMA CommitIsJustified ==
  ASSUME TInv, EInv, NEW c \in Callers, call[c].pc = "commit", Commits(c),
         UNCHANGED <<reached, gaveUp, now>>
  PROVE  Lifecycle!Justified(doc')
<1> DEFINE s == heap[call[c].at]
<1>1. s.winner = call[c].winner /\ s.result = call[c].result
      /\ Evidence(s, reached, gaveUp, now)
  BY DEF EInv, Backed, Ending, Says
<1>2. /\ doc'.winner = call[c].winner /\ doc'.result = call[c].result
      /\ \A p \in Players : doc'.value[p] = s.players[p].value
  BY DEF Commits
<1>3. \A p \in Players : Lifecycle!Away(doc'.value, p) = Distance(Target, s.players[p].value)
  <2>1. Target \in Nat
    BY MatchAssumption
  <2>2. \A p \in Players : s.players[p].value \in Nat
    <3>1. call[c].at \in 1..Len(heap) /\ heap \in Seq(MatchState)
      BY DEF TInv, TypeOK, CallOK
    <3>2. s \in MatchState
      BY <3>1
    <3> HIDE DEF s
    <3>3. QED
      BY <3>2 DEF MatchState, PlayerState
  <2> HIDE DEF s
  <2>3. QED
    BY <1>2, <2>1, <2>2 DEF Lifecycle!Away, Distance
<1> HIDE DEF s
<1>4. QED
  BY <1>1, <1>2, <1>3 DEF Evidence, Lifecycle!Justified

LEMMA ResolveStep ==
  ASSUME TInv, SInv, EInv, NEW c \in Callers, call[c].pc = "commit", Commits(c),
         UNCHANGED <<reached, gaveUp, now>>
  PROVE  Lifecycle!Next
<1>1. doc.status = "active"
  BY DEF SInv, CommitIsFresh
<1>2. doc'.status = "finished" /\ rated' = IF Ranked THEN rated + 1 ELSE rated
  BY DEF Commits
<1>3. Lifecycle!Justified(doc')
  BY CommitIsJustified
<1>4. Lifecycle!Resolve
  BY <1>1, <1>2, <1>3 DEF Lifecycle!Resolve
<1>5. QED
  BY <1>4 DEF Lifecycle!Next

LEMMA ClaimStep ==
  ASSUME Claims, UNCHANGED <<doc, rated, now>>
  PROVE  [Lifecycle!Next]_Lifecycle!vars
<1>1. CASE UNCHANGED <<reached, gaveUp>>
  BY <1>1 DEF Lifecycle!vars
<1>2. ASSUME NEW p \in Players, reached' = reached \cup {p}, gaveUp' = gaveUp
      PROVE  Lifecycle!Next
  <2>1. Lifecycle!Hit(p)
    BY <1>2 DEF Lifecycle!Hit
  <2>2. QED
    BY <2>1 DEF Lifecycle!Next
<1>3. ASSUME NEW p \in Players, gaveUp' = gaveUp \cup {p}, reached' = reached
      PROVE  Lifecycle!Next
  <2>1. Lifecycle!GiveUp(p)
    BY <1>3 DEF Lifecycle!GiveUp
  <2>2. QED
    BY <2>1 DEF Lifecycle!Next
<1>4. QED
  BY <1>1, <1>2, <1>3 DEF Claims

LEMMA TickStep ==
  ASSUME TInv, Tick
  PROVE  [Lifecycle!Next]_Lifecycle!vars
<1>1. now \in Int /\ ExpiresAt \in Int /\ now' = now + 1
      /\ UNCHANGED <<reached, gaveUp, doc, rated>>
  BY MatchAssumption DEF Tick, TInv, TypeOK, store, seen
<1>2. CASE now' >= ExpiresAt
  <2>1. (now >= ExpiresAt)' = TRUE
    BY <1>2
  <2>2. Lifecycle!Expire
    BY <1>1, <2>1 DEF Lifecycle!Expire
  <2>3. QED
    BY <2>2 DEF Lifecycle!Next
<1>3. CASE ~(now' >= ExpiresAt)
  <2>1. ~(now >= ExpiresAt)
    BY <1>1, <1>3
  <2>2. (now >= ExpiresAt)' = (now >= ExpiresAt)
    BY <1>3, <2>1
  <2>3. UNCHANGED Lifecycle!vars
    BY <1>1, <2>2 DEF Lifecycle!vars
  <2>4. QED
    BY <2>3
<1>4. QED
  BY <1>2, <1>3

LEMMA HandledClaims ==
  ASSUME TInv, NEW c \in Callers, NEW msg \in Messages,
         Receive(c, msg) \/ Load(c) \/ (c = Sweeper /\ Sweep)
  PROVE  Claims /\ UNCHANGED <<doc, rated, now>>
<1>1. /\ heap \in Seq(MatchState) /\ Len(heap) \in Nat /\ TypeOK
      /\ live \in 0..Len(heap) /\ redis \in MatchState /\ call[c].msg \in Messages
  BY DEF TInv, TypeOK, Call
<1>2. CASE Receive(c, msg)
  <2>1. live \in 1..Len(heap) /\ Handle(c, msg, heap, live, wire) /\ UNCHANGED <<doc, rated, now>>
    BY <1>1, <1>2 DEF Receive, store, world
  <2>2. Turns(c, msg, heap, live, wire)
    BY <1>1, <2>1, HandleTurns
  <2>3. QED
    BY <2>1, <2>2 DEF Turns, Turn
<1>3. CASE Load(c)
  <2> DEFINE h == Append(heap, redis)
             n == Len(heap) + 1
  <2>1. h \in Seq(MatchState) /\ n \in 1..Len(h)
    BY <1>1
  <2>2. Handle(c, call[c].msg, h, n, Tail(wire)) /\ UNCHANGED <<doc, rated, now>>
    BY <1>3 DEF Load, store, world
  <2> HIDE DEF h, n
  <2>3. Turns(c, call[c].msg, h, n, Tail(wire))
    BY <1>1, <2>1, <2>2, HandleTurns
  <2>4. QED
    BY <2>2, <2>3 DEF Turns, Turn
<1>4. CASE c = Sweeper /\ Sweep
  <2>1. Turns(c, SweepMessage, heap, live, wire) /\ UNCHANGED <<doc, rated, now>>
    BY <1>4, SweepTurns DEF Sweep, store, world
  <2>2. QED
    BY <2>1 DEF Turns, Turn
<1>5. QED
  BY <1>2, <1>3, <1>4

\* Every step of the runtime is a step of the lifecycle, or none.
LEMMA LifecycleStep ==
  ASSUME TInv, SInv, EInv, [Next]_vars
  PROVE  [Lifecycle!Next]_Lifecycle!vars
<1> USE DEF Callers
<1>1. UNCHANGED <<reached, gaveUp>> => Claims
  BY DEF Claims
<1>2. CASE UNCHANGED vars
  <2>1. UNCHANGED <<reached, gaveUp, doc, rated, now>>
    BY <1>2 DEF vars, store, world, seen
  <2>2. QED
    BY <1>1, <2>1, ClaimStep
<1>3. CASE Tick
  BY <1>3, TickStep
<1>4. CASE Sweep
  BY <1>4, HandledClaims, ClaimStep DEF Messages
<1>5. CASE Crash
  BY <1>1, <1>5, ClaimStep DEF Crash, seen
<1>6. ASSUME NEW c \in Requests, ClientRequest(c) PROVE [Lifecycle!Next]_Lifecycle!vars
  <2>1. PICK msg \in Messages : Receive(c, msg) \/ StartLoad(c, msg)
    BY <1>6, ClientMessages
  <2>2. CASE Receive(c, msg)
    BY <2>2, HandledClaims, ClaimStep
  <2>3. CASE StartLoad(c, msg)
    BY <1>1, <2>3, ClaimStep DEF StartLoad, store, world, seen
  <2>4. QED
    BY <2>1, <2>2, <2>3
<1>7. ASSUME NEW c \in Requests, NEW p \in Watchers, Leave(c, p)
      PROVE  [Lifecycle!Next]_Lifecycle!vars
  BY <1>1, <1>7, ClaimStep DEF Leave, store, world, seen
<1>8. ASSUME NEW c \in Callers, Proceed(c) PROVE [Lifecycle!Next]_Lifecycle!vars
  <2>1. CASE Load(c)
    BY <2>1, HandledClaims, ClaimStep DEF Messages
  <2>2. CASE Record(c)
    <3>1. UNCHANGED <<reached, gaveUp, doc, rated, now>>
      BY <2>2 DEF Record, Answer, world, seen
    <3>2. QED
      BY <1>1, <3>1, ClaimStep
  <2>3. CASE Reject(c) \/ Find(c)
    <3>1. UNCHANGED <<reached, gaveUp, doc, rated, now>>
      BY <2>3 DEF Reject, Find, store, world, seen
    <3>2. QED
      BY <1>1, <3>1, ClaimStep
  <2>4. CASE Commit(c)
    BY <2>4, ResolveStep DEF Commit, world, seen
  <2>5. CASE Save(c) \/ Persist(c)
    <3>1. UNCHANGED <<reached, gaveUp, doc, rated, now>>
      BY <2>5 DEF Save, Persist, Answer, world, seen
    <3>2. QED
      BY <1>1, <3>1, ClaimStep
  <2>6. QED
    BY <1>8, <2>1, <2>2, <2>3, <2>4, <2>5 DEF Proceed
<1>9. ASSUME NEW c \in Callers, Fail(c) PROVE [Lifecycle!Next]_Lifecycle!vars
  <2>1. UNCHANGED <<reached, gaveUp, now>>
    BY <1>9 DEF Fail, MoveFails, FinalizeFails, RedisFails, seen
  <2>2. CASE UNCHANGED <<doc, rated>>
    BY <1>1, <2>1, <2>2, ClaimStep
  <2>3. CASE call[c].pc = "commit" /\ Commits(c)
    BY <2>1, <2>3, ResolveStep
  <2>4. QED
    BY <1>9, <2>2, <2>3 DEF Fail, MoveFails, FinalizeFails, RedisFails, store
<1>10. QED
  BY <1>2, <1>3, <1>4, <1>5, <1>6, <1>7, <1>8, <1>9 DEF Next

LEMMA LifecycleInit == Init => Lifecycle!Init
<1> SUFFICES ASSUME Init PROVE Lifecycle!Init
  OBVIOUS
<1>1. (now >= ExpiresAt) = FALSE
  BY MatchAssumption DEF Init
<1>2. reached = {} /\ gaveUp = {} /\ doc.status = "active" /\ rated = 0
  BY DEF Init, NewMatchDoc
<1>3. QED
  BY <1>1, <1>2 DEF Lifecycle!Init

\* The match document gets its result once and for a reason, over all
\* interleavings, crashes, restarts and failing calls: the runtime implements
\* MatchLifecycle.
THEOREM LifecycleImplemented == Spec => ImplementsLifecycle
<1>1. TInv /\ EInv /\ [Next]_vars => EInv'
  BY EInvNext
<1>2. TInv /\ SInv /\ EInv /\ [Next]_vars => [Lifecycle!Next]_Lifecycle!vars
  BY LifecycleStep
<1>3. QED
  BY TInvInit, TInvNext, SInvInit, SInvNext, EInvInit, LifecycleInit, <1>1, <1>2, PTL
     DEF Spec, ImplementsLifecycle, Lifecycle!Spec

-----------------------------------------------------------------------------
(* Fourth layer: until the first crash there is one object, and it tells what *)
(* MongoDB will hold.                                                        *)

\* A call whose operation the object has counted.
Counted(k) ==
  k.msg.kind = "operation"
    /\ (k.pc \in {"record", "persist"} \/ (Ending(k) /\ k.result = "exact"))
CountedIn(k, s) == Counted(k) => k.msg.seq <= s.players[k.msg.player].seq

Single ==
  /\ Len(heap) = 1 /\ live = 1
  /\ \A c \in Callers : call[c].pc # "load"
Verdict ==
  /\ heap[1].status = "active" => ~finalizing /\ told = {} /\ doc.status = "active"
  /\ heap[1].status = "finished" => told \subseteq {Says(heap[1])}
  /\ doc.status = "finished" => Says(doc) = Says(heap[1])
AckedNumbers == \A p \in Players : \A s \in acked[p] : s <= heap[1].players[p].seq
CallNumbers == \A c \in Callers : CountedIn(call[c], heap[1])

Alone == Single /\ Verdict /\ AckedNumbers /\ CallNumbers
OInv == crashes = 0 => Alone

LEMMA SingleObject ==
  ASSUME TInv, Single
  PROVE  /\ heap \in Seq(MatchState) /\ heap[1] \in MatchState
         /\ heap[1].status \in {"active", "finished"}
         /\ \A p \in Players : heap[1].players[p].seq \in Int
         /\ \A c \in Callers : call[c].pc # "idle" => call[c].at = 1
<1>1. heap \in Seq(MatchState) /\ Len(heap) = 1
  BY DEF TInv, TypeOK, Single
<1>2. heap[1] \in MatchState
  BY <1>1
<1>3. \A p \in Players : heap[1].players[p].seq \in Int
  BY <1>2, MatchAssumption DEF MatchState, PlayerState
<1>4. \A c \in Callers : call[c].pc # "idle" => call[c].at \in 1..1
  BY <1>1 DEF TInv, CallOK, Single
<1>5. QED
  BY <1>1, <1>2, <1>3, <1>4 DEF MatchState

\* The object stays as it is or is reconnected to; what is told is what it says.
LEMMA VerdictStays ==
  ASSUME TInv, Single, Verdict,
         heap'[1].status = heap[1].status, Says(heap'[1]) = Says(heap[1]), doc' = doc,
         finalizing' = finalizing \/ finalizing' = FALSE,
         \/ told' = told
         \/ told' = told \cup {Says(heap[1])} /\ heap[1].status # "active"
  PROVE  Verdict'
<1>1. heap[1].status \in {"active", "finished"}
  BY SingleObject
<1>2. heap'[1].status = "active" => ~finalizing' /\ told' = {} /\ doc'.status = "active"
  BY DEF Verdict
<1>3. heap'[1].status = "finished" => told' \subseteq {Says(heap'[1])}
  BY DEF Verdict
<1>4. doc'.status = "finished" => Says(doc') = Says(heap'[1])
  BY DEF Verdict
<1>5. QED
  BY <1>2, <1>3, <1>4 DEF Verdict, Says

\* The object is finished: nothing was told before, and MongoDB has no result.
LEMMA VerdictFalls ==
  ASSUME Verdict, heap[1].status = "active", heap'[1].status = "finished",
         doc' = doc, told' = told
  PROVE  Verdict'
<1>1. heap'[1].status # "active" /\ told' = {} /\ doc'.status # "finished"
  BY DEF Verdict
<1>2. QED
  BY <1>1 DEF Verdict

\* One call goes on and counts what it claims to.
LEMMA NumbersStep ==
  ASSUME TInv, TInv', Single, Single', CallNumbers, Becomes(heap[1], heap'[1]), NEW c \in Callers, NEW k,
         call' = [call EXCEPT ![c] = k], CountedIn(k, heap'[1])
  PROVE  CallNumbers'
<1>1. \A p \in Players : heap[1].players[p].seq <= heap'[1].players[p].seq
  BY DEF Becomes
<1>2. /\ \A p \in Players : heap[1].players[p].seq \in Int
      /\ \A p \in Players : heap'[1].players[p].seq \in Int
  <2>1. heap' \in Seq(MatchState) /\ 1 \in 1..Len(heap')
    BY DEF TInv, TypeOK, Single
  <2>2. heap'[1] \in MatchState
    BY <2>1
  <2>3. \A p \in Players : heap'[1].players[p].seq \in Int
    BY <2>2, MatchAssumption DEF MatchState, PlayerState
  <2>4. QED
    BY <2>3, SingleObject
<1>3. ASSUME NEW d \in Callers, d # c PROVE CountedIn(call[d], heap'[1])
  <2>1. CountedIn(call[d], heap[1]) /\ call[d].msg \in Messages
    BY DEF CallNumbers, TInv, TypeOK, Call
  <2>2. ASSUME Counted(call[d])
        PROVE  call[d].msg.seq <= heap'[1].players[call[d].msg.player].seq
    <3>1. call[d].msg.player \in Players /\ call[d].msg.seq \in 1..MaxSeq
      BY <2>1, <2>2, MessageKinds DEF Counted
    <3>2. call[d].msg.seq <= heap[1].players[call[d].msg.player].seq
      BY <2>1, <2>2 DEF CountedIn
    <3>3. QED
      BY <1>1, <1>2, <3>1, <3>2, MatchAssumption
  <2>3. QED
    BY <2>2 DEF CountedIn
<1>4. \A d \in Callers : call'[d] = IF d = c THEN k ELSE call[d]
  BY DEF TInv, TypeOK
<1>5. \A d \in Callers : CountedIn(call'[d], heap'[1])
  BY <1>3, <1>4
<1>6. QED
  BY <1>5 DEF CallNumbers

\* Numbers acknowledged before are still at or below the last accepted one.
LEMMA AckedStays ==
  ASSUME TInv, TInv', Single, Single', AckedNumbers, Becomes(heap[1], heap'[1]),
         \A p \in Players : \A s \in acked'[p] :
           s \in acked[p] \/ s <= heap[1].players[p].seq
  PROVE  AckedNumbers'
<1>1. \A p \in Players : heap[1].players[p].seq <= heap'[1].players[p].seq
  BY DEF Becomes
<1>2. /\ \A p \in Players : heap[1].players[p].seq \in Int
      /\ \A p \in Players : heap'[1].players[p].seq \in Int
  <2>1. heap' \in Seq(MatchState) /\ 1 \in 1..Len(heap')
    BY DEF TInv, TypeOK, Single
  <2>2. heap'[1] \in MatchState
    BY <2>1
  <2>3. \A p \in Players : heap'[1].players[p].seq \in Int
    BY <2>2, MatchAssumption DEF MatchState, PlayerState
  <2>4. QED
    BY <2>3, SingleObject
<1>3. \A p \in Players : \A s \in acked'[p] : s \in Int
  <2>1. acked' \in [Players -> SUBSET (1..MaxSeq)]
    BY DEF TInv, TypeOK
  <2>2. QED
    BY <2>1
<1>4. ASSUME NEW p \in Players, NEW s \in acked'[p] PROVE s <= heap'[1].players[p].seq
  <2>1. s <= heap[1].players[p].seq
    BY <1>4 DEF AckedNumbers
  <2>2. QED
    BY <1>1, <1>2, <1>3, <2>1
<1>5. QED
  BY <1>4 DEF AckedNumbers

\* An answer acknowledges what the object has counted.
LEMMA AnswerCounted ==
  ASSUME TInv, Single, NEW msg \in Messages, NEW s, Answer(msg, s),
         msg.kind = "operation" => msg.seq <= heap[1].players[msg.player].seq
  PROVE  \A p \in Players : \A n \in acked'[p] :
           n \in acked[p] \/ n <= heap[1].players[p].seq
<1>1. acked \in [Players -> SUBSET (1..MaxSeq)]
  BY DEF TInv, TypeOK
<1>2. CASE msg.kind = "operation"
  <2>1. acked' = [acked EXCEPT ![msg.player] = acked[msg.player] \cup {msg.seq}]
        /\ msg.player \in Players
    BY <1>2, MessageKinds DEF Answer
  <2>2. \A p \in Players : acked'[p] = IF p = msg.player THEN acked[p] \cup {msg.seq} ELSE acked[p]
    BY <1>1, <2>1
  <2>3. QED
    BY <1>2, <2>2
<1>3. CASE msg.kind # "operation"
  BY <1>3 DEF Answer
<1>4. QED
  BY <1>2, <1>3

LEMMA SingleStays ==
  ASSUME TInv, Single, NEW c \in Callers, NEW k, call' = [call EXCEPT ![c] = k],
         k.pc # "load", Len(heap') = 1, live' = 1
  PROVE  Single'
<1>1. \A d \in Callers : call'[d] = IF d = c THEN k ELSE call[d]
  BY DEF TInv, TypeOK
<1>2. QED
  BY <1>1 DEF Single

\* A call goes on and the object stays as it is.
LEMMA AloneQuiet ==
  ASSUME TInv, TInv', Alone, NEW c \in Callers, NEW k, call' = [call EXCEPT ![c] = k],
         k.pc # "load", CountedIn(k, heap[1]), heap' = heap, live' = 1, doc' = doc,
         finalizing' = finalizing \/ finalizing' = FALSE,
         \/ told' = told
         \/ told' = told \cup {Says(heap[1])} /\ heap[1].status # "active",
         \A p \in Players : \A s \in acked'[p] : s \in acked[p] \/ s <= heap[1].players[p].seq
  PROVE  Alone'
<1>1. Single' /\ Becomes(heap[1], heap'[1])
  <2>1. heap[1] \in MatchState
    BY SingleObject DEF Alone
  <2>2. Len(heap') = 1
    BY DEF Alone, Single
  <2>3. QED
    BY <2>1, <2>2, SingleStays, BecomesItself DEF Alone
<1>2. Verdict'
  BY VerdictStays DEF Alone
<1>3. AckedNumbers'
  BY <1>1, AckedStays DEF Alone
<1>4. CallNumbers'
  BY <1>1, NumbersStep DEF Alone
<1>5. QED
  BY <1>1, <1>2, <1>3, <1>4 DEF Alone

\* A handler's turn: what it finds is the one object.
LEMMA AloneTurn ==
  ASSUME TInv, TInv', Alone, NEW c \in Callers, NEW msg \in Messages, NEW w,
         Turns(c, msg, heap, 1, w), Len(heap') = 1, live' = 1, doc' = doc
  PROVE  Alone' /\ AcceptsAfresh
<1>1. PICK k : /\ Turn(c, k, msg, heap, 1, w) /\ Decides(k, heap, 1)
               /\ Accepts(k, heap, 1) /\ Stores(k, 1)
  BY DEF Turns
<1>2. /\ call' = [call EXCEPT ![c] = k] /\ k.pc \in {"idle", "reject", "record", "find", "persist"}
      /\ k.pc # "idle" => k.msg = msg /\ k.at = 1
      /\ Becomes(heap[1], heap'[1]) /\ acked' = acked
      /\ \/ told' = told
         \/ told' = told \cup {Says(heap[1])} /\ (heap[1].status # "active" \/ finalizing)
  BY <1>1 DEF Turn
<1>3. heap[1].status \in {"active", "finished"} /\ \A p \in Players : heap[1].players[p].seq \in Int
  BY SingleObject DEF Alone
<1>4. Single'
  BY <1>2, SingleStays DEF Alone
<1>5. Verdict'
  <2>1. CASE k.pc = "find"
    BY <1>1, <2>1, VerdictFalls DEF Alone, Decides
  <2>2. CASE k.pc # "find"
    <3>1. /\ heap'[1].status = heap[1].status /\ Says(heap'[1]) = Says(heap[1])
          /\ finalizing' = finalizing
      BY <1>1, <2>2 DEF Decides
    <3>2. \/ told' = told
          \/ told' = told \cup {Says(heap[1])} /\ heap[1].status # "active"
      BY <1>2, <1>3 DEF Alone, Verdict
    <3>3. QED
      BY <3>1, <3>2, VerdictStays DEF Alone
  <2>3. QED
    BY <2>1, <2>2
<1>6. AckedNumbers'
  BY <1>2, <1>4, AckedStays DEF Alone
<1>7. CountedIn(k, heap'[1])
  <2>1. CASE k.pc = "record"
    <3>1. k.msg.seq = heap'[1].players[k.msg.player].seq /\ k.msg = msg /\ msg.kind = "operation"
      BY <1>1, <1>2, <2>1 DEF Accepts
    <3>2. k.msg.seq \in Int
      BY <3>1, MessageKinds, MatchAssumption
    <3>3. QED
      BY <3>1, <3>2 DEF CountedIn
  <2>2. CASE k.pc = "find"
    BY <1>1, <2>2 DEF Decides, CountedIn, Counted
  <2>3. CASE k.pc \in {"idle", "reject", "persist"}
    BY <1>1, <2>3 DEF Stores, CountedIn, Counted, Ending
  <2>4. QED
    BY <1>2, <2>1, <2>2, <2>3
<1>8. CallNumbers'
  BY <1>2, <1>4, <1>7, NumbersStep DEF Alone
<1>9. ASSUME NEW d \in Callers, call'[d].pc = "record", call[d].pc # "record"
      PROVE  call'[d].msg.seq \notin acked[call'[d].msg.player]
  <2>1. call'[d] = k /\ k.pc = "record"
    BY <1>2, <1>9 DEF TInv, TypeOK
  <2>2. k.msg.seq > heap[1].players[k.msg.player].seq /\ k.msg = msg /\ msg.kind = "operation"
    BY <1>1, <1>2, <2>1 DEF Accepts
  <2>3. msg.player \in Players /\ msg.seq \in Int
    BY <2>2, MessageKinds, MatchAssumption
  <2>4. ~(msg.seq <= heap[1].players[msg.player].seq)
    BY <1>3, <2>2, <2>3
  <2>5. msg.seq \notin acked[msg.player]
    BY <2>3, <2>4 DEF Alone, AckedNumbers
  <2>6. QED
    BY <2>1, <2>2, <2>5
<1>10. QED
  BY <1>4, <1>5, <1>6, <1>8, <1>9 DEF Alone, AcceptsAfresh

\* Any other call starts to record nothing.
LEMMA NothingAccepted ==
  ASSUME TInv, NEW c \in Callers, NEW k, call' = [call EXCEPT ![c] = k], k.pc # "record"
  PROVE  AcceptsAfresh
<1>1. \A d \in Callers : call'[d] = IF d = c THEN k ELSE call[d]
  BY DEF TInv, TypeOK
<1>2. QED
  BY <1>1 DEF AcceptsAfresh

LEMMA AloneHandled ==
  ASSUME TInv, TInv', Alone, NEW c \in Callers, NEW msg \in Messages,
         Receive(c, msg) \/ (c = Sweeper /\ Sweep)
  PROVE  Alone' /\ AcceptsAfresh
<1>1. /\ heap \in Seq(MatchState) /\ 1 \in 1..Len(heap) /\ Len(heap) = 1 /\ live = 1 /\ TypeOK
      /\ wire \in Seq(Callers)
  BY DEF TInv, TypeOK, Alone, Single
<1>2. CASE Receive(c, msg)
  <2>1. Handle(c, msg, heap, 1, wire) /\ doc' = doc
    BY <1>1, <1>2 DEF Receive, store
  <2>2. Turns(c, msg, heap, 1, wire) /\ live' = 1
    BY <1>1, <2>1, HandleTurns
  <2>3. Len(heap') = 1
    BY <1>1, <2>1, HandleTypes DEF ProcessOK
  <2>4. QED
    BY <2>1, <2>2, <2>3, AloneTurn
<1>3. CASE c = Sweeper /\ Sweep
  <2>1. SweepMessage \in Messages /\ finalizing \in BOOLEAN
    BY DEF Messages, TInv, TypeOK
  <2>2. Turns(c, SweepMessage, heap, 1, wire) /\ live' = 1 /\ doc' = doc
    BY <1>1, <1>3, SweepTurns DEF Sweep, store
  <2>3. Len(heap') = 1
    <3>1. FinalizeByTimeout(c, SweepMessage, heap, 1)
      BY <1>1, <1>3 DEF Sweep
    <3>2. QED
      BY <1>1, <2>1, <3>1, TimeoutFinalizeTypes
  <2>4. QED
    BY <2>1, <2>2, <2>3, AloneTurn
<1>4. QED
  BY <1>2, <1>3

LEMMA AloneLeave ==
  ASSUME TInv, TInv', Alone, NEW c \in Callers, NEW p \in Players, Leave(c, p)
  PROVE  Alone' /\ AcceptsAfresh
<1> DEFINE left == WithPlayer(heap[1], p, [heap[1].players[p] EXCEPT !.connected = FALSE])
           k == Pending("persist", Ask("leave", p), 1, Nobody, "none", left)
<1>1. /\ heap \in Seq(MatchState) /\ 1 \in 1..Len(heap) /\ Len(heap) = 1 /\ live = 1
      /\ heap[1] \in MatchState
  BY SingleObject DEF TInv, TypeOK, Alone, Single
<1>2. /\ Becomes(heap[1], left) /\ left \in MatchState
      /\ left.status = heap[1].status /\ Says(left) = Says(heap[1])
  <2>1. FALSE \in BOOLEAN
    OBVIOUS
  <2>2. QED
    BY <1>1, <2>1, BecomesConnected
<1>3. /\ heap' = [heap EXCEPT ![1] = left] /\ call' = [call EXCEPT ![c] = k]
      /\ live' = 1 /\ doc' = doc /\ finalizing' = finalizing /\ acked' = acked /\ told' = told
  BY <1>1 DEF Leave, store, seen
<1>4. k.pc = "persist" /\ k.msg.kind # "operation"
  BY DEF Pending, Ask
<1> HIDE DEF left, k
<1>5. Len(heap') = 1 /\ heap'[1] = left
  BY <1>1, <1>2, <1>3, HeapUpdate
<1>6. Single'
  BY <1>3, <1>4, <1>5, SingleStays DEF Alone
<1>7. Verdict'
  BY <1>2, <1>3, <1>5, VerdictStays DEF Alone
<1>8. AckedNumbers'
  BY <1>2, <1>3, <1>5, <1>6, AckedStays DEF Alone
<1>9. CallNumbers'
  <2>1. CountedIn(k, heap'[1])
    BY <1>4 DEF CountedIn, Counted
  <2>2. QED
    BY <1>2, <1>3, <1>5, <1>6, <2>1, NumbersStep DEF Alone
<1>10. QED
  BY <1>3, <1>4, <1>6, <1>7, <1>8, <1>9, NothingAccepted DEF Alone

\* A handler answers with the one object.
LEMMA AnswerTells ==
  ASSUME TInv, Alone, NEW msg \in Messages, Answer(msg, heap[1]),
         msg.kind = "operation" => msg.seq <= heap[1].players[msg.player].seq
  PROVE  /\ \/ told' = told
            \/ told' = told \cup {Says(heap[1])} /\ heap[1].status # "active"
         /\ \A p \in Players : \A n \in acked'[p] :
              n \in acked[p] \/ n <= heap[1].players[p].seq
<1>1. heap[1].status \in {"active", "finished"}
  BY SingleObject DEF Alone
<1>2. \A p \in Players : \A n \in acked'[p] : n \in acked[p] \/ n <= heap[1].players[p].seq
  BY AnswerCounted DEF Alone
<1>3. \/ told' = told
      \/ told' = told \cup {Says(heap[1])} /\ heap[1].status # "active"
  BY <1>1 DEF Answer, AnnounceIfFinished, Announce, Says
<1>4. QED
  BY <1>2, <1>3

LEMMA AloneRecord ==
  ASSUME TInv, TInv', Alone, NEW c \in Callers, Record(c)
  PROVE  Alone' /\ AcceptsAfresh
<1> DEFINE msg == call[c].msg
<1>1. /\ heap \in Seq(MatchState) /\ 1 \in 1..Len(heap) /\ Len(heap) = 1 /\ live = 1
      /\ heap[1] \in MatchState /\ doc' = doc
  BY SingleObject DEF TInv, TypeOK, Alone, Single, Record
<1>2. call[c].at = 1 /\ msg \in Messages /\ msg.kind = "operation" /\ call[c].pc = "record"
  BY SingleObject DEF Alone, TInv, TypeOK, Call, CallOK, Record
<1>3. msg.seq <= heap[1].players[msg.player].seq
  BY <1>2 DEF Alone, CallNumbers, CountedIn, Counted
<1>4. CASE call[c].result # "exact"
  <2> DEFINE k == Pending("persist", msg, 1, call[c].winner, call[c].result, heap[1])
  <2>1. /\ call' = [call EXCEPT ![c] = k] /\ heap' = heap /\ live' = 1 /\ acked' = acked
        /\ told' = told /\ finalizing' = finalizing
    BY <1>2, <1>4 DEF Record, StartPersist, seen
  <2>2. k.pc = "persist" /\ k.msg = msg
    BY DEF Pending
  <2> HIDE DEF k
  <2>3. CountedIn(k, heap[1])
    BY <1>3, <2>2 DEF CountedIn
  <2>4. QED
    BY <1>1, <2>1, <2>2, <2>3, AloneQuiet, NothingAccepted
<1>5. CASE call[c].result = "exact" /\ MayFinalize(heap[1])
  <2> DEFINE k == Pending("find", msg, 1, msg.player, "exact", NewMatchState)
             f == Finished(heap[1], msg.player, "exact")
  <2>1. /\ call' = [call EXCEPT ![c] = k] /\ heap' = [heap EXCEPT ![1] = f] /\ live' = 1
        /\ acked' = acked /\ told' = told
    BY <1>1, <1>5 DEF Record, StartFinalize, seen
  <2>2. k.pc = "find" /\ k.msg = msg
    BY DEF Pending
  <2>3. f.status = "finished" /\ f.players = heap[1].players
    BY DEF Finished
  <2>4. heap[1].status = "active" /\ msg.player \in Players
    BY <1>2, <1>5, MessageKinds DEF MayFinalize
  <2>5. Becomes(heap[1], f) /\ f \in MatchState
    BY <1>1, <2>4, BecomesFinished, FinishedType DEF Results
  <2> HIDE DEF k, f
  <2>6. Len(heap') = 1 /\ heap'[1] = f
    BY <1>1, <2>1, <2>5, HeapUpdate
  <2>7. Single'
    BY <2>1, <2>2, <2>6, SingleStays DEF Alone
  <2>8. Verdict'
    BY <1>1, <2>1, <2>3, <2>4, <2>6, VerdictFalls DEF Alone
  <2>9. AckedNumbers'
    BY <2>1, <2>5, <2>6, <2>7, AckedStays DEF Alone
  <2>10. CountedIn(k, heap'[1])
    BY <1>3, <2>2, <2>3, <2>6 DEF CountedIn
  <2>11. CallNumbers'
    BY <2>1, <2>5, <2>6, <2>7, <2>10, NumbersStep DEF Alone
  <2>12. QED
    BY <2>1, <2>2, <2>7, <2>8, <2>9, <2>11, NothingAccepted DEF Alone
<1>6. CASE call[c].result = "exact" /\ ~MayFinalize(heap[1])
  <2>1. /\ call' = [call EXCEPT ![c] = Idle] /\ heap' = heap /\ Answer(msg, heap[1])
        /\ finalizing' = finalizing /\ live' = 1
    BY <1>1, <1>6 DEF Record, Done
  <2>2. CountedIn(Idle, heap[1]) /\ Idle.pc = "idle"
    BY IdleIs DEF CountedIn, Counted, Ending
  <2>3. QED
    BY <1>1, <1>2, <1>3, <2>1, <2>2, AnswerTells, AloneQuiet, NothingAccepted
<1>7. QED
  BY <1>1, <1>4, <1>5, <1>6

\* A call that ends or falls back, and says nothing.
LEMMA AloneGivesUp ==
  ASSUME TInv, TInv', Alone, NEW c \in Callers, BackOut(c) \/ Done(c),
         UNCHANGED <<heap, live, doc, acked, told>>,
         finalizing' = finalizing \/ finalizing' = FALSE
  PROVE  Alone' /\ AcceptsAfresh
<1>1. \E k : call' = [call EXCEPT ![c] = k] /\ k.pc \in {"idle", "reject"}
  <2> DEFINE back == Waiting("reject", call[c].msg, call[c].at)
  <2>1. back.pc = "reject" /\ Idle.pc = "idle"
    BY RejectIs, IdleIs
  <2>2. call' = [call EXCEPT ![c] = back] \/ call' = [call EXCEPT ![c] = Idle]
    BY DEF BackOut, Done
  <2> HIDE DEF back
  <2>3. QED
    BY <2>1, <2>2
<1>2. PICK k : call' = [call EXCEPT ![c] = k] /\ k.pc \in {"idle", "reject"}
  BY <1>1
<1>3. CountedIn(k, heap[1])
  BY <1>2 DEF CountedIn, Counted, Ending
<1>4. live' = 1
  BY DEF Alone, Single
<1>5. QED
  BY <1>2, <1>3, <1>4, AloneQuiet, NothingAccepted

\* The object a finalizer works on is finished as the finalizer says.
LEMMA FinalizerObject ==
  ASSUME TInv, EInv, Alone, NEW c \in Callers, Ending(call[c])
  PROVE  heap[1].status = "finished" /\ Says(heap[1]) = Says(call[c]) /\ call[c].at = 1
<1>1. call[c].at = 1
  BY SingleObject DEF Alone, Ending
<1>2. QED
  BY <1>1 DEF EInv, Backed

\* Going on in finalizeMatch counts no other operation.
LEMMA EndingCounts ==
  ASSUME NEW j, NEW k, NEW s, CountedIn(j, s), Ending(j), Ending(k),
         k.msg = j.msg, k.result = j.result
  PROVE  CountedIn(k, s)
BY DEF CountedIn, Counted, Ending

LEMMA AloneFind ==
  ASSUME TInv, TInv', EInv, Alone, NEW c \in Callers, Find(c) \/ Commit(c)
  PROVE  Alone' /\ AcceptsAfresh
<1>1. /\ Ending(call[c]) /\ CountedIn(call[c], heap[1]) /\ live = 1
      /\ heap' = heap /\ UNCHANGED <<finalizing, acked, told>>
  BY DEF Alone, Single, CallNumbers, Find, Commit, Ending, store, world, seen
<1>2. heap[1].status = "finished" /\ Says(heap[1]) = Says(call[c]) /\ call[c].at = 1
  BY <1>1, FinalizerObject
<1>3. \E k : /\ call' = [call EXCEPT ![c] = k] /\ Ending(k) /\ k.pc \in {"save", "commit"}
             /\ k.msg = call[c].msg /\ k.result = call[c].result /\ live' = 1
  <2>1. CASE StartPersist(c, "save", heap, call[c].at, wire)
    <3> DEFINE k == Pending("save", call[c].msg, call[c].at, call[c].winner, call[c].result,
                            heap[call[c].at])
    <3>1. call' = [call EXCEPT ![c] = k] /\ live' = 1
      BY <1>2, <2>1 DEF StartPersist
    <3>2. k.pc = "save" /\ k.msg = call[c].msg /\ k.result = call[c].result
      BY DEF Pending
    <3> HIDE DEF k
    <3>3. QED
      BY <3>1, <3>2 DEF Ending
  <2>2. CASE call' = [call EXCEPT ![c] = [call[c] EXCEPT !.pc = "commit"]] /\ UNCHANGED live
    <3> DEFINE k == [call[c] EXCEPT !.pc = "commit"]
    <3>1. call[c] \in Call
      BY DEF TInv, TypeOK
    <3>2. k.pc = "commit" /\ k.msg = call[c].msg /\ k.result = call[c].result
      BY <3>1 DEF Call
    <3> HIDE DEF k
    <3>3. QED
      BY <1>1, <2>2, <3>2 DEF Ending, k
  <2>3. QED
    BY <2>1, <2>2 DEF Find, Commit
<1>4. PICK k : /\ call' = [call EXCEPT ![c] = k] /\ Ending(k) /\ k.pc \in {"save", "commit"}
               /\ k.msg = call[c].msg /\ k.result = call[c].result /\ live' = 1
  BY <1>3
<1>5. CountedIn(k, heap[1])
  BY <1>1, <1>4, EndingCounts
<1>6. CASE doc' = doc
  BY <1>1, <1>4, <1>5, <1>6, AloneQuiet, NothingAccepted
<1>7. CASE Commits(c)
  <2>1. Single' /\ Becomes(heap[1], heap'[1])
    <3>1. heap[1] \in MatchState /\ Len(heap') = 1
      BY <1>1, SingleObject DEF Alone, Single
    <3>2. QED
      BY <1>1, <1>4, <3>1, SingleStays, BecomesItself DEF Alone
  <2>2. Verdict'
    <3>1. Says(doc') = Says(heap[1])
      BY <1>2, <1>7 DEF Commits, Says
    <3>2. QED
      BY <1>1, <1>2, <3>1 DEF Alone, Verdict
  <2>3. AckedNumbers'
    BY <1>1, <2>1, AckedStays DEF Alone
  <2>4. CallNumbers'
    BY <1>1, <1>4, <1>5, <2>1, NumbersStep DEF Alone
  <2>5. QED
    BY <1>4, <2>1, <2>2, <2>3, <2>4, NothingAccepted DEF Alone
<1>8. QED
  BY <1>6, <1>7 DEF Find, Commit, store

LEMMA AloneSave ==
  ASSUME TInv, TInv', EInv, Alone, NEW c \in Callers, Save(c)
  PROVE  Alone' /\ AcceptsAfresh
<1>1. /\ Ending(call[c]) /\ CountedIn(call[c], heap[1]) /\ live = 1
      /\ heap' = heap /\ live' = 1 /\ doc' = doc /\ finalizing' = FALSE
      /\ call' = [call EXCEPT ![c] = Idle]
  BY DEF Alone, Single, CallNumbers, Save, Done, Ending
<1>2. heap[1].status = "finished"
  BY <1>1, FinalizerObject
<1>3. call[c].msg \in Messages /\ (call[c].result = "exact" => call[c].msg.kind = "operation")
  BY DEF TInv, TypeOK, CallOK, Call, Save
<1>4. /\ \/ told' = told
         \/ told' = told \cup {Says(heap[1])} /\ heap[1].status # "active"
      /\ \A p \in Players : \A n \in acked'[p] : n \in acked[p] \/ n <= heap[1].players[p].seq
  <2>1. CASE call[c].result = "exact"
    <3>1. Answer(call[c].msg, heap[1])
      BY <1>1, <2>1 DEF Save
    <3>2. call[c].msg.seq <= heap[1].players[call[c].msg.player].seq
      BY <1>1, <1>3, <2>1 DEF CountedIn, Counted
    <3>3. QED
      BY <1>3, <3>1, <3>2, AnswerTells
  <2>2. CASE call[c].result = "surrender"
    BY <1>1, <1>2, <2>2 DEF Save, Announce, Says
  <2>3. CASE call[c].result \notin {"exact", "surrender"}
    BY <2>3 DEF Save, seen
  <2>4. QED
    BY <2>1, <2>2, <2>3
<1>5. CountedIn(Idle, heap[1]) /\ Idle.pc = "idle"
  BY IdleIs DEF CountedIn, Counted, Ending
<1>6. QED
  BY <1>1, <1>4, <1>5, AloneQuiet, NothingAccepted

LEMMA AlonePersist ==
  ASSUME TInv, TInv', Alone, NEW c \in Callers, Persist(c)
  PROVE  Alone' /\ AcceptsAfresh
<1>1. /\ call[c].pc = "persist" /\ CountedIn(call[c], heap[1]) /\ live = 1
      /\ heap' = heap /\ live' = 1 /\ doc' = doc /\ finalizing' = finalizing
      /\ call' = [call EXCEPT ![c] = Idle]
  BY DEF Alone, Single, CallNumbers, Persist, Done
<1>2. call[c].msg \in Messages /\ call[c].at = 1
  BY <1>1, SingleObject DEF TInv, TypeOK, Call, Alone
<1>3. /\ \/ told' = told
         \/ told' = told \cup {Says(heap[1])} /\ heap[1].status # "active"
      /\ \A p \in Players : \A n \in acked'[p] : n \in acked[p] \/ n <= heap[1].players[p].seq
  <2>1. CASE call[c].msg.kind = "leave"
    BY <2>1 DEF Persist, seen
  <2>2. CASE call[c].msg.kind # "leave"
    <3>1. Answer(call[c].msg, heap[1])
      BY <1>2, <2>2 DEF Persist
    <3>2. call[c].msg.kind = "operation" => call[c].msg.seq <= heap[1].players[call[c].msg.player].seq
      BY <1>1 DEF CountedIn, Counted
    <3>3. QED
      BY <1>2, <3>1, <3>2, AnswerTells
  <2>3. QED
    BY <2>1, <2>2
<1>4. CountedIn(Idle, heap[1]) /\ Idle.pc = "idle"
  BY IdleIs DEF CountedIn, Counted, Ending
<1>5. QED
  BY <1>1, <1>3, <1>4, AloneQuiet, NothingAccepted

LEMMA AloneFail ==
  ASSUME TInv, TInv', EInv, Alone, NEW c \in Callers, Fail(c), crashes' = crashes
  PROVE  Alone' /\ AcceptsAfresh
<1>1. ~Restarted
  BY DEF Restarted, TInv, TypeOK
<1>2. ASSUME NEW w, FinalizeThrows(c, w)
      PROVE  /\ BackOut(c) \/ Done(c)
             /\ finalizing' = FALSE /\ UNCHANGED <<heap, live>>
  BY <1>1, <1>2 DEF FinalizeThrows
<1>3. CASE MoveFails(c)
  BY <1>3, AloneGivesUp DEF MoveFails, store, seen
<1>4. CASE RedisFails(c)
  <2>1. UNCHANGED <<doc, acked, told>>
    BY <1>4 DEF RedisFails, seen
  <2>2. CASE FinalizeThrows(c, Tail(wire))
    BY <1>2, <2>1, <2>2, AloneGivesUp
  <2>3. CASE (BackOut(c) \/ Done(c)) /\ UNCHANGED <<heap, live, finalizing>>
    BY <2>1, <2>3, AloneGivesUp
  <2>4. QED
    BY <1>1, <1>4, <2>2, <2>3 DEF RedisFails, StateThrows
<1>5. CASE FinalizeFails(c)
  <2>1. /\ FinalizeThrows(c, wire) /\ UNCHANGED <<acked, told>> /\ Ending(call[c])
    BY <1>5 DEF FinalizeFails, seen, Ending
  <2>2. /\ BackOut(c) \/ Done(c)
        /\ finalizing' = FALSE /\ UNCHANGED <<heap, live>>
    BY <1>2, <2>1
  <2>3. CASE doc' = doc
    BY <2>1, <2>2, <2>3, AloneGivesUp
  <2>4. CASE Commits(c)
    <3>1. heap[1].status = "finished" /\ Says(heap[1]) = Says(call[c])
      BY <2>1, FinalizerObject
    <3>2. Says(doc') = Says(heap[1])
      BY <2>4, <3>1 DEF Commits, Says
    <3>3. Verdict'
      BY <2>1, <2>2, <3>1, <3>2 DEF Alone, Verdict
    <3>4. PICK k : call' = [call EXCEPT ![c] = k] /\ k.pc \in {"idle", "reject"}
      <4> DEFINE back == Waiting("reject", call[c].msg, call[c].at)
      <4>1. back.pc = "reject" /\ Idle.pc = "idle"
        BY RejectIs, IdleIs
      <4>2. call' = [call EXCEPT ![c] = back] \/ call' = [call EXCEPT ![c] = Idle]
        BY <2>2 DEF BackOut, Done
      <4> HIDE DEF back
      <4>3. QED
        BY <4>1, <4>2
    <3>5. CountedIn(k, heap'[1])
      BY <3>4 DEF CountedIn, Counted, Ending
    <3>6. Single' /\ Becomes(heap[1], heap'[1])
      <4>1. heap[1] \in MatchState /\ Len(heap') = 1 /\ live' = 1
        BY <2>2, SingleObject DEF Alone, Single
      <4>2. QED
        BY <2>2, <3>4, <4>1, SingleStays, BecomesItself DEF Alone
    <3>7. AckedNumbers'
      BY <2>1, <3>6, AckedStays DEF Alone
    <3>8. CallNumbers'
      BY <3>4, <3>5, <3>6, NumbersStep DEF Alone
    <3>9. QED
      BY <3>3, <3>4, <3>6, <3>7, <3>8, NothingAccepted DEF Alone
  <2>5. QED
    BY <1>5, <2>3, <2>4 DEF FinalizeFails
<1>6. QED
  BY <1>3, <1>4, <1>5 DEF Fail

LEMMA OInvInit == Init => OInv
<1> SUFFICES ASSUME Init PROVE OInv
  OBVIOUS
<1>1. heap = <<NewMatchState>> /\ live = 1 /\ told = {} /\ finalizing = FALSE
      /\ acked = [p \in Players |-> {}]
  BY DEF Init
<1>2. Len(heap) = 1 /\ heap[1].status = "active" /\ doc.status = "active"
  BY <1>1 DEF Init, NewMatchState, NewMatchDoc
<1>3. \A c \in Callers : call[c].pc = "idle"
  BY IdleIs DEF Init
<1>4. Single /\ Verdict
  BY <1>1, <1>2, <1>3 DEF Single, Verdict
<1>5. AckedNumbers
  BY <1>1 DEF AckedNumbers
<1>6. CallNumbers
  BY <1>3 DEF CallNumbers, CountedIn, Counted, Ending
<1>7. QED
  BY <1>4, <1>5, <1>6 DEF OInv, Alone

\* Crashes are counted one by one, and nothing takes one back.
LEMMA CrashesCount ==
  ASSUME [Next]_vars
  PROVE  crashes' = crashes \/ crashes' = crashes + 1
<1>1. CASE Tick \/ Sweep \/ UNCHANGED vars
  BY <1>1 DEF Tick, Sweep, vars, world
<1>2. CASE Crash
  BY <1>2 DEF Crash, Restarted
<1>3. ASSUME NEW c \in Requests, ClientRequest(c) PROVE crashes' = crashes
  BY <1>3, ClientMessages DEF Receive, StartLoad, world
<1>4. ASSUME NEW c \in Requests, NEW p \in Watchers, Leave(c, p) PROVE crashes' = crashes
  BY <1>4 DEF Leave, world
<1>5. ASSUME NEW c \in Callers, Proceed(c) PROVE crashes' = crashes
  BY <1>5 DEF Proceed, Load, Record, Reject, Find, Commit, Save, Persist, world
<1>6. ASSUME NEW c \in Callers, Fail(c) PROVE crashes' = crashes \/ crashes' = crashes + 1
  <2>1. CASE MoveFails(c)
    BY <2>1 DEF MoveFails
  <2>2. ASSUME NEW w, FinalizeThrows(c, w) PROVE crashes' = crashes \/ crashes' = crashes + 1
    BY <2>2 DEF FinalizeThrows, Restarted
  <2>3. CASE FinalizeFails(c)
    BY <2>2, <2>3 DEF FinalizeFails
  <2>4. CASE RedisFails(c)
    BY <2>2, <2>4 DEF RedisFails, StateThrows, Restarted
  <2>5. QED
    BY <1>6, <2>1, <2>3, <2>4 DEF Fail
<1>7. QED
  BY <1>1, <1>2, <1>3, <1>4, <1>5, <1>6 DEF Next

LEMMA OInvNext ==
  ASSUME TInv, EInv, OInv, [Next]_vars
  PROVE  OInv' /\ (crashes' = 0 => AcceptsAfresh)
<1> USE TInvNext DEF Callers
<1>1. TInv'
  OBVIOUS
<1>2. SUFFICES ASSUME crashes' = 0 PROVE Alone' /\ AcceptsAfresh
  BY DEF OInv
<1>3. crashes = 0 /\ ~Restarted /\ crashes' = crashes
  <2>1. crashes' = crashes \/ crashes' = crashes + 1
    BY CrashesCount
  <2>2. crashes \in Nat
    BY DEF TInv, TypeOK
  <2>3. crashes = 0 /\ crashes' = crashes
    BY <1>2, <2>1, <2>2
  <2>4. QED
    BY <2>3 DEF Restarted
<1>4. Alone /\ live = 1
  BY <1>3 DEF OInv, Alone, Single
<1>5. CASE Tick \/ UNCHANGED vars
  <2>1. UNCHANGED <<heap, live, call, finalizing, told, doc, acked>>
    BY <1>5 DEF Tick, vars, process, store, seen
  <2>2. Alone'
    BY <1>4, <2>1 DEF Alone, Single, Verdict, AckedNumbers, CallNumbers
  <2>3. AcceptsAfresh
    BY <2>1 DEF AcceptsAfresh
  <2>4. QED
    BY <2>2, <2>3
<1>6. CASE Sweep
  BY <1>1, <1>4, <1>6, AloneHandled DEF Messages
<1>7. CASE Crash
  BY <1>3, <1>7 DEF Crash
<1>8. ASSUME NEW c \in Requests, ClientRequest(c) PROVE Alone' /\ AcceptsAfresh
  <2>1. PICK msg \in Messages : Receive(c, msg) \/ StartLoad(c, msg)
    BY <1>8, ClientMessages
  <2>2. ~StartLoad(c, msg)
    BY <1>4 DEF StartLoad
  <2>3. QED
    BY <1>1, <1>4, <2>1, <2>2, AloneHandled
<1>9. ASSUME NEW c \in Requests, NEW p \in Watchers, Leave(c, p) PROVE Alone' /\ AcceptsAfresh
  BY <1>1, <1>4, <1>9, AloneLeave, MatchAssumption
<1>10. ASSUME NEW c \in Callers, Proceed(c) PROVE Alone' /\ AcceptsAfresh
  <2>1. ~Load(c)
    BY <1>4 DEF Load, Alone, Single
  <2>2. CASE Reject(c)
    BY <1>1, <1>4, <2>2, AloneGivesUp DEF Reject, seen
  <2>3. QED
    BY <1>1, <1>4, <1>10, <2>1, <2>2, AloneRecord, AloneFind, AloneSave, AlonePersist DEF Proceed
<1>11. ASSUME NEW c \in Callers, Fail(c) PROVE Alone' /\ AcceptsAfresh
  BY <1>1, <1>3, <1>4, <1>11, AloneFail
<1>12. QED
  BY <1>5, <1>6, <1>7, <1>8, <1>9, <1>10, <1>11 DEF Next

\* Until the process crashes, all match:finished events agree with each other
\* and with the result MongoDB gets, whichever of several finalizers wins and
\* whatever fails: they are read from the one object the result comes from.
THEOREM AnnouncedHolds == Spec => [](crashes = 0 => AnnouncedIsStored)
<1>1. TInv /\ OInv => (crashes = 0 => AnnouncedIsStored)
  <2> SUFFICES ASSUME TInv, OInv, crashes = 0 PROVE AnnouncedIsStored
    OBVIOUS
  <2>1. Single /\ Verdict /\ heap[1].status \in {"active", "finished"}
    BY SingleObject DEF OInv, Alone
  <2>2. QED
    BY <2>1 DEF Verdict, AnnouncedIsStored, Says
<1>2. TInv /\ EInv /\ [Next]_vars => EInv'
  BY EInvNext
<1>3. TInv /\ EInv /\ OInv /\ [Next]_vars => OInv'
  BY OInvNext
<1>4. QED
  BY TInvInit, TInvNext, EInvInit, OInvInit, <1>1, <1>2, <1>3, PTL DEF Spec

\* Until the process crashes no acknowledged number is accepted again.
THEOREM AcceptedOnceUntilCrash == Spec => [][crashes' = 0 => AcceptsAfresh]_vars
<1>1. TInv /\ EInv /\ OInv /\ [Next]_vars => [crashes' = 0 => AcceptsAfresh]_vars
  BY OInvNext
<1>2. TInv /\ EInv /\ [Next]_vars => EInv'
  BY EInvNext
<1>3. TInv /\ EInv /\ OInv /\ [Next]_vars => OInv'
  BY OInvNext
<1>4. QED
  BY TInvInit, TInvNext, EInvInit, OInvInit, <1>1, <1>2, <1>3, PTL DEF Spec

\* Where no process crashes, that is AcceptedOnce.
THEOREM AcceptedOnceHolds ==
  ASSUME MaxCrashes = 0
  PROVE  Spec => AcceptedOnce
<1>1. TInv /\ EInv /\ OInv /\ [Next]_vars => [AcceptsAfresh]_vars
  <2> SUFFICES ASSUME TInv, EInv, OInv, [Next]_vars PROVE AcceptsAfresh
    OBVIOUS
  <2>1. TInv'
    BY TInvNext
  <2>2. crashes' = 0
    BY <2>1 DEF TInv, TypeOK
  <2>3. QED
    BY <2>2, OInvNext
<1>2. TInv /\ EInv /\ [Next]_vars => EInv'
  BY EInvNext
<1>3. TInv /\ EInv /\ OInv /\ [Next]_vars => OInv'
  BY OInvNext
<1>4. QED
  BY TInvInit, TInvNext, EInvInit, OInvInit, <1>1, <1>2, <1>3, PTL DEF Spec, AcceptedOnce

-----------------------------------------------------------------------------
(* Fifth layer: until something fails, the last state stored in Redis is the  *)
(* finished one, because commands are executed in the order of their issue.  *)

Final(s, v) == s.status = "finished" /\ Says(s) = v
Storing(k) == k.pc \in {"save", "persist"}

\* Each command belongs to one call that stores a state. Behind the save of the
\* finalizer everything is final; once it is through, so is what Redis holds.
OnWire == \A i \in 1..Len(wire) : Storing(call[wire[i]])
Distinct == \A i, j \in 1..Len(wire) : wire[i] = wire[j] => i = j
FinalFromSave ==
  \A i, j \in 1..Len(wire) :
    i <= j /\ call[wire[i]].pc = "save" => Final(call[wire[j]].snap, Says(heap[1]))
FinalAfterSave ==
  doc.status = "finished" /\ (\A c \in Callers : call[c].pc # "save") =>
    /\ Final(redis, Says(heap[1]))
    /\ \A j \in 1..Len(wire) : Final(call[wire[j]].snap, Says(heap[1]))
Piped == OnWire /\ Distinct /\ FinalFromSave /\ FinalAfterSave

WInv == crashes = 0 /\ faults = 0 => Piped

LEMMA Pushed ==
  ASSUME NEW S, NEW w \in Seq(S), NEW c \in S
  PROVE  /\ Len(Append(w, c)) = Len(w) + 1 /\ Len(w) \in Nat
         /\ \A i \in 1..Len(w) : Append(w, c)[i] = w[i] /\ w[i] \in S
         /\ Append(w, c)[Len(w) + 1] = c
OBVIOUS

LEMMA Popped ==
  ASSUME NEW S, NEW w \in Seq(S), w # <<>>
  PROVE  /\ Len(Tail(w)) = Len(w) - 1 /\ Len(w) \in Nat /\ Len(w) >= 1 /\ w[1] = Head(w)
         /\ \A i \in 1..(Len(w) - 1) : Tail(w)[i] = w[i + 1] /\ w[i + 1] \in S
OBVIOUS

\* Where there is a save, or a result in MongoDB, the object is finished.
LEMMA SavedIsFinished ==
  ASSUME TInv, EInv, Alone
  PROVE  /\ \A d \in Callers : call[d].pc = "save" => heap[1].status = "finished"
         /\ doc.status = "finished" => heap[1].status = "finished"
<1>1. \A d \in Callers : call[d].pc = "save" => heap[1].status = "finished"
  BY FinalizerObject DEF Ending
<1>2. heap[1].status \in {"active", "finished"}
  BY SingleObject DEF Alone
<1>3. doc.status = "finished" => heap[1].status = "finished"
  BY <1>2 DEF Alone, Verdict
<1>4. QED
  BY <1>1, <1>3

\* A call that stores nothing and stays off the connection.
LEMMA PipedQuiet ==
  ASSUME TInv, EInv, Alone, Piped, NEW c \in Callers, NEW k, call' = [call EXCEPT ![c] = k],
         ~Storing(k), ~Storing(call[c]), wire' = wire, redis' = redis, doc' = doc,
         heap[1].status = "finished" => Says(heap'[1]) = Says(heap[1])
  PROVE  Piped'
<1>1. /\ wire \in Seq(Callers) /\ \A i \in 1..Len(wire) : wire[i] \in Callers
      /\ \A d \in Callers : call'[d] = IF d = c THEN k ELSE call[d]
  BY DEF TInv, TypeOK
<1>2. \A i \in 1..Len(wire) : wire[i] # c /\ call'[wire[i]] = call[wire[i]]
  BY <1>1 DEF Piped, OnWire
<1>3. OnWire'
  BY <1>2 DEF Piped, OnWire
<1>4. Distinct'
  BY DEF Piped, Distinct
<1>5. FinalFromSave'
  <2> SUFFICES ASSUME NEW i \in 1..Len(wire), NEW j \in 1..Len(wire), i <= j,
                      call'[wire[i]].pc = "save"
               PROVE  Final(call'[wire[j]].snap, Says(heap'[1]))
    BY DEF FinalFromSave
  <2>1. call[wire[i]].pc = "save" /\ call'[wire[j]] = call[wire[j]]
    BY <1>2
  <2>2. Final(call[wire[j]].snap, Says(heap[1]))
    BY <2>1 DEF Piped, FinalFromSave
  <2>3. heap[1].status = "finished"
    BY <1>1, <2>1, SavedIsFinished
  <2>4. QED
    BY <2>1, <2>2, <2>3
<1>6. FinalAfterSave'
  <2> SUFFICES ASSUME doc.status = "finished", \A d \in Callers : call'[d].pc # "save"
               PROVE  /\ Final(redis, Says(heap'[1]))
                      /\ \A j \in 1..Len(wire) : Final(call'[wire[j]].snap, Says(heap'[1]))
    BY DEF FinalAfterSave
  <2>1. \A d \in Callers : call[d].pc # "save"
    BY <1>1 DEF Storing
  <2>2. Says(heap'[1]) = Says(heap[1])
    BY SavedIsFinished
  <2>3. /\ Final(redis, Says(heap[1]))
        /\ \A j \in 1..Len(wire) : Final(call[wire[j]].snap, Says(heap[1]))
    BY <2>1 DEF Piped, FinalAfterSave
  <2>4. QED
    BY <1>2, <2>2, <2>3
<1>7. QED
  BY <1>3, <1>4, <1>5, <1>6 DEF Piped

\* A call issues a command: behind a save, the state it stores is final.
LEMMA PipedPush ==
  ASSUME TInv, EInv, Alone, Piped, NEW c \in Callers, NEW k, call' = [call EXCEPT ![c] = k],
         Storing(k), ~Storing(call[c]), wire' = Append(wire, c), redis' = redis,
         k.pc = "persist" => doc' = doc,
         k.pc = "save" => heap[1].status = "finished",
         heap[1].status = "finished" => /\ Says(heap'[1]) = Says(heap[1])
                                        /\ Final(k.snap, Says(heap[1]))
  PROVE  Piped'
<1> DEFINE n == Len(wire)
<1>1. /\ n \in Nat /\ Len(wire') = n + 1 /\ wire'[n + 1] = c
      /\ \A i \in 1..n : wire'[i] = wire[i] /\ wire[i] \in Callers
      /\ \A d \in Callers : call'[d] = IF d = c THEN k ELSE call[d]
  <2>1. wire \in Seq(Callers) /\ \A d \in Callers : call'[d] = IF d = c THEN k ELSE call[d]
    BY DEF TInv, TypeOK
  <2>2. QED
    BY <2>1, Pushed
<1> HIDE DEF n
<1>2. \A i \in 1..n : wire[i] # c /\ call'[wire[i]] = call[wire[i]]
  BY <1>1 DEF Piped, OnWire, n
<1>3. \A i \in 1..(n + 1) : i \in 1..n \/ i = n + 1
  BY <1>1
<1>4. OnWire'
  <2>1. \A i \in 1..(n + 1) : Storing(call'[wire'[i]])
    <3>1. \A i \in 1..n : Storing(call[wire[i]])
      BY DEF Piped, OnWire, n
    <3>2. QED
      BY <1>1, <1>2, <1>3, <3>1
  <2>2. QED
    BY <1>1, <2>1 DEF OnWire
<1>5. Distinct'
  <2>1. \A i, j \in 1..n : wire[i] = wire[j] => i = j
    BY DEF Piped, Distinct, n
  <2>2. \A i, j \in 1..(n + 1) : wire'[i] = wire'[j] => i = j
    BY <1>1, <1>2, <1>3, <2>1
  <2>3. QED
    BY <1>1, <2>2 DEF Distinct
<1>6. FinalFromSave'
  <2> SUFFICES ASSUME NEW i \in 1..(n + 1), NEW j \in 1..(n + 1), i <= j,
                      call'[wire'[i]].pc = "save"
               PROVE  Final(call'[wire'[j]].snap, Says(heap'[1]))
    BY <1>1 DEF FinalFromSave
  <2>1. heap[1].status = "finished"
    <3>1. CASE i = n + 1
      BY <1>1, <3>1
    <3>2. CASE i \in 1..n
      BY <1>1, <1>2, <3>2, SavedIsFinished
    <3>3. QED
      BY <1>3, <3>1, <3>2
  <2>2. CASE j = n + 1
    BY <1>1, <2>1, <2>2
  <2>3. CASE j \in 1..n
    <3>1. i \in 1..n
      BY <1>1, <2>3
    <3>2. call[wire[i]].pc = "save" /\ call'[wire'[j]] = call[wire[j]]
      BY <1>1, <1>2, <2>3, <3>1
    <3>3. Final(call[wire[j]].snap, Says(heap[1]))
      BY <2>3, <3>1, <3>2 DEF Piped, FinalFromSave, n
    <3>4. QED
      BY <2>1, <3>2, <3>3
  <2>4. QED
    BY <1>3, <2>2, <2>3
<1>7. FinalAfterSave'
  <2> SUFFICES ASSUME doc'.status = "finished", \A d \in Callers : call'[d].pc # "save"
               PROVE  /\ Final(redis, Says(heap'[1]))
                      /\ \A j \in 1..(n + 1) : Final(call'[wire'[j]].snap, Says(heap'[1]))
    BY <1>1 DEF FinalAfterSave
  <2>1. k.pc = "persist" /\ \A d \in Callers : call[d].pc # "save"
    BY <1>1 DEF Storing
  <2>2. heap[1].status = "finished" /\ doc.status = "finished"
    BY <2>1, SavedIsFinished
  <2>3. /\ Final(redis, Says(heap[1]))
        /\ \A j \in 1..n : Final(call[wire[j]].snap, Says(heap[1]))
    BY <2>1, <2>2 DEF Piped, FinalAfterSave, n
  <2>4. QED
    BY <1>1, <1>2, <1>3, <2>2, <2>3
<1>8. QED
  BY <1>4, <1>5, <1>6, <1>7 DEF Piped

\* Redis has executed the first command.
LEMMA PipedPop ==
  ASSUME TInv, Piped, NEW c \in Callers, Storing(call[c]), call' = [call EXCEPT ![c] = Idle],
         wire # <<>>, Head(wire) = c, wire' = Tail(wire), redis' = call[c].snap,
         UNCHANGED <<doc, heap>>
  PROVE  Piped'
<1> DEFINE n == Len(wire)
<1>1. /\ n \in Nat /\ n >= 1 /\ Len(wire') = n - 1 /\ wire[1] = c
      /\ \A i \in 1..(n - 1) : wire'[i] = wire[i + 1] /\ wire[i + 1] \in Callers
      /\ \A d \in Callers : call'[d] = IF d = c THEN Idle ELSE call[d]
  <2>1. wire \in Seq(Callers) /\ \A d \in Callers : call'[d] = IF d = c THEN Idle ELSE call[d]
    BY DEF TInv, TypeOK
  <2>2. QED
    BY <2>1, Popped
<1> HIDE DEF n
<1>2. \A i \in 1..(n - 1) : i + 1 \in 1..n /\ i + 1 # 1
  BY <1>1
<1>3. \A i, j \in 1..n : wire[i] = wire[j] => i = j
  BY DEF Piped, Distinct, n
<1>4. \A i \in 1..(n - 1) : wire'[i] # c /\ call'[wire'[i]] = call[wire[i + 1]]
  <2> SUFFICES ASSUME NEW i \in 1..(n - 1)
               PROVE  wire'[i] # c /\ call'[wire'[i]] = call[wire[i + 1]]
    OBVIOUS
  <2>1. wire'[i] = wire[i + 1] /\ wire[i + 1] \in Callers /\ i + 1 \in 1..n /\ i + 1 # 1 /\ 1 \in 1..n
    BY <1>1, <1>2
  <2>2. wire[i + 1] # c
    BY <1>1, <1>3, <2>1
  <2>3. QED
    BY <1>1, <2>1, <2>2
<1>5. OnWire'
  <2>1. \A i \in 1..n : Storing(call[wire[i]])
    BY DEF Piped, OnWire, n
  <2>2. \A i \in 1..(n - 1) : Storing(call'[wire'[i]])
    BY <1>2, <1>4, <2>1
  <2>3. QED
    BY <1>1, <2>2 DEF OnWire
<1>6. Distinct'
  <2>1. \A i, j \in 1..(n - 1) : wire'[i] = wire'[j] => i = j
    BY <1>1, <1>2, <1>3
  <2>2. QED
    BY <1>1, <2>1 DEF Distinct
<1>7. \A i, j \in 1..n : i <= j /\ call[wire[i]].pc = "save" => Final(call[wire[j]].snap, Says(heap[1]))
  BY DEF Piped, FinalFromSave, n
<1>8. FinalFromSave'
  <2>1. ASSUME NEW i \in 1..(n - 1), NEW j \in 1..(n - 1), i <= j, call'[wire'[i]].pc = "save"
        PROVE  Final(call'[wire'[j]].snap, Says(heap[1]))
    <3>1. i + 1 \in 1..n /\ j + 1 \in 1..n /\ i + 1 <= j + 1
      BY <1>1, <2>1
    <3>2. call[wire[i + 1]].pc = "save" /\ call'[wire'[j]] = call[wire[j + 1]]
      BY <1>4, <2>1
    <3>3. QED
      BY <1>7, <3>1, <3>2
  <2>2. QED
    BY <1>1, <2>1 DEF FinalFromSave
<1>9. FinalAfterSave'
  <2> SUFFICES ASSUME doc.status = "finished", \A d \in Callers : call'[d].pc # "save"
               PROVE  /\ Final(call[c].snap, Says(heap[1]))
                      /\ \A j \in 1..(n - 1) : Final(call'[wire'[j]].snap, Says(heap[1]))
    BY <1>1 DEF FinalAfterSave
  <2>1. \A j \in 1..n : Final(call[wire[j]].snap, Says(heap[1]))
    <3>1. CASE call[c].pc = "save"
      <4>1. \A j \in 1..n : 1 <= j
        BY <1>1
      <4>2. 1 \in 1..n
        BY <1>1
      <4>3. QED
        BY <1>1, <1>7, <3>1, <4>1, <4>2
    <3>2. CASE call[c].pc # "save"
      <4>1. \A d \in Callers : call[d].pc # "save"
        BY <1>1, <3>2
      <4>2. QED
        BY <4>1 DEF Piped, FinalAfterSave, n
    <3>3. QED
      BY <3>1, <3>2
  <2>2. 1 \in 1..n
    BY <1>1
  <2>3. QED
    BY <1>1, <1>2, <1>4, <2>1, <2>2
<1>10. QED
  BY <1>5, <1>6, <1>8, <1>9 DEF Piped

\* What Becomes keeps of the one object.
LEMMA KeepsSaying ==
  ASSUME NEW s, NEW t, Becomes(s, t), s.status = "finished"
  PROVE  t.status = "finished" /\ Says(t) = Says(s)
BY DEF Becomes, Says

LEMMA PipedTurn ==
  ASSUME TInv, EInv, Alone, Piped, NEW c \in Callers, NEW msg \in Messages,
         Turns(c, msg, heap, 1, wire), call[c].pc = "idle", UNCHANGED <<redis, doc>>
  PROVE  Piped'
<1>1. PICK k : Turn(c, k, msg, heap, 1, wire) /\ Stores(k, 1)
  BY DEF Turns
<1>2. /\ call' = [call EXCEPT ![c] = k] /\ k.pc \in {"idle", "reject", "record", "find", "persist"}
      /\ Becomes(heap[1], heap'[1])
      /\ wire' = IF k.pc = "persist" THEN Append(wire, c) ELSE wire
  BY <1>1 DEF Turn
<1>3. heap[1].status = "finished" => heap'[1].status = "finished" /\ Says(heap'[1]) = Says(heap[1])
  BY <1>2, KeepsSaying
<1>4. ~Storing(call[c])
  BY DEF Storing
<1>5. CASE k.pc = "persist"
  <2>1. k.snap = heap'[1] /\ wire' = Append(wire, c) /\ Storing(k) /\ k.pc # "save"
    BY <1>1, <1>2, <1>5 DEF Stores, Storing
  <2>2. heap[1].status = "finished" => Final(k.snap, Says(heap[1]))
    BY <1>3, <2>1 DEF Final
  <2>3. QED
    BY <1>2, <1>3, <1>4, <2>1, <2>2, PipedPush
<1>6. CASE k.pc # "persist"
  <2>1. ~Storing(k) /\ wire' = wire
    BY <1>2, <1>6 DEF Storing
  <2>2. QED
    BY <1>2, <1>3, <1>4, <2>1, PipedQuiet
<1>7. QED
  BY <1>5, <1>6

LEMMA PipedHandled ==
  ASSUME TInv, EInv, Alone, Piped, NEW c \in Callers, NEW msg \in Messages,
         Receive(c, msg) \/ (c = Sweeper /\ Sweep)
  PROVE  Piped'
<1>1. /\ heap \in Seq(MatchState) /\ 1 \in 1..Len(heap) /\ live = 1 /\ TypeOK
  BY DEF TInv, TypeOK, Alone, Single
<1>2. CASE Receive(c, msg)
  <2>1. /\ Handle(c, msg, heap, 1, wire) /\ UNCHANGED <<redis, doc>> /\ call[c].pc = "idle"
    BY <1>1, <1>2 DEF Receive, store
  <2>2. Turns(c, msg, heap, 1, wire)
    BY <1>1, <2>1, HandleTurns
  <2>3. QED
    BY <2>1, <2>2, PipedTurn
<1>3. CASE c = Sweeper /\ Sweep
  <2>1. SweepMessage \in Messages /\ UNCHANGED <<redis, doc>> /\ call[c].pc = "idle"
    BY <1>3 DEF Messages, Sweep, store
  <2>2. Turns(c, SweepMessage, heap, 1, wire)
    BY <1>1, <1>3, SweepTurns
  <2>3. QED
    BY <2>1, <2>2, PipedTurn
<1>4. QED
  BY <1>2, <1>3

LEMMA PipedLeave ==
  ASSUME TInv, EInv, Alone, Piped, NEW c \in Callers, NEW p \in Players, Leave(c, p)
  PROVE  Piped'
<1> DEFINE left == WithPlayer(heap[1], p, [heap[1].players[p] EXCEPT !.connected = FALSE])
           k == Pending("persist", Ask("leave", p), 1, Nobody, "none", left)
<1>1. live = 1
  BY DEF Alone, Single
<1>2. /\ call' = [call EXCEPT ![c] = k] /\ wire' = Append(wire, c)
      /\ UNCHANGED <<redis, doc>> /\ heap[1].status = "active" /\ call[c].pc = "idle"
  BY <1>1 DEF Leave, store
<1>3. k.pc = "persist"
  BY DEF Pending
<1> HIDE DEF left, k
<1>4. Storing(k) /\ ~Storing(call[c]) /\ k.pc # "save" /\ heap[1].status # "finished"
  BY <1>2, <1>3 DEF Storing
<1>5. QED
  BY <1>2, <1>4, PipedPush

LEMMA PipedRecord ==
  ASSUME TInv, EInv, Alone, Piped, NEW c \in Callers, Record(c)
  PROVE  Piped'
<1> DEFINE msg == call[c].msg
<1>1. /\ heap \in Seq(MatchState) /\ 1 \in 1..Len(heap) /\ live = 1
      /\ UNCHANGED <<redis, doc>>
  BY SingleObject DEF TInv, TypeOK, Alone, Single, Record
<1>2. call[c].at = 1 /\ ~Storing(call[c])
  BY SingleObject DEF Alone, Record, Storing
<1>3. CASE call[c].result # "exact"
  <2> DEFINE k == Pending("persist", msg, 1, call[c].winner, call[c].result, heap[1])
  <2>1. call' = [call EXCEPT ![c] = k] /\ heap' = heap /\ wire' = Append(wire, c)
    BY <1>2, <1>3 DEF Record, StartPersist
  <2>2. k.pc = "persist" /\ k.snap = heap[1]
    BY DEF Pending
  <2> HIDE DEF k
  <2>3. Storing(k) /\ k.pc # "save" /\ (heap[1].status = "finished" => Final(k.snap, Says(heap[1])))
    BY <2>2 DEF Storing, Final
  <2>4. QED
    BY <1>1, <1>2, <2>1, <2>3, PipedPush
<1>4. CASE call[c].result = "exact" /\ MayFinalize(heap[1])
  <2> DEFINE k == Pending("find", msg, 1, msg.player, "exact", NewMatchState)
  <2>1. call' = [call EXCEPT ![c] = k] /\ wire' = wire
    BY <1>1, <1>4 DEF Record, StartFinalize
  <2>2. k.pc = "find"
    BY DEF Pending
  <2> HIDE DEF k
  <2>3. ~Storing(k) /\ heap[1].status # "finished"
    BY <1>4, <2>2 DEF Storing, MayFinalize
  <2>4. QED
    BY <1>1, <1>2, <2>1, <2>3, PipedQuiet
<1>5. CASE call[c].result = "exact" /\ ~MayFinalize(heap[1])
  <2>1. call' = [call EXCEPT ![c] = Idle] /\ heap' = heap /\ wire' = wire
    BY <1>1, <1>5 DEF Record, Done
  <2>2. ~Storing(Idle)
    BY IdleIs DEF Storing
  <2>3. QED
    BY <1>1, <1>2, <2>1, <2>2, PipedQuiet
<1>6. QED
  BY <1>3, <1>4, <1>5

LEMMA PipedReject ==
  ASSUME TInv, EInv, Alone, Piped, NEW c \in Callers, Reject(c)
  PROVE  Piped'
<1>1. /\ call' = [call EXCEPT ![c] = Idle] /\ UNCHANGED <<heap, wire, redis, doc>>
      /\ call[c].pc = "reject"
  BY DEF Reject, Done
<1>2. ~Storing(Idle) /\ ~Storing(call[c])
  BY <1>1, IdleIs DEF Storing
<1>3. QED
  BY <1>1, <1>2, PipedQuiet

LEMMA PipedFind ==
  ASSUME TInv, EInv, Alone, Piped, NEW c \in Callers, Find(c) \/ Commit(c)
  PROVE  Piped'
<1>1. Ending(call[c]) /\ ~Storing(call[c]) /\ heap' = heap /\ redis' = redis
  BY DEF Find, Commit, Ending, Storing, store
<1>2. heap[1].status = "finished" /\ call[c].at = 1
  BY <1>1, FinalizerObject
<1>3. CASE StartPersist(c, "save", heap, call[c].at, wire)
  <2> DEFINE k == Pending("save", call[c].msg, 1, call[c].winner, call[c].result, heap[1])
  <2>1. call' = [call EXCEPT ![c] = k] /\ wire' = Append(wire, c)
    BY <1>2, <1>3 DEF StartPersist
  <2>2. k.pc = "save" /\ k.snap = heap[1]
    BY DEF Pending
  <2> HIDE DEF k
  <2>3. Storing(k) /\ k.pc # "persist" /\ Final(k.snap, Says(heap[1]))
    BY <1>2, <2>2 DEF Storing, Final
  <2>4. QED
    BY <1>1, <1>2, <2>1, <2>3, PipedPush
<1>4. CASE /\ call' = [call EXCEPT ![c] = [call[c] EXCEPT !.pc = "commit"]]
           /\ wire' = wire /\ doc' = doc
  <2> DEFINE k == [call[c] EXCEPT !.pc = "commit"]
  <2>1. call[c] \in Call
    BY DEF TInv, TypeOK
  <2>2. k.pc = "commit"
    BY <2>1 DEF Call
  <2>3. call' = [call EXCEPT ![c] = k]
    BY <1>4
  <2> HIDE DEF k
  <2>4. ~Storing(k)
    BY <2>2 DEF Storing
  <2>5. QED
    BY <1>1, <1>4, <2>3, <2>4, PipedQuiet
<1>5. QED
  BY <1>3, <1>4 DEF Find, Commit, store

\* Nothing has failed before a step after which nothing has failed.
LEMMA FaultsCount ==
  ASSUME [Next]_vars
  PROVE  faults' = faults \/ faults' = faults + 1
<1>1. CASE Tick \/ Sweep \/ Crash \/ UNCHANGED vars
  BY <1>1 DEF Tick, Sweep, Crash, vars, world
<1>2. ASSUME NEW c \in Requests, ClientRequest(c) PROVE faults' = faults
  BY <1>2, ClientMessages DEF Receive, StartLoad, world
<1>3. ASSUME NEW c \in Requests, NEW p \in Watchers, Leave(c, p) PROVE faults' = faults
  BY <1>3 DEF Leave, world
<1>4. ASSUME NEW c \in Callers, Proceed(c) PROVE faults' = faults
  BY <1>4 DEF Proceed, Load, Record, Reject, Find, Commit, Save, Persist, world
<1>5. ASSUME NEW c \in Callers, Fail(c) PROVE faults' = faults + 1
  BY <1>5 DEF Fail, MoveFails, FinalizeFails, RedisFails, Fault
<1>6. QED
  BY <1>1, <1>2, <1>3, <1>4, <1>5 DEF Next

LEMMA WInvNext ==
  ASSUME TInv, EInv, OInv, WInv, [Next]_vars
  PROVE  WInv'
<1> USE DEF Callers
<1>1. SUFFICES ASSUME crashes' = 0, faults' = 0 PROVE Piped'
  BY DEF WInv
<1>2. crashes = 0 /\ faults = 0 /\ ~Crash /\ \A c \in Callers : ~Fail(c)
  <2>1. crashes' = crashes \/ crashes' = crashes + 1
    BY CrashesCount
  <2>2. faults' = faults \/ faults' = faults + 1
    BY FaultsCount
  <2>3. crashes \in Nat /\ faults \in Nat
    BY DEF TInv, TypeOK
  <2>4. crashes = 0 /\ faults = 0
    BY <1>1, <2>1, <2>2, <2>3
  <2>5. ~Crash
    BY <1>1, <2>4 DEF Crash, Restarted
  <2>6. \A c \in Callers : ~Fail(c)
    BY <1>1, <2>4 DEF Fail, MoveFails, FinalizeFails, RedisFails, Fault
  <2>7. QED
    BY <2>4, <2>5, <2>6
<1>3. Alone /\ Piped /\ live = 1
  BY <1>2 DEF OInv, WInv, Alone, Single
<1>4. CASE Tick \/ UNCHANGED vars
  <2>1. UNCHANGED <<heap, call, wire, redis, doc>>
    BY <1>4 DEF Tick, vars, process, store
  <2>2. QED
    BY <1>3, <2>1 DEF Piped, OnWire, Distinct, FinalFromSave, FinalAfterSave
<1>5. CASE Sweep
  BY <1>3, <1>5, PipedHandled DEF Messages
<1>6. ASSUME NEW c \in Requests, ClientRequest(c) PROVE Piped'
  <2>1. PICK msg \in Messages : Receive(c, msg) \/ StartLoad(c, msg)
    BY <1>6, ClientMessages
  <2>2. ~StartLoad(c, msg)
    BY <1>3 DEF StartLoad
  <2>3. QED
    BY <1>3, <2>1, <2>2, PipedHandled
<1>7. ASSUME NEW c \in Requests, NEW p \in Watchers, Leave(c, p) PROVE Piped'
  BY <1>3, <1>7, PipedLeave, MatchAssumption
<1>8. ASSUME NEW c \in Callers, Proceed(c) PROVE Piped'
  <2>1. ~Load(c)
    BY <1>3 DEF Load, Alone, Single
  <2>2. CASE Save(c) \/ Persist(c)
    <3>1. /\ Storing(call[c]) /\ call' = [call EXCEPT ![c] = Idle] /\ wire # <<>>
          /\ Head(wire) = c /\ wire' = Tail(wire) /\ redis' = call[c].snap
          /\ UNCHANGED <<doc, heap>>
      BY <2>2 DEF Save, Persist, Storing, Done
    <3>2. QED
      BY <1>3, <3>1, PipedPop
  <2>3. QED
    BY <1>3, <1>8, <2>1, <2>2, PipedRecord, PipedReject, PipedFind DEF Proceed
<1>9. QED
  BY <1>2, <1>4, <1>5, <1>6, <1>7, <1>8 DEF Next

LEMMA WInvInit == Init => WInv
<1> SUFFICES ASSUME Init PROVE Piped
  BY DEF WInv
<1>1. wire = <<>> /\ Len(wire) = 0 /\ doc.status = "active"
  BY DEF Init, NewMatchDoc
<1>2. QED
  BY <1>1 DEF Piped, OnWire, Distinct, FinalFromSave, FinalAfterSave

\* As long as nothing fails, Redis ends up with the result that MongoDB holds:
\* no persist of a joining or playing client overtakes the one of finalizeState.
THEOREM CacheHolds == Spec => [](crashes = 0 => CacheIsFinal)
<1>1. TInv /\ OInv /\ WInv => (crashes = 0 => CacheIsFinal)
  <2> SUFFICES ASSUME TInv, OInv, WInv, crashes = 0, faults = 0, doc.status = "finished",
                      \A c \in Callers : call[c].pc = "idle"
               PROVE  redis.status = "finished" /\ redis.winner = doc.winner /\ redis.result = doc.result
    BY DEF CacheIsFinal
  <2>1. Final(redis, Says(heap[1]))
    BY DEF WInv, Piped, FinalAfterSave
  <2>2. Says(doc) = Says(heap[1])
    BY DEF OInv, Alone, Verdict
  <2>3. QED
    BY <2>1, <2>2 DEF Final, Says
<1>2. TInv /\ EInv /\ [Next]_vars => EInv'
  BY EInvNext
<1>3. TInv /\ EInv /\ OInv /\ [Next]_vars => OInv'
  BY OInvNext
<1>4. TInv /\ EInv /\ OInv /\ WInv /\ [Next]_vars => WInv'
  BY WInvNext
<1>5. QED
  BY TInvInit, TInvNext, EInvInit, OInvInit, WInvInit, <1>1, <1>2, <1>3, <1>4, PTL DEF Spec
=============================================================================
