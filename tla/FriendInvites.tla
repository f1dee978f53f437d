---------------------------- MODULE FriendInvites ----------------------------
(***************************************************************************)
(* Invites to a friendly match: a host is given a code that Redis holds    *)
(* for ten minutes, and the first to send the code back plays him.         *)
(*                                                                         *)
(* Creating an invite and joining by a code are handlers of the gateway    *)
(* (and of a controller); every await of one lets the others run, so two   *)
(* guests may read a code before either deletes it, and a code may expire, *)
(* and be drawn again for somebody else, between a guest's GET and DEL.    *)
(* The friendly page of the browser hears the answers with listeners that  *)
(* serve once, whatever the first event of the name is about.              *)
(***************************************************************************)
EXTENDS Integers, Sequences, FiniteSets

CONSTANTS
  Users,
  Leavers,       \* those who come from the ranked queue, with their leave unanswered
  Codes,         \* what the six hexadecimal digits can be
  MaxInvites,    \* bound on the calls that create an invite
  MaxJoins,      \* bound on the calls that join by a code
  MaxTries,      \* codes createInvite draws before it gives up; 10 in the code
  MaxTroubles    \* bound on the calls of Redis and MongoDB that fail and the
                 \* connections that break

ASSUME FriendInvitesAssumption ==
  /\ Leavers \subseteq Users
  /\ MaxInvites \in Nat /\ MaxJoins \in Nat /\ MaxTroubles \in Nat
  /\ MaxTries \in Nat \ {0}

Invites == 1..MaxInvites
Joins   == 1..MaxJoins
None    == 0

VARIABLES
  invites,    \* the calls of createInvite so far: host, codes drawn, whether its
              \* socket is still there, answer
  store,      \* Redis: [Codes -> the invite under friend:invite:<code>, or None]
  joins,      \* the calls that join: by whom, with which code, over REST or not,
              \* the invite they have read and may use, the step they are at
  made,       \* the joins whose match is stored, and in memory at once
  online,     \* the users with an open socket
  page,       \* [Users -> the friendly page: the route it has led to, the invite
              \* whose code it shows, the events that it listens for once]
  leave,      \* [Users -> the answer to his matchmaking:leave: on its way, or
              \* heard by the listener that waits for a code]
  troubles

vars == <<invites, store, joins, made, online, page, leave, troubles>>

Init ==
  /\ invites = <<>>
  /\ store = [c \in Codes |-> None]
  /\ joins = <<>>
  /\ made = {}
  /\ online = Users
  /\ page = [u \in Users |-> [route |-> "friendly", shows |-> None, once |-> {}]]
  /\ leave = [u \in Users |-> IF u \in Leavers THEN "pending" ELSE "none"]
  /\ troubles = 0

-----------------------------------------------------------------------------
(* createInvite.                                                            *)

\* The button that creates an invite emits friendmatch:create, which waits in
\* the socket's buffer while there is no connection, and adds the listeners.
Ask(u) ==
  /\ Len(invites) < MaxInvites
  /\ page[u].route = "friendly"
  /\ invites' = Append(invites,
       [host |-> u, tries |-> 0, client |-> TRUE, answer |-> IF u \in online THEN "none" ELSE "buffered"])
  /\ page' = [page EXCEPT ![u].once = {"event", "matched"}]
  /\ UNCHANGED <<store, joins, made, online, leave, troubles>>

\* Variant: SET without NX.
DrawAny(i, c) ==
  /\ i <= Len(invites) /\ invites[i].answer = "none"
  /\ store' = [store EXCEPT ![c] = i]
  /\ invites' = [invites EXCEPT ![i].answer = "code"]
  /\ UNCHANGED <<joins, made, online, page, leave, troubles>>

\* Variant: the loop tries once more than it should.
GivesUpLate(tries) == tries > MaxTries

\* After so many codes that were taken, createInvite throws.
GivesUp(tries) == tries >= MaxTries

\* One turn of the loop: a code is drawn, and SET NX takes it if it is free.
Draw(i, c) ==
  /\ i <= Len(invites) /\ invites[i].answer = "none"
  /\ IF store[c] = None
     THEN /\ store' = [store EXCEPT ![c] = i]
          /\ invites' = [invites EXCEPT ![i].answer = "code"]
     ELSE /\ invites' = [invites EXCEPT ![i].tries = @ + 1,
                           ![i].answer = IF GivesUp(invites[i].tries + 1) THEN "error" ELSE @]
          /\ UNCHANGED store
  /\ UNCHANGED <<joins, made, online, page, leave, troubles>>

\* The answer friend_invite_created, a match:event, goes to the socket that asked.
Hear(i) ==
  /\ i <= Len(invites) /\ invites[i].answer = "code"
  /\ invites' = [invites EXCEPT ![i].answer = "heard"]
  /\ LET u == invites[i].host IN
       page' = IF invites[i].client /\ "event" \in page[u].once
               THEN [page EXCEPT ![u].shows = i, ![u].once = @ \ {"event"}]
               ELSE page
  /\ UNCHANGED <<store, joins, made, online, leave, troubles>>

\* queue_left, the answer to a matchmaking:leave, is a match:event too: it uses
\* up a listener that waits for a code.
QueueLeft(u) ==
  /\ leave[u] = "pending"
  /\ leave' = [leave EXCEPT ![u] = IF "event" \in page[u].once THEN "heard" ELSE "none"]
  /\ page' = [page EXCEPT ![u].once = @ \ {"event"}]
  /\ UNCHANGED <<invites, store, joins, made, online, troubles>>

\* EX 600.
Expire(c) ==
  /\ store[c] # None
  /\ store' = [store EXCEPT ![c] = None]
  /\ UNCHANGED <<invites, joins, made, online, page, leave, troubles>>

-----------------------------------------------------------------------------
(* consumeInvite, and the rest of the handler that called it.               *)

\* Variant: the code is deleted when the match has been stored.
StepsDeleteLate == <<"get", "create", "del", "boot", "tell">>

\* The awaits in their order, and the answer.
Steps == <<"get", "del", "create", "boot", "tell">>

At(j, step) ==
  /\ j <= Len(joins)
  /\ joins[j].at \in DOMAIN Steps
  /\ Steps[joins[j].at] = step

Refused == Len(Steps) + 1
Failed  == Len(Steps) + 2
Done    == Len(Steps) + 3

Advance(j) == joins' = [joins EXCEPT ![j].at = IF @ = Len(Steps) THEN Done ELSE @ + 1]

Host(j)    == invites[joins[j].invite].host
Players(j) == {Host(j), joins[j].by}

\* friendmatch:join from the page, or POST /friend-matches/:code/join.
Accept(u, c, rest) ==
  /\ Len(joins) < MaxJoins
  /\ rest \/ (u \in online /\ page[u].route = "friendly")
  /\ page' = IF rest THEN page ELSE [page EXCEPT ![u].once = @ \cup {"matched"}]
  /\ joins' = Append(joins, [by |-> u, code |-> c, rest |-> rest, invite |-> None, at |-> 1])
  /\ UNCHANGED <<invites, store, made, online, leave, troubles>>

\* Variant: the host himself is not turned away.
MayUseAnybody(u, i) == i # None

\* What consumeInvite asks of the invite it has read.
MayUse(u, i) == i # None /\ invites[i].host # u

\* GET: the invite will do, or there is none of this code, or it is the caller's own.
Get(j) ==
  /\ At(j, "get")
  /\ LET i == store[joins[j].code] IN
       joins' = IF MayUse(joins[j].by, i)
                THEN [joins EXCEPT ![j].invite = i, ![j].at = @ + 1]
                ELSE [joins EXCEPT ![j].at = Refused]
  /\ UNCHANGED <<invites, store, made, online, page, leave, troubles>>

\* DEL of the code, whatever is under it now.
Del(j) ==
  /\ At(j, "del")
  /\ store' = [store EXCEPT ![joins[j].code] = None]
  /\ Advance(j)
  /\ UNCHANGED <<invites, made, online, page, leave, troubles>>

\* createMatch; bootstrapMatch puts the match into memory before its await.
Create(j) ==
  /\ At(j, "create")
  /\ made' = made \cup {j}
  /\ Advance(j)
  /\ UNCHANGED <<invites, store, online, page, leave, troubles>>

\* The persist of bootstrapMatch.
Boot(j) ==
  /\ At(j, "boot")
  /\ Advance(j)
  /\ UNCHANGED <<invites, store, made, online, page, leave, troubles>>

\* Variant: the answer goes to the caller only.
ToldCaller(j) == {joins[j].by}

\* emitToUsers tells both players, on the sockets they have now; the controller
\* answers its caller and tells no page.
Told(j) == IF joins[j].rest THEN {} ELSE Players(j) \cap online

\* The page of who hears matchmaking:matched goes to the match.
Tell(j) ==
  /\ At(j, "tell")
  /\ page' = [u \in Users |->
       IF u \in Told(j) /\ "matched" \in page[u].once
       THEN [page[u] EXCEPT !.route = "match", !.once = @ \ {"matched"}]
       ELSE page[u]]
  /\ Advance(j)
  /\ UNCHANGED <<invites, store, made, online, leave, troubles>>

\* Redis or MongoDB fails: only the caller is told.
Fail(j) ==
  /\ \E step \in {"get", "del", "create", "boot"} : At(j, step)
  /\ troubles < MaxTroubles
  /\ troubles' = troubles + 1
  /\ joins' = [joins EXCEPT ![j].at = Failed]
  /\ UNCHANGED <<invites, store, made, online, page, leave>>

\* A user's connection breaks, and the answers to it will be lost.
Go(u) ==
  /\ u \in online
  /\ troubles < MaxTroubles
  /\ troubles' = troubles + 1
  /\ online' = online \ {u}
  /\ invites' = [i \in DOMAIN invites |-> [invites[i] EXCEPT !.client = @ /\ invites[i].host # u]]
  /\ leave' = [leave EXCEPT ![u] = "none"]
  /\ UNCHANGED <<store, joins, made, page>>

\* Variant: resume_available is sent without a match.
ResumesAnyway(u) == TRUE

\* getActiveMatchByUser finds one.
Resumes(u) == \E j \in made : u \in Players(j)

\* He is back: handleConnection sends him resume_available, a match:event, if
\* he has a match, and then his socket's buffer arrives.
Come(u) ==
  /\ u \notin online
  /\ online' = online \cup {u}
  /\ page' = IF Resumes(u) THEN [page EXCEPT ![u].once = @ \ {"event"}] ELSE page
  /\ invites' = [i \in DOMAIN invites |->
       IF invites[i].host = u /\ invites[i].answer = "buffered"
       THEN [invites[i] EXCEPT !.answer = "none"] ELSE invites[i]]
  /\ UNCHANGED <<store, joins, made, leave, troubles>>

-----------------------------------------------------------------------------
Serve(j) == Get(j) \/ Del(j) \/ Create(j) \/ Boot(j) \/ Tell(j) \/ Fail(j)

Next ==
  \/ \E u \in Users : Ask(u) \/ QueueLeft(u) \/ Go(u) \/ Come(u)
  \/ \E c \in Codes : Expire(c) \/ \E i \in Invites : Draw(i, c)
  \/ \E i \in Invites : Hear(i)
  \/ \E u \in Users, c \in Codes, rest \in BOOLEAN : Accept(u, c, rest)
  \/ \E j \in Joins : Serve(j)

\* A handler that was called goes on to its end. Nobody has to call one.
Fairness ==
  /\ \A j \in Joins : WF_vars(Serve(j))
  /\ \A i \in Invites : WF_vars(Hear(i) \/ \E c \in Codes : Draw(i, c))

Spec == Init /\ [][Next]_vars /\ Fairness

-----------------------------------------------------------------------------
\* The values of the variables.
TypeOK ==
  /\ invites \in Seq([host : Users, tries : 0..MaxTries, client : BOOLEAN,
                       answer : {"buffered", "none", "code", "heard", "error"}])
  /\ store \in [Codes -> 0..Len(invites)]
  /\ joins \in Seq([by : Users, code : Codes, rest : BOOLEAN, invite : 0..Len(invites), at : 1..Done])
  /\ made \subseteq 1..Len(joins)
  /\ online \subseteq Users
  /\ page \in [Users -> [route : {"friendly", "match"}, shows : 0..Len(invites), once : SUBSET {"event", "matched"}]]
  /\ leave \in [Users -> {"none", "pending", "heard"}]
  /\ troubles \in 0..MaxTroubles

\* Once a match was made of an invite, no code leads to that invite: only those
\* who had read it before can still make another of it
\* (friend-matches.service.ts:33).
UsedInviteIsGone ==
  \A c \in Codes, j \in made : store[c] # joins[j].invite

\* A code that is out for a host is not given to another, and it goes by time
\* or by the DEL of a call that has read under it an invite of somebody else:
\* this one, or one that has gone since (friend-matches.service.ts:14, :44). In
\* the second case the code was drawn again between GET and DEL, and the DEL
\* takes an invite that nobody has used, which may be the caller's own.
CodeGoesToAReader ==
  [][\A c \in Codes : store[c] # None /\ store'[c] # store[c] =>
       /\ store'[c] = None
       /\ \/ joins' = joins
          \/ \E j \in DOMAIN joins :
               /\ At(j, "del") /\ joins'[j] # joins[j]
               /\ joins[j].code = c /\ joins[j].invite # None /\ Host(j) # joins[j].by
               /\ \/ joins[j].invite = store[c]
                  \/ \A d \in Codes : store[d] # joins[j].invite]_vars

\* "expiresInSec: 600" (realtime.gateway.ts:239): a code goes by time or by the
\* DEL of a guest who has read that very invite.
CodeLastsOrIsUsed ==
  [][\A c \in Codes : store[c] # None /\ store'[c] # store[c] =>
       \/ joins' = joins
       \/ \E j \in DOMAIN joins : joins'[j] # joins[j] /\ joins[j].invite = store[c]]_vars

\* A guest who was let in over his socket meets the host: the page of each
\* goes to a match, unless a call fails or one of them is away
\* (realtime.gateway.ts:256, friendly-page.tsx:35).
GuestMeetsHost ==
  \A j \in Joins :
    At(j, "del") /\ ~joins[j].rest ~>
      /\ j <= Len(joins) /\ joins[j].invite # None
      /\ \/ j \in made /\ \A u \in Players(j) : page[u].route = "match"
         \/ joins[j].at = Failed
         \/ ~(Players(j) \subseteq online)

\* Whose request for a code was answered on the socket he asked on sees one,
\* although the listener of his page serves for any match:event and only once
\* (friendly-page.tsx:29): who is left without has a match already, of which
\* handleConnection told him (realtime.gateway.ts:65), or the answer to the
\* leave with which he came from the queue was in the way (realtime.gateway.ts:139).
CodeIsShown ==
  \A i \in DOMAIN invites :
    invites[i].answer = "heard" /\ invites[i].client =>
      LET u == invites[i].host IN
        page[u].shows # None \/ leave[u] = "heard" \/ \E j \in made : u \in Players(j)
=============================================================================
