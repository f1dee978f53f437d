------------------------- MODULE FriendInvitesProofs -------------------------
(***************************************************************************)
(* The life of an invite, for any users and codes, any number of calls and *)
(* any interleaving of their awaits.                                       *)
(***************************************************************************)
EXTENDS FriendInvites, TLAPS

Answers == {"buffered", "none", "code", "heard", "error"}
Calls == [host : Users, tries : 0..MaxTries, client : BOOLEAN, answer : Answers]
\* Who is still drawing has a try left.
InviteType == {r \in Calls : r.answer \in {"buffered", "none"} => r.tries < MaxTries}
JoinType(n) == [by : Users, code : Codes, rest : BOOLEAN, invite : 0..n, at : 1..Done]
PageType(n) == [route : {"friendly", "match"}, shows : 0..n, once : SUBSET {"event", "matched"}]

\* TypeOK, with names for the types.
Typed ==
  /\ invites \in Seq(InviteType)
  /\ store \in [Codes -> 0..Len(invites)]
  /\ joins \in Seq(JoinType(Len(invites)))
  /\ made \subseteq 1..Len(joins)
  /\ online \subseteq Users
  /\ page \in [Users -> PageType(Len(invites))]
  /\ leave \in [Users -> {"none", "pending", "heard"}]
  /\ troubles \in 0..MaxTroubles

\* The invite has been put under a code; it is put under no other.
Out(i) == invites[i].answer \in {"code", "heard"}

\* An invite is under one code at most, and only when it is out.
Held ==
  \A c \in Codes :
    store[c] # None => Out(store[c]) /\ \A d \in Codes : store[d] = store[c] => d = c

\* What a join has read is out, under no other code than the one he sent.
Read ==
  \A j \in 1..Len(joins) :
    joins[j].invite # None =>
      /\ Out(joins[j].invite)
      /\ \A c \in Codes : store[c] = joins[j].invite => c = joins[j].code

\* From the DEL on, the invite that was read is under no code. The steps are
\* those of Steps by their number: 2 is the DEL, 3 createMatch, 4 and 5 are
\* after it.
Used ==
  \A j \in 1..Len(joins) :
    /\ joins[j].at = 2 => MayUse(joins[j].by, joins[j].invite)
    /\ joins[j].at = 3 \/ j \in made =>
         joins[j].invite # None /\ \A c \in Codes : store[c] # joins[j].invite
    /\ joins[j].at \in {4, 5} => j \in made
    /\ j \in made => joins[j].at >= 4

FIInv == Typed /\ Held /\ Read /\ Used

-----------------------------------------------------------------------------
LEMMA StepNumbers ==
  /\ Len(Steps) = 5 /\ DOMAIN Steps = 1..5
  /\ Steps[1] = "get" /\ Steps[2] = "del" /\ Steps[3] = "create"
  /\ Steps[4] = "boot" /\ Steps[5] = "tell"
  /\ Refused = 6 /\ Failed = 7 /\ Done = 8
BY DEF Steps, Refused, Failed, Done

LEMMA WhereAt ==
  ASSUME NEW j
  PROVE  /\ At(j, "get")    <=> j <= Len(joins) /\ joins[j].at = 1
         /\ At(j, "del")    <=> j <= Len(joins) /\ joins[j].at = 2
         /\ At(j, "create") <=> j <= Len(joins) /\ joins[j].at = 3
         /\ At(j, "boot")   <=> j <= Len(joins) /\ joins[j].at = 4
         /\ At(j, "tell")   <=> j <= Len(joins) /\ joins[j].at = 5
<1>1. \A k \in {1, 2, 3, 4, 5} : k \in DOMAIN Steps
  BY StepNumbers
<1>2. \A k \in DOMAIN Steps : k = 1 \/ k = 2 \/ k = 3 \/ k = 4 \/ k = 5
  BY StepNumbers
<1>3. QED
  BY <1>1, <1>2, StepNumbers DEF At

-----------------------------------------------------------------------------
(* TypeOK.                                                                 *)

\* A field of one call is set.
LEMMA InviteSet ==
  ASSUME Typed, NEW i \in 1..Len(invites), NEW r \in InviteType,
         invites' = [invites EXCEPT ![i] = r]
  PROVE  invites' \in Seq(InviteType) /\ Len(invites') = Len(invites)
BY DEF Typed

LEMMA JoinSet ==
  ASSUME Typed, NEW j \in 1..Len(joins), NEW r \in JoinType(Len(invites)),
         joins' = [joins EXCEPT ![j] = r]
  PROVE  joins' \in Seq(JoinType(Len(invites))) /\ Len(joins') = Len(joins)
BY DEF Typed

\* A call goes on within Steps.
LEMMA AdvanceSet ==
  ASSUME Typed, NEW j \in 1..Len(joins), NEW step, At(j, step), Advance(j)
  PROVE  /\ joins' \in Seq(JoinType(Len(invites))) /\ Len(joins') = Len(joins)
         /\ joins' = [joins EXCEPT ![j] = [joins[j] EXCEPT !.at = IF step = "tell" THEN Done ELSE @ + 1]]
<1>1. joins[j] \in JoinType(Len(invites)) /\ joins[j].at \in 1..5
  BY StepNumbers DEF Typed, At
<1>2. joins[j].at = 5 <=> step = "tell"
  BY WhereAt, StepNumbers, <1>1 DEF At
<1> DEFINE r == [joins[j] EXCEPT !.at = IF step = "tell" THEN Done ELSE @ + 1]
<1>3. joins' = [joins EXCEPT ![j] = r]
  BY <1>1, <1>2, StepNumbers DEF Advance
<1>4. r \in JoinType(Len(invites))
  BY <1>1, <1>2, StepNumbers DEF JoinType
<1> HIDE DEF r
<1>5. QED
  BY <1>3, <1>4, JoinSet DEF r

LEMMA InitTypeOK == Init => Typed
BY FriendInvitesAssumption DEF Typed, Init, PageType, None

LEMMA AskTypeOK == \A u \in Users : Typed /\ Ask(u) => Typed'
<1> SUFFICES ASSUME NEW u \in Users, Typed, Ask(u) PROVE Typed'
  OBVIOUS
<1> DEFINE r == [host |-> u, tries |-> 0, client |-> TRUE,
                 answer |-> IF u \in online THEN "none" ELSE "buffered"]
<1>1. r \in InviteType
  BY FriendInvitesAssumption DEF InviteType, Calls, Answers
<1>2. /\ invites' = Append(invites, r)
      /\ page' = [page EXCEPT ![u].once = {"event", "matched"}]
      /\ UNCHANGED <<store, joins, made, online, leave, troubles>>
  BY DEF Ask
<1> HIDE DEF r
<1>3. invites' \in Seq(InviteType) /\ Len(invites') = Len(invites) + 1 /\ Len(invites) \in Nat
  BY <1>1, <1>2 DEF Typed
<1>4. page' \in [Users -> PageType(Len(invites'))]
  <2>1. PageType(Len(invites)) \subseteq PageType(Len(invites'))
    BY <1>3 DEF PageType
  <2> DEFINE shown == [page[u] EXCEPT !.once = {"event", "matched"}]
  <2>2. page' = [page EXCEPT ![u] = shown]
    BY <1>2
  <2>3. shown \in PageType(Len(invites))
    BY DEF Typed, PageType
  <2> HIDE DEF shown
  <2>4. QED
    BY <2>1, <2>2, <2>3 DEF Typed
<1>5. joins' \in Seq(JoinType(Len(invites')))
  <2>1. JoinType(Len(invites)) \subseteq JoinType(Len(invites'))
    BY <1>3 DEF JoinType
  <2>2. QED
    BY <1>2, <2>1 DEF Typed
<1>6. QED
  BY <1>2, <1>3, <1>4, <1>5 DEF Typed

LEMMA DrawTypeOK == \A i \in Invites, c \in Codes : Typed /\ Draw(i, c) => Typed'
<1> SUFFICES ASSUME NEW i \in Invites, NEW c \in Codes, Typed, Draw(i, c) PROVE Typed'
  OBVIOUS
<1>1. i \in 1..Len(invites) /\ invites[i] \in InviteType
  BY DEF Typed, Draw, Invites
<1>2. CASE store[c] = None
  <2> DEFINE r == [invites[i] EXCEPT !.answer = "code"]
  <2>1. invites' = [invites EXCEPT ![i] = r] /\ store' = [store EXCEPT ![c] = i]
    BY <1>2 DEF Draw
  <2>2. r \in InviteType
    BY <1>1 DEF InviteType, Calls, Answers
  <2> HIDE DEF r
  <2>3. QED
    BY <1>1, <2>1, <2>2, InviteSet DEF Typed, Draw
<1>3. CASE store[c] # None
  <2> DEFINE r == [invites[i] EXCEPT !.tries = @ + 1,
                     !.answer = IF GivesUp(invites[i].tries + 1) THEN "error" ELSE @]
  <2>1. invites' = [invites EXCEPT ![i] = r] /\ store' = store
    BY <1>3 DEF Draw
  <2>2. r \in InviteType
    <3>1. /\ invites[i].answer = "none" /\ invites[i].tries \in Nat
          /\ invites[i].tries < MaxTries /\ MaxTries \in Nat
      BY <1>1, FriendInvitesAssumption DEF Draw, InviteType, Calls
    <3>2. invites[i].tries + 1 \in 0..MaxTries
      BY <3>1
    <3>3. ~GivesUp(invites[i].tries + 1) => invites[i].tries + 1 < MaxTries
      BY <3>1, <3>2 DEF GivesUp
    <3>4. r \in Calls
      BY <1>1, <3>2 DEF InviteType, Calls, Answers
    <3>5. r.tries = invites[i].tries + 1
      BY <1>1 DEF InviteType, Calls
    <3>6. r.answer = IF GivesUp(invites[i].tries + 1) THEN "error" ELSE "none"
      BY <1>1, <3>1 DEF InviteType, Calls
    <3> HIDE DEF r
    <3>7. QED
      BY <3>3, <3>4, <3>5, <3>6 DEF InviteType
  <2> HIDE DEF r
  <2>3. QED
    BY <1>1, <2>1, <2>2, InviteSet DEF Typed, Draw
<1>4. QED
  BY <1>2, <1>3

LEMMA HearTypeOK == \A i \in Invites : Typed /\ Hear(i) => Typed'
<1> SUFFICES ASSUME NEW i \in Invites, Typed, Hear(i) PROVE Typed'
  OBVIOUS
<1>1. i \in 1..Len(invites) /\ invites[i] \in InviteType
  BY DEF Typed, Hear, Invites
<1> DEFINE r == [invites[i] EXCEPT !.answer = "heard"]
<1>2. invites' = [invites EXCEPT ![i] = r] /\ r \in InviteType
  BY <1>1 DEF Hear, InviteType, Calls, Answers
<1> HIDE DEF r
<1>3. invites' \in Seq(InviteType) /\ Len(invites') = Len(invites)
  BY <1>1, <1>2, InviteSet
<1>4. page' \in [Users -> PageType(Len(invites))]
  <2>1. page \in [Users -> PageType(Len(invites))] /\ i \in 0..Len(invites)
    BY <1>1 DEF Typed
  <2> DEFINE u == invites[i].host
             shown == [page[u] EXCEPT !.shows = i, !.once = @ \ {"event"}]
  <2>2. page' = page \/ page' = [page EXCEPT ![u] = shown]
    BY DEF Hear
  <2>3. shown \in PageType(Len(invites)) /\ u \in Users
    <3>1. u \in Users
      BY <1>1 DEF InviteType, Calls
    <3> HIDE DEF u
    <3>2. page[u] \in PageType(Len(invites))
      BY <2>1, <3>1
    <3>3. shown \in PageType(Len(invites))
      BY <2>1, <3>2 DEF PageType
    <3>4. QED
      BY <3>1, <3>3
  <2> HIDE DEF shown, u
  <2>4. QED
    BY <2>1, <2>2, <2>3
<1>5. QED
  BY <1>3, <1>4 DEF Typed, Hear

LEMMA QueueLeftTypeOK == \A u \in Users : Typed /\ QueueLeft(u) => Typed'
<1> SUFFICES ASSUME NEW u \in Users, Typed, QueueLeft(u) PROVE Typed'
  OBVIOUS
<1>1. page' \in [Users -> PageType(Len(invites))]
  BY DEF Typed, QueueLeft, PageType
<1>2. leave' \in [Users -> {"none", "pending", "heard"}]
  BY DEF Typed, QueueLeft
<1>3. QED
  BY <1>1, <1>2 DEF Typed, QueueLeft

LEMMA ExpireTypeOK == \A c \in Codes : Typed /\ Expire(c) => Typed'
BY DEF Typed, Expire, None

LEMMA AcceptTypeOK ==
  \A u \in Users, c \in Codes, rest \in BOOLEAN : Typed /\ Accept(u, c, rest) => Typed'
<1> SUFFICES ASSUME NEW u \in Users, NEW c \in Codes, NEW rest \in BOOLEAN,
                    Typed, Accept(u, c, rest)
             PROVE  Typed'
  OBVIOUS
<1> DEFINE r == [by |-> u, code |-> c, rest |-> rest, invite |-> None, at |-> 1]
<1>1. r \in JoinType(Len(invites))
  BY StepNumbers DEF Typed, JoinType, None
<1>2. joins' = Append(joins, r)
  BY DEF Accept
<1> HIDE DEF r
<1>3. joins' \in Seq(JoinType(Len(invites))) /\ Len(joins') = Len(joins) + 1 /\ Len(joins) \in Nat
  BY <1>1, <1>2 DEF Typed
<1>4. page' \in [Users -> PageType(Len(invites))]
  BY DEF Typed, Accept, PageType
<1>5. made' \subseteq 1..Len(joins')
  BY <1>3 DEF Typed, Accept
<1>6. QED
  BY <1>3, <1>4, <1>5 DEF Typed, Accept

LEMMA ServeTypeOK == \A j \in Joins : Typed /\ Serve(j) => Typed'
<1> SUFFICES ASSUME NEW j \in Joins, Typed, Serve(j) PROVE Typed'
  OBVIOUS
<1>1. j \in 1..Len(joins) /\ joins[j] \in JoinType(Len(invites))
  <2>1. \E step : At(j, step)
    BY DEF Serve, Get, Del, Create, Boot, Tell, Fail
  <2>2. j <= Len(joins) /\ Len(joins) \in Nat /\ j \in Nat /\ j >= 1
    BY <2>1, FriendInvitesAssumption DEF At, Joins, Typed
  <2>3. QED
    BY <2>2 DEF Typed
<1>2. CASE Get(j)
  <2> DEFINE may == MayUse(joins[j].by, store[joins[j].code])
             i == IF may THEN store[joins[j].code] ELSE joins[j].invite
             n == IF may THEN 2 ELSE 6
  <2>1. joins' = [joins EXCEPT ![j] = [joins[j] EXCEPT !.invite = i, !.at = n]] /\ n \in {2, 6}
    <3>1. joins[j].at = 1 /\ joins[j].at + 1 = 2
      BY <1>2, WhereAt DEF Get
    <3>2. n \in {2, 6}
      OBVIOUS
    <3>3. CASE may
      BY <1>1, <1>2, <3>1, <3>3 DEF Get, Typed, JoinType
    <3>4. CASE ~may
      BY <1>1, <1>2, <3>1, <3>4, StepNumbers DEF Get, Typed, JoinType
    <3> HIDE DEF n
    <3>5. QED
      BY <3>2, <3>3, <3>4
  <2> HIDE DEF n
  <2>2. i \in 0..Len(invites)
    BY <1>1 DEF Typed, JoinType
  <2> DEFINE r == [joins[j] EXCEPT !.invite = i, !.at = n]
  <2> HIDE DEF i
  <2>3. r \in JoinType(Len(invites))
    <3>1. n \in 1..Done
      BY <2>1, StepNumbers
    <3>2. QED
      BY <1>1, <2>2, <3>1 DEF JoinType
  <2>4. joins' = [joins EXCEPT ![j] = r]
    BY <2>1
  <2> HIDE DEF r
  <2>5. QED
    BY <1>1, <1>2, <2>3, <2>4, JoinSet DEF Typed, Get
<1>3. CASE Del(j)
  <2>1. store' \in [Codes -> 0..Len(invites)]
    <3>1. None \in 0..Len(invites)
      BY DEF None, Typed
    <3>2. QED
      BY <1>3, <3>1 DEF Typed, Del
  <2>2. QED
    BY <1>1, <1>3, <2>1, AdvanceSet DEF Typed, Del
<1>4. CASE Create(j)
  BY <1>1, <1>4, AdvanceSet DEF Typed, Create
<1>5. CASE Boot(j)
  BY <1>1, <1>5, AdvanceSet DEF Typed, Boot
<1>6. CASE Tell(j)
  BY <1>1, <1>6, AdvanceSet DEF Typed, Tell, PageType
<1>7. CASE Fail(j)
  <2> DEFINE r == [joins[j] EXCEPT !.at = Failed]
  <2>1. joins' = [joins EXCEPT ![j] = r] /\ r \in JoinType(Len(invites))
    BY <1>1, <1>7, StepNumbers DEF Fail, JoinType
  <2> HIDE DEF r
  <2>2. QED
    <3>1. joins' \in Seq(JoinType(Len(invites))) /\ Len(joins') = Len(joins)
      BY <1>1, <2>1, JoinSet
    <3>2. troubles' \in 0..MaxTroubles
      BY <1>7, FriendInvitesAssumption DEF Typed, Fail
    <3>3. QED
      BY <1>7, <3>1, <3>2 DEF Typed, Fail
<1>8. QED
  BY <1>2, <1>3, <1>4, <1>5, <1>6, <1>7 DEF Serve

LEMMA GoTypeOK == \A u \in Users : Typed /\ Go(u) => Typed'
<1> SUFFICES ASSUME NEW u \in Users, Typed, Go(u) PROVE Typed'
  OBVIOUS
<1> DEFINE F(i) == [invites[i] EXCEPT !.client = @ /\ invites[i].host # u]
<1>1. ASSUME NEW i \in 1..Len(invites) PROVE F(i) \in InviteType
  <2>1. invites[i] \in InviteType
    BY DEF Typed
  <2>2. QED
    BY <2>1 DEF InviteType, Calls
<1>2. invites' = [i \in DOMAIN invites |-> F(i)]
  BY DEF Go
<1> HIDE DEF F
<1>3. invites' \in Seq(InviteType) /\ Len(invites') = Len(invites)
  BY <1>1, <1>2 DEF Typed
<1>4. QED
  BY <1>3, FriendInvitesAssumption DEF Typed, Go

LEMMA ComeTypeOK == \A u \in Users : Typed /\ Come(u) => Typed'
<1> SUFFICES ASSUME NEW u \in Users, Typed, Come(u) PROVE Typed'
  OBVIOUS
<1> DEFINE F(i) == IF invites[i].host = u /\ invites[i].answer = "buffered"
                   THEN [invites[i] EXCEPT !.answer = "none"] ELSE invites[i]
<1>1. ASSUME NEW i \in 1..Len(invites) PROVE F(i) \in InviteType
  <2>1. invites[i] \in InviteType
    BY DEF Typed
  <2>2. QED
    BY <2>1 DEF InviteType, Calls, Answers
<1>2. invites' = [i \in DOMAIN invites |-> F(i)]
  BY DEF Come
<1> HIDE DEF F
<1>3. invites' \in Seq(InviteType) /\ Len(invites') = Len(invites)
  BY <1>1, <1>2 DEF Typed
<1>4. page' \in [Users -> PageType(Len(invites))]
  BY DEF Typed, Come, PageType
<1>5. QED
  BY <1>3, <1>4 DEF Typed, Come

LEMMA NextTypeOK == Typed /\ [Next]_vars => Typed'
<1>1. Typed /\ UNCHANGED vars => Typed'
  BY DEF Typed, vars
<1>2. QED
  BY <1>1, AskTypeOK, DrawTypeOK, HearTypeOK, ExpireTypeOK, AcceptTypeOK, ServeTypeOK,
     QueueLeftTypeOK, GoTypeOK, ComeTypeOK DEF Next

-----------------------------------------------------------------------------
(* The life of an invite.                                                  *)

InvitesKeep ==
  /\ Len(invites) <= Len(invites')
  /\ \A i \in 1..Len(invites) : invites'[i].host = invites[i].host /\ (Out(i) => Out(i)')

StoreShrinks == \A c \in Codes : store'[c] \in {store[c], None}

\* Another call, or one that has read nothing.
HasNothing(j) ==
  joins'[j].invite = None /\ joins'[j].at \in {1, 6} /\ j \notin made'

\* A call keeps what it has read, and goes on by one step or ends.
GoesOn(j) ==
  /\ j \in 1..Len(joins)
  /\ joins'[j].by = joins[j].by /\ joins'[j].code = joins[j].code
  /\ joins'[j].invite = joins[j].invite
  /\ \/ joins'[j].at \in {joins[j].at, 7} /\ (j \in made' <=> j \in made)
     \/ joins[j].at = 2 /\ joins'[j].at = 3 /\ store'[joins[j].code] = None /\ (j \in made' <=> j \in made)
     \/ joins[j].at = 3 /\ joins'[j].at = 4 /\ j \in made'
     \/ joins[j].at = 4 /\ joins'[j].at = 5 /\ (j \in made' <=> j \in made)
     \/ joins[j].at = 5 /\ joins'[j].at = 8 /\ (j \in made' <=> j \in made)

LEMMA TypedFacts ==
  ASSUME Typed
  PROVE  /\ Len(invites) \in Nat /\ Len(joins) \in Nat
         /\ \A c \in Codes : store[c] # None => store[c] \in 1..Len(invites)
         /\ \A i \in 1..Len(invites) : invites[i] \in InviteType
         /\ \A j \in 1..Len(joins) :
              /\ joins[j].by \in Users /\ joins[j].code \in Codes /\ joins[j].at \in 1..8
              /\ joins[j].invite # None => joins[j].invite \in 1..Len(invites)
<1>1. Len(invites) \in Nat /\ Len(joins) \in Nat
  BY DEF Typed
<1>2. ASSUME NEW j \in 1..Len(joins) PROVE joins[j] \in JoinType(Len(invites))
  BY DEF Typed
<1>3. QED
  BY <1>1, <1>2, StepNumbers DEF Typed, JoinType, None

\* Every step but a draw that is taken and a GET.
LEMMA Frame ==
  ASSUME FIInv, InvitesKeep, StoreShrinks,
         \A j \in 1..Len(joins') : HasNothing(j) \/ GoesOn(j)
  PROVE  Held' /\ Read' /\ Used'
<1>1. Typed /\ Held /\ Read /\ Used
  BY DEF FIInv
<1>2. Held'
  BY <1>1, TypedFacts DEF Held, InvitesKeep, StoreShrinks
<1>3. Read'
  <2> SUFFICES ASSUME NEW j \in 1..Len(joins'), joins'[j].invite # None
               PROVE  /\ Out(joins[j].invite)'
                      /\ \A c \in Codes : store'[c] = joins'[j].invite => c = joins'[j].code
    BY DEF Read
  <2>1. GoesOn(j)
    BY DEF HasNothing
  <2>2. j \in 1..Len(joins) /\ joins'[j].invite = joins[j].invite /\ joins'[j].code = joins[j].code
    BY <2>1 DEF GoesOn
  <2>3. joins[j].invite \in 1..Len(invites)
    BY <1>1, <2>2, TypedFacts
  <2>4. QED
    BY <1>1, <2>2, <2>3 DEF Read, InvitesKeep, StoreShrinks
<1>4. Used'
  <2> SUFFICES ASSUME NEW j \in 1..Len(joins')
               PROVE  /\ joins'[j].at = 2 => MayUse(joins[j].by, joins[j].invite)'
                      /\ joins'[j].at = 3 \/ j \in made' =>
                           /\ joins'[j].invite # None
                           /\ \A c \in Codes : store'[c] # joins'[j].invite
                      /\ joins'[j].at \in {4, 5} => j \in made'
                      /\ j \in made' => joins'[j].at >= 4
    BY DEF Used
  <2>1. CASE HasNothing(j)
    BY <2>1 DEF HasNothing
  <2>2. CASE GoesOn(j)
    <3>1. /\ j \in 1..Len(joins) /\ joins[j].at \in 1..8 /\ joins[j].code \in Codes
          /\ joins'[j].by = joins[j].by /\ joins'[j].code = joins[j].code
          /\ joins'[j].invite = joins[j].invite
          /\ joins[j].invite # None => joins[j].invite \in 1..Len(invites)
      BY <1>1, <2>2, TypedFacts DEF GoesOn
    <3>2. joins'[j].at = 2 => MayUse(joins[j].by, joins[j].invite)'
      <4>1. joins'[j].at = 2 => joins[j].at = 2
        BY <2>2, <3>1 DEF GoesOn
      <4>2. QED
        BY <1>1, <3>1, <4>1 DEF Used, MayUse, InvitesKeep
    <3>3. CASE joins[j].at = 2 /\ joins'[j].at = 3
      <4>1. joins[j].invite # None /\ j \notin made'
        BY <1>1, <2>2, <3>1, <3>3 DEF Used, MayUse, GoesOn
      <4>2. \A c \in Codes : store'[c] # joins[j].invite
        BY <1>1, <2>2, <3>1, <3>3, <4>1 DEF Read, GoesOn, StoreShrinks
      <4>3. QED
        BY <3>1, <3>2, <3>3, <4>1, <4>2
    <3>4. CASE ~(joins[j].at = 2 /\ joins'[j].at = 3)
      <4>1. joins'[j].at = 3 \/ j \in made' => joins[j].at = 3 \/ j \in made
        BY <2>2, <3>1, <3>4 DEF GoesOn
      <4>2. joins'[j].at = 3 \/ j \in made' =>
              joins[j].invite # None /\ \A c \in Codes : store'[c] # joins[j].invite
        BY <1>1, <3>1, <4>1 DEF Used, StoreShrinks
      <4>3. joins'[j].at \in {4, 5} => j \in made'
        BY <1>1, <2>2, <3>1, <3>4 DEF Used, GoesOn
      <4>4. j \in made' => joins'[j].at >= 4
        BY <1>1, <2>2, <3>1, <3>4 DEF Used, GoesOn
      <4>5. QED
        BY <3>1, <3>2, <4>2, <4>3, <4>4
    <3>5. QED
      BY <3>3, <3>4
  <2>3. QED
    BY <2>1, <2>2
<1>5. QED
  BY <1>2, <1>3, <1>4

\* Steps that leave the joins alone.
LEMMA JoinsAlone ==
  ASSUME FIInv, UNCHANGED <<joins, made>>, InvitesKeep, StoreShrinks
  PROVE  Held' /\ Read' /\ Used'
<1>1. \A j \in 1..Len(joins') : GoesOn(j)
  BY DEF GoesOn
<1>2. QED
  BY <1>1, Frame

LEMMA AskFIInv == \A u \in Users : FIInv /\ Ask(u) => Held' /\ Read' /\ Used'
<1> SUFFICES ASSUME NEW u \in Users, FIInv, Ask(u)
             PROVE  Held' /\ Read' /\ Used'
  OBVIOUS
<1>1. invites \in Seq(InviteType) /\ Len(invites) \in Nat
  BY TypedFacts DEF FIInv, Typed
<1> DEFINE r == [host |-> u, tries |-> 0, client |-> TRUE,
                 answer |-> IF u \in online THEN "none" ELSE "buffered"]
<1>2. invites' = Append(invites, r)
  BY DEF Ask
<1> HIDE DEF r
<1>3. InvitesKeep
  BY <1>1, <1>2 DEF InvitesKeep, Out
<1>4. QED
  BY <1>3, JoinsAlone DEF Ask, StoreShrinks

LEMMA HearFIInv == \A i \in Invites : FIInv /\ Hear(i) => Held' /\ Read' /\ Used'
<1> SUFFICES ASSUME NEW i \in Invites, FIInv, Hear(i)
             PROVE  Held' /\ Read' /\ Used'
  OBVIOUS
<1>1. invites \in Seq(InviteType) /\ Len(invites) \in Nat /\ \A k \in 1..Len(invites) : invites[k] \in InviteType
  BY TypedFacts DEF FIInv, Typed
<1>2. invites' = [invites EXCEPT ![i].answer = "heard"]
  BY DEF Hear
<1>3. InvitesKeep
  BY <1>1, <1>2 DEF InvitesKeep, Out, InviteType, Calls
<1>4. QED
  BY <1>3, JoinsAlone DEF Hear, StoreShrinks

LEMMA GoComeFIInv ==
  \A u \in Users : FIInv /\ (Go(u) \/ Come(u)) => Held' /\ Read' /\ Used'
<1> SUFFICES ASSUME NEW u \in Users, FIInv, Go(u) \/ Come(u)
             PROVE  Held' /\ Read' /\ Used'
  OBVIOUS
<1>1. invites \in Seq(InviteType) /\ Len(invites) \in Nat /\ \A k \in 1..Len(invites) : invites[k] \in InviteType
  BY TypedFacts DEF FIInv, Typed
<1>2. CASE Go(u)
  <2>1. invites' = [i \in DOMAIN invites |-> [invites[i] EXCEPT !.client = @ /\ invites[i].host # u]]
    BY <1>2 DEF Go
  <2>2. InvitesKeep
    BY <1>1, <2>1 DEF InvitesKeep, Out, InviteType, Calls
  <2>3. QED
    BY <1>2, <2>2, JoinsAlone DEF Go, StoreShrinks
<1>3. CASE Come(u)
  <2>1. invites' = [i \in DOMAIN invites |->
                     IF invites[i].host = u /\ invites[i].answer = "buffered"
                     THEN [invites[i] EXCEPT !.answer = "none"] ELSE invites[i]]
    BY <1>3 DEF Come
  <2>2. InvitesKeep
    BY <1>1, <2>1 DEF InvitesKeep, Out, InviteType, Calls
  <2>3. QED
    BY <1>3, <2>2, JoinsAlone DEF Come, StoreShrinks
<1>4. QED
  BY <1>2, <1>3

LEMMA QueueLeftFIInv == \A u \in Users : FIInv /\ QueueLeft(u) => Held' /\ Read' /\ Used'
<1> SUFFICES ASSUME NEW u \in Users, FIInv, QueueLeft(u) PROVE Held' /\ Read' /\ Used'
  OBVIOUS
<1>1. InvitesKeep
  BY TypedFacts DEF QueueLeft, InvitesKeep, Out, FIInv
<1>2. QED
  BY <1>1, JoinsAlone DEF QueueLeft, StoreShrinks

LEMMA ExpireFIInv == \A c \in Codes : FIInv /\ Expire(c) => Held' /\ Read' /\ Used'
<1> SUFFICES ASSUME NEW c \in Codes, FIInv, Expire(c)
             PROVE  Held' /\ Read' /\ Used'
  OBVIOUS
<1>1. StoreShrinks
  BY DEF Expire, StoreShrinks, FIInv, Typed
<1>2. InvitesKeep
  BY TypedFacts DEF Expire, InvitesKeep, Out, FIInv
<1>3. QED
  BY <1>1, <1>2, JoinsAlone DEF Expire

LEMMA DrawFIInv ==
  \A i \in Invites, c \in Codes : FIInv /\ Draw(i, c) => Held' /\ Read' /\ Used'
<1> SUFFICES ASSUME NEW i \in Invites, NEW c \in Codes, FIInv, Draw(i, c)
             PROVE  Held' /\ Read' /\ Used'
  OBVIOUS
<1>1. /\ invites \in Seq(InviteType) /\ Len(invites) \in Nat
      /\ \A k \in 1..Len(invites) : invites[k] \in InviteType
      /\ i \in 1..Len(invites) /\ invites[i].answer = "none"
  BY TypedFacts DEF FIInv, Typed, Draw, Invites
<1>2. CASE store[c] # None
  <2>1. /\ invites' = [invites EXCEPT ![i].tries = @ + 1,
                         ![i].answer = IF GivesUp(invites[i].tries + 1) THEN "error" ELSE @]
        /\ store' = store
    BY <1>2 DEF Draw
  <2>2. InvitesKeep
    BY <1>1, <2>1 DEF InvitesKeep, Out, InviteType, Calls
  <2>3. QED
    BY <2>1, <2>2, JoinsAlone DEF Draw, StoreShrinks
<1>3. CASE store[c] = None
  <2>1. /\ invites' = [invites EXCEPT ![i].answer = "code"] /\ store' = [store EXCEPT ![c] = i]
        /\ UNCHANGED <<joins, made>>
    BY <1>3 DEF Draw
  <2>2. InvitesKeep /\ Out(i)' /\ ~Out(i) /\ i # None
    BY <1>1, <2>1 DEF InvitesKeep, Out, InviteType, Calls, None
  <2>3. \A d \in Codes : store[d] # i /\ store'[d] = IF d = c THEN i ELSE store[d]
    BY <2>1, <2>2 DEF FIInv, Held, Typed
  <2>4. Held'
    <3>1. \A d \in Codes : store[d] # None => invites'[store[d]].answer \in {"code", "heard"}
      <4>1. \A d \in Codes : store[d] # None => store[d] \in 1..Len(invites) /\ Out(store[d])
        BY TypedFacts DEF FIInv, Held
      <4>2. \A k \in 1..Len(invites) : Out(k) => Out(k)'
        BY <2>2 DEF InvitesKeep
      <4>3. ASSUME NEW d \in Codes, store[d] # None PROVE invites'[store[d]].answer \in {"code", "heard"}
        <5> DEFINE k == store[d]
        <5>1. k \in 1..Len(invites) /\ invites[k].answer \in {"code", "heard"}
          BY <4>1, <4>3 DEF Out
        <5> HIDE DEF k
        <5>2. invites'[k].answer \in {"code", "heard"}
          BY <4>2, <5>1 DEF Out
        <5>3. QED
          BY <5>2 DEF k
      <4>4. QED
        BY <4>3
    <3>2. QED
      BY <2>2, <2>3, <3>1 DEF FIInv, Held, Out
  <2>5. \A j \in 1..Len(joins) : joins[j].invite # i
    BY <2>2 DEF FIInv, Read
  <2>6. \A j \in 1..Len(joins) : joins[j].invite # None => joins[j].invite \in 1..Len(invites)
    BY TypedFacts DEF FIInv
  <2>7. Read'
    BY <2>1, <2>2, <2>3, <2>5, <2>6 DEF FIInv, Read, InvitesKeep
  <2>8. Used'
    <3>1. \A j \in 1..Len(joins) :
            MayUse(joins[j].by, joins[j].invite) => MayUse(joins[j].by, joins[j].invite)'
      BY <2>1, <2>2, <2>6 DEF MayUse, InvitesKeep
    <3>2. QED
      BY <2>1, <2>3, <2>5, <3>1 DEF FIInv, Used
  <2>9. QED
    BY <2>1, <2>4, <2>7, <2>8 DEF FIInv
<1>4. QED
  BY <1>2, <1>3

LEMMA AcceptFIInv ==
  \A u \in Users, c \in Codes, rest \in BOOLEAN :
    FIInv /\ Accept(u, c, rest) => Held' /\ Read' /\ Used'
<1> SUFFICES ASSUME NEW u \in Users, NEW c \in Codes, NEW rest \in BOOLEAN, FIInv, Accept(u, c, rest)
             PROVE  Held' /\ Read' /\ Used'
  OBVIOUS
<1> DEFINE r == [by |-> u, code |-> c, rest |-> rest, invite |-> None, at |-> 1]
<1>1. joins' = Append(joins, r) /\ UNCHANGED <<invites, store, made>>
  BY DEF Accept
<1>2. /\ joins \in Seq(JoinType(Len(invites))) /\ Len(joins) \in Nat
      /\ made \subseteq 1..Len(joins) /\ Len(invites) \in Nat
  BY TypedFacts DEF FIInv, Typed
<1>3. r.invite = None /\ r.at = 1
  OBVIOUS
<1> HIDE DEF r
<1>4. /\ Len(joins') = Len(joins) + 1 /\ joins'[Len(joins) + 1] = r
      /\ \A j \in 1..Len(joins) : joins'[j] = joins[j]
  BY <1>1, <1>2
<1>5. ASSUME NEW j \in 1..Len(joins') PROVE HasNothing(j) \/ GoesOn(j)
  <2>1. CASE j = Len(joins) + 1
    BY <2>1, <1>1, <1>2, <1>3, <1>4 DEF HasNothing
  <2>2. CASE j # Len(joins) + 1
    BY <2>2, <1>1, <1>2, <1>4 DEF GoesOn
  <2>3. QED
    BY <2>1, <2>2
<1>6. InvitesKeep /\ StoreShrinks
  BY <1>1, <1>2 DEF InvitesKeep, StoreShrinks, Out, FIInv
<1>7. QED
  BY <1>5, <1>6, Frame

LEMMA ServeFIInv == \A j \in Joins : FIInv /\ Serve(j) => Held' /\ Read' /\ Used'
<1> SUFFICES ASSUME NEW j \in Joins, FIInv, Serve(j)
             PROVE  Held' /\ Read' /\ Used'
  OBVIOUS
<1>1. /\ Typed /\ Len(joins) \in Nat /\ Len(invites) \in Nat
      /\ \A k \in 1..Len(joins) : joins[k] \in JoinType(Len(invites)) /\ joins[k].at \in 1..8
  BY TypedFacts DEF FIInv, Typed
<1>2. j \in 1..Len(joins)
  <2>1. \E step : At(j, step)
    BY DEF Serve, Get, Del, Create, Boot, Tell, Fail
  <2>2. j <= Len(joins) /\ j \in Nat /\ j >= 1
    BY <2>1, FriendInvitesAssumption DEF At, Joins
  <2>3. QED
    BY <1>1, <2>2
<1>3. InvitesKeep
  <2>1. UNCHANGED invites
    BY DEF Serve, Get, Del, Create, Boot, Tell, Fail
  <2>2. QED
    BY <1>1, <2>1 DEF InvitesKeep, Out
<1>4. ASSUME NEW n \in Nat, joins' = [joins EXCEPT ![j] = [joins[j] EXCEPT !.at = n]]
      PROVE  /\ Len(joins') = Len(joins) /\ joins'[j].at = n
             /\ joins'[j].by = joins[j].by /\ joins'[j].code = joins[j].code
             /\ joins'[j].invite = joins[j].invite
             /\ \A k \in 1..Len(joins) : k # j => joins'[k] = joins[k]
  <2>1. joins \in Seq(JoinType(Len(invites)))
    BY <1>1 DEF Typed
  <2>2. QED
    BY <1>1, <1>2, <1>4, <2>1 DEF JoinType
<1>5. CASE Get(j)
  <2> DEFINE may == MayUse(joins[j].by, store[joins[j].code])
             i == IF may THEN store[joins[j].code] ELSE joins[j].invite
             n == IF may THEN 2 ELSE 6
  <2>1. joins[j].at = 1 /\ joins[j].at + 1 = 2 /\ joins[j].code \in Codes
    BY <1>1, <1>2, <1>5, WhereAt DEF Get, JoinType
  <2>2. joins \in Seq(JoinType(Len(invites)))
    BY <1>1 DEF Typed
  <2>3. joins' = [joins EXCEPT ![j] = [joins[j] EXCEPT !.invite = i, !.at = n]]
    <3>1. CASE may
      BY <1>1, <1>2, <1>5, <2>1, <3>1 DEF Get, Typed, JoinType
    <3>2. CASE ~may
      BY <1>1, <1>2, <1>5, <2>1, <3>2, StepNumbers DEF Get, Typed, JoinType
    <3> HIDE DEF n
    <3>3. QED
      BY <3>1, <3>2
  <2>4. n \in {2, 6} /\ (n = 2 => MayUse(joins[j].by, i))
    OBVIOUS
  <2>5. UNCHANGED <<invites, store, made>>
    BY <1>5 DEF Get
  <2> HIDE DEF i, n
  <2>6. /\ Len(joins') = Len(joins) /\ joins'[j].at = n /\ joins'[j].invite = i
        /\ joins'[j].by = joins[j].by /\ joins'[j].code = joins[j].code
        /\ \A k \in 1..Len(joins) : k # j => joins'[k] = joins[k]
    BY <1>1, <1>2, <2>2, <2>3 DEF JoinType
  <2>7. i # None => Out(i) /\ \A c \in Codes : store[c] = i => c = joins[j].code
    BY <1>2, <2>1 DEF FIInv, Held, Read, i
  <2>8. Held'
    BY <2>5 DEF FIInv, Held, Out
  <2>9. Read'
    BY <2>5, <2>6, <2>7 DEF FIInv, Read, Out
  <2>10. j \notin made
    BY <1>2, <2>1 DEF FIInv, Used
  <2>11. Used'
    BY <2>4, <2>5, <2>6, <2>10 DEF FIInv, Used, MayUse
  <2>12. QED
    BY <2>5, <2>8, <2>9, <2>11 DEF FIInv
<1>6. CASE Fail(j)
  <2>1. /\ joins' = [joins EXCEPT ![j] = [joins[j] EXCEPT !.at = 7]]
        /\ UNCHANGED <<invites, store, made>>
    BY <1>6, StepNumbers DEF Fail
  <2>2. \A k \in 1..Len(joins') : GoesOn(k)
    BY <1>2, <1>4, <2>1 DEF GoesOn
  <2>3. QED
    BY <1>3, <2>1, <2>2, Frame DEF StoreShrinks, FIInv
<1>7. CASE Del(j)
  <2>1. joins[j].at = 2 /\ joins[j].code \in Codes
    BY <1>1, <1>2, <1>7, WhereAt DEF Del, JoinType
  <2>2. joins' = [joins EXCEPT ![j] = [joins[j] EXCEPT !.at = 3]]
    BY <1>1, <1>2, <1>7, <2>1, AdvanceSet DEF Del
  <2>3. store'[joins[j].code] = None /\ StoreShrinks /\ UNCHANGED <<made>>
    BY <1>1, <1>7, <2>1 DEF Del, StoreShrinks, Typed
  <2>4. \A k \in 1..Len(joins') : GoesOn(k)
    BY <1>2, <1>4, <2>1, <2>2, <2>3 DEF GoesOn
  <2>5. QED
    BY <1>3, <2>3, <2>4, Frame DEF FIInv
<1>8. CASE Create(j)
  <2>1. joins[j].at = 3
    BY <1>1, <1>2, <1>8, WhereAt DEF Create
  <2>2. joins' = [joins EXCEPT ![j] = [joins[j] EXCEPT !.at = 4]]
    BY <1>1, <1>2, <1>8, <2>1, AdvanceSet DEF Create
  <2>3. made' = made \cup {j} /\ UNCHANGED store
    BY <1>8 DEF Create
  <2>4. \A k \in 1..Len(joins') : GoesOn(k)
    BY <1>2, <1>4, <2>1, <2>2, <2>3 DEF GoesOn
  <2>5. QED
    BY <1>3, <2>3, <2>4, Frame DEF FIInv, StoreShrinks
<1>9. CASE Boot(j)
  <2>1. joins[j].at = 4
    BY <1>1, <1>2, <1>9, WhereAt DEF Boot
  <2>2. joins' = [joins EXCEPT ![j] = [joins[j] EXCEPT !.at = 5]]
    BY <1>1, <1>2, <1>9, <2>1, AdvanceSet DEF Boot
  <2>3. j \in made /\ UNCHANGED <<store, made>>
    BY <1>2, <1>9, <2>1 DEF Boot, FIInv, Used
  <2>4. \A k \in 1..Len(joins') : GoesOn(k)
    BY <1>2, <1>4, <2>1, <2>2, <2>3 DEF GoesOn
  <2>5. QED
    BY <1>3, <2>3, <2>4, Frame DEF FIInv, StoreShrinks
<1>10. CASE Tell(j)
  <2>1. joins[j].at = 5
    BY <1>1, <1>2, <1>10, WhereAt DEF Tell
  <2>2. joins' = [joins EXCEPT ![j] = [joins[j] EXCEPT !.at = 8]]
    BY <1>1, <1>2, <1>10, <2>1, AdvanceSet, StepNumbers DEF Tell
  <2>3. UNCHANGED <<store, made>>
    BY <1>10 DEF Tell
  <2>4. \A k \in 1..Len(joins') : GoesOn(k)
    BY <1>2, <1>4, <2>1, <2>2, <2>3 DEF GoesOn
  <2>5. QED
    BY <1>3, <2>3, <2>4, Frame DEF FIInv, StoreShrinks
<1>11. QED
  BY <1>5, <1>6, <1>7, <1>8, <1>9, <1>10 DEF Serve

LEMMA InitFIInv == Init => FIInv
BY InitTypeOK DEF Init, FIInv, Held, Read, Used

LEMMA NextFIInv == FIInv /\ [Next]_vars => FIInv'
<1> SUFFICES ASSUME FIInv, [Next]_vars PROVE FIInv'
  OBVIOUS
<1>1. Typed'
  BY NextTypeOK DEF FIInv
<1>2. UNCHANGED vars => Held' /\ Read' /\ Used'
  BY DEF vars, FIInv, Held, Read, Used, Out, MayUse
<1>3. Next => Held' /\ Read' /\ Used'
  BY AskFIInv, DrawFIInv, HearFIInv, ExpireFIInv, AcceptFIInv, ServeFIInv,
     QueueLeftFIInv, GoComeFIInv DEF Next
<1>4. QED
  BY <1>1, <1>2, <1>3 DEF FIInv

\* The values of the variables, for any bounds.
THEOREM FriendInvitesTypeOK == Spec => []TypeOK
<1>1. FIInv => TypeOK
  <2> SUFFICES ASSUME FIInv PROVE TypeOK
    OBVIOUS
  <2>1. invites \in Seq(Calls)
    BY DEF FIInv, Typed, InviteType
  <2>2. QED
    BY <2>1 DEF FIInv, Typed, TypeOK, Calls, JoinType, PageType, Answers
<1>2. QED
  BY <1>1, InitFIInv, NextFIInv, PTL DEF Spec

\* Once a match was made of an invite, no code leads to it, in every
\* interleaving of draws, expiries and joins.
THEOREM UsedInviteIsGoneHolds == Spec => []UsedInviteIsGone
<1>1. FIInv => UsedInviteIsGone
  BY DEF FIInv, Typed, Used, UsedInviteIsGone
<1>2. QED
  BY <1>1, InitFIInv, NextFIInv, PTL DEF Spec

\* A code is taken from a host only by time, or by a guest who has read it or
\* the invite it led to before, in every interleaving: an action property of
\* the same invariant.
THEOREM CodeGoesToAReaderHolds == Spec => CodeGoesToAReader
<1> DEFINE ByAReader ==
      \A c \in Codes : store[c] # None /\ store'[c] # store[c] =>
        /\ store'[c] = None
        /\ \/ joins' = joins
           \/ \E j \in DOMAIN joins :
                /\ At(j, "del") /\ joins'[j] # joins[j]
                /\ joins[j].code = c /\ joins[j].invite # None /\ Host(j) # joins[j].by
                /\ \/ joins[j].invite = store[c]
                   \/ \A d \in Codes : store[d] # joins[j].invite
<1>1. ASSUME FIInv, Next PROVE ByAReader
  <2>1. ASSUME NEW i \in Invites, NEW d \in Codes, Draw(i, d) PROVE ByAReader
    BY <1>1, <2>1 DEF Draw, FIInv, Typed
  <2>2. ASSUME NEW d \in Codes, Expire(d) PROVE ByAReader
    BY <1>1, <2>2 DEF Expire, FIInv, Typed
  <2>3. ASSUME NEW j \in Joins, Del(j) PROVE ByAReader
    <3>1. joins[j].at = 2 /\ j \in 1..Len(joins) /\ DOMAIN joins = 1..Len(joins)
      BY <1>1, <2>3, WhereAt, TypedFacts, FriendInvitesAssumption DEF Del, At, Joins, FIInv, Typed
    <3>2. joins[j].invite # None /\ Host(j) # joins[j].by
      BY <1>1, <3>1 DEF FIInv, Used, MayUse, Host
    <3>3. store' = [store EXCEPT ![joins[j].code] = None] /\ store \in [Codes -> 0..Len(invites)]
      BY <1>1, <2>3 DEF Del, FIInv, Typed
    <3>4. joins'[j] # joins[j]
      <4>1. joins' = [joins EXCEPT ![j] = [joins[j] EXCEPT !.at = 3]]
        BY <1>1, <2>3, <3>1, AdvanceSet DEF Del, FIInv
      <4>2. joins'[j] = [joins[j] EXCEPT !.at = 3] /\ joins[j] \in JoinType(Len(invites))
        BY <1>1, <3>1, <4>1 DEF FIInv, Typed
      <4>3. joins'[j].at = 3
        BY <4>2 DEF JoinType
      <4>4. QED
        BY <3>1, <4>3
    <3>5. \A d \in Codes : store[d] = joins[j].invite => d = joins[j].code
      BY <1>1, <3>1, <3>2 DEF FIInv, Read
    <3>6. At(j, "del")
      BY <2>3 DEF Del
    <3>7. ASSUME NEW c \in Codes, store[c] # None, store'[c] # store[c]
          PROVE  /\ store'[c] = None /\ joins[j].code = c
                 /\ \/ joins[j].invite = store[c]
                    \/ \A d \in Codes : store[d] # joins[j].invite
      BY <3>3, <3>5, <3>7
    <3>8. QED
      BY <3>1, <3>2, <3>4, <3>6, <3>7
  <2>4. UNCHANGED store => ByAReader
    OBVIOUS
  <2> HIDE DEF ByAReader
  <2>5. QED
    BY <1>1, <2>1, <2>2, <2>3, <2>4
       DEF Next, Ask, QueueLeft, Go, Come, Hear, Accept, Serve, Get, Create, Boot, Tell, Fail
<1>2. FIInv /\ [Next]_vars => [ByAReader]_vars
  BY <1>1
<1>3. QED
  BY <1>2, InitFIInv, NextFIInv, PTL DEF Spec, CodeGoesToAReader

-----------------------------------------------------------------------------
(* The code on the page.                                                   *)

\* Nothing more can come of the page's listener, for a reason CodeIsShown admits.
Excused(u) == page[u].shows # None \/ leave[u] = "heard" \/ \E j \in made : u \in Players(j)

\* As long as an answer may come to the socket that asked, the page listens
\* for it, or it is excused.
Listening ==
  \A i \in 1..Len(invites) :
    invites[i].client => "event" \in page[invites[i].host].once \/ Excused(invites[i].host)

\* Together with FIInv: CodeIsShown stays true because an excuse lasts until the
\* connection breaks, which takes the answers of before along.
Shown == Listening /\ CodeIsShown

\* A stored match stays, with its players.
MatchesKeep == \A j \in made : j \in made' /\ Players(j)' = Players(j)

\* No call of createInvite begins or gets its answer to the page.
AnswersKeep ==
  /\ DOMAIN invites' = DOMAIN invites /\ DOMAIN invites = 1..Len(invites)
  /\ Len(invites') = Len(invites)
  /\ \A i \in 1..Len(invites) :
       /\ invites'[i].host = invites[i].host
       /\ invites'[i].client => invites[i].client
       /\ invites'[i].answer = "heard" => invites[i].answer = "heard"

\* A user's page forgets nothing, and loses its listener only for an excuse.
PageKeeps(u) ==
  /\ page[u].shows # None => page'[u].shows # None
  /\ leave[u] = "heard" => leave'[u] = "heard"
  /\ "event" \in page[u].once => "event" \in page'[u].once \/ Excused(u)'

LEMMA ExcusedStays ==
  ASSUME MatchesKeep, NEW u, PageKeeps(u), Excused(u)
  PROVE  Excused(u)'
BY DEF MatchesKeep, PageKeeps, Excused

\* Every step but Ask and Hear.
LEMMA PageFrame ==
  ASSUME FIInv, Shown, MatchesKeep, AnswersKeep,
         \A u \in Users : PageKeeps(u) \/ \A i \in 1..Len(invites) : invites[i].host = u => ~invites'[i].client
  PROVE  Shown'
<1>1. ASSUME NEW i \in 1..Len(invites), invites'[i].client, NEW u, u = invites'[i].host
      PROVE  /\ "event" \in page'[u].once \/ Excused(u)'
             /\ invites'[i].answer = "heard" => Excused(u)'
  <2>1. invites[i].client /\ invites[i].host = u /\ i \in DOMAIN invites
    BY <1>1 DEF AnswersKeep
  <2>2. PageKeeps(u)
    <3>1. u \in Users
      BY <2>1, TypedFacts DEF FIInv, InviteType, Calls
    <3>2. QED
      BY <1>1, <2>1, <3>1
  <2>3. "event" \in page[u].once \/ Excused(u)
    BY <2>1 DEF Shown, Listening
  <2>4. invites'[i].answer = "heard" => Excused(u)
    BY <2>1 DEF Shown, CodeIsShown, AnswersKeep, Excused
  <2>5. Excused(u) => Excused(u)'
    BY <2>2, ExcusedStays
  <2>6. QED
    BY <2>2, <2>3, <2>4, <2>5 DEF PageKeeps
<1>2. Listening'
  BY <1>1 DEF Listening, AnswersKeep, Excused
<1>3. CodeIsShown'
  BY <1>1 DEF CodeIsShown, AnswersKeep, Excused
<1>4. QED
  BY <1>2, <1>3 DEF Shown

\* The hosts and guests of the matches stay when joins and invites do.
LEMMA JoinsKeepMatches ==
  ASSUME FIInv, UNCHANGED <<joins, made>>, InvitesKeep
  PROVE  MatchesKeep
<1>1. ASSUME NEW j \in made PROVE joins[j].invite \in 1..Len(invites)
  BY <1>1, TypedFacts DEF FIInv, Typed, Used
<1>2. QED
  BY <1>1 DEF MatchesKeep, Players, Host, InvitesKeep

LEMMA QueueLeftShown == \A u \in Users : FIInv /\ Shown /\ QueueLeft(u) => Shown'
<1> SUFFICES ASSUME NEW u \in Users, FIInv, Shown, QueueLeft(u) PROVE Shown'
  OBVIOUS
<1>1. page \in [Users -> PageType(Len(invites))] /\ leave \in [Users -> {"none", "pending", "heard"}]
  BY DEF FIInv, Typed
<1>2. MatchesKeep /\ AnswersKeep
  BY JoinsKeepMatches, TypedFacts DEF QueueLeft, InvitesKeep, AnswersKeep, Out, FIInv, Typed
<1>3. ASSUME NEW v \in Users PROVE PageKeeps(v)
  <2>1. CASE v = u
    BY <1>1, <2>1 DEF QueueLeft, PageKeeps, Excused, PageType
  <2>2. CASE v # u
    BY <1>1, <2>2 DEF QueueLeft, PageKeeps, Excused, PageType
  <2>3. QED
    BY <2>1, <2>2
<1>4. QED
  BY <1>2, <1>3, PageFrame

LEMMA GoShown == \A u \in Users : FIInv /\ Shown /\ Go(u) => Shown'
<1> SUFFICES ASSUME NEW u \in Users, FIInv, Shown, Go(u) PROVE Shown'
  OBVIOUS
<1>1. /\ leave \in [Users -> {"none", "pending", "heard"}]
      /\ leave' = [leave EXCEPT ![u] = "none"] /\ UNCHANGED <<page, joins, made>>
      /\ invites' = [i \in DOMAIN invites |-> [invites[i] EXCEPT !.client = @ /\ invites[i].host # u]]
  BY DEF FIInv, Typed, Go
<1>2. DOMAIN invites = 1..Len(invites) /\ \A i \in 1..Len(invites) : invites[i] \in InviteType
  BY TypedFacts DEF FIInv, Typed
<1>3. DOMAIN invites' = DOMAIN invites /\ Len(invites') = Len(invites)
  BY <1>1, <1>2, TypedFacts DEF FIInv
<1>4. \A i \in 1..Len(invites) :
        /\ invites'[i].host = invites[i].host /\ invites'[i].answer = invites[i].answer
        /\ invites'[i].client = (invites[i].client /\ invites[i].host # u)
  BY <1>1, <1>2 DEF InviteType, Calls
<1>5. AnswersKeep
  BY <1>2, <1>3, <1>4 DEF AnswersKeep
<1>6. MatchesKeep
  <2>1. InvitesKeep
    BY <1>3, <1>4, TypedFacts DEF InvitesKeep, Out, FIInv
  <2>2. QED
    BY <1>1, <2>1, JoinsKeepMatches
<1>7. ASSUME NEW v \in Users, v # u PROVE PageKeeps(v)
  BY <1>1, <1>7 DEF PageKeeps
<1>8. \A i \in 1..Len(invites) : invites[i].host = u => ~invites'[i].client
  BY <1>4
<1>9. QED
  BY <1>5, <1>6, <1>7, <1>8, PageFrame

LEMMA ComeShown == \A u \in Users : FIInv /\ Shown /\ Come(u) => Shown'
<1> SUFFICES ASSUME NEW u \in Users, FIInv, Shown, Come(u) PROVE Shown'
  OBVIOUS
<1>1. /\ page \in [Users -> PageType(Len(invites))] /\ UNCHANGED <<leave, joins, made>>
      /\ invites' = [i \in DOMAIN invites |->
                      IF invites[i].host = u /\ invites[i].answer = "buffered"
                      THEN [invites[i] EXCEPT !.answer = "none"] ELSE invites[i]]
  BY DEF FIInv, Typed, Come
<1>2. DOMAIN invites = 1..Len(invites) /\ \A i \in 1..Len(invites) : invites[i] \in InviteType
  BY TypedFacts DEF FIInv, Typed
<1>3. DOMAIN invites' = DOMAIN invites /\ Len(invites') = Len(invites)
  BY <1>1, <1>2, TypedFacts DEF FIInv
<1>4. \A i \in 1..Len(invites) :
        /\ invites'[i].host = invites[i].host /\ invites'[i].client = invites[i].client
        /\ invites'[i].answer = "heard" => invites[i].answer = "heard"
        /\ Out(i) => invites'[i].answer = invites[i].answer
  BY <1>1, <1>2 DEF InviteType, Calls, Out
<1>5. AnswersKeep
  BY <1>2, <1>3, <1>4 DEF AnswersKeep
<1>6. MatchesKeep
  <2>1. InvitesKeep
    BY <1>3, <1>4, TypedFacts DEF InvitesKeep, Out, FIInv
  <2>2. QED
    BY <1>1, <2>1, JoinsKeepMatches
<1>7. ASSUME NEW v \in Users, v # u \/ ~Resumes(u) PROVE PageKeeps(v)
  <2>1. page'[v] = page[v]
    BY <1>1, <1>7 DEF Come
  <2>2. QED
    BY <1>1, <2>1 DEF PageKeeps
<1>8. ASSUME Resumes(u) PROVE PageKeeps(u)
  <2>1. Excused(u)'
    <3>1. \E j \in made' : u \in Players(j)'
      BY <1>6, <1>8 DEF Resumes, MatchesKeep
    <3>2. QED
      BY <3>1 DEF Excused
  <2>2. page'[u].shows = page[u].shows
    BY <1>1 DEF Come, PageType
  <2>3. QED
    BY <1>1, <2>1, <2>2 DEF PageKeeps
<1>9. QED
  BY <1>5, <1>6, <1>7, <1>8, PageFrame

LEMMA ExpireShown == \A c \in Codes : FIInv /\ Shown /\ Expire(c) => Shown'
<1> SUFFICES ASSUME NEW c \in Codes, FIInv, Shown, Expire(c) PROVE Shown'
  OBVIOUS
<1>1. AnswersKeep /\ MatchesKeep
  BY JoinsKeepMatches, TypedFacts DEF Expire, InvitesKeep, AnswersKeep, Out, FIInv, Typed
<1>2. \A u : PageKeeps(u)
  BY DEF Expire, PageKeeps
<1>3. QED
  BY <1>1, <1>2, PageFrame

LEMMA DrawShown == \A i \in Invites, c \in Codes : FIInv /\ Shown /\ Draw(i, c) => Shown'
<1> SUFFICES ASSUME NEW i \in Invites, NEW c \in Codes, FIInv, Shown, Draw(i, c) PROVE Shown'
  OBVIOUS
<1>1. /\ invites \in Seq(InviteType) /\ Len(invites) \in Nat /\ DOMAIN invites = 1..Len(invites)
      /\ \A k \in 1..Len(invites) : invites[k] \in InviteType
      /\ i \in 1..Len(invites) /\ invites[i].answer = "none"
      /\ UNCHANGED <<page, leave, joins, made>>
  BY TypedFacts DEF FIInv, Typed, Draw, Invites
<1>2. PICK r \in [host : {invites[i].host}, tries : Int, client : {invites[i].client},
                  answer : {"none", "code", "error"}] :
        invites' = [invites EXCEPT ![i] = r]
  <2>1. invites[i] \in Calls
    BY <1>1 DEF InviteType
  <2>2. CASE store[c] = None
    BY <1>1, <2>1, <2>2 DEF Draw, Calls
  <2>3. CASE store[c] # None
    <3> DEFINE n == invites[i].tries + 1
               x == IF GivesUp(n) THEN "error" ELSE "none"
               r == [invites[i] EXCEPT !.tries = n, !.answer = x]
    <3>1. invites' = [invites EXCEPT ![i] = r]
      BY <1>1, <2>1, <2>3 DEF Draw, Calls
    <3>2. n \in Int /\ x \in {"none", "error"}
      BY <2>1 DEF Calls
    <3> HIDE DEF n, x
    <3>3. r \in [host : {invites[i].host}, tries : Int, client : {invites[i].client},
                 answer : {"none", "code", "error"}]
      BY <2>1, <3>2 DEF Calls
    <3>4. QED
      BY <3>1, <3>3
  <2>4. QED
    BY <2>2, <2>3
<1>3. /\ DOMAIN invites' = DOMAIN invites /\ Len(invites') = Len(invites)
      /\ \A k \in 1..Len(invites) : invites'[k] = IF k = i THEN r ELSE invites[k]
  BY <1>1, <1>2
<1>4. AnswersKeep /\ InvitesKeep
  BY <1>1, <1>2, <1>3 DEF AnswersKeep, InvitesKeep, Out
<1>5. MatchesKeep
  BY <1>1, <1>4, JoinsKeepMatches
<1>6. \A u : PageKeeps(u)
  BY <1>1 DEF PageKeeps
<1>7. QED
  BY <1>4, <1>5, <1>6, PageFrame

LEMMA AcceptShown ==
  \A u \in Users, c \in Codes, rest \in BOOLEAN : FIInv /\ Shown /\ Accept(u, c, rest) => Shown'
<1> SUFFICES ASSUME NEW u \in Users, NEW c \in Codes, NEW rest \in BOOLEAN,
                    FIInv, Shown, Accept(u, c, rest)
             PROVE  Shown'
  OBVIOUS
<1>1. /\ page \in [Users -> PageType(Len(invites))] /\ joins \in Seq(JoinType(Len(invites)))
      /\ Len(joins) \in Nat /\ made \subseteq 1..Len(joins) /\ Len(invites) \in Nat
      /\ DOMAIN invites = 1..Len(invites)
  BY TypedFacts DEF FIInv, Typed
<1>2. AnswersKeep
  BY <1>1 DEF Accept, AnswersKeep
<1>3. MatchesKeep
  <2>1. \A j \in made : joins'[j] = joins[j]
    BY <1>1 DEF Accept
  <2>2. QED
    BY <2>1 DEF MatchesKeep, Accept, Players, Host
<1>4. ASSUME NEW v \in Users PROVE PageKeeps(v)
  <2>1. page' = page \/ page' = [page EXCEPT ![u].once = @ \cup {"matched"}]
    BY DEF Accept
  <2>2. page'[v].shows = page[v].shows /\ ("event" \in page[v].once => "event" \in page'[v].once)
    <3>1. CASE v = u
      BY <1>1, <2>1, <3>1 DEF PageType
    <3>2. CASE v # u
      BY <1>1, <2>1, <3>2
    <3>3. QED
      BY <3>1, <3>2
  <2>3. QED
    BY <2>2 DEF PageKeeps, Accept
<1>5. QED
  BY <1>2, <1>3, <1>4, PageFrame

LEMMA ServeShown == \A j \in Joins : FIInv /\ Shown /\ Serve(j) => Shown'
<1> SUFFICES ASSUME NEW j \in Joins, FIInv, Shown, Serve(j) PROVE Shown'
  OBVIOUS
<1>1. /\ Typed /\ joins \in Seq(JoinType(Len(invites))) /\ Len(joins) \in Nat
      /\ page \in [Users -> PageType(Len(invites))]
      /\ \A k \in 1..Len(joins) : joins[k] \in JoinType(Len(invites))
      /\ made \subseteq 1..Len(joins) /\ Len(invites) \in Nat /\ DOMAIN invites = 1..Len(invites)
  BY TypedFacts DEF FIInv, Typed
<1>2. j \in 1..Len(joins)
  <2>1. \E step : At(j, step)
    BY DEF Serve, Get, Del, Create, Boot, Tell, Fail
  <2>2. j <= Len(joins) /\ j \in Nat /\ j >= 1
    BY <2>1, FriendInvitesAssumption DEF At, Joins
  <2>3. QED
    BY <1>1, <2>2
<1>3. UNCHANGED <<invites, leave>> /\ made \subseteq made'
  BY DEF Serve, Get, Del, Create, Boot, Tell, Fail
<1>4. \A k \in made : joins'[k].by = joins[k].by /\ joins'[k].invite = joins[k].invite
  <2>1. CASE Get(j)
    <3>1. j \notin made
      BY <1>2, <2>1, WhereAt DEF Get, FIInv, Used
    <3>2. \A k \in 1..Len(joins) : k # j => joins'[k] = joins[k]
      BY <1>1, <1>2, <2>1 DEF Get
    <3>3. QED
      BY <1>1, <3>1, <3>2
  <2>2. CASE Del(j) \/ Create(j) \/ Boot(j) \/ Tell(j) \/ Fail(j)
    <3>1. PICK n : joins' = [joins EXCEPT ![j] = [joins[j] EXCEPT !.at = n]]
      <4>1. CASE Fail(j)
        BY <1>1, <1>2, <4>1 DEF Fail
      <4>2. CASE Del(j) \/ Create(j) \/ Boot(j) \/ Tell(j)
        BY <1>1, <1>2, <4>2, AdvanceSet DEF Del, Create, Boot, Tell
      <4>3. QED
        BY <2>2, <4>1, <4>2
    <3>2. QED
      BY <1>1, <1>2, <3>1 DEF JoinType
  <2>3. QED
    BY <2>1, <2>2 DEF Serve
<1>5. MatchesKeep
  BY <1>3, <1>4 DEF MatchesKeep, Players, Host
<1>6. AnswersKeep
  BY <1>1, <1>3 DEF AnswersKeep
<1>7. Typed'
  BY <1>1, ServeTypeOK
<1>8. ASSUME NEW v \in Users PROVE PageKeeps(v)
  <2>1. page' = page \/ Tell(j)
    BY DEF Serve, Get, Del, Create, Boot, Fail
  <2>2. CASE page' = page
    BY <1>3, <2>2 DEF PageKeeps
  <2>3. CASE Tell(j)
    <3>1. page'[v].shows = page[v].shows /\ ("event" \in page[v].once => "event" \in page'[v].once)
      BY <1>1, <2>3 DEF Tell, PageType
    <3>2. QED
      BY <1>3, <3>1 DEF PageKeeps
  <2>4. QED
    BY <2>1, <2>2, <2>3
<1>9. QED
  BY <1>5, <1>6, <1>8, PageFrame

LEMMA AskShown == \A u \in Users : FIInv /\ Shown /\ Ask(u) => Shown'
<1> SUFFICES ASSUME NEW u \in Users, FIInv, Shown, Ask(u) PROVE Shown'
  OBVIOUS
<1> DEFINE r == [host |-> u, tries |-> 0, client |-> TRUE,
                 answer |-> IF u \in online THEN "none" ELSE "buffered"]
<1>1. /\ invites \in Seq(InviteType) /\ Len(invites) \in Nat /\ DOMAIN invites = 1..Len(invites)
      /\ page \in [Users -> PageType(Len(invites))]
      /\ \A i \in 1..Len(invites) : invites[i].host \in Users
  BY TypedFacts DEF FIInv, Typed, InviteType, Calls
<1>2. invites' = Append(invites, r) /\ page' = [page EXCEPT ![u].once = {"event", "matched"}]
      /\ UNCHANGED <<joins, made, leave>>
  BY DEF Ask
<1>3. r.host = u /\ r.answer # "heard"
  OBVIOUS
<1> HIDE DEF r
<1>4. /\ DOMAIN invites' = 1..(Len(invites) + 1) /\ Len(invites') = Len(invites) + 1
      /\ invites'[Len(invites) + 1] = r
      /\ \A i \in 1..Len(invites) : invites'[i] = invites[i]
  BY <1>1, <1>2
<1>5. MatchesKeep
  <2>1. ASSUME NEW j \in made PROVE joins[j].invite \in 1..Len(invites)
    BY <2>1, TypedFacts DEF FIInv, Typed, Used
  <2>2. QED
    BY <1>2, <1>4, <2>1 DEF MatchesKeep, Players, Host
<1>6. "event" \in page'[u].once /\ page'[u].shows = page[u].shows
  BY <1>1, <1>2 DEF PageType
<1>7. ASSUME NEW v \in Users PROVE PageKeeps(v)
  <2>1. CASE v = u
    BY <1>2, <1>6, <2>1 DEF PageKeeps
  <2>2. CASE v # u
    BY <1>1, <1>2, <2>2 DEF PageKeeps
  <2>3. QED
    BY <2>1, <2>2
<1>8. ASSUME NEW i \in 1..(Len(invites) + 1), invites'[i].client, NEW v, v = invites'[i].host
      PROVE  /\ "event" \in page'[v].once \/ Excused(v)'
             /\ invites'[i].answer = "heard" => Excused(v)'
  <2>1. CASE i = Len(invites) + 1
    BY <1>3, <1>4, <1>6, <1>8, <2>1
  <2>2. CASE i # Len(invites) + 1
    <3>1. i \in 1..Len(invites) /\ invites'[i] = invites[i] /\ v \in Users /\ i \in DOMAIN invites
      BY <1>1, <1>4, <1>8, <2>2
    <3>2. "event" \in page[v].once \/ Excused(v)
      BY <1>8, <3>1 DEF Shown, Listening
    <3>3. invites'[i].answer = "heard" => Excused(v)
      BY <1>8, <3>1 DEF Shown, CodeIsShown, Excused
    <3>4. Excused(v) => Excused(v)'
      BY <1>5, <1>7, <3>1, ExcusedStays
    <3>5. QED
      BY <1>7, <3>1, <3>2, <3>3, <3>4 DEF PageKeeps
  <2>3. QED
    BY <2>1, <2>2
<1>9. Listening' /\ CodeIsShown'
  BY <1>4, <1>8 DEF Listening, CodeIsShown, Excused
<1>10. QED
  BY <1>9 DEF Shown

\* One answer gets to its page, whose user is excused from then on if it can.
Heard(k, h) ==
  /\ DOMAIN invites' = 1..Len(invites) /\ Len(invites') = Len(invites)
  /\ \A i \in 1..Len(invites) :
       /\ invites'[i].host = invites[i].host /\ invites'[i].client = invites[i].client
       /\ i # k => invites'[i].answer = invites[i].answer
  /\ h = invites[k].host /\ UNCHANGED leave
  /\ \A v \in Users : v # h => page'[v] = page[v]
  /\ page' = page \/ Excused(h)'
  /\ invites[k].client => Excused(h)'

LEMMA HeardShown ==
  ASSUME FIInv, Shown, MatchesKeep, NEW k \in 1..Len(invites), NEW h \in Users, Heard(k, h)
  PROVE  Shown'
<1>1. DOMAIN invites = 1..Len(invites) /\ \A i \in 1..Len(invites) : invites[i].host \in Users
  BY TypedFacts DEF FIInv, Typed, InviteType, Calls
<1>2. ASSUME NEW i \in 1..Len(invites), invites'[i].client, NEW v \in Users, v = invites'[i].host
      PROVE  /\ "event" \in page'[v].once \/ Excused(v)'
             /\ invites'[i].answer = "heard" => Excused(v)'
  <2>1. invites[i].client /\ invites[i].host = v
    BY <1>2 DEF Heard
  <2>2. CASE Excused(h)' /\ v = h
    BY <2>2
  <2>3. CASE page'[v] = page[v] /\ ~(invites[k].client /\ i = k)
    <3>1. "event" \in page[v].once \/ Excused(v)
      BY <2>1 DEF Shown, Listening
    <3>2. invites'[i].answer = "heard" => Excused(v)
      BY <1>1, <1>2, <2>1, <2>3 DEF Shown, CodeIsShown, Excused, Heard
    <3>3. PageKeeps(v)
      BY <2>3 DEF Heard, PageKeeps
    <3>4. QED
      BY <2>3, <3>1, <3>2, <3>3, ExcusedStays
  <2>4. QED
    BY <1>2, <2>1, <2>2, <2>3 DEF Heard
<1>3. \A i \in 1..Len(invites) : invites'[i].host \in Users
  BY <1>1 DEF Heard
<1>4. Listening' /\ CodeIsShown'
  BY <1>2, <1>3 DEF Listening, CodeIsShown, Excused, Heard
<1>5. QED
  BY <1>4 DEF Shown

\* The listener that hears the answer shows the code, and one that does not is
\* there no more for a reason that Listening names.
LEMMA HearShown == \A k \in Invites : FIInv /\ Shown /\ Hear(k) => Shown'
<1> SUFFICES ASSUME NEW k \in Invites, FIInv, Shown, Hear(k) PROVE Shown'
  OBVIOUS
<1>1. /\ invites \in Seq(InviteType) /\ Len(invites) \in Nat /\ DOMAIN invites = 1..Len(invites)
      /\ page \in [Users -> PageType(Len(invites))]
      /\ \A i \in 1..Len(invites) : invites[i].host \in Users /\ invites[i] \in Calls
      /\ k \in 1..Len(invites) /\ k # None
  BY TypedFacts DEF FIInv, Typed, InviteType, Calls, Hear, Invites, None
<1>2. invites' = [invites EXCEPT ![k].answer = "heard"] /\ UNCHANGED <<joins, made, leave>>
  BY DEF Hear
<1>3. /\ DOMAIN invites' = 1..Len(invites) /\ Len(invites') = Len(invites)
      /\ \A i \in 1..Len(invites) :
           /\ invites'[i].host = invites[i].host /\ invites'[i].client = invites[i].client
           /\ i # k => invites'[i].answer = invites[i].answer
           /\ Out(i) => Out(i)'
  BY <1>1, <1>2 DEF Calls, Out
<1>4. MatchesKeep
  BY <1>1, <1>2, <1>3, JoinsKeepMatches DEF InvitesKeep
<1>5. PICK h \in Users : h = invites[k].host
  BY <1>1
<1>6. CASE invites[k].client /\ "event" \in page[h].once
  <2>1. page' = [page EXCEPT ![h].shows = k, ![h].once = @ \ {"event"}]
    BY <1>5, <1>6 DEF Hear
  <2>2. page'[h].shows = k
    BY <1>1, <2>1 DEF PageType
  <2>3. Excused(h)'
    BY <1>1, <2>2 DEF Excused
  <2>4. ASSUME NEW v \in Users, v # h PROVE page'[v] = page[v]
    BY <1>1, <2>1, <2>4
  <2>5. QED
    BY <1>1, <1>2, <1>3, <1>4, <1>5, <2>3, <2>4, HeardShown DEF Heard
<1>7. CASE ~(invites[k].client /\ "event" \in page[h].once)
  <2>1. page' = page
    BY <1>5, <1>7 DEF Hear
  <2>2. invites[k].client => Excused(h)
    BY <1>1, <1>5, <1>7 DEF Shown, Listening
  <2>3. PageKeeps(h)
    BY <1>2, <2>1 DEF PageKeeps
  <2>4. invites[k].client => Excused(h)'
    BY <1>4, <2>2, <2>3, ExcusedStays
  <2>5. QED
    BY <1>1, <1>2, <1>3, <1>4, <1>5, <2>1, <2>4, HeardShown DEF Heard
<1>8. QED
  BY <1>6, <1>7

LEMMA InitShown == Init => Shown
BY DEF Init, Shown, Listening, CodeIsShown

LEMMA NextShown == FIInv /\ Shown /\ [Next]_vars => Shown'
<1>1. Shown /\ UNCHANGED vars => Shown'
  BY DEF Shown, Listening, CodeIsShown, Excused, Players, Host, vars
<1>2. QED
  BY <1>1, AskShown, QueueLeftShown, GoShown, ComeShown, ExpireShown, DrawShown, HearShown,
     AcceptShown, ServeShown DEF Next

\* Whose request for a code was answered sees one, unless he has a match or the
\* answer to his leave was in the way, for any users, calls and order of answers.
THEOREM CodeIsShownHolds == Spec => []CodeIsShown
<1>1. Init => FIInv /\ Shown
  BY InitFIInv, InitShown
<1>2. FIInv /\ Shown /\ [Next]_vars => (FIInv /\ Shown)'
  BY NextFIInv, NextShown
<1>3. Shown => CodeIsShown
  BY DEF Shown
<1>4. QED
  BY <1>1, <1>2, <1>3, PTL DEF Spec
=============================================================================
