-------------------------- MODULE ConnectionsProofs --------------------------
(***************************************************************************)
(* Who is shown as connected is listening, for any number of client        *)
(* sockets and of connections that break.                                  *)
(***************************************************************************)
EXTENDS Connections, TLAPS

Queueing == {"matchmaking:join", "matchmaking:leave"}
Messages == Queueing \cup {"match:join"}
Events   == {"matched", "finished"}

ConnTypeOK ==
  /\ sessions \in Nat
  /\ session \in [Sockets -> Sessions \cup {None}]
  /\ buffer \in [Sockets -> Seq(Messages)]
  /\ toServer \in [Sessions -> Seq(Messages)]
  /\ toClient \in [Sessions -> Seq(Events)]
  /\ cut \subseteq 1..sessions

\* The session a socket believes to have is in the player's entry until it is cut.
Known == \A o \in Sockets : session[o] # None => session[o] \in socketsByUser \cup cut

\* Only what is in the player's entry and not cut has messages under way.
Open == \A s \in Sessions : toServer[s] # <<>> => s \in socketsByUser \ cut

\* Before the match nobody was told of it, and nobody joins it.
NotYet ==
  status = "none" =>
    /\ ~connected
    /\ joining = {}
    /\ toClient = [s \in Sessions |-> <<>>]
    /\ toServer \in [Sessions -> Seq(Queueing)]
    /\ buffer \in [Sockets -> Seq(Queueing)]

CInv == ConnTypeOK /\ Known /\ Open /\ NotYet /\ ConnectedIsListening

-----------------------------------------------------------------------------
LEMMA NoneIsNoSession == None \notin Sessions /\ Sessions \subseteq Nat
BY ConnectionsAssumption DEF None, Sessions

\* What a message that is emitted leaves in the buffers and on the way.
LEMMA EmitOnKeeps ==
  ASSUME CInv, NEW o, NEW m \in Messages, EmitOn(o, m),
         status = "none" => m \in Queueing
  PROVE  /\ buffer' \in [Sockets -> Seq(Messages)]
         /\ toServer' \in [Sessions -> Seq(Messages)]
         /\ \A s \in Sessions : toServer'[s] # <<>> => s \in socketsByUser \ cut
         /\ status = "none" => /\ toServer' \in [Sessions -> Seq(Queueing)]
                               /\ buffer' \in [Sockets -> Seq(Queueing)]
<1>1. ConnTypeOK /\ Known /\ Open /\ NotYet /\ o \in Sockets
  BY DEF CInv, EmitOn
<1>2. CASE session[o] = None
  <2>1. buffer' = [buffer EXCEPT ![o] = Append(@, m)] /\ toServer' = toServer
    BY <1>2 DEF EmitOn
  <2>2. buffer' \in [Sockets -> Seq(Messages)]
    BY <1>1, <2>1 DEF ConnTypeOK
  <2>3. status = "none" => buffer' \in [Sockets -> Seq(Queueing)]
    BY <1>1, <2>1 DEF NotYet
  <2>4. QED
    BY <1>1, <2>1, <2>2, <2>3 DEF ConnTypeOK, Open, NotYet
<1>3. CASE session[o] # None /\ session[o] \in cut
  <2>1. buffer' = buffer /\ toServer' = toServer
    BY <1>3 DEF EmitOn
  <2>2. QED
    BY <1>1, <2>1 DEF ConnTypeOK, Open, NotYet
<1>4. CASE session[o] # None /\ session[o] \notin cut
  <2> DEFINE s == session[o]
  <2>1. buffer' = buffer /\ toServer' = [toServer EXCEPT ![s] = Append(@, m)]
    BY <1>4 DEF EmitOn
  <2>2. s \in Sessions /\ s \in socketsByUser \ cut
    BY <1>1, <1>4 DEF ConnTypeOK, Known
  <2> HIDE DEF s
  <2>3. toServer' \in [Sessions -> Seq(Messages)]
    BY <1>1, <2>1, <2>2 DEF ConnTypeOK
  <2>4. status = "none" => toServer' \in [Sessions -> Seq(Queueing)]
    BY <1>1, <2>1, <2>2 DEF NotYet
  <2>5. \A t \in Sessions : toServer'[t] # <<>> => t \in socketsByUser \ cut
    BY <1>1, <2>1, <2>2 DEF Open, ConnTypeOK
  <2>6. QED
    BY <1>1, <2>1, <2>3, <2>4, <2>5 DEF ConnTypeOK, NotYet
<1>5. QED
  BY <1>2, <1>3, <1>4

LEMMA QueuePageCInv == CInv /\ (OpenQueue \/ LeaveQueue) => CInv'
<1> SUFFICES ASSUME CInv, OpenQueue \/ LeaveQueue PROVE CInv'
  OBVIOUS
<1>1. PICK o \in Sockets, m \in Queueing : EmitOn(o, m)
  BY DEF OpenQueue, LeaveQueue, Queueing, EmitOn
<1>2. UNCHANGED <<session, sessions, cut, toClient, server>>
  BY DEF OpenQueue, LeaveQueue
<1>3. m \in Messages
  BY DEF Messages
<1>4. QED
  BY <1>1, <1>2, <1>3, EmitOnKeeps
     DEF CInv, ConnTypeOK, Known, Open, NotYet, ConnectedIsListening, server

\* An event that was taken from a session.
LEMMA HeardTyped ==
  ASSUME CInv, NEW o \in Sockets, session[o] # None, toClient[session[o]] # <<>>,
         toClient' = [toClient EXCEPT ![session[o]] = Tail(@)]
  PROVE  toClient' \in [Sessions -> Seq(Events)] /\ status # "none"
<1>1. session[o] \in Sessions /\ toClient \in [Sessions -> Seq(Events)]
  BY DEF CInv, ConnTypeOK
<1>2. status # "none"
  BY <1>1 DEF CInv, NotYet
<1>3. Tail(toClient[session[o]]) \in Seq(Events)
  BY <1>1
<1>4. QED
  BY <1>1, <1>2, <1>3

LEMMA HearCInv == \A o \in Sockets : CInv /\ Hear(o) => CInv'
<1> SUFFICES ASSUME NEW o \in Sockets, CInv, Hear(o) PROVE CInv'
  OBVIOUS
<1>1. toClient' \in [Sessions -> Seq(Events)] /\ status # "none"
  BY HeardTyped DEF Hear, HearMatched, HearFinished, HearNothing
<1>2. CASE HearMatched(o)
  <2>1. EmitOn(GetSocket, "match:join") /\ "match:join" \in Messages
    BY <1>2 DEF HearMatched, Messages
  <2>2. UNCHANGED <<session, sessions, cut, server>>
    BY <1>2 DEF HearMatched
  <2>3. QED
    BY <1>1, <2>1, <2>2, EmitOnKeeps
       DEF CInv, ConnTypeOK, Known, Open, NotYet, ConnectedIsListening, server
<1>3. CASE HearFinished(o) \/ HearNothing(o)
  <2>1. UNCHANGED <<session, buffer, sessions, cut, toServer, server>>
    BY <1>3 DEF HearFinished, HearNothing, browser
  <2>2. QED
    BY <1>1, <2>1 DEF CInv, ConnTypeOK, Known, Open, NotYet, ConnectedIsListening, server
<1>4. QED
  BY <1>2, <1>3 DEF Hear

LEMMA ConnectCInv == \A o \in Sockets : CInv /\ Connect(o) => CInv'
<1> SUFFICES ASSUME NEW o \in Sockets, CInv, Connect(o) PROVE CInv'
  OBVIOUS
<1> DEFINE s == sessions + 1
<1>1. /\ s \in Sessions /\ sessions' = s
      /\ session' = [session EXCEPT ![o] = s]
      /\ toServer' = [toServer EXCEPT ![s] = buffer[o]]
      /\ buffer' = [buffer EXCEPT ![o] = <<>>]
      /\ socketsByUser' = socketsByUser \cup {s}
      /\ UNCHANGED <<cut, toClient, room, joining, failed, status, connected>>
  BY DEF Connect
<1>2. ConnTypeOK /\ Known /\ Open /\ NotYet /\ ConnectedIsListening
  BY DEF CInv
<1>3. s \notin cut /\ cut \subseteq 1..s /\ s \in Nat
  BY <1>2 DEF ConnTypeOK
<1> HIDE DEF s
<1>4. /\ buffer' \in [Sockets -> Seq(Messages)] /\ toServer' \in [Sessions -> Seq(Messages)]
      /\ session' \in [Sockets -> Sessions \cup {None}]
  BY <1>1, <1>2 DEF ConnTypeOK
<1>5. status = "none" => /\ toServer' \in [Sessions -> Seq(Queueing)]
                         /\ buffer' \in [Sockets -> Seq(Queueing)]
  BY <1>1, <1>2 DEF NotYet
<1>6. ConnTypeOK'
  BY <1>1, <1>2, <1>3, <1>4 DEF ConnTypeOK
<1>7. Known' /\ Open'
  BY <1>1, <1>2, <1>3 DEF ConnTypeOK, Known, Open
<1>8. NotYet' /\ ConnectedIsListening'
  BY <1>1, <1>2, <1>5 DEF NotYet, ConnectedIsListening
<1>9. QED
  BY <1>6, <1>7, <1>8 DEF CInv

LEMMA CutCInv == \A s \in Sessions : CInv /\ Cut(s) => CInv'
<1> SUFFICES ASSUME NEW s \in Sessions, CInv, Cut(s) PROVE CInv'
  OBVIOUS
<1>1. /\ s \in 1..sessions /\ cut' = cut \cup {s}
      /\ toServer' = [toServer EXCEPT ![s] = <<>>]
      /\ toClient' = [toClient EXCEPT ![s] = <<>>]
      /\ UNCHANGED <<browser, sessions, server>>
  BY DEF Cut
<1>2. ConnTypeOK /\ Known /\ Open /\ NotYet /\ ConnectedIsListening
  BY DEF CInv
<1>3. ConnTypeOK'
  BY <1>1, <1>2 DEF ConnTypeOK, browser
<1>4. Known' /\ Open'
  BY <1>1, <1>2 DEF Known, Open, ConnTypeOK, browser, server
<1>5. NotYet'
  <2>1. status = "none" => toServer' \in [Sessions -> Seq(Queueing)]
    BY <1>1, <1>2 DEF NotYet
  <2>2. status = "none" => toClient' = [t \in Sessions |-> <<>>]
    BY <1>1, <1>2 DEF NotYet
  <2>3. QED
    BY <1>1, <1>2, <2>1, <2>2 DEF NotYet, browser, server
<1>6. ConnectedIsListening'
  BY <1>1, <1>2 DEF ConnectedIsListening, server
<1>7. QED
  BY <1>3, <1>4, <1>5, <1>6 DEF CInv

\* Steps of the browser and the match that touch neither messages nor sessions.
LEMMA QuietCInv ==
  CInv /\ (Click \/ Enqueue \/ Refuse \/ Finish \/ Pair \/ \E o \in Sockets : ClientNotices(o)) => CInv'
<1> SUFFICES ASSUME CInv, Click \/ Enqueue \/ Refuse \/ Finish \/ Pair \/ \E o \in Sockets : ClientNotices(o)
             PROVE  CInv'
  OBVIOUS
<1>1. /\ UNCHANGED <<buffer, network, socketsByUser, room, joining, failed, connected>>
      /\ \/ session' = session
         \/ \E o \in Sockets : session' = [session EXCEPT ![o] = None]
      /\ \/ status' = status
         \/ status = "none" /\ status' = "active"
         \/ status = "active" /\ status' = "finished"
  BY DEF Click, Enqueue, Refuse, Finish, Pair, ClientNotices, browser, server
<1>2. ConnTypeOK /\ Known /\ Open /\ NotYet /\ ConnectedIsListening
  BY DEF CInv
<1>3. session' \in [Sockets -> Sessions \cup {None}]
      /\ \A o \in Sockets : session'[o] \in {session[o], None}
  BY <1>1, <1>2 DEF ConnTypeOK
<1>4. ConnTypeOK' /\ Known' /\ Open'
  BY <1>1, <1>2, <1>3 DEF ConnTypeOK, Known, Open, network
<1>5. NotYet' /\ ConnectedIsListening'
  BY <1>1, <1>2 DEF NotYet, ConnectedIsListening, network
<1>6. QED
  BY <1>4, <1>5 DEF CInv

LEMMA ServerNoticesCInv == \A s \in Sessions : CInv /\ ServerNotices(s) => CInv'
BY DEF ServerNotices, ConnectedAfterClose, browser, network,
       CInv, ConnTypeOK, Known, Open, NotYet, ConnectedIsListening

\* A message is taken from a session.
LEMMA ReceivedKeeps ==
  ASSUME CInv, NEW s \in Sessions, NEW m, Arrived(s, m), Received(s)
  PROVE  /\ m \in Messages /\ s \in socketsByUser \ cut
         /\ toServer' \in [Sessions -> Seq(Messages)]
         /\ \A t \in Sessions : toServer'[t] # <<>> => toServer[t] # <<>>
         /\ status = "none" => m \in Queueing /\ toServer' \in [Sessions -> Seq(Queueing)]
<1>1. toServer \in [Sessions -> Seq(Messages)] /\ toServer[s] # <<>> /\ m = Head(toServer[s])
      /\ toServer' = [toServer EXCEPT ![s] = Tail(@)]
  BY DEF CInv, ConnTypeOK, Arrived, Received
<1>2. m \in Messages /\ Tail(toServer[s]) \in Seq(Messages)
  BY <1>1
<1>3. status = "none" => /\ m \in Queueing /\ Tail(toServer[s]) \in Seq(Queueing)
                         /\ toServer \in [Sessions -> Seq(Queueing)]
  BY <1>1 DEF CInv, NotYet
<1>4. s \in socketsByUser \ cut
  BY <1>1 DEF CInv, Open
<1>5. \A t \in Sessions : toServer'[t] # <<>> => toServer[t] # <<>>
  BY <1>1
<1>6. QED
  BY <1>1, <1>2, <1>3, <1>4, <1>5

\* What is announced is an event.
LEMMA EmitKeeps ==
  ASSUME CInv, NEW receivers, NEW event \in Events, Emit(receivers, event)
  PROVE  toClient' \in [Sessions -> Seq(Events)]
<1>1. \A s \in Sessions : toClient[s] \in Seq(Events) /\ Append(toClient[s], event) \in Seq(Events)
  BY DEF CInv, ConnTypeOK
<1>2. QED
  BY <1>1 DEF Emit

LEMMA ServeCInv == \A s \in Sessions : CInv /\ Serve(s) => CInv'
<1> SUFFICES ASSUME NEW s \in Sessions, CInv, Serve(s) PROVE CInv'
  OBVIOUS
<1>1. CASE Join(s) \/ Leave(s)
  <2>1. PICK m : Arrived(s, m) /\ Received(s)
    BY <1>1 DEF Join, Leave
  <2>2. UNCHANGED <<session, buffer, sessions, cut, toClient, socketsByUser, room, joining, failed, status, connected>>
    BY <1>1 DEF Join, Leave, browser
  <2>3. QED
    BY <2>1, <2>2, ReceivedKeeps DEF CInv, ConnTypeOK, Known, Open, NotYet, ConnectedIsListening
<1>2. CASE MatchJoin(s)
  <2>1. Arrived(s, "match:join") /\ Received(s)
    BY <1>2 DEF MatchJoin
  <2>2. /\ UNCHANGED <<session, buffer, sessions, cut, toClient, socketsByUser, room, failed, status>>
        /\ connected' = TRUE /\ joining' = joining \cup {s}
    BY <1>2 DEF MatchJoin, browser
  <2>3. status # "none" /\ s \in socketsByUser
    BY <2>1, ReceivedKeeps DEF Queueing
  <2>4. QED
    BY <2>1, <2>2, <2>3, ReceivedKeeps DEF CInv, ConnTypeOK, Known, Open, NotYet, ConnectedIsListening
<1>3. CASE Joined(s)
  <2>1. /\ UNCHANGED <<session, buffer, sessions, cut, toServer, socketsByUser, failed, status, connected>>
        /\ s \in joining /\ joining' = joining \ {s} /\ room' = room \cup {s}
    BY <1>3 DEF Joined, browser
  <2>2. toClient' \in [Sessions -> Seq(Events)]
    <3>1. UNCHANGED toClient \/ Emit(room', "finished")
      BY <1>3 DEF Joined
    <3>2. QED
      BY <3>1, EmitKeeps DEF CInv, ConnTypeOK, Events
  <2>3. status # "none"
    BY <2>1 DEF CInv, NotYet
  <2>4. QED
    BY <2>1, <2>2, <2>3 DEF CInv, ConnTypeOK, Known, Open, NotYet, ConnectedIsListening
<1>4. CASE JoinFails(s)
  <2>1. /\ UNCHANGED <<browser, network, socketsByUser, room, status, connected>>
        /\ s \in joining /\ joining' = joining \ {s} /\ failed' = failed \cup {s}
    BY <1>4 DEF JoinFails
  <2>2. QED
    BY <2>1 DEF browser, network, CInv, ConnTypeOK, Known, Open, NotYet, ConnectedIsListening
<1>5. QED
  BY <1>1, <1>2, <1>3, <1>4 DEF Serve

LEMMA AnnounceCInv == CInv /\ (AnnounceMatch \/ AnnounceEnd) => CInv'
<1> SUFFICES ASSUME CInv, AnnounceMatch \/ AnnounceEnd PROVE CInv'
  OBVIOUS
<1>1. /\ UNCHANGED <<session, buffer, sessions, cut, toServer, socketsByUser, room, joining, failed, status, connected>>
      /\ status # "none"
  BY DEF AnnounceMatch, AnnounceEnd, browser
<1>2. toClient' \in [Sessions -> Seq(Events)]
  BY EmitKeeps DEF AnnounceMatch, AnnounceEnd, Events
<1>3. QED
  BY <1>1, <1>2 DEF CInv, ConnTypeOK, Known, Open, NotYet, ConnectedIsListening

LEMMA InitCInv == Init => CInv
BY NoneIsNoSession DEF Init, CInv, ConnTypeOK, Known, Open, NotYet, ConnectedIsListening

LEMMA NextCInv == CInv /\ [Next]_vars => CInv'
<1>1. CInv /\ UNCHANGED vars => CInv'
  BY DEF vars, browser, network, server, CInv, ConnTypeOK, Known, Open, NotYet, ConnectedIsListening
<1>2. QED
  BY <1>1, QueuePageCInv, HearCInv, ConnectCInv, CutCInv, QuietCInv, ServerNoticesCInv,
     ServeCInv, AnnounceCInv DEF Next

\* However often connections break and match:join fails, and whichever side
\* notices first, who is shown as connected to an active match has an open
\* session that hears it, is about to, or has tried to.
THEOREM ConnectedIsListeningHolds == Spec => []ConnectedIsListening
<1>1. CInv => ConnectedIsListening
  BY DEF CInv
<1>2. QED
  BY <1>1, InitCInv, NextCInv, PTL DEF Spec
=============================================================================
