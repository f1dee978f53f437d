----------------------------- MODULE Connections -----------------------------
(***************************************************************************)
(* One player between his browser and the server: the client's sockets     *)
(* (apps/web/src/lib/socket.ts), the queue and match pages that listen on  *)
(* them, and what the gateway keeps of him: the sockets of the user, the   *)
(* room of the match, and the flag that shows him as connected.            *)
(*                                                                         *)
(* getSocket makes a new client socket whenever the present one is not     *)
(* connected; the old one goes on reconnecting by itself. Each connection  *)
(* of a socket is a new session for the server, in no room. A session's    *)
(* messages arrive in order until it is cut; then both sides notice, each  *)
(* in its own time. What a socket emits while it is not connected waits in *)
(* its buffer.                                                             *)
(*                                                                         *)
(* The other player and the clock are the environment: a waiting player is *)
(* matched, and a match ends, at any moment. Ends that are announced to    *)
(* nobody are the subject of MatchRuntime.                                 *)
(***************************************************************************)
EXTENDS Integers, Sequences, FiniteSets

CONSTANTS
  MaxSockets,  \* bound on the client sockets the player's pages make
  MaxCuts,     \* bound on the connections that break
  MaxPending,  \* bound on the messages under way when the queue page is opened
  MaxFailures  \* bound on the sessions whose match:join fails

ASSUME ConnectionsAssumption ==
  /\ MaxSockets \in Nat \ {0}
  /\ MaxCuts \in Nat /\ MaxPending \in Nat /\ MaxFailures \in Nat

Sockets  == 1..MaxSockets
Sessions == 1..(MaxSockets + MaxCuts)
None     == 0

VARIABLES
  \* the browser
  page,            \* the route that is mounted
  sockets,         \* how many client sockets were made; the last is socketInstance
  ear,             \* the socket the mounted page listens on
  session,         \* [Sockets -> the session it believes to have]
  buffer,          \* [Sockets -> messages emitted while not connected]
  \* the network
  sessions, cut,   \* how many sessions were opened; those that are broken
  toServer, toClient,
  \* the server
  socketsByUser,   \* the player's entry: his sessions
  room,            \* his sessions in the room of the match
  joining,         \* sessions whose match:join waits for Redis
  failed,          \* history: sessions whose match:join failed there
  entering,        \* handlers of matchmaking:join that have not queued him yet
  waiting,         \* he is in the ranked queue
  status,          \* of his match
  announced,       \* the last status of the match that clients were told
  connected        \* player.connected

browser == <<page, sockets, ear, session, buffer>>
network == <<sessions, cut, toServer, toClient>>
server  == <<socketsByUser, room, joining, failed, entering, waiting, status, announced, connected>>
vars    == <<browser, network, server>>

-----------------------------------------------------------------------------
Init ==
  /\ page = "menu"
  /\ sockets = 0
  /\ ear = None
  /\ session = [o \in Sockets |-> None]
  /\ buffer = [o \in Sockets |-> <<>>]
  /\ sessions = 0
  /\ cut = {}
  /\ toServer = [s \in Sessions |-> <<>>]
  /\ toClient = [s \in Sessions |-> <<>>]
  /\ socketsByUser = {}
  /\ room = {}
  /\ joining = {}
  /\ failed = {}
  /\ entering = 0
  /\ waiting = FALSE
  /\ status = "none"
  /\ announced = "none"
  /\ connected = FALSE

\* What the members of a set of sessions are sent; a broken session loses it.
Emit(receivers, event) ==
  toClient' = [s \in Sessions |->
                 IF s \in receivers \ cut THEN Append(toClient[s], event) ELSE toClient[s]]

-----------------------------------------------------------------------------
(* The browser.                                                             *)

\* getSocket: the present socket if it is connected, and a new one otherwise.
GetSocket == IF sockets # None /\ session[sockets] # None THEN sockets ELSE sockets + 1

\* The page emits on the socket it gets.
EmitOn(o, message) ==
  /\ o \in Sockets
  /\ sockets' = o
  /\ IF session[o] = None
     THEN buffer' = [buffer EXCEPT ![o] = Append(@, message)] /\ UNCHANGED toServer
     ELSE /\ toServer' = IF session[o] \in cut THEN toServer
                         ELSE [toServer EXCEPT ![session[o]] = Append(@, message)]
          /\ UNCHANGED buffer

\* The queue page is mounted: it joins the queue and listens.
OpenQueue ==
  /\ page = "menu"
  /\ \A o \in Sockets : Len(buffer[o]) < MaxPending
  /\ \A s \in Sessions : Len(toServer[s]) + entering < MaxPending
  /\ page' = "queue"
  /\ EmitOn(GetSocket, "matchmaking:join")
  /\ ear' = GetSocket
  /\ UNCHANGED <<session, sessions, cut, toClient, server>>

\* The button that leaves the queue.
LeaveQueue ==
  /\ page = "queue"
  /\ page' = "menu"
  /\ EmitOn(GetSocket, "matchmaking:leave")
  /\ ear' = None
  /\ UNCHANGED <<session, sessions, cut, toClient, server>>

\* An operation or a surrender on the match page. What it does to the match
\* is not followed here, only that it gets a socket to emit on.
Click ==
  /\ page = "match"
  /\ GetSocket \in Sockets
  /\ sockets' = GetSocket
  /\ UNCHANGED <<page, ear, session, buffer, network, server>>

\* matchmaking:matched reaches the queue page: the match page is mounted, and
\* joins the room.
HearMatched(o) ==
  /\ o = ear /\ page = "queue" /\ Head(toClient[session[o]]) = "matched"
  /\ page' = "match"
  /\ ear' = GetSocket
  /\ EmitOn(GetSocket, "match:join")
  /\ toClient' = [toClient EXCEPT ![session[o]] = Tail(@)]
  /\ UNCHANGED <<session, sessions, cut, server>>

\* match:finished reaches the match page.
HearFinished(o) ==
  /\ o = ear /\ page = "match" /\ Head(toClient[session[o]]) = "finished"
  /\ page' = "result"
  /\ ear' = None
  /\ toClient' = [toClient EXCEPT ![session[o]] = Tail(@)]
  /\ UNCHANGED <<sockets, session, buffer, sessions, cut, toServer, server>>

\* Nobody listens.
HearNothing(o) ==
  /\ ~ \/ o = ear /\ page = "queue" /\ Head(toClient[session[o]]) = "matched"
       \/ o = ear /\ page = "match" /\ Head(toClient[session[o]]) = "finished"
  /\ toClient' = [toClient EXCEPT ![session[o]] = Tail(@)]
  /\ UNCHANGED <<browser, sessions, cut, toServer, server>>

Hear(o) ==
  /\ session[o] # None
  /\ toClient[session[o]] # <<>>
  /\ HearMatched(o) \/ HearFinished(o) \/ HearNothing(o)

-----------------------------------------------------------------------------
(* Connections.                                                             *)

\* A socket connects, for the first time or again: handleConnection adds the
\* session, and what the socket has buffered goes out.
Connect(o) ==
  /\ o <= sockets
  /\ session[o] = None
  /\ sessions + 1 \in Sessions
  /\ sessions' = sessions + 1
  /\ session' = [session EXCEPT ![o] = sessions + 1]
  /\ toServer' = [toServer EXCEPT ![sessions + 1] = buffer[o]]
  /\ buffer' = [buffer EXCEPT ![o] = <<>>]
  /\ socketsByUser' = socketsByUser \cup {sessions + 1}
  /\ UNCHANGED <<page, sockets, ear, cut, toClient, room, joining, failed, entering, waiting, status, announced, connected>>

\* The connection breaks; what is under way is lost.
Cut(s) ==
  /\ s \in 1..sessions \ cut
  /\ Cardinality(cut) < MaxCuts
  /\ cut' = cut \cup {s}
  /\ toServer' = [toServer EXCEPT ![s] = <<>>]
  /\ toClient' = [toClient EXCEPT ![s] = <<>>]
  /\ UNCHANGED <<browser, sessions, server>>

\* The client's disconnect event.
ClientNotices(o) ==
  /\ session[o] \in cut
  /\ session' = [session EXCEPT ![o] = None]
  /\ UNCHANGED <<page, sockets, ear, buffer, network, server>>

\* Variant: the player stays connected when a socket closes.
StillConnected == connected

\* markDisconnectedForUser, which passes over a match that is finished.
ConnectedAfterClose == connected /\ status # "active"

\* handleDisconnect, for any of the player's sessions.
ServerNotices(s) ==
  /\ s \in cut \cap socketsByUser
  /\ socketsByUser' = socketsByUser \ {s}
  /\ room' = room \ {s}
  /\ connected' = ConnectedAfterClose
  /\ UNCHANGED <<browser, network, joining, failed, entering, waiting, status, announced>>

-----------------------------------------------------------------------------
(* The gateway's handlers.                                                  *)

Arrived(s, message) == toServer[s] # <<>> /\ Head(toServer[s]) = message

Received(s) == toServer' = [toServer EXCEPT ![s] = Tail(@)]

\* matchmaking:join up to the await of the limiter, which may refuse it, and
\* after that of the rating; a leave that comes in between is without effect.
\* Matchmaking has what happens in the queue.
Join(s) ==
  /\ Arrived(s, "matchmaking:join") /\ Received(s)
  /\ entering' = entering + 1
  /\ UNCHANGED <<browser, sessions, cut, toClient, socketsByUser, room, joining, failed, waiting, status, announced, connected>>

Enqueue ==
  /\ entering > 0
  /\ entering' = entering - 1
  /\ waiting' = TRUE
  /\ UNCHANGED <<browser, network, socketsByUser, room, joining, failed, status, announced, connected>>

Refuse ==
  /\ entering > 0
  /\ entering' = entering - 1
  /\ UNCHANGED <<browser, network, socketsByUser, room, joining, failed, waiting, status, announced, connected>>

Leave(s) ==
  /\ Arrived(s, "matchmaking:leave") /\ Received(s)
  /\ waiting' = FALSE
  /\ UNCHANGED <<browser, sessions, cut, toClient, socketsByUser, room, joining, failed, entering, status, announced, connected>>

\* match:join up to the await of persistState: markConnected. The match is in
\* the cache, where bootstrapMatch put it before it was announced.
MatchJoin(s) ==
  /\ Arrived(s, "match:join") /\ Received(s)
  /\ connected' = TRUE
  /\ joining' = joining \cup {s}
  /\ UNCHANGED <<browser, sessions, cut, toClient, socketsByUser, room, failed, entering, waiting, status, announced>>

\* Variant: the status is looked at before the await, when the match is active.
JoinedActive(s) ==
  /\ s \in joining
  /\ joining' = joining \ {s}
  /\ room' = room \cup {s}
  /\ UNCHANGED <<browser, network, socketsByUser, failed, entering, waiting, status, announced, connected>>

\* The rest of match:join: into the room, and if the match has ended
\* meanwhile, the room is told.
Joined(s) ==
  /\ s \in joining
  /\ joining' = joining \ {s}
  /\ room' = room \cup {s}
  /\ IF status = "finished" THEN Emit(room', "finished") ELSE UNCHANGED toClient
  /\ UNCHANGED <<browser, sessions, cut, toServer, socketsByUser, failed, entering, waiting, status, announced, connected>>

\* persistState fails: markConnected has set the flag, and the handler ends
\* before client.join. The client gets an exception no page listens to.
JoinFails(s) ==
  /\ s \in joining
  /\ Cardinality(failed \cup {s}) <= MaxFailures
  /\ joining' = joining \ {s}
  /\ failed' = failed \cup {s}
  /\ UNCHANGED <<browser, network, socketsByUser, room, entering, waiting, status, announced, connected>>

\* tryMatch pairs the waiting player, and the match is created.
Pair ==
  /\ waiting
  /\ status = "none"
  /\ waiting' = FALSE
  /\ status' = "active"
  /\ UNCHANGED <<browser, network, socketsByUser, room, joining, failed, entering, announced, connected>>

\* emitToUsers: matchmaking:matched goes to the sessions he has now.
AnnounceMatch ==
  /\ status # "none"
  /\ announced = "none"
  /\ announced' = "active"
  /\ Emit(socketsByUser, "matched")
  /\ UNCHANGED <<browser, sessions, cut, toServer, socketsByUser, room, joining, failed, entering, waiting, status, connected>>

\* An operation hits the target, or somebody gives up.
Finish ==
  /\ status = "active"
  /\ announced = "active"
  /\ status' = "finished"
  /\ UNCHANGED <<browser, network, socketsByUser, room, joining, failed, entering, waiting, announced, connected>>

\* match:finished goes to the room.
AnnounceEnd ==
  /\ status = "finished"
  /\ announced = "active"
  /\ announced' = "finished"
  /\ Emit(room, "finished")
  /\ UNCHANGED <<browser, sessions, cut, toServer, socketsByUser, room, joining, failed, entering, waiting, status, connected>>

-----------------------------------------------------------------------------
Serve(s) == Join(s) \/ Leave(s) \/ MatchJoin(s) \/ Joined(s) \/ JoinFails(s)

Next ==
  \/ OpenQueue \/ LeaveQueue \/ Click
  \/ \E o \in Sockets : Hear(o) \/ Connect(o) \/ ClientNotices(o)
  \/ \E s \in Sessions : Cut(s) \/ ServerNotices(s) \/ Serve(s)
  \/ Enqueue \/ Refuse \/ Pair \/ AnnounceMatch \/ Finish \/ AnnounceEnd

\* Sockets reconnect, both sides notice a broken connection, messages arrive
\* and handlers go on, to their end or to a failure. Nobody has to click, and
\* nothing has to break, fail or end.
Fairness ==
  /\ \A o \in Sockets : WF_vars(Hear(o)) /\ WF_vars(Connect(o)) /\ WF_vars(ClientNotices(o))
  /\ \A s \in Sessions : WF_vars(ServerNotices(s)) /\ WF_vars(Serve(s))
  /\ WF_vars(Enqueue \/ Refuse) /\ WF_vars(AnnounceMatch) /\ WF_vars(AnnounceEnd)

Spec == Init /\ [][Next]_vars /\ Fairness

-----------------------------------------------------------------------------
\* While a match is on, a player shown as connected has an open session that
\* hears the match, or is about to, or has tried to and could not, as the
\* state was not persisted (match-runtime.service.ts:135): no session's end,
\* early or late, leaves the flag behind (realtime.gateway.ts:83, :150). The
\* match is in memory: while it is loaded from Redis after a restart, a session
\* may end before the flag is set.
ConnectedIsListening ==
  status = "active" /\ connected => socketsByUser \cap (room \cup joining \cup failed) # {}

\* On a connection that holds, the queue page hears of the match, and the match
\* page hears of its end, even when the match ends while its join is under way
\* (realtime.gateway.ts:157), unless that join fails.
UnbrokenPageHears ==
  /\ page = "queue" /\ status # "none" /\ announced = "none"
       ~> page # "queue" \/ cut # {} \/ sockets > 1
  /\ page = "match" /\ status = "finished" ~> page # "match" \/ cut # {} \/ failed # {}

\* "Reconnect-ready runtime state join/resume" (README.md:58): a match page
\* hears of the end of its match, also over a broken connection.
ReconnectedPageHears ==
  page = "match" /\ status = "finished" ~> page # "match"
=============================================================================
