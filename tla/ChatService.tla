---------------------------- MODULE ChatService ----------------------------
(***************************************************************************)
(* The chat server's session and delivery core: class ChatService          *)
(* (ChatServer/src/server/chatservice.cpp) as the event loops of           *)
(* chatserver.cpp drive it, together with the two MySQL columns its        *)
(* handlers use, User.state and OfflineMessage.message.                    *)
(*                                                                         *)
(* Grain of atomicity.  One step is one database statement, one critical   *)
(* section of _connMutex (for groupChat: one round of the loop inside it), *)
(* or one write to a socket.  Handlers that run on different loops         *)
(* interleave at every step.  A connection belongs to one loop for life,   *)
(* so its own requests are handled one after the other.                    *)
(*                                                                         *)
(* A request is bound when the server handles it.  The client's commands   *)
(* arrive in order and the client waits for nothing but the login answer,  *)
(* so a queue of unread requests would add no behaviour.                   *)
(*                                                                         *)
(* An operator that no action uses, written before the definition it       *)
(* varies (LoginRemoveForgotten before LoginRemove), is a plausible bug in *)
(* that code: the README lists the property that each of them breaks.      *)
(***************************************************************************)
EXTENDS Naturals, Sequences, Functions

CONSTANTS
  Users,        \* ids of the rows of table User
  Conns,        \* TcpConnection objects, each used for one connection
  Threads,      \* the IO loops of setThreadNum(2)
  LoopOf,       \* the loop a connection was assigned to
  Accounts,     \* the users whose password the person behind a connection has
  Members,      \* userids of the group that groupChat addresses
  MissedAck,    \* may a client take a successful login for a failed one?
  StopKinds,    \* how the process may stop: "sigint", "kill"
  MaxMsgs,      \* bound: chat and groupchat requests
  MaxDbFaults,  \* bound: statements that fail (connect() or mysql_query)
  MaxStops,     \* bound: times the process stops
  NoConn, NoUser, NoThread

ASSUME ChatServiceAssumption ==
  /\ LoopOf \in [Conns -> Threads]
  /\ Accounts \in [Conns -> SUBSET Users]
  /\ Members \subseteq Users
  /\ MissedAck \in BOOLEAN
  /\ StopKinds \subseteq {"sigint", "kill"}
  /\ MaxMsgs \in Nat /\ MaxDbFaults \in Nat /\ MaxStops \in Nat
  /\ NoConn \notin Conns /\ NoUser \notin Users /\ NoThread \notin Threads

VARIABLES
  dbState,      \* column User.state
  dbOffline,    \* rows of OfflineMessage by userid, oldest first
  faults,       \* statements that have failed
  userConnMap,  \* ChatService::_userConnMap
  connMutex,    \* ChatService::_connMutex: its holder between two steps
  pc,           \* where each loop thread is
  active,       \* connections the current epoll_wait returned, not yet handled
  pending,      \* EventLoop::pendingFunctors_: sends queued by other loops
  batch,        \* the functors doPendingFunctors swapped out
  cur,          \* conn argument of the handler that runs
  id,           \* the userid the handler works on
  mail,         \* login: offlineMsgVec
  outbox,       \* chat, groupChat: the copies still to hand out
  link,         \* TCP state of a connection
  phase,        \* the client: start menu, awaiting the login answer, chat menu
  session,      \* the account the client's last login was granted for
  server,       \* the process: run, resetting and exiting (resetHandler), off
  stops,        \* times the process stopped
  nsent,        \* chat requests so far
  accepted,     \* history: every copy the server took charge of
  recv,         \* history: the copies written to each client
  dropped,      \* history: copies lost with a dead peer, statement or process
  cut           \* history: rows that a fetch left out when it broke after others

dbVars   == <<dbState, dbOffline, faults>>
mapVars  == <<userConnMap, connMutex>>
loopVars == <<active, pending, batch>>
reqVars  == <<cur, id, mail, outbox>>
cliVars  == <<link, phase, session>>
procVars == <<server, stops>>
histVars == <<nsent, accepted, recv, dropped, cut>>
vars == <<dbVars, mapVars, pc, loopVars, reqVars, cliVars, procVars, histVars>>

-----------------------------------------------------------------------------
(* One copy of a chat message: the n-th request, its sender, a recipient.  *)
Copy == [n : 1..MaxMsgs, from : Users, to : Users]

(* A send that another loop queued with EventLoop::queueInLoop.            *)
Functor == [conn : Conns, copy : Copy]

LoopSteps  == {"poll", "dispatch", "functors"}
LoginSteps == {"insert", "setonline", "fetch", "remove", "reply"}

DbType ==
  /\ dbState \in [Users -> {"online", "offline"}]
  /\ dbOffline \in [Users -> Seq(Copy)]
  /\ faults \in 0..MaxDbFaults

MapType ==
  /\ userConnMap \in [Users -> Conns \cup {NoConn}]
  /\ connMutex \in Threads \cup {NoThread}

LoopType ==
  /\ active \in [Threads -> SUBSET Conns]
  /\ pending \in [Threads -> Seq(Functor)]
  /\ batch \in [Threads -> Seq(Functor)]

RequestType ==
  /\ pc \in [Threads -> LoopSteps \cup LoginSteps \cup {"deliver", "setoffline"}]
  /\ cur \in [Threads -> Conns \cup {NoConn}]
  /\ id \in [Threads -> Users \cup {NoUser}]
  /\ \A t \in Threads : pc[t] \in LoginSteps => cur[t] \in Conns
  /\ \A t \in Threads : pc[t] \in LoginSteps \cup {"setoffline"} => id[t] \in Users

MailType ==
  /\ mail \in [Threads -> Seq(Copy)]
  /\ outbox \in [Threads -> SUBSET Copy]

ClientType ==
  /\ link \in [Conns -> {"new", "up", "gone", "down"}]
  /\ phase \in [Conns -> {"menu", "wait", "main"}]
  /\ session \in [Conns -> Users \cup {NoUser}]
  /\ \A t \in Threads : pc[t] \in LoginSteps => session[cur[t]] # NoUser
  /\ \A c \in Conns : phase[c] = "main" => session[c] # NoUser

ProcessType ==
  /\ server \in {"run", "resetting", "exiting", "off"}
  /\ stops \in 0..MaxStops

HistoryType ==
  /\ nsent \in 0..MaxMsgs
  /\ accepted \in SUBSET Copy
  /\ recv \in [Conns -> Seq(Copy)]
  /\ dropped \in SUBSET Copy
  /\ cut \in SUBSET Copy

(* Every variable keeps its type; a handler that runs has a connection,    *)
(* and a user where it needs one.                                          *)
TypeOK ==
  /\ DbType
  /\ MapType
  /\ LoopType
  /\ RequestType
  /\ MailType
  /\ ClientType
  /\ ProcessType
  /\ HistoryType

Init ==
  /\ dbState = [u \in Users |-> "offline"]
  /\ dbOffline = [u \in Users |-> <<>>]
  /\ faults = 0
  /\ userConnMap = [u \in Users |-> NoConn]
  /\ connMutex = NoThread
  /\ pc = [t \in Threads |-> "poll"]
  /\ active = [t \in Threads |-> {}]
  /\ pending = [t \in Threads |-> <<>>]
  /\ batch = [t \in Threads |-> <<>>]
  /\ cur = [t \in Threads |-> NoConn]
  /\ id = [t \in Threads |-> NoUser]
  /\ mail = [t \in Threads |-> <<>>]
  /\ outbox = [t \in Threads |-> {}]
  /\ link = [c \in Conns |-> "new"]
  /\ phase = [c \in Conns |-> "menu"]
  /\ session = [c \in Conns |-> NoUser]
  /\ server = "run"
  /\ stops = 0
  /\ nsent = 0
  /\ accepted = {}
  /\ recv = [c \in Conns |-> <<>>]
  /\ dropped = {}
  /\ cut = {}

-----------------------------------------------------------------------------
(* The outcomes of a statement: each model operation opens a connection of *)
(* its own, so each may fail alone.                                        *)
Works == UNCHANGED faults
Fails == faults < MaxDbFaults /\ faults' = faults + 1

(* UserModel::updateState.                                                 *)
UpdateStateOfAll(u, state) ==
  Works /\ dbState' = [v \in Users |-> state]
UpdateState(u, state) ==
  \/ Works /\ dbState' = [dbState EXCEPT ![u] = state]
  \/ Fails /\ UNCHANGED dbState

(* OfflineMsgModel::insert: a row that is not inserted is lost.            *)
InsertNothing(m) == Works /\ dropped' = dropped \cup {m} /\ UNCHANGED dbOffline
InsertOffline(m) ==
  \/ /\ Works
     /\ dbOffline' = [dbOffline EXCEPT ![m.to] = Append(@, m)]
     /\ UNCHANGED dropped
  \/ Fails /\ dropped' = dropped \cup {m} /\ UNCHANGED dbOffline

(* OfflineMsgModel::query.  mysql_use_result fetches row by row, and the   *)
(* end of the rows looks like the end of the connection: a query that fails*)
(* answers the first rows, none or some.                                   *)
QueryOffline(t, u) ==
  \/ Works /\ mail' = [mail EXCEPT ![t] = dbOffline[u]] /\ UNCHANGED cut
  \/ /\ Fails
     /\ \E k \in 0..Len(dbOffline[u]) :
          /\ mail' = [mail EXCEPT ![t] = SubSeq(dbOffline[u], 1, k)]
          /\ cut' = IF k = 0 THEN cut
                    ELSE cut \cup {dbOffline[u][i] : i \in k+1..Len(dbOffline[u])}

(* OfflineMsgModel::remove deletes all rows and reports nothing.           *)
RemoveOffline(u) ==
  \/ Works /\ dbOffline' = [dbOffline EXCEPT ![u] = <<>>]
  \/ Fails /\ UNCHANGED dbOffline

(* GroupModel::queryGropuUsers: the other members; nobody or some of them  *)
(* when it fails.                                                          *)
QueryGroupUsers(u, idVec) ==
  \/ Works /\ idVec = Members \ {u}
  \/ Fails /\ idVec \subseteq Members \ {u}

(* _userConnMap.erase                                                      *)
EraseNothing(u) == UNCHANGED userConnMap
EraseEntry(u) == userConnMap' = [userConnMap EXCEPT ![u] = NoConn]

LockFree(t) == connMutex \in {NoThread, t}

Goto(t, step) == pc' = [pc EXCEPT ![t] = step]

(* The handler returns to the loop.                                        *)
Return(t) ==
  /\ Goto(t, "dispatch")
  /\ cur' = [cur EXCEPT ![t] = NoConn]
  /\ id' = [id EXCEPT ![t] = NoUser]

(* TcpConnection::sendInLoop: what is written to a dead peer is lost.      *)
Write(c, m) ==
  IF link[c] = "up"
  THEN recv' = [recv EXCEPT ![c] = Append(@, m)] /\ UNCHANGED dropped
  ELSE dropped' = dropped \cup {m} /\ UNCHANGED recv

(* TcpConnection::send, called on loop t: in its own loop the connection   *)
(* writes at once, another loop gets a functor, and a connection that the  *)
(* server has closed takes nothing.                                        *)
SendLastFirst(t, c, m) ==
  IF LoopOf[c] = t \/ link[c] = "down"
  THEN Write(c, m) /\ UNCHANGED pending
  ELSE /\ pending' = [pending EXCEPT ![LoopOf[c]] = <<[conn |-> c, copy |-> m]>> \o @]
       /\ UNCHANGED <<recv, dropped>>
SendOnOwnLoop(t, c, m) ==
  IF LoopOf[c] = t \/ link[c] = "down"
  THEN Write(c, m) /\ UNCHANGED pending
  ELSE UNCHANGED <<pending, recv, dropped>>
Send(t, c, m) ==
  IF LoopOf[c] = t \/ link[c] = "down"
  THEN Write(c, m) /\ UNCHANGED pending
  ELSE /\ pending' = [pending EXCEPT ![LoopOf[c]] = Append(@, [conn |-> c, copy |-> m])]
       /\ UNCHANGED <<recv, dropped>>

-----------------------------------------------------------------------------
(* The event loop (muduo).                                                 *)

(* A client with nothing outstanding may have sent a request; one that has *)
(* gone leaves an end of file to read.                                     *)
Ready(t) == {c \in Conns : LoopOf[c] = t /\ ( \/ link[c] = "gone"
                                              \/ link[c] = "up" /\ phase[c] # "wait" )}
Gone(t)  == {c \in Conns : LoopOf[c] = t /\ link[c] = "gone"}

Poll(t) ==
  /\ pc[t] = "poll"
  /\ \E A \in SUBSET Ready(t) :
       /\ Gone(t) \subseteq A
       /\ A # {} \/ pending[t] # <<>>
       /\ active' = [active EXCEPT ![t] = A]
  /\ Goto(t, "dispatch")
  /\ UNCHANGED <<dbVars, mapVars, pending, batch, reqVars, cliVars, procVars, histVars>>

(* EventLoop::doPendingFunctors swaps the queue out, then runs it.         *)
SwapFunctors(t) ==
  /\ pc[t] = "dispatch" /\ active[t] = {}
  /\ batch' = [batch EXCEPT ![t] = pending[t]]
  /\ pending' = [pending EXCEPT ![t] = <<>>]
  /\ Goto(t, IF pending[t] = <<>> THEN "poll" ELSE "functors")
  /\ UNCHANGED <<dbVars, mapVars, active, reqVars, cliVars, procVars, histVars>>

RunFunctor(t) ==
  /\ pc[t] = "functors" /\ batch[t] # <<>>
  /\ Write(Head(batch[t]).conn, Head(batch[t]).copy)
  /\ batch' = [batch EXCEPT ![t] = Tail(@)]
  /\ Goto(t, IF Tail(batch[t]) = <<>> THEN "poll" ELSE "functors")
  /\ UNCHANGED <<dbVars, mapVars, active, pending, reqVars, cliVars, procVars,
                 nsent, accepted, cut>>

(* The loop takes the next ready connection and calls its handler.         *)
Take(t, c) ==
  /\ pc[t] = "dispatch" /\ c \in active[t]
  /\ active' = [active EXCEPT ![t] = @ \ {c}]
  /\ UNCHANGED <<pending, batch>>

-----------------------------------------------------------------------------
(* ChatService::login                                                      *)

(* errno 0: query finds the password right and the state offline.          *)
LoginGranted(t, c, u) ==
  /\ Take(t, c) /\ link[c] \in {"up", "gone"} /\ phase[c] = "menu"
  /\ u \in Accounts[c] /\ dbState[u] = "offline"
  /\ phase' = [phase EXCEPT ![c] = "wait"]
  /\ session' = [session EXCEPT ![c] = u]
  /\ cur' = [cur EXCEPT ![t] = c]
  /\ id' = [id EXCEPT ![t] = u]
  /\ Goto(t, "insert")
  /\ UNCHANGED <<dbVars, mapVars, mail, outbox, link, procVars, histVars>>

(* errno 2: the account is online.  errno 1: the password is wrong or the  *)
(* query failed.  The client is back in its start menu; one that has gone  *)
(* does not get the answer and asks for nothing more.                      *)
LoginRefused(t, c, u) ==
  /\ Take(t, c) /\ link[c] \in {"up", "gone"} /\ phase[c] = "menu"
  /\ \/ u \in Accounts[c] /\ dbState[u] = "online" /\ Works
     \/ u \notin Accounts[c] /\ Works
     \/ Fails
  /\ phase' = IF link[c] = "up" THEN phase ELSE [phase EXCEPT ![c] = "wait"]
  /\ UNCHANGED <<dbState, dbOffline, mapVars, pc, reqVars, link, session, procVars, histVars>>

(* unordered_map::insert keeps an entry that is there already.             *)
LoginInsert(t) ==
  /\ pc[t] = "insert" /\ LockFree(t)
  /\ userConnMap' = IF userConnMap[id[t]] = NoConn
                    THEN [userConnMap EXCEPT ![id[t]] = cur[t]]
                    ELSE userConnMap
  /\ Goto(t, "setonline")
  /\ UNCHANGED <<dbVars, connMutex, loopVars, reqVars, cliVars, procVars, histVars>>

LoginSetOnline(t) ==
  /\ pc[t] = "setonline"
  /\ UpdateState(id[t], "online")
  /\ Goto(t, "fetch")
  /\ UNCHANGED <<dbOffline, mapVars, loopVars, reqVars, cliVars, procVars, histVars>>

(* No mail, or a query that failed before its first row: the rows stay     *)
(* where they are.                                                         *)
LoginFetchRemovesAlways(t) ==
  /\ pc[t] = "fetch"
  /\ QueryOffline(t, id[t])
  /\ Goto(t, "remove")
  /\ UNCHANGED <<dbState, dbOffline, mapVars, loopVars, cur, id, outbox, cliVars,
                 procVars, nsent, accepted, recv, dropped>>
LoginFetchAnswersMailOnly(t) ==
  /\ pc[t] = "fetch"
  /\ QueryOffline(t, id[t])
  /\ Goto(t, IF mail'[t] = <<>> THEN "dispatch" ELSE "remove")
  /\ UNCHANGED <<dbState, dbOffline, mapVars, loopVars, cur, id, outbox, cliVars,
                 procVars, nsent, accepted, recv, dropped>>
LoginFetch(t) ==
  /\ pc[t] = "fetch"
  /\ QueryOffline(t, id[t])
  /\ Goto(t, IF mail'[t] = <<>> THEN "reply" ELSE "remove")
  /\ UNCHANGED <<dbState, dbOffline, mapVars, loopVars, cur, id, outbox, cliVars,
                 procVars, nsent, accepted, recv, dropped>>

LoginRemoveForgotten(t) ==
  /\ pc[t] = "remove" /\ Goto(t, "reply")
  /\ UNCHANGED <<dbVars, mapVars, loopVars, reqVars, cliVars, procVars, histVars>>
LoginRemove(t) ==
  /\ pc[t] = "remove"
  /\ RemoveOffline(id[t])
  /\ Goto(t, "reply")
  /\ UNCHANGED <<dbState, mapVars, loopVars, reqVars, cliVars, procVars, histVars>>

(* The answer carries the mail.  Friends and groups are only read for it.  *)
LoginReply(t) ==
  LET c == cur[t] IN
  /\ pc[t] = "reply"
  /\ IF link[c] = "up"
     THEN /\ recv' = [recv EXCEPT ![c] = @ \o mail[t]]
          /\ \/ phase' = [phase EXCEPT ![c] = "main"]
             \/ MissedAck /\ phase' = [phase EXCEPT ![c] = "menu"]
          /\ UNCHANGED dropped
     ELSE dropped' = dropped \cup Range(mail[t]) /\ UNCHANGED <<recv, phase>>
  /\ mail' = [mail EXCEPT ![t] = <<>>]
  /\ Return(t)
  /\ UNCHANGED <<dbVars, mapVars, loopVars, outbox, link, session, procVars,
                 nsent, accepted, cut>>

-----------------------------------------------------------------------------
(* ChatService::oneChat and groupChat                                      *)

(* The handler reads the request and, for a group, the ids of its members. *)
Accept(t, c, copies) ==
  /\ nsent < MaxMsgs /\ nsent' = nsent + 1
  /\ accepted' = accepted \cup copies
  /\ outbox' = [outbox EXCEPT ![t] = copies]
  /\ Goto(t, IF copies = {} THEN "dispatch" ELSE "deliver")
  /\ UNCHANGED <<dbState, dbOffline, mapVars, cur, id, mail, cliVars, procVars,
                 recv, dropped, cut>>

OneChat(t, c, to) ==
  /\ Take(t, c) /\ link[c] \in {"up", "gone"} /\ phase[c] = "main"
  /\ Works
  /\ Accept(t, c, {[n |-> nsent + 1, from |-> session[c], to |-> to]})

GroupChat(t, c) ==
  /\ Take(t, c) /\ link[c] \in {"up", "gone"} /\ phase[c] = "main"
  /\ \E idVec \in SUBSET Users :
       /\ QueryGroupUsers(session[c], idVec)
       /\ Accept(t, c, {[n |-> nsent + 1, from |-> session[c], to |-> u] : u \in idVec})

(* The recipients that remain after m.                                     *)
StopAtOffline(t, m) == IF userConnMap[m.to] = NoConn THEN {} ELSE outbox[t] \ {m}
Remaining(t, m) == outbox[t] \ {m}

(* One recipient, under _connMutex: its row is inserted, or the copy goes  *)
(* to the connection the map names.                                        *)
Deliver(t) ==
  /\ pc[t] = "deliver" /\ LockFree(t)
  /\ \E m \in outbox[t] :
       /\ \/ /\ userConnMap[m.to] = NoConn
             /\ InsertOffline(m)
             /\ UNCHANGED <<pending, recv>>
          \/ /\ userConnMap[m.to] # NoConn
             /\ Send(t, userConnMap[m.to], m)
             /\ Works /\ UNCHANGED dbOffline
       /\ outbox' = [outbox EXCEPT ![t] = Remaining(t, m)]
       /\ connMutex' = IF Remaining(t, m) = {} THEN NoThread ELSE t
       /\ Goto(t, IF Remaining(t, m) = {} THEN "dispatch" ELSE "deliver")
  /\ UNCHANGED <<dbState, userConnMap, active, batch, cur, id, mail, cliVars, procVars,
                 nsent, accepted, cut>>

-----------------------------------------------------------------------------
(* ChatService::logout and clinetCloseException                            *)

(* The client names its own account; whoever's entry that is goes.         *)
Logout(t, c) ==
  /\ Take(t, c) /\ link[c] \in {"up", "gone"} /\ phase[c] = "main" /\ LockFree(t)
  /\ EraseEntry(session[c])
  /\ phase' = [phase EXCEPT ![c] = "menu"]
  /\ id' = [id EXCEPT ![t] = session[c]]
  /\ Goto(t, "setoffline")
  /\ UNCHANGED <<dbVars, connMutex, cur, mail, outbox, link, session, procVars, histVars>>

(* The loop reads the end of file, sets the connection disconnected and    *)
(* calls onConnect.  The search stops at the first entry of the connection,*)
(* in the order of the map.  Taking the lock with the state change hides   *)
(* nothing: a gone and a closed connection both lose what is sent.         *)
CloseUnchecked(t, c) ==
  /\ Take(t, c) /\ link[c] = "gone" /\ LockFree(t)
  /\ link' = [link EXCEPT ![c] = "down"]
  /\ \/ \E u \in Users :
          userConnMap[u] = c /\ EraseEntry(u) /\ id' = [id EXCEPT ![t] = u]
     \/ (\A u \in Users : userConnMap[u] # c) /\ UNCHANGED <<userConnMap, id>>
  /\ Goto(t, "setoffline")
  /\ UNCHANGED <<dbVars, connMutex, cur, mail, outbox, phase, session, procVars, histVars>>
CloseException(t, c) ==
  /\ Take(t, c) /\ link[c] = "gone" /\ LockFree(t)
  /\ link' = [link EXCEPT ![c] = "down"]
  /\ \/ \E u \in Users :
          /\ userConnMap[u] = c
          /\ EraseEntry(u)
          /\ id' = [id EXCEPT ![t] = u]
          /\ Goto(t, "setoffline")
     \/ /\ \A u \in Users : userConnMap[u] # c
        /\ UNCHANGED <<userConnMap, id, pc>>
  /\ UNCHANGED <<dbVars, connMutex, cur, mail, outbox, phase, session, procVars, histVars>>

SetOffline(t) ==
  /\ pc[t] = "setoffline"
  /\ UpdateState(id[t], "offline")
  /\ Return(t)
  /\ UNCHANGED <<dbOffline, mapVars, loopVars, mail, outbox, cliVars, procVars, histVars>>

-----------------------------------------------------------------------------
(* Clients and the process.                                                *)

Connect(c) ==
  /\ server = "run" /\ link[c] = "new"
  /\ link' = [link EXCEPT ![c] = "up"]
  /\ UNCHANGED <<dbVars, mapVars, pc, loopVars, reqVars, phase, session, procVars, histVars>>

(* The client process ends or its connection breaks.                       *)
Quit(c) ==
  /\ link[c] = "up"
  /\ link' = [link EXCEPT ![c] = "gone"]
  /\ UNCHANGED <<dbVars, mapVars, pc, loopVars, reqVars, phase, session, procVars, histVars>>

(* SIGINT enters resetHandler on the main thread, which no longer accepts; *)
(* the IO loops run on until exit().                                       *)
Sigint ==
  /\ server = "run" /\ stops < MaxStops /\ "sigint" \in StopKinds
  /\ server' = "resetting"
  /\ stops' = stops + 1
  /\ UNCHANGED <<dbVars, mapVars, pc, loopVars, reqVars, cliVars, histVars>>

ResetState ==
  /\ server = "resetting"
  /\ \/ Works /\ dbState' = [u \in Users |-> "offline"]
     \/ Fails /\ UNCHANGED dbState
  /\ server' = "exiting"
  /\ UNCHANGED <<dbOffline, mapVars, pc, loopVars, reqVars, cliVars, stops, histVars>>

(* The copies that only the process holds: those not handed out yet, and   *)
(* the rows a login has removed and not yet answered with.                 *)
InFlight(t) ==
  outbox[t] \cup {f.copy : f \in Range(pending[t]) \cup Range(batch[t])}
            \cup (IF pc[t] = "reply" THEN Range(mail[t]) ELSE {})

(* exit(0) in resetHandler, or an end nothing in the process sees coming.  *)
ProcessEnds ==
  /\ server' = "off"
  /\ userConnMap' = [u \in Users |-> NoConn]
  /\ connMutex' = NoThread
  /\ pc' = [t \in Threads |-> "poll"]
  /\ active' = [t \in Threads |-> {}]
  /\ pending' = [t \in Threads |-> <<>>]
  /\ batch' = [t \in Threads |-> <<>>]
  /\ cur' = [t \in Threads |-> NoConn]
  /\ id' = [t \in Threads |-> NoUser]
  /\ mail' = [t \in Threads |-> <<>>]
  /\ outbox' = [t \in Threads |-> {}]
  /\ link' = [c \in Conns |-> IF link[c] = "new" THEN "new" ELSE "down"]
  /\ dropped' = dropped \cup UNION {InFlight(t) : t \in Threads}
  /\ UNCHANGED <<dbVars, phase, session, nsent, accepted, recv, cut>>

Exit == server = "exiting" /\ ProcessEnds /\ UNCHANGED stops

Kill ==
  /\ server # "off" /\ stops < MaxStops /\ "kill" \in StopKinds
  /\ stops' = stops + 1
  /\ ProcessEnds

(* main() starts with an empty map and leaves the database as it finds it. *)
Restart ==
  /\ server = "off"
  /\ server' = "run"
  /\ UNCHANGED <<dbVars, mapVars, pc, loopVars, reqVars, cliVars, stops, histVars>>

(* Every loop sleeps in epoll_wait and no client will wake it again.       *)
Idle ==
  /\ \A t \in Threads : pc[t] = "poll" /\ pending[t] = <<>>
  /\ \A c \in Conns : link[c] = "down"
  /\ server = "run"
  /\ UNCHANGED vars

-----------------------------------------------------------------------------
Handle(t, c) ==
  \/ \E u \in Users : LoginGranted(t, c, u)
  \/ \E u \in Users : LoginRefused(t, c, u)
  \/ \E u \in Users : OneChat(t, c, u)
  \/ GroupChat(t, c)
  \/ Logout(t, c)
  \/ CloseException(t, c)

LoopThread(t) ==
  \/ Poll(t)
  \/ \E c \in Conns : Handle(t, c)
  \/ LoginInsert(t)
  \/ LoginSetOnline(t)
  \/ LoginFetch(t)
  \/ LoginRemove(t)
  \/ LoginReply(t)
  \/ Deliver(t)
  \/ SetOffline(t)
  \/ SwapFunctors(t)
  \/ RunFunctor(t)

Next ==
  \/ \E t \in Threads : LoopThread(t)
  \/ \E c \in Conns : Connect(c)
  \/ \E c \in Conns : Quit(c)
  \/ Sigint
  \/ ResetState
  \/ Exit
  \/ Kill
  \/ Restart
  \/ Idle

Spec == Init /\ [][Next]_vars

(* A loop thread does not stop inside a handler, and epoll_wait does not   *)
(* sleep on an end of file or on a queued functor (wakeupFd).  Nothing     *)
(* obliges a client to send a request.                                     *)
MustRun(t) == pc[t] # "poll" \/ pending[t] # <<>> \/ Gone(t) # {}

Fairness ==
  /\ \A t \in Threads : WF_vars(MustRun(t) /\ LoopThread(t))
  /\ WF_vars(ResetState \/ Exit \/ Restart)

FairSpec == Spec /\ Fairness

-----------------------------------------------------------------------------
(* Correctness.                                                            *)

(* An entry of _userConnMap names a connection the server still has open   *)
(* and whose client is logged in with that account: no chat is sent to a   *)
(* closed connection, or to one whose client now uses another account,     *)
(* whatever login, logout and close handlers do on the other loop.         *)
MapPointsAtLiveSession ==
  \A u \in Users : userConnMap[u] # NoConn =>
    /\ link[userConnMap[u]] \in {"up", "gone"}
    /\ session[userConnMap[u]] = u

(* What makes it inductive.  A login that runs works for the client that   *)
(* waits for it; an entry belongs to a client that is in its chat menu,    *)
(* whose login still runs, or that left before the answer.                 *)
LoginServesItsClient ==
  \A t \in Threads : pc[t] \in LoginSteps =>
    /\ LoopOf[cur[t]] = t
    /\ link[cur[t]] \in {"up", "gone"}
    /\ phase[cur[t]] = "wait"
    /\ session[cur[t]] = id[t]

ActiveOnOwnLoop == \A t \in Threads : \A c \in active[t] : LoopOf[c] = t

EntryHasReason ==
  \A u \in Users : userConnMap[u] # NoConn =>
    LET c == userConnMap[u] IN
    \/ phase[c] = "main"
    \/ pc[LoopOf[c]] \in LoginSteps /\ cur[LoopOf[c]] = c
    \/ phase[c] = "wait" /\ link[c] = "gone"

SessionInv ==
  /\ LoginServesItsClient
  /\ ActiveOnOwnLoop
  /\ EntryHasReason
  /\ MapPointsAtLiveSession

(* Once the client whose connection the map names has its login answer, no *)
(* row is left in OfflineMessage for it: a message stored while the login  *)
(* ran is in the answer, and none is stored after it.                      *)
NoStrandedMail ==
  \A u \in Users :
    userConnMap[u] # NoConn /\ phase[userConnMap[u]] = "main" => dbOffline[u] = <<>>

(* What makes it inductive: mail is left only while the login that made    *)
(* the entry has yet to read it and delete it.                             *)
FetchComes(c) ==
  pc[LoopOf[c]] \in {"setonline", "fetch", "remove"} /\ cur[LoopOf[c]] = c

MailInv ==
  \A u \in Users : userConnMap[u] # NoConn /\ dbOffline[u] # <<>> => FetchComes(userConnMap[u])

(* The step hands a chat message to the connection c.                      *)
Pushes(c) ==
  /\ recv'[c] # recv[c]
  /\ \E t \in Threads : \/ pc[t] = "deliver" /\ outbox'[t] # outbox[t]
                        \/ pc[t] = "functors" /\ batch'[t] # batch[t]
Pushed(c) == recv'[c][Len(recv'[c])]

(* A chat pushed to a connection reaches the account it was sent to, also  *)
(* when it waited as a functor while the client logged out and in again.   *)
PushReachesAddressee ==
  [][\A c \in Conns : Pushes(c) => Pushed(c).to = session[c]]_vars

(* Between two handlers that work on an account, User.state says online    *)
(* exactly when _userConnMap has the account.                              *)
BusyWith(u) == \E t \in Threads : id[t] = u

DbAgreesWithMap ==
  server = "run" => \A u \in Users : ~BusyWith(u) =>
    (dbState[u] = "online" <=> userConnMap[u] # NoConn)

(* The places a copy may be.                                               *)
InQueues(m) == {t \in Threads : \E f \in Range(pending[t]) \cup Range(batch[t]) : f.copy = m}
InOutboxes(m) == {t \in Threads : m \in outbox[t]}
InAnswers(m) == {t \in Threads : pc[t] = "reply" /\ m \in Range(mail[t])}
InTable(m) == {u \in Users : m \in Range(dbOffline[u])}
InHands(m) == {c \in Conns : m \in Range(recv[c])}
Lost(m) == {x \in {"dropped"} : m \in dropped}

Places(m) == InQueues(m) \cup InOutboxes(m) \cup InAnswers(m) \cup InTable(m)
             \cup InHands(m) \cup Lost(m)

(* A copy the server took charge of never vanishes: it is queued, stored,  *)
(* about to be sent, with its reader, or was lost with a dead peer, a      *)
(* failed insert or the process.  The one exception is a row that a fetch  *)
(* left out when it broke after other rows: the login deletes them all.    *)
NothingVanishes == \A m \in accepted : Places(m) # {} \/ m \in cut

(* No client is shown a copy twice.                                        *)
NoDuplicate ==
  /\ \A c \in Conns : \A i, j \in DOMAIN recv[c] : recv[c][i] = recv[c][j] => i = j
  /\ \A m \in accepted : \A c, d \in InHands(m) : c = d

(* What one account sends to another is shown in the order it was sent,    *)
(* over own loop, functor queue, table and login answer, while the database*)
(* answers and nobody shares an account.                                   *)
ShownInOrder ==
  \A c \in Conns : \A i, j \in DOMAIN recv[c] :
    i < j /\ recv[c][i].from = recv[c][j].from /\ recv[c][i].to = recv[c][j].to
      => recv[c][i].n < recv[c][j].n

(* While the process lives and the database answers, a copy is lost only   *)
(* if its reader's connection has ended.                                   *)
LossNeedsDeadPeer ==
  \A m \in dropped : \E c \in Conns :
    m.to \in Accounts[c] /\ session[c] # NoUser /\ link[c] \in {"gone", "down"}

(* The copies that wait, what a user was shown over a connection of theirs *)
(* and the users whose connection ended.                                   *)
Undelivered ==
  (UNION {InFlight(t) : t \in Threads}) \cup (UNION {Range(dbOffline[u]) : u \in Users})
ShownTo ==
  [u \in Users |-> {m \in UNION {Range(recv[c]) : c \in {d \in Conns : u \in Accounts[d]}} : m.to = u}]
Left ==
  {u \in Users : \E c \in Conns :
     u \in Accounts[c] /\ session[c] # NoUser /\ link[c] \in {"gone", "down"}}

(* If nobody shares an account, the database answers and the process lives,*)
(* the server is a mailbox: every copy is shown to its reader once, in the *)
(* order of its sender, or lost after its reader left.                     *)
Promised == INSTANCE Mailbox
  WITH User <- Users, sent <- nsent, waiting <- Undelivered, shown <- ShownTo,
       lost <- dropped, left <- Left

ImplementsMailbox ==
  Promised!Init /\ [][Promised!Next]_<<nsent, Undelivered, ShownTo, dropped, Left>>

(* Every login that is granted is answered, or the client is gone.         *)
LoginAnswered ==
  \A c \in Conns : phase[c] = "wait" ~> phase[c] = "main" \/ link[c] # "up"

(* A connection that ended is closed, and no entry of the map is left.     *)
GoneConnectionForgotten ==
  \A c \in Conns : link[c] = "gone" ~>
    link[c] = "down" /\ \A u \in Users : userConnMap[u] # c

(* Every copy comes to rest: stored, shown to a client, or lost.           *)
MailSettles ==
  \A u, v \in Users : \A k \in 1..MaxMsgs :
    LET m == [n |-> k, from |-> u, to |-> v]
    IN  m \in accepted ~> InTable(m) \cup InHands(m) \cup Lost(m) # {}

(* chatservice.cpp:54, "the user is logged in already, a second login is   *)
(* not allowed": no two clients use one account at once.                   *)
NoDoubleLogin ==
  \A c, d \in Conns :
    phase[c] = "main" /\ phase[d] = "main" /\ link[c] = "up" /\ link[d] = "up"
      /\ session[c] = session[d] => c = d

(* main.cpp:6 and chatservice.hpp:45, "reset the business data after the   *)
(* server ended abnormally": no user is online once the process is gone.   *)
ResetAfterExit == server = "off" => \A u \in Users : dbState[u] = "offline"

(* chatservice.cpp:261, the close handler deletes the user's connection    *)
(* from the map: no entry is left for a connection that is closed.         *)
ClosedConnectionForgotten ==
  \A c \in Conns : link[c] = "down" => \A u \in Users : userConnMap[u] # c
=============================================================================
